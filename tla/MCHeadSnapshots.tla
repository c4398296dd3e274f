-------------------------- MODULE MCHeadSnapshots --------------------------
(* Two nodes; what they report is of no interest.  StaleAfter is the least *)
(* for which RoundFits; a poll has at most two parts, and clocks may be    *)
(* wrong by one.                                                           *)
EXTENDS HeadSnapshots

CONSTANTS a, b, x

MCOrder == <<a, b>>
MCReports == [n \in Nodes |-> {x}]
=============================================================================
