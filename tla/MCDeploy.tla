------------------------------ MODULE MCDeploy ------------------------------
(***************************************************************************)
(* Three hosts; the script runs on one of them.  The head moves from the   *)
(* local host to a remote one, and one topology lists its head among no    *)
(* minions.  One host has no tool that lists ports.                        *)
(***************************************************************************)
EXTENDS Deploy

MCHosts == 1..3
MCLocals == {2}
MCBlind == {3}
MCTopologies ==
    {[head |-> 2, minions |-> {1, 2}], [head |-> 1, minions |-> {1, 2}],
     [head |-> 3, minions |-> {2}]}
=============================================================================
