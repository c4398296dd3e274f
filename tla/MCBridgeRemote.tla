--------------------------- MODULE MCBridgeRemote ---------------------------
(***************************************************************************)
(* Two submissions, a creation and an update of what is created (or twice  *)
(* the same: a retry), to a host that takes the head's token, to one that  *)
(* does not, or to one the head does not list.                             *)
(***************************************************************************)
EXTENDS BridgeRemote

CONSTANTS a, r1, r2, h1, h2, h3

MCNames == {a}
In(n, p) == [name |-> n, port |-> p]
MCCalls ==
    {[op |-> "create", value |-> In(a, 1)],
     [op |-> "update", name |-> a, value |-> In(a, 2)]}
MCSubmissions ==
    [host: {h1}, do: MCCalls] \cup
    [host: {h2, h3}, do: {c \in MCCalls : c.op = "create"}]
MCFiles == {NoFile}
MCHandFiles == {Broken}
=============================================================================
