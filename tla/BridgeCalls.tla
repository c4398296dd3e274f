---------------------------- MODULE BridgeCalls -----------------------------
(***************************************************************************)
(* What the head promises a user who submits bridge calls.  A call takes   *)
(* effect at most once, on the file as it is at that instant.  "Saved" is  *)
(* said only after that, "refused" only of a call that has no effect and   *)
(* will have none; of a call whose outcome the head does not know, a user  *)
(* is told so, and it may still take effect.  BridgeRemote implements it.  *)
(***************************************************************************)
EXTENDS BridgeDocument

CONSTANTS Requests, Hosts, Calls, HandFiles

VARIABLES
    file,       \* the Compose file of each host
    call,       \* what each request asks of which host
    effect,     \* "none": not submitted, "open", "done" or "never"
    told        \* "none", "saved", "refused" or "unsure"

vars == <<file, call, effect, told>>

Init ==
    /\ file \in [Hosts -> Contents]
    /\ call \in [Requests -> [host: Hosts, do: Calls]]
    /\ effect = [r \in Requests |-> "none"]
    /\ told = [r \in Requests |-> "none"]

Submit(r) ==
    /\ effect[r] = "none"
    /\ effect' = [effect EXCEPT ![r] = "open"]
    /\ UNCHANGED <<file, call, told>>

Reject(r) ==
    /\ effect[r] = "none"
    /\ effect' = [effect EXCEPT ![r] = "never"]
    /\ told' = [told EXCEPT ![r] = "refused"]
    /\ UNCHANGED <<file, call>>

Happen(r) ==
    /\ effect[r] = "open" /\ told[r] \in {"none", "unsure"}
    /\ LET h == call[r].host  c == call[r].do IN
       /\ ValidCall(c) /\ Saves(file[h], c)
       /\ file' = [file EXCEPT ![h] = Doc(Edit(Load(@), c))]
    /\ effect' = [effect EXCEPT ![r] = "done"]
    /\ UNCHANGED <<call, told>>

(* Some open calls come to nothing; some users are told nothing better     *)
(* than that their call may or may not have been carried out.              *)
Drop(R, T) ==
    /\ \A r \in R : effect[r] = "open"
    /\ \A r \in T : effect[r] # "none" /\ told[r] = "none"
    /\ effect' = [r \in Requests |-> IF r \in R THEN "never" ELSE effect[r]]
    /\ told' = [r \in Requests |-> IF r \in T THEN "unsure" ELSE told[r]]
    /\ UNCHANGED <<file, call>>

Tell(r) ==
    /\ told[r] = "none"
    /\ \/ effect[r] = "done" /\ told' = [told EXCEPT ![r] = "saved"]
       \/ effect[r] = "never" /\ told' = [told EXCEPT ![r] = "refused"]
    /\ UNCHANGED <<file, call, effect>>

HandEdit(h) ==
    /\ \E f \in HandFiles : file' = [file EXCEPT ![h] = f]
    /\ UNCHANGED <<call, effect, told>>

Next ==
    \/ \E r \in Requests : Submit(r) \/ Reject(r) \/ Happen(r) \/ Tell(r)
    \/ \E R, T \in SUBSET Requests : Drop(R, T)
    \/ \E h \in Hosts : HandEdit(h)

Spec == Init /\ [][Next]_vars
=============================================================================
