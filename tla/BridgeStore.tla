---------------------------- MODULE BridgeStore -----------------------------
(***************************************************************************)
(* What bridge management promises about the files it keeps, with every    *)
(* call atomic: a successful create, update or delete edits the document   *)
(* that is in the file at that instant and nothing else, and an applied    *)
(* project records the hash of the file as it is at that instant.  Before  *)
(* it does, it forgets the one recorded last: an apply that is cut short   *)
(* leaves none, and the project is pending.                                *)
(* BridgeManager is shown to implement this module.                        *)
(***************************************************************************)
EXTENDS BridgeDocument

CONSTANTS
    Calls,          \* the API calls clients make
    InitialFiles,   \* what the Compose file may hold when the minion starts
    HandFiles       \* what an administrator's editor may write

VARIABLES
    file,           \* the Compose file
    applied         \* the set holding the last applied hash, or {}

Init ==
    /\ file \in InitialFiles
    /\ applied = {}

Save(c) ==
    /\ IsSave(c) /\ ValidCall(c)
    /\ Saves(file, c)
    /\ file' = Doc(Edit(Load(file), c))
    /\ UNCHANGED applied

Forget ==
    /\ Readable(file)
    /\ ValidDocument(Load(file))
    /\ applied' = {}
    /\ UNCHANGED file

Record ==
    /\ Readable(file)
    /\ ValidDocument(Load(file))
    /\ applied = {}
    /\ applied' = {Hash(file)}
    /\ UNCHANGED file

HandEdit ==
    /\ file' \in HandFiles
    /\ UNCHANGED applied

Next == (\E c \in Calls : Save(c)) \/ Forget \/ Record \/ HandEdit

Spec == Init /\ [][Next]_<<file, applied>>
=============================================================================
