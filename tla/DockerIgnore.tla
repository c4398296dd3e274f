---------------------------- MODULE DockerIgnore ----------------------------
(***************************************************************************)
(* BridgeManager._ensure_paths: every call of the bridge API makes sure    *)
(* that .dockerignore keeps .cozy-nm/ out of the image build context.      *)
(*                                                                         *)
(* The file is read and, when the entry is missing, written anew: opened   *)
(* with truncation, then filled.  _locked does this before it takes the    *)
(* flock, so threads do it at the same time; _write_document and           *)
(* mark_current_applied do it again under the flock.  An apply builds the  *)
(* image under the flock, and Docker reads the file then.  Each step may   *)
(* fail (a full disk, a lost permission), which ends the call with a 503;  *)
(* a write that fails leaves the file cut off.                             *)
(***************************************************************************)

CONSTANTS
    Requests,       \* threads of the minion
    UserLines,      \* the lines the administrator has put in the file
    Entry,          \* the line .cozy-nm/
    InitialLines,   \* sets of lines the file may hold at first
    MayFail,        \* can reading, opening or writing the file fail?
    MayRestart      \* can the minion die at any moment?

ASSUME IgnoreAssumption ==
    /\ Entry \notin UserLines
    /\ InitialLines \subseteq SUBSET (UserLines \cup {Entry})
    /\ {MayFail, MayRestart} \subseteq BOOLEAN

VARIABLES
    lines,          \* the lines of .dockerignore
    lock,           \* holder of the flock
    pc,             \* next step of each thread
    copy,           \* the text a thread has read
    settled         \* history: has a call found or written the entry since a
                    \* write was last cut short?

vars == <<lines, lock, pc, copy, settled>>

(* "read" ... "fill" run first without the flock, then with it.            *)
Steps == {"idle", "read", "truncate", "fill", "lock",
          "build", "read_again", "truncate_again", "fill_again", "unlock"}
Locked == {"build", "read_again", "truncate_again", "fill_again", "unlock"}

TypeOK ==
    /\ lines \subseteq UserLines \cup {Entry}
    /\ lock \subseteq Requests /\ (\A q, r \in lock : q = r)
    /\ pc \in [Requests -> Steps]
    /\ copy \in [Requests -> SUBSET (UserLines \cup {Entry})]
    /\ settled \in BOOLEAN

Init ==
    /\ lines \in InitialLines
    /\ lock = {}
    /\ pc = [r \in Requests |-> "idle"]
    /\ copy = [r \in Requests |-> {}]
    /\ settled = FALSE

Goto(r, step) == pc' = [pc EXCEPT ![r] = step]

(* OSError becomes a BridgeManagerError, which ends the call and gives the *)
(* flock back if the call has it.                                          *)
Fail(r) ==
    /\ MayFail
    /\ Goto(r, "idle")
    /\ lock' = lock \ {r}

Call(r) ==
    /\ pc[r] = "idle"
    /\ Goto(r, "read")
    /\ UNCHANGED <<lines, lock, copy, settled>>

(* Faults: the steps with a mistake in the code, used by no specification. *)
FillCopyOnly(r, here, next) ==          \* the entry is not appended
    /\ pc[r] = here
    /\ \/ lines' = copy[r] /\ settled' = TRUE /\ Goto(r, next) /\ UNCHANGED lock
       \/ Fail(r) /\ lines' = {} /\ settled' = FALSE
    /\ UNCHANGED copy

AcquireUnlocked(r) ==
    /\ pc[r] = "lock"
    /\ lock' = lock \cup {r}
    /\ Goto(r, "build") \/ Goto(r, "read_again")
    /\ UNCHANGED <<lines, copy, settled>>

Read(r, here, missing, present) ==
    /\ pc[r] = here
    /\ \/ /\ copy' = [copy EXCEPT ![r] = lines]
          /\ Goto(r, IF Entry \in lines THEN present ELSE missing)
          /\ settled' = (settled \/ Entry \in lines)
          /\ UNCHANGED lock
       \/ Fail(r) /\ UNCHANGED <<copy, settled>>
    /\ UNCHANGED lines

Truncate(r, here, next) ==
    /\ pc[r] = here
    /\ \/ lines' = {} /\ Goto(r, next) /\ UNCHANGED lock
       \/ Fail(r) /\ UNCHANGED lines
    /\ UNCHANGED <<copy, settled>>

(* The text is laid over what is there: of a longer one that another       *)
(* thread has written since the truncation the end stays.                  *)
Fill(r, here, next) ==
    /\ pc[r] = here
    /\ \/ /\ \E rest \in SUBSET lines : lines' = copy[r] \cup {Entry} \cup rest
          /\ settled' = TRUE
          /\ Goto(r, next)
          /\ UNCHANGED lock
       \/ /\ Fail(r)
          /\ lines' \in SUBSET (lines \cup copy[r])
          /\ settled' = FALSE
    /\ UNCHANGED copy

(* An apply builds; a save writes the file and so ensures the paths again. *)
Acquire(r) ==
    /\ pc[r] = "lock"
    /\ lock = {}
    /\ lock' = {r}
    /\ Goto(r, "build") \/ Goto(r, "read_again")
    /\ UNCHANGED <<lines, copy, settled>>

Build(r) ==
    /\ pc[r] = "build"
    /\ Goto(r, "read_again")
    /\ UNCHANGED <<lines, lock, copy, settled>>

Release(r) ==
    /\ pc[r] = "unlock"
    /\ lock' = {}
    /\ Goto(r, "idle")
    /\ UNCHANGED <<lines, copy, settled>>

(* The file is left as it is, truncated if a thread was about to fill it.  *)
Restart ==
    /\ MayRestart
    /\ lock' = {}
    /\ pc' = [r \in Requests |-> "idle"]
    /\ copy' = [r \in Requests |-> {}]
    /\ settled' = FALSE
    /\ UNCHANGED lines

Step(r) ==
    \/ Read(r, "read", "truncate", "lock")
    \/ Truncate(r, "truncate", "fill")
    \/ Fill(r, "fill", "lock")
    \/ Acquire(r)
    \/ Build(r)
    \/ Read(r, "read_again", "truncate_again", "unlock")
    \/ Truncate(r, "truncate_again", "fill_again")
    \/ Fill(r, "fill_again", "unlock")
    \/ Release(r)

Next == (\E r \in Requests : Call(r) \/ Step(r)) \/ Restart

Spec == Init /\ [][Next]_vars

-----------------------------------------------------------------------------
Filling == {"fill", "fill_again"}

(* The threads that read, truncate and fill without a lock never leave the *)
(* entry out between them: a call that has found or written it finds it    *)
(* there when none is about to fill the file, unless a write was cut short *)
(* since, by a failure or the minion's end; the next call to pass its own  *)
(* check has then repaired that.                                           *)
EntrySettles ==
    settled /\ (\A r \in Requests : pc[r] \notin Filling) => Entry \in lines

(* NOT a property of the code (README, known deviations).  Docker never    *)
(* reads the file, for a build, without the entry.  False while another    *)
(* thread, still outside the lock, has truncated it.                       *)
BuildExcludes == \A r \in Requests : pc[r] = "build" => Entry \in lines
=============================================================================
