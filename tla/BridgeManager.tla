--------------------------- MODULE BridgeManager ----------------------------
(***************************************************************************)
(* services/bridges.py: the minion's bridge manager.                       *)
(*                                                                         *)
(* FastAPI runs every handler in a thread of its pool, each with its own   *)
(* BridgeManager; they share the Compose file, the .cozy-nm directory      *)
(* (lock, backups, applied hash) and Docker.  A request is one such        *)
(* thread; pc[r] is the next thing it does.  The write path runs under an  *)
(* flock; project(), which builds every answer, runs outside it.  An       *)
(* administrator edits the Compose file with no lock at all.               *)
(***************************************************************************)
EXTENDS BridgeDocument, FiniteSets

CONSTANTS
    Requests,           \* request threads of the minion
    Calls,              \* the API calls clients make
    InitialFiles,       \* what the Compose file may hold at first
    HandFiles,          \* what an administrator's editor may write
    Keep,               \* backups retained (20 in the code)
    EditAnyTime,        \* may the editor write while the lock is held?
    ComposeMayFail,     \* may docker compose fail or time out, or the disk
                        \* be full when a hash is recorded?
    ClockMayStepBack,   \* may the clock that names backups go backwards?
    MaxCalls, MaxEdits, MaxCrashes      \* bounds of the checked runs

ASSUME BridgeAssumption ==
    /\ Calls \subseteq AllCalls /\ Calls # {}
    /\ InitialFiles \subseteq Contents /\ HandFiles \subseteq Contents
    /\ Keep \in Nat \ {0}
    /\ MaxCalls \in Nat /\ MaxEdits \in Nat /\ MaxCrashes \in Nat
    /\ {EditAnyTime, ComposeMayFail, ClockMayStepBack} \subseteq BOOLEAN

VARIABLES
    file,           \* the Compose file
    backups,        \* .cozy-nm/backups, in the order of the file names
    copies,         \* backups made so far: gives each its true age
    applied,        \* applied.sha256: {the hash}, or {}: empty or not there
    containers,     \* Docker: name -> [service, running]
    converged,      \* hashes of the files that Compose has brought up
    lock,           \* holders of the flock on .cozy-nm/lock
    pc,             \* next step of each request
    call,           \* the call each request serves
    doc,            \* the document a request has loaded or is saving
    runtime,        \* the containers a request has listed for its answer
    digest,         \* the hash a request is recording: {} or {the hash}
    calls, edits, crashes               \* counted against the bounds

vars == <<file, backups, copies, applied, containers, converged, lock, pc,
          call, doc, runtime, digest, calls, edits, crashes>>

Steps == {"idle", "lock", "load",
          "check", "backup", "replace", "prune",
          "config", "start", "up", "down", "mark", "record", "command",
          "release", "read_document", "read_runtime", "read_pending"}

(* Steps made while holding the lock: every one from the load on, and the  *)
(* answer of restart_project when the document has no service.             *)
Holding == {"load", "check", "backup", "replace", "prune", "config",
            "start", "up", "down", "mark", "record", "command", "release"}

(* A listing of containers is a function from some of the names.           *)
IsListing(c) ==
    /\ c = [n \in DOMAIN c |-> c[n]]
    /\ DOMAIN c \subseteq Names
    /\ \A n \in DOMAIN c : c[n] \in [service: Services, running: BOOLEAN]

TypeOK ==
    /\ file \in Contents
    /\ backups \in Seq([file: Contents, copy: Nat])
    /\ copies \in Nat
    /\ applied \in SUBSET Contents
    /\ IsListing(containers)
    /\ converged \in SUBSET Contents
    /\ lock \in SUBSET Requests
    /\ pc \in [Requests -> Steps]
    /\ call \in [Requests -> Calls]
    /\ doc \in [Requests -> Seq(Services)]
    /\ DOMAIN runtime = Requests
    /\ \A r \in Requests : IsListing(runtime[r])
    /\ digest \in [Requests -> SUBSET Contents]
    /\ calls \in Nat /\ edits \in Nat /\ crashes \in Nat

Nothing == [n \in {} |-> {}]

Init ==
    /\ file \in InitialFiles
    /\ backups = <<>> /\ copies = 0
    /\ applied = {}
    /\ containers = Nothing
    /\ converged = {}
    /\ lock = {}
    /\ pc = [r \in Requests |-> "idle"]
    /\ call = [r \in Requests |-> CHOOSE c \in Calls : TRUE]
    /\ doc = [r \in Requests |-> <<>>]
    /\ runtime = [r \in Requests |-> Nothing]
    /\ digest = [r \in Requests |-> {}]
    /\ calls = 0 /\ edits = 0 /\ crashes = 0

bounds    == <<calls, edits, crashes>>
disk      == <<file, backups, copies, applied>>
docker    == <<containers, converged>>
request   == <<call, doc, runtime, digest>>

At(r, step) == pc[r] = step
Goto(r, step) == pc' = [pc EXCEPT ![r] = step]

(* An exception unwinds through the lock's finally clause and ends the     *)
(* call; the temporary file is unlinked on the way.                        *)
Fail(r) ==
    /\ Goto(r, "idle")
    /\ lock' = lock \ {r}

-----------------------------------------------------------------------------
(* Faults: the steps as a mistake in the code would make them.  No         *)
(* specification uses them; each is put in the place of a step to see      *)
(* which property notices.                                                 *)

(* the flock forgotten *)
AcquireUnlocked(r) ==
    /\ At(r, "lock")
    /\ lock' = lock \cup {r}
    /\ Goto(r, "load")
    /\ UNCHANGED <<disk, docker, request, bounds>>

(* restart_project answering through a path that takes the lock again *)
LoadForRestartTwice(r) ==
    /\ At(r, "load")
    /\ call[r].op = "restart_project" /\ Readable(file)
    /\ doc' = [doc EXCEPT ![r] = Load(file)]
    /\ Goto(r, IF Load(file) = <<>> THEN "lock" ELSE "command")
    /\ UNCHANGED <<disk, docker, lock, call, runtime, digest, bounds>>

(* the lock let go while Compose checks the new text *)
CheckUnlocked(r) ==
    /\ At(r, "check")
    /\ Goto(r, "backup")
    /\ lock' = lock \ {r}
    /\ UNCHANGED <<disk, docker, request, bounds>>

(* the new text copied to the backups, not the old *)
BackupOfDraft(r) ==
    /\ At(r, "backup")
    /\ Goto(r, "replace")
    /\ copies' = copies + 1
    /\ backups' = Append(backups, [file |-> Doc(doc[r]), copy |-> copies'])
    /\ UNCHANGED <<file, applied, docker, lock, request, bounds>>

(* one backup too many kept; the newest pruned, not the oldest *)
PruneOneShort(r) ==
    /\ At(r, "prune")
    /\ IF Len(backups) > Keep + 1
         THEN backups' = Tail(backups) /\ UNCHANGED pc
         ELSE Goto(r, "release") /\ UNCHANGED backups
    /\ UNCHANGED <<file, copies, applied, docker, lock, request, bounds>>

PruneNewest(r) ==
    /\ At(r, "prune")
    /\ IF Len(backups) > Keep
         THEN backups' = Front(backups) /\ UNCHANGED pc
         ELSE Goto(r, "release") /\ UNCHANGED backups
    /\ UNCHANGED <<file, copies, applied, docker, lock, request, bounds>>

(* the exit status of the command ignored *)
UpFailedMarks(r) ==
    /\ ComposeMayFail
    /\ pc[r] \in {"up", "down"}
    /\ Goto(r, "mark")
    /\ UNCHANGED <<disk, docker, lock, request, bounds>>

-----------------------------------------------------------------------------
(* Receiving a call, and the lock.                                         *)

Receive(r, c) ==
    /\ At(r, "idle")
    /\ calls < MaxCalls
    /\ ValidCall(c)
    /\ calls' = calls + 1
    /\ call' = [call EXCEPT ![r] = c]
    /\ doc' = [doc EXCEPT ![r] = <<>>]
    /\ runtime' = [runtime EXCEPT ![r] = Nothing]
    /\ Goto(r, IF c.op = "project" THEN "read_document" ELSE "lock")
    /\ UNCHANGED <<disk, docker, lock, digest, edits, crashes>>

Acquire(r) ==
    /\ At(r, "lock")
    /\ lock = {}
    /\ lock' = {r}
    /\ Goto(r, "load")
    /\ UNCHANGED <<disk, docker, request, bounds>>

Release(r) ==
    /\ At(r, "release")
    /\ lock' = lock \ {r}
    /\ Goto(r, "read_document")
    /\ UNCHANGED <<disk, docker, request, bounds>>

-----------------------------------------------------------------------------
(* Loading the document, with the guards of each operation.                *)

LoadForSave(r) ==
    /\ At(r, "load")
    /\ IsSave(call[r]) /\ Saves(file, call[r])
    /\ doc' = [doc EXCEPT ![r] = Edit(Load(file), call[r])]
    /\ Goto(r, "check")
    /\ UNCHANGED <<disk, docker, lock, call, runtime, digest, bounds>>

LoadForService(r) ==
    /\ At(r, "load")
    /\ call[r] \in ServiceCalls
    /\ Readable(file) /\ IsManagedIn(Load(file), call[r].name)
    /\ doc' = [doc EXCEPT ![r] = Load(file)]
    /\ Goto(r, "command")
    /\ UNCHANGED <<disk, docker, lock, call, runtime, digest, bounds>>

LoadForApply(r) ==
    /\ At(r, "load")
    /\ call[r].op = "apply"
    /\ Readable(file) /\ ValidDocument(Load(file))
    /\ doc' = [doc EXCEPT ![r] = Load(file)]
    /\ Goto(r, "config")
    /\ UNCHANGED <<disk, docker, lock, call, runtime, digest, bounds>>

(* With no service, restart_project answers from inside the lock.          *)
LoadForRestart(r) ==
    /\ At(r, "load")
    /\ call[r].op = "restart_project"
    /\ Readable(file)
    /\ doc' = [doc EXCEPT ![r] = Load(file)]
    /\ Goto(r, IF Load(file) = <<>> THEN "read_document" ELSE "command")
    /\ UNCHANGED <<disk, docker, lock, call, runtime, digest, bounds>>

LoadRefused(r) ==
    /\ At(r, "load")
    /\ \/ ~Readable(file)
       \/ IsSave(call[r]) /\ ~Saves(file, call[r])
       \/ call[r] \in ServiceCalls /\ ~IsManagedIn(Load(file), call[r].name)
       \/ call[r].op = "apply" /\ ~ValidDocument(Load(file))
    /\ Fail(r)
    /\ UNCHANGED <<disk, docker, request, bounds>>

-----------------------------------------------------------------------------
(* _write_document: the new text goes to a temporary file that Compose     *)
(* checks; then backup, replacement and pruning.                           *)

Check(r) ==
    /\ At(r, "check")
    /\ \/ Goto(r, "backup") /\ UNCHANGED lock
       \/ ComposeMayFail /\ Fail(r)
    /\ UNCHANGED <<disk, docker, request, bounds>>

(* The copy is named by the clock.                                         *)
Backup(r) ==
    /\ At(r, "backup")
    /\ Goto(r, "replace")
    /\ IF file.kind = "absent"
         THEN UNCHANGED <<backups, copies>>
         ELSE /\ copies' = copies + 1
              /\ \E i \in 1..Len(backups) + 1 :
                    /\ ClockMayStepBack \/ i = Len(backups) + 1
                    /\ backups' = InsertAt(backups, i,
                                           [file |-> file, copy |-> copies'])
    /\ UNCHANGED <<file, applied, docker, lock, request, bounds>>

Replace(r) ==
    /\ At(r, "replace")
    /\ file' = Doc(doc[r])
    /\ Goto(r, "prune")
    /\ UNCHANGED <<backups, copies, applied, docker, lock, request, bounds>>

(* Files are unlinked one at a time, the lowest name first.                *)
Prune(r) ==
    /\ At(r, "prune")
    /\ IF Len(backups) > Keep
         THEN backups' = Tail(backups) /\ UNCHANGED pc
         ELSE Goto(r, "release") /\ UNCHANGED backups
    /\ UNCHANGED <<file, copies, applied, docker, lock, request, bounds>>

-----------------------------------------------------------------------------
(* apply_project.                                                          *)

(* docker compose config reads the file itself.                            *)
Config(r) ==
    /\ At(r, "config")
    /\ \/ file.kind = "document" /\ Goto(r, "start") /\ UNCHANGED lock
       \/ (ComposeMayFail \/ file.kind # "document") /\ Fail(r)
    /\ UNCHANGED <<disk, docker, request, bounds>>

(* So does the command that follows; the manager chooses it from the       *)
(* document it loaded.                                                     *)
Start(r) ==
    /\ At(r, "start")
    /\ \/ /\ file.kind = "document"
          /\ doc' = [doc EXCEPT ![r] = Load(file)]
          /\ Goto(r, IF doc[r] = <<>> THEN "down" ELSE "up")
          /\ UNCHANGED lock
       \/ /\ ComposeMayFail \/ file.kind # "document"
          /\ Fail(r)
          /\ UNCHANGED doc
    /\ UNCHANGED <<disk, docker, call, runtime, digest, bounds>>

Wanted(s) ==
    [n \in NamesOf(s) |-> [service |-> s[Position(s, n)], running |-> TRUE]]

Without(c, n) == Restrict(c, DOMAIN c \ {n})

(* up -d --build --remove-orphans: one container at a time is created,     *)
(* recreated or started, or removed when its service is gone.              *)
Up(r) ==
    /\ At(r, "up")
    /\ \/ \E n \in NamesOf(doc[r]) :
            /\ n \in DOMAIN containers => containers[n] # Wanted(doc[r])[n]
            /\ containers' = [m \in DOMAIN containers \cup {n} |->
                                 IF m = n THEN Wanted(doc[r])[n]
                                          ELSE containers[m]]
       \/ \E n \in DOMAIN containers \ NamesOf(doc[r]) :
            containers' = Without(containers, n)
    /\ UNCHANGED <<disk, converged, lock, pc, request, bounds>>

Down(r) ==
    /\ At(r, "down")
    /\ \E n \in DOMAIN containers : containers' = Without(containers, n)
    /\ UNCHANGED <<disk, converged, lock, pc, request, bounds>>

Converged(r) ==
    \/ At(r, "up") /\ containers = Wanted(doc[r])
    \/ At(r, "down") /\ containers = Nothing

UpDone(r) ==
    /\ Converged(r)
    /\ converged' =
           converged \cup {Doc(IF At(r, "down") THEN <<>> ELSE doc[r])}
    /\ Goto(r, "mark")
    /\ UNCHANGED <<disk, containers, lock, request, bounds>>

(* A failure or a timeout stops the command wherever it is.                *)
UpFailed(r) ==
    /\ ComposeMayFail
    /\ pc[r] \in {"up", "down"}
    /\ Fail(r)
    /\ UNCHANGED <<disk, docker, request, bounds>>

(* mark_current_applied hashes the file once more and opens its own file,  *)
(* which empties it, ...  (One step: an edit between the two counts as one *)
(* after them, so that project() finds no hash then instead of the old.)   *)
Mark(r) ==
    /\ At(r, "mark")
    /\ \/ /\ digest' = [digest EXCEPT ![r] = {Hash(file)}]
          /\ applied' = {}
          /\ Goto(r, "record")
          /\ UNCHANGED lock
       \/ ComposeMayFail /\ Fail(r) /\ UNCHANGED <<digest, applied>>
    /\ UNCHANGED <<file, backups, copies, docker, call, doc, runtime, bounds>>

(* ... then writes the hash to it.                                         *)
Record(r) ==
    /\ At(r, "record")
    /\ \/ applied' = digest[r] /\ Goto(r, "release") /\ UNCHANGED lock
       \/ ComposeMayFail /\ Fail(r) /\ UNCHANGED applied
    /\ digest' = [digest EXCEPT ![r] = {}]
    /\ UNCHANGED <<file, backups, copies, docker, call, doc, runtime, bounds>>

-----------------------------------------------------------------------------
(* service_action and restart_project: start, stop and restart act on the  *)
(* containers that exist, with the definition they were created from.      *)

Targets(r) ==
    DOMAIN containers \cap
        (IF call[r] \in ServiceCalls THEN {call[r].name} ELSE NamesOf(doc[r]))

SetRunning(running) ==
    containers' = [n \in DOMAIN containers |->
        IF n \in DOMAIN running
          THEN [containers[n] EXCEPT !.running = running[n]]
          ELSE containers[n]]

Command(r) ==
    /\ At(r, "command")
    /\ \/ /\ SetRunning([n \in Targets(r) |-> call[r].op # "stop"])
          /\ Goto(r, "release")
          /\ UNCHANGED lock
       \/ /\ ComposeMayFail
          /\ \E running \in [Targets(r) -> BOOLEAN] : SetRunning(running)
          /\ Fail(r)
    /\ UNCHANGED <<disk, converged, request, bounds>>

-----------------------------------------------------------------------------
(* project(): the answer is put together from three separate readings.     *)

ReadDocument(r) ==
    /\ At(r, "read_document")
    /\ IF Readable(file) /\ ValidDocument(Load(file))
         THEN /\ doc' = [doc EXCEPT ![r] = Load(file)]
              /\ Goto(r, "read_runtime")
              /\ UNCHANGED lock
         ELSE Fail(r) /\ UNCHANGED doc     \* answers at once, with an error
    /\ UNCHANGED <<disk, docker, call, runtime, digest, bounds>>

ReadRuntime(r) ==
    /\ At(r, "read_runtime")
    /\ \E listed \in {containers} \cup (IF ComposeMayFail THEN {Nothing} ELSE {}) :
           runtime' = [runtime EXCEPT ![r] = listed]
    /\ Goto(r, "read_pending")
    /\ UNCHANGED <<disk, docker, lock, call, doc, digest, bounds>>

Pending == applied # {Hash(file)}
Orphans(r) == DOMAIN runtime[r] \ NamesOf(doc[r])

(* The answer carries doc[r], runtime[r], Orphans(r) and Pending.          *)
Answer(r) ==
    /\ At(r, "read_pending")
    /\ Fail(r)
    /\ UNCHANGED <<disk, docker, request, bounds>>

-----------------------------------------------------------------------------
(* The world outside the manager.                                          *)

HandEdit ==
    /\ edits < MaxEdits
    /\ EditAnyTime \/ lock = {}
    /\ edits' = edits + 1
    /\ file' \in HandFiles
    /\ UNCHANGED <<backups, copies, applied, docker, lock, pc, request, calls,
                   crashes>>

(* The minion dies: the kernel drops the flock, the disk and the           *)
(* containers stay as they are.                                            *)
Crash ==
    /\ crashes < MaxCrashes
    /\ crashes' = crashes + 1
    /\ lock' = {}
    /\ pc' = [r \in Requests |-> "idle"]
    /\ UNCHANGED <<disk, docker, request, calls, edits>>

-----------------------------------------------------------------------------
Step(r) ==
    \/ Acquire(r) \/ Release(r)
    \/ LoadForSave(r) \/ LoadForService(r) \/ LoadForApply(r)
    \/ LoadForRestart(r) \/ LoadRefused(r)
    \/ Check(r) \/ Backup(r) \/ Replace(r) \/ Prune(r)
    \/ Config(r) \/ Start(r) \/ Up(r) \/ Down(r) \/ UpDone(r) \/ UpFailed(r)
    \/ Mark(r) \/ Record(r) \/ Command(r)
    \/ ReadDocument(r) \/ ReadRuntime(r) \/ Answer(r)

Next ==
    \/ \E r \in Requests : Step(r) \/ (\E c \in Calls : Receive(r, c))
    \/ HandEdit
    \/ Crash

Spec == Init /\ [][Next]_vars

(* A thread that can run does: each subprocess has a timeout, so a step of *)
(* Compose ends too.  Nothing makes clients call, the editor write or the  *)
(* minion crash, and nothing orders the threads waiting for the flock.     *)
FairSpec == Spec /\ \A r \in Requests : WF_vars(Step(r))
-----------------------------------------------------------------------------
(* Properties.  The ones that speak of what was saved or applied assume    *)
(* that editors keep off the file while the lock is held (~EditAnyTime);   *)
(* the runs that drop this say what it costs.                              *)

(* A request is past the lock exactly while it holds it, and one alone     *)
(* does: the flock of _locked serialises every write path.                 *)
LockDiscipline ==
    /\ \A r \in Requests : pc[r] \in Holding => lock = {r}
    /\ \A r \in lock :
          \/ pc[r] \in Holding
          \/ call[r].op = "restart_project"
             /\ pc[r] \in {"read_document", "read_runtime", "read_pending"}

(* No lost update: until os.replace, the document about to be installed is *)
(* the call's edit of what the file holds now, though several steps and    *)
(* the calls of other threads lie between the load and the replacement.    *)
NoLostUpdate ==
    \A r \in Requests :
        pc[r] \in {"check", "backup", "replace"} =>
            /\ Saves(file, call[r])
            /\ doc[r] = Edit(Load(file), call[r])

(* Two managed services of the saved file never publish one port, unless a *)
(* hand edit wrote that: _validate_document runs on every saved document.  *)
NoPortClash == ValidDocument(Load(file))

(* A save leaves the read-only services of the file as they were, in the   *)
(* order they had: none is changed, lost, added or moved past another.     *)
ReadOnlyAt(s) == {i \in DOMAIN s : ~Managed(s[i])}
SameReadOnly(s, t) ==
    \E f \in [ReadOnlyAt(s) -> ReadOnlyAt(t)] :
        /\ \A i \in ReadOnlyAt(s) : t[f[i]] = s[i]
        /\ \A i, j \in ReadOnlyAt(s) : i < j => f[i] < f[j]
        /\ \A k \in ReadOnlyAt(t) : \E i \in ReadOnlyAt(s) : f[i] = k
ReadOnlyKept ==
    [][(\E r \in Requests : Replace(r)) => SameReadOnly(Load(file), Load(file'))]_vars

(* The file a save replaces is among the backups at that moment.           *)
PreviousBackedUp ==
    [][(\E r \in Requests : Replace(r)) /\ file.kind # "absent" =>
            \E b \in ToSet(backups) : b.file = file]_vars

(* The backups do not pile up: a crash may leave one that was not pruned,  *)
(* and the next save to finish makes up for all of them.                   *)
BackupsBounded ==
    /\ Len(backups) <= Keep + 1 + crashes
    /\ \A r \in Requests :
          IsSave(call[r]) /\ At(r, "release") => Len(backups) <= Keep

(* The newest Keep copies are among the backups that are retained.         *)
NewestRetained ==
    \A c \in 1..copies :
        c > copies - Keep => \E b \in ToSet(backups) : b.copy = c

(* Until the hash of the file is recorded, Docker runs what the file says: *)
(* no stop, save or second apply slips between the command and the record, *)
(* and the hash is of what the file still holds.                           *)
MarkedWhenDeployed ==
    \A r \in Requests :
        /\ pc[r] \in {"mark", "record"} => containers = Wanted(Load(file))
        /\ At(r, "record") => digest[r] = {Hash(file)}

(* The hash recorded as applied is that of a file Compose has brought up.  *)
AppliedWasConverged == applied \subseteq converged

(* NOT a property of the code (README, known deviations).  The badge       *)
(* "applied": while no apply runs, a file that is not pending is the one   *)
(* the containers were made from.  False after an apply that failed half-  *)
(* way, when the file is saved back to what was applied before.            *)
Definitions == [n \in DOMAIN containers |-> containers[n].service]
BadgeTellsTruth ==
    ~Pending /\ (\A r \in Requests : pc[r] \notin {"up", "down"}) =>
        /\ DOMAIN containers = NamesOf(Load(file))
        /\ \A n \in NamesOf(Load(file)) :
              Definitions[n] = Wanted(Load(file))[n].service

(* NOT a property of the code (README, known deviations).  An answer that  *)
(* says "applied" lists no container pending removal.  False when another  *)
(* thread saves and applies between the readings of project().             *)
AppliedAnswerHasNoOrphan ==
    \A r \in Requests : At(r, "read_pending") /\ ~Pending => Orphans(r) = {}

(* The files go through the states of atomic saves and applies.            *)
Store == INSTANCE BridgeStore WITH file <- file, applied <- applied
StoreSpec == Store!Spec

(* A call that got the lock, or needs none, is answered (and has given the *)
(* lock back by then), whatever fails on the way.                          *)
Answered == \A r \in Requests : pc[r] \notin {"idle", "lock"} ~> At(r, "idle")
=============================================================================
