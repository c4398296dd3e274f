------------------------ MODULE BridgeManagerProofs -------------------------
(***************************************************************************)
(* Theorems about BridgeManager, for any number of threads, any names,     *)
(* calls, hand edits and bounds.                                           *)
(***************************************************************************)
EXTENDS BridgeManager, SequenceTheorems, TLAPS

-----------------------------------------------------------------------------
(* What the operators on documents return.                                 *)

(* A position found by name is one of the document.                        *)
LEMMA PositionInDomain ==
    ASSUME NEW s \in Seq(Services), NEW n \in NamesOf(s)
    PROVE  Position(s, n) \in DOMAIN s /\ s[Position(s, n)].name = n
BY DEF NamesOf, Position

(* Removing one element of a sequence leaves a sequence over the same set. *)
LEMMA RemoveAtType ==
    ASSUME NEW S, NEW s \in Seq(S), NEW i \in 1..Len(s)
    PROVE  RemoveAt(s, i) \in Seq(S)
<1>1. SubSeq(s, 1, i - 1) \in Seq(S)
  BY SubSeqProperties
<1>2. SubSeq(s, i + 1, Len(s)) \in Seq(S)
  BY SubSeqProperties
<1> QED
  BY <1>1, <1>2, ConcatProperties DEF RemoveAt

(* Inserting an element leaves a sequence.                                 *)
LEMMA InsertAtType ==
    ASSUME NEW S, NEW s \in Seq(S), NEW i \in 1..Len(s) + 1, NEW e \in S
    PROVE  InsertAt(s, i, e) \in Seq(S)
<1>1. SubSeq(s, 1, i - 1) \in Seq(S)
  BY SubSeqProperties
<1>2. SubSeq(s, i, Len(s)) \in Seq(S)
  BY SubSeqProperties
<1>3. <<e>> \in Seq(S)
  OBVIOUS
<1>4. SubSeq(s, 1, i - 1) \o <<e>> \in Seq(S)
  BY <1>1, <1>3, ConcatProperties
<1> QED
  BY <1>2, <1>4, ConcatProperties DEF InsertAt

(* The document a save installs is a document.                             *)
LEMMA EditType ==
    ASSUME NEW s \in Seq(Services), NEW c \in AllCalls, IsSave(c), CanEdit(s, c)
    PROVE  Edit(s, c) \in Seq(Services)
<1>1. CASE c.op = "create"
  <2>1. StandardService(c.value) \in Services
    BY <1>1 DEF AllCalls, SaveCalls, ServiceCalls, ProjectCalls, Inputs,
                StandardService, Services
  <2> QED
    BY <1>1, <2>1 DEF Edit
<1>2. CASE c.op = "update"
  <2>1. StandardService(c.value) \in Services
    BY <1>2 DEF AllCalls, SaveCalls, ServiceCalls, ProjectCalls, Inputs,
                StandardService, Services
  <2>2. Position(s, c.name) \in DOMAIN s
    BY <1>2, PositionInDomain DEF CanEdit, IsManagedIn
  <2> QED
    BY <1>2, <2>1, <2>2 DEF Edit
<1>3. CASE c.op = "delete"
  <2>1. Position(s, c.name) \in 1..Len(s)
    BY <1>3, PositionInDomain DEF CanEdit, IsManagedIn
  <2> QED
    BY <1>3, <2>1, RemoveAtType DEF Edit
<1> QED
  BY <1>1, <1>2, <1>3 DEF IsSave

(* The listing Compose converges to is one.                                *)
LEMMA WantedType ==
    ASSUME NEW s \in Seq(Services)
    PROVE  IsListing(Wanted(s))
<1>1. NamesOf(s) \subseteq Names
  <2>1. \A i \in DOMAIN s : s[i] \in Services
    OBVIOUS
  <2>2. \A e \in Services : e.name \in Names
    BY DEF Services
  <2> QED
    BY <2>1, <2>2 DEF NamesOf
<1>2. ASSUME NEW n \in NamesOf(s)
      PROVE  [service |-> s[Position(s, n)], running |-> TRUE]
                \in [service: Services, running: BOOLEAN]
  BY <1>2, PositionInDomain
<1>3. DOMAIN Wanted(s) = NamesOf(s)
  BY DEF Wanted
<1>4. Wanted(s) = [n \in DOMAIN Wanted(s) |-> Wanted(s)[n]]
  BY DEF Wanted
<1>5. \A n \in DOMAIN Wanted(s) :
        Wanted(s)[n] \in [service: Services, running: BOOLEAN]
  BY <1>2, <1>3 DEF Wanted
<1>6. DOMAIN Wanted(s) \subseteq Names
  BY <1>1, <1>3
<1> QED
  BY <1>4, <1>5, <1>6, Zenon DEF IsListing

-----------------------------------------------------------------------------
(* Every variable keeps its type.                                          *)
THEOREM TypeCorrect == Spec => []TypeOK
<1> USE BridgeAssumption
<1>1. Init => TypeOK
  BY DEF Init, TypeOK, Steps, IsListing, Nothing
<1>2. TypeOK /\ [Next]_vars => TypeOK'
  <2> SUFFICES ASSUME TypeOK, [Next]_vars PROVE TypeOK'
    OBVIOUS
  <2> USE DEF TypeOK, disk, docker, request, bounds, At, Goto, Steps
  <2>1. ASSUME NEW r \in Requests, NEW c \in Calls, Receive(r, c)
        PROVE  TypeOK'
    BY <2>1 DEF Receive, IsListing, Nothing
  <2>2. ASSUME NEW r \in Requests, Acquire(r) \/ Release(r)
        PROVE  TypeOK'
    BY <2>2 DEF Acquire, Release
  <2>3. ASSUME NEW r \in Requests, LoadForSave(r)
        PROVE  TypeOK'
    <3>1. Edit(Load(file), call[r]) \in Seq(Services)
      BY <2>3, EditType DEF LoadForSave, Saves, Load, Contents
    <3> QED
      BY <2>3, <3>1 DEF LoadForSave
  <2>4. ASSUME NEW r \in Requests,
               LoadForService(r) \/ LoadForApply(r) \/ LoadForRestart(r)
        PROVE  TypeOK'
    <3>1. Load(file) \in Seq(Services)
      BY DEF Load, Contents
    <3> QED
      BY <2>4, <3>1, ZenonT(40) DEF LoadForService, LoadForApply, LoadForRestart
  <2>5. ASSUME NEW r \in Requests,
               \/ LoadRefused(r) \/ Check(r) \/ Config(r) \/ UpFailed(r)
               \/ Answer(r)
        PROVE  TypeOK'
    BY <2>5 DEF LoadRefused, Check, Config, UpFailed, Answer, Fail
  <2>6. ASSUME NEW r \in Requests, Backup(r)
        PROVE  TypeOK'
    <3>1. CASE file.kind = "absent"
      BY <2>6, <3>1 DEF Backup
    <3>2. CASE file.kind # "absent"
      <4>1. copies' \in Nat
        BY <2>6, <3>2 DEF Backup
      <4>2. PICK i \in 1..Len(backups) + 1 :
                backups' = InsertAt(backups, i,
                                    [file |-> file, copy |-> copies'])
        BY <2>6, <3>2 DEF Backup
      <4>3. backups' \in Seq([file: Contents, copy: Nat])
        BY <4>1, <4>2, InsertAtType
      <4> QED
        BY <2>6, <3>2, <4>1, <4>3 DEF Backup
    <3> QED
      BY <3>1, <3>2
  <2>7. ASSUME NEW r \in Requests, Replace(r)
        PROVE  TypeOK'
    BY <2>7 DEF Replace, Contents, Doc
  <2>8. ASSUME NEW r \in Requests, Prune(r)
        PROVE  TypeOK'
    <3>1. Len(backups) > Keep => Tail(backups) \in Seq([file: Contents, copy: Nat])
      OBVIOUS
    <3> QED
      BY <2>8, <3>1 DEF Prune
  <2>9. ASSUME NEW r \in Requests, Start(r) \/ ReadDocument(r)
        PROVE  TypeOK'
    <3>1. Load(file) \in Seq(Services)
      BY DEF Load, Contents
    <3> QED
      BY <2>9, <3>1 DEF Start, ReadDocument, Fail
  <2>10. ASSUME NEW r \in Requests, Up(r) \/ Down(r)
         PROVE  TypeOK'
    <3>1. IsListing(Wanted(doc[r])) /\ DOMAIN Wanted(doc[r]) = NamesOf(doc[r])
      BY WantedType DEF Wanted
    <3>2. ASSUME NEW n \in DOMAIN containers
          PROVE  IsListing(Without(containers, n))
      BY <3>2 DEF Without, Restrict, IsListing
    <3>3. ASSUME NEW n \in NamesOf(doc[r])
          PROVE  IsListing([m \in DOMAIN containers \cup {n} |->
                               IF m = n THEN Wanted(doc[r])[n]
                                        ELSE containers[m]])
      BY <3>1, <3>3 DEF IsListing
    <3>4. IsListing(containers')
      BY <2>10, <3>2, <3>3 DEF Up, Down
    <3> QED
      BY <2>10, <3>4 DEF Up, Down
  <2>11. ASSUME NEW r \in Requests, UpDone(r)
         PROVE  TypeOK'
    <3>1. Doc(IF At(r, "down") THEN <<>> ELSE doc[r]) \in Contents
      BY DEF Doc, Contents
    <3> QED
      BY <2>11, <3>1 DEF UpDone
  <2>12. ASSUME NEW r \in Requests, Mark(r)
         PROVE  TypeOK'
    <3>1. Hash(file) \in Contents
      BY DEF Hash, Doc, Contents
    <3>2. CASE /\ digest' = [digest EXCEPT ![r] = {Hash(file)}]
               /\ applied' = {}
               /\ Goto(r, "record")
               /\ UNCHANGED lock
      <4>1. digest' \in [Requests -> SUBSET Contents]
        BY <3>1, <3>2
      <4>2. applied' \in SUBSET Contents /\ pc' \in [Requests -> Steps]
        BY <3>2
      <4> HIDE DEF Contents, Steps
      <4> QED
        BY <2>12, <3>2, <4>1, <4>2 DEF Mark
    <3>3. CASE Fail(r) /\ UNCHANGED <<digest, applied>>
      BY <2>12, <3>3 DEF Mark, Fail
    <3> QED
      BY <2>12, <3>2, <3>3 DEF Mark
  <2>18. ASSUME NEW r \in Requests, Record(r)
         PROVE  TypeOK'
    BY <2>18 DEF Record, Fail
  <2>13. ASSUME NEW r \in Requests, Command(r)
         PROVE  TypeOK'
    <3>1. PICK running : /\ \A n \in DOMAIN running : running[n] \in BOOLEAN
                         /\ SetRunning(running)
      BY <2>13 DEF Command
    <3>2. ASSUME NEW n \in DOMAIN containers, n \in DOMAIN running
          PROVE  [containers[n] EXCEPT !.running = running[n]]
                    \in [service: Services, running: BOOLEAN]
      <4>1. /\ containers[n] \in [service: Services, running: BOOLEAN]
            /\ running[n] \in BOOLEAN
        BY <3>1, <3>2 DEF IsListing
      <4> QED
        BY <4>1
    <3>3. IsListing(containers')
      BY <3>1, <3>2 DEF SetRunning, IsListing
    <3> QED
      BY <2>13, <3>3 DEF Command, Fail
  <2>14. ASSUME NEW r \in Requests, ReadRuntime(r)
         PROVE  TypeOK'
    BY <2>14 DEF ReadRuntime, IsListing, Nothing
  <2>15. CASE HandEdit
    BY <2>15 DEF HandEdit
  <2>16. CASE Crash
    BY <2>16 DEF Crash
  <2>17. CASE UNCHANGED vars
    BY <2>17 DEF vars
  <2> QED
    BY <2>1, <2>2, <2>3, <2>4, <2>5, <2>6, <2>7, <2>8, <2>9, <2>10, <2>11,
       <2>12, <2>13, <2>14, <2>15, <2>16, <2>17, <2>18 DEF Next, Step
<1> QED
  BY <1>1, <1>2, PTL DEF Spec

-----------------------------------------------------------------------------
(* Lemma for the proofs below: the lock discipline is kept by every step.  *)
LEMMA LockStep == TypeOK /\ LockDiscipline /\ [Next]_vars => LockDiscipline'
<1> SUFFICES ASSUME TypeOK, LockDiscipline, [Next]_vars
             PROVE  LockDiscipline'
  OBVIOUS
<1> USE DEF TypeOK, LockDiscipline, Holding, Steps, disk, docker, request,
            bounds, At, Goto
<1>1. ASSUME NEW r \in Requests, NEW c \in Calls, Receive(r, c)
      PROVE  LockDiscipline'
  BY <1>1 DEF Receive
<1>2. ASSUME NEW r \in Requests, Acquire(r) \/ Release(r)
      PROVE  LockDiscipline'
  BY <1>2 DEF Acquire, Release
<1>3. ASSUME NEW r \in Requests,
             LoadForSave(r) \/ LoadForService(r) \/ LoadForApply(r)
      PROVE  LockDiscipline'
  BY <1>3 DEF LoadForSave, LoadForService, LoadForApply
<1>4. ASSUME NEW r \in Requests, LoadForRestart(r)
      PROVE  LockDiscipline'
  BY <1>4 DEF LoadForRestart
<1>5. ASSUME NEW r \in Requests,
             LoadRefused(r) \/ Check(r) \/ Config(r) \/ UpFailed(r)
      PROVE  LockDiscipline'
  BY <1>5, ZenonT(40) DEF LoadRefused, Check, Config, UpFailed, Fail
<1>6. ASSUME NEW r \in Requests,
             Backup(r) \/ Replace(r) \/ Prune(r) \/ UpDone(r)
      PROVE  LockDiscipline'
  BY <1>6 DEF Backup, Replace, Prune, UpDone, Converged
<1>13. ASSUME NEW r \in Requests, Mark(r) \/ Record(r)
       PROVE  LockDiscipline'
  BY <1>13, ZenonT(40) DEF Mark, Record, Fail
<1>7. ASSUME NEW r \in Requests, Up(r) \/ Down(r)
      PROVE  LockDiscipline'
  BY <1>7 DEF Up, Down
<1>8. ASSUME NEW r \in Requests, Start(r) \/ Command(r)
      PROVE  LockDiscipline'
  BY <1>8 DEF Start, Command, Fail
<1>9. ASSUME NEW r \in Requests,
             ReadDocument(r) \/ ReadRuntime(r) \/ Answer(r)
      PROVE  LockDiscipline'
  BY <1>9, ZenonT(40) DEF ReadDocument, ReadRuntime, Answer, Fail
<1>10. CASE HandEdit
  BY <1>10 DEF HandEdit
<1>11. CASE Crash
  BY <1>11 DEF Crash
<1>12. CASE UNCHANGED vars
  BY <1>12 DEF vars
<1> QED
  BY <1>1, <1>2, <1>3, <1>4, <1>5, <1>6, <1>7, <1>8, <1>9, <1>10, <1>11,
     <1>12, <1>13 DEF Next, Step

(* Every write path is serialised by the lock.                             *)
THEOREM LockSafe == Spec => []LockDiscipline
<1>1. Init => LockDiscipline
  BY DEF Init, LockDiscipline, Holding
<1> QED
  BY <1>1, LockStep, TypeCorrect, PTL DEF Spec

-----------------------------------------------------------------------------
(* NoLostUpdate, with what the steps before the check know of the call.    *)
Saving == {"check", "backup", "replace"}
SaveInv ==
    /\ NoLostUpdate
    /\ \A r \in Requests :
          /\ pc[r] # "idle" => ValidCall(call[r])
          /\ pc[r] \in Saving => IsSave(call[r])

(* The file changes in two places: at a replacement, which only the holder *)
(* of the lock makes, and under an editor, which waits for the lock.       *)
LEMMA SaveStep ==
    ASSUME ~EditAnyTime
    PROVE  TypeOK /\ LockDiscipline /\ SaveInv /\ [Next]_vars => SaveInv'
<1> SUFFICES ASSUME TypeOK, LockDiscipline, SaveInv, [Next]_vars
             PROVE  SaveInv'
  OBVIOUS
<1> USE DEF TypeOK, SaveInv, NoLostUpdate, Saving, Steps, disk, docker,
            request, bounds, At, Goto
<1>1. ASSUME NEW r \in Requests, NEW c \in Calls, Receive(r, c)
      PROVE  SaveInv'
  BY <1>1 DEF Receive
<1>2. ASSUME NEW r \in Requests, Acquire(r) \/ Release(r)
      PROVE  SaveInv'
  BY <1>2 DEF Acquire, Release
<1>3. ASSUME NEW r \in Requests,
             \/ LoadForSave(r) \/ LoadForService(r) \/ LoadForApply(r)
             \/ LoadForRestart(r)
      PROVE  SaveInv'
  BY <1>3, ZenonT(40) DEF LoadForSave, LoadForService, LoadForApply, LoadForRestart
<1>4. ASSUME NEW r \in Requests,
             \/ LoadRefused(r) \/ Check(r) \/ Config(r) \/ UpFailed(r)
             \/ Start(r) \/ Command(r)
      PROVE  SaveInv'
  BY <1>4 DEF LoadRefused, Check, Config, UpFailed, Start, Command, Fail
<1>5. ASSUME NEW r \in Requests,
             \/ Backup(r) \/ Prune(r) \/ Mark(r) \/ Record(r) \/ UpDone(r)
             \/ Up(r) \/ Down(r)
      PROVE  SaveInv'
  BY <1>5 DEF Backup, Prune, Mark, Record, UpDone, Converged, Up, Down, Fail
<1>6. ASSUME NEW r \in Requests, Replace(r)
      PROVE  SaveInv'
  <2>1. \A q \in Requests : q # r => pc[q] \notin Saving
    BY <1>6 DEF Replace, LockDiscipline, Holding
  <2> QED
    BY <1>6, <2>1 DEF Replace
<1>7. ASSUME NEW r \in Requests,
             ReadDocument(r) \/ ReadRuntime(r) \/ Answer(r)
      PROVE  SaveInv'
  BY <1>7 DEF ReadDocument, ReadRuntime, Answer, Fail
<1>8. CASE HandEdit
  <2>1. \A r \in Requests : pc[r] \notin Saving
    BY <1>8 DEF HandEdit, LockDiscipline, Holding
  <2> QED
    BY <1>8, <2>1 DEF HandEdit
<1>9. CASE Crash
  BY <1>9 DEF Crash
<1>10. CASE UNCHANGED vars
  BY <1>10 DEF vars
<1> QED
  BY <1>1, <1>2, <1>3, <1>4, <1>5, <1>6, <1>7, <1>8, <1>9, <1>10
     DEF Next, Step

LEMMA SaveInvariant ==
    ASSUME ~EditAnyTime
    PROVE  Spec => []SaveInv
<1>1. Init => SaveInv
  BY DEF Init, SaveInv, NoLostUpdate, Saving
<1>2. TypeOK /\ LockDiscipline /\ SaveInv /\ [Next]_vars => SaveInv'
  BY SaveStep
<1> QED
  BY <1>1, <1>2, TypeCorrect, LockSafe, PTL DEF Spec

(* No update is lost, when editors keep off the file under the lock.       *)
THEOREM UpdatesKept ==
    ASSUME ~EditAnyTime
    PROVE  Spec => []NoLostUpdate
<1>1. SaveInv => NoLostUpdate
  BY DEF SaveInv
<1> QED
  BY <1>1, SaveInvariant, PTL

-----------------------------------------------------------------------------
(* What an apply knows at each of its steps: the document it loaded is the *)
(* one in the file, from the mark on Docker runs it, and from then to the  *)
(* record no hash is there.                                                *)
Applying == {"config", "start", "up", "down", "mark", "record"}
ApplyInv ==
    /\ applied \subseteq converged
    /\ \A r \in Requests :
          /\ pc[r] \in Applying =>
                /\ Readable(file) /\ ValidDocument(Load(file))
                /\ doc[r] = Load(file)
          /\ pc[r] \in Applying \ {"config"} => file.kind = "document"
          /\ At(r, "down") => doc[r] = <<>>
          /\ pc[r] \in {"mark", "record"} =>
                /\ containers = Wanted(doc[r])
                /\ Doc(doc[r]) \in converged
          /\ At(r, "record") => applied = {} /\ digest[r] = {Doc(doc[r])}

(* With no service, what Compose should run is nothing.                    *)
LEMMA WantedNothing == Wanted(<<>>) = Nothing
<1>1. NamesOf(<<>>) = {}
  BY DEF NamesOf
<1> QED
  BY <1>1 DEF Wanted, Nothing

LEMMA ApplyStep ==
    ASSUME ~EditAnyTime
    PROVE  TypeOK /\ LockDiscipline /\ ApplyInv /\ [Next]_vars => ApplyInv'
<1> SUFFICES ASSUME TypeOK, LockDiscipline, ApplyInv, [Next]_vars
             PROVE  ApplyInv'
  OBVIOUS
<1> USE DEF TypeOK, ApplyInv, Applying, Steps, disk, docker, request, bounds,
            At, Goto
<1>1. ASSUME NEW r \in Requests, NEW c \in Calls, Receive(r, c)
      PROVE  ApplyInv'
  BY <1>1 DEF Receive
<1>2. ASSUME NEW r \in Requests, Acquire(r) \/ Release(r)
      PROVE  ApplyInv'
  BY <1>2 DEF Acquire, Release
<1>3. ASSUME NEW r \in Requests,
             LoadForSave(r) \/ LoadForService(r) \/ LoadForRestart(r)
      PROVE  ApplyInv'
  BY <1>3 DEF LoadForSave, LoadForService, LoadForRestart
<1>14. ASSUME NEW r \in Requests, LoadForApply(r)
       PROVE  ApplyInv'
  BY <1>14 DEF LoadForApply
<1>4. ASSUME NEW r \in Requests,
             \/ LoadRefused(r) \/ Check(r) \/ Config(r) \/ UpFailed(r)
             \/ Backup(r) \/ Prune(r)
      PROVE  ApplyInv'
  BY <1>4 DEF LoadRefused, Check, Config, UpFailed, Fail, Backup, Prune
<1>13. ASSUME NEW r \in Requests, Start(r)
       PROVE  ApplyInv'
  <2>1. doc[r] = Load(file) /\ Readable(file) /\ ValidDocument(Load(file))
    BY <1>13 DEF Start
  <2>2. CASE file.kind = "document" /\ doc' = [doc EXCEPT ![r] = Load(file)]
    BY <1>13, <2>1, <2>2 DEF Start, Fail
  <2>3. CASE Fail(r) /\ UNCHANGED doc
    BY <1>13, <2>3 DEF Start, Fail
  <2> QED
    BY <1>13, <2>2, <2>3 DEF Start
<1>5. ASSUME NEW r \in Requests, Replace(r)
      PROVE  ApplyInv'
  <2>1. \A q \in Requests : pc[q] \notin Applying
    BY <1>5 DEF Replace, LockDiscipline, Holding
  <2> QED
    BY <1>5, <2>1 DEF Replace
<1>6. ASSUME NEW r \in Requests, Up(r) \/ Down(r) \/ Command(r)
      PROVE  ApplyInv'
  <2>1. \A q \in Requests : pc[q] \notin {"mark", "record"}
    BY <1>6 DEF Up, Down, Command, LockDiscipline, Holding
  <2> QED
    BY <1>6, <2>1 DEF Up, Down, Command, Fail
<1>7. ASSUME NEW r \in Requests, UpDone(r)
      PROVE  ApplyInv'
  <2>1. containers = Wanted(doc[r])
    BY <1>7, WantedNothing DEF UpDone, Converged
  <2>2. Doc(doc[r]) \in converged'
    BY <1>7 DEF UpDone, Converged
  <2>3. converged \subseteq converged'
    BY <1>7 DEF UpDone
  <2>4. pc[r] \in {"up", "down"} /\ pc' = [pc EXCEPT ![r] = "mark"]
    BY <1>7 DEF UpDone, Converged
  <2>5. UNCHANGED <<file, applied, containers, doc, digest>>
    BY <1>7 DEF UpDone
  <2> QED
    BY <2>1, <2>2, <2>3, <2>4, <2>5
<1>8. ASSUME NEW r \in Requests, Mark(r)
      PROVE  ApplyInv'
  <2>1. Hash(file) = Doc(doc[r])
    BY <1>8 DEF Mark, Hash, Doc, Load, Contents
  <2>4. pc[r] = "mark" /\ pc[r] \in Holding
    BY <1>8 DEF Mark, Holding
  <2>3. lock = {r}
    BY <2>4 DEF LockDiscipline
  <2>2. \A q \in Requests : q # r => pc[q] \notin Holding
    <3> TAKE q \in Requests
    <3> HAVE q # r
    <3>1. lock # {q}
      BY <2>3
    <3> QED
      BY <3>1 DEF LockDiscipline
  <2> QED
    BY <1>8, <2>1, <2>2 DEF Mark, Fail, Holding
<1>15. ASSUME NEW r \in Requests, Record(r)
       PROVE  ApplyInv'
  <2>1. digest[r] = {Doc(doc[r])} /\ Doc(doc[r]) \in converged
    BY <1>15 DEF Record
  <2>4. pc[r] = "record" /\ pc[r] \in Holding
    BY <1>15 DEF Record, Holding
  <2>3. lock = {r}
    BY <2>4 DEF LockDiscipline
  <2>2. \A q \in Requests : q # r => pc[q] \notin Holding
    <3> TAKE q \in Requests
    <3> HAVE q # r
    <3>1. lock # {q}
      BY <2>3
    <3> QED
      BY <3>1 DEF LockDiscipline
  <2> QED
    BY <1>15, <2>1, <2>2 DEF Record, Fail, Holding
<1>9. ASSUME NEW r \in Requests,
             ReadDocument(r) \/ ReadRuntime(r) \/ Answer(r)
      PROVE  ApplyInv'
  BY <1>9, SMTT(30) DEF ReadDocument, ReadRuntime, Answer, Fail
<1>10. CASE HandEdit
  <2>1. \A r \in Requests : pc[r] \notin Applying
    BY <1>10 DEF HandEdit, LockDiscipline, Holding
  <2> QED
    BY <1>10, <2>1 DEF HandEdit
<1>11. CASE Crash
  BY <1>11 DEF Crash
<1>12. CASE UNCHANGED vars
  BY <1>12 DEF vars
<1> QED
  BY <1>1, <1>2, <1>3, <1>4, <1>5, <1>6, <1>7, <1>8, <1>9, <1>10, <1>11,
     <1>12, <1>13, <1>14, <1>15 DEF Next, Step

LEMMA ApplyInvariant ==
    ASSUME ~EditAnyTime
    PROVE  Spec => []ApplyInv
<1>1. Init => ApplyInv
  BY DEF Init, ApplyInv, Applying, At
<1>2. TypeOK /\ LockDiscipline /\ ApplyInv /\ [Next]_vars => ApplyInv'
  BY ApplyStep
<1> QED
  BY <1>1, <1>2, TypeCorrect, LockSafe, PTL DEF Spec

(* The hash recorded as applied is always that of a file Compose brought   *)
(* up, and when it is recorded Docker runs exactly that file.              *)
THEOREM AppliedIsDeployed ==
    ASSUME ~EditAnyTime
    PROVE  Spec => [](AppliedWasConverged /\ MarkedWhenDeployed)
<1>1. TypeOK /\ ApplyInv => AppliedWasConverged /\ MarkedWhenDeployed
  BY DEF ApplyInv, AppliedWasConverged, MarkedWhenDeployed, Applying, At,
         TypeOK, Contents, Hash, Doc, Load
<1> QED
  BY <1>1, ApplyInvariant, TypeCorrect, PTL

-----------------------------------------------------------------------------
(* Ports: whatever the editor does meanwhile, a save installs a document   *)
(* that was validated.                                                     *)
PortInv ==
    /\ NoPortClash
    /\ \A r \in Requests : pc[r] \in Saving => ValidDocument(doc[r])

LEMMA PortStep ==
    ASSUME \A f \in HandFiles : ValidDocument(Load(f))
    PROVE  TypeOK /\ PortInv /\ [Next]_vars => PortInv'
<1> SUFFICES ASSUME TypeOK, PortInv, [Next]_vars
             PROVE  PortInv'
  OBVIOUS
<1> USE DEF TypeOK, PortInv, NoPortClash, Saving, Steps, disk, docker, request,
            bounds, At, Goto
<1>1. ASSUME NEW r \in Requests, NEW c \in Calls, Receive(r, c)
      PROVE  PortInv'
  BY <1>1 DEF Receive
<1>2. ASSUME NEW r \in Requests, LoadForSave(r)
      PROVE  PortInv'
  BY <1>2 DEF LoadForSave, Saves
<1>3. ASSUME NEW r \in Requests,
             \/ Acquire(r) \/ Release(r)
             \/ LoadForService(r) \/ LoadForApply(r) \/ LoadForRestart(r)
             \/ LoadRefused(r)
      PROVE  PortInv'
  BY <1>3 DEF Acquire, Release, LoadForService, LoadForApply, LoadForRestart,
              LoadRefused, Fail
<1>4. ASSUME NEW r \in Requests, Check(r) \/ Backup(r) \/ Prune(r)
      PROVE  PortInv'
  BY <1>4 DEF Check, Backup, Prune, Fail
<1>5. ASSUME NEW r \in Requests, Replace(r)
      PROVE  PortInv'
  BY <1>5 DEF Replace, Load, Doc
<1>6. ASSUME NEW r \in Requests,
             \/ Config(r) \/ Start(r) \/ Up(r) \/ Down(r) \/ UpDone(r)
             \/ UpFailed(r) \/ Mark(r) \/ Record(r) \/ Command(r)
      PROVE  PortInv'
  BY <1>6 DEF Config, Start, Up, Down, UpDone, Converged, UpFailed, Mark,
              Record, Command, Fail
<1>7. ASSUME NEW r \in Requests,
             ReadDocument(r) \/ ReadRuntime(r) \/ Answer(r)
      PROVE  PortInv'
  BY <1>7 DEF ReadDocument, ReadRuntime, Answer, Fail
<1>8. CASE HandEdit
  BY <1>8 DEF HandEdit
<1>9. CASE Crash
  BY <1>9 DEF Crash
<1>10. CASE UNCHANGED vars
  BY <1>10 DEF vars
<1> QED
  BY <1>1, <1>2, <1>3, <1>4, <1>5, <1>6, <1>7, <1>8, <1>9, <1>10
     DEF Next, Step

(* No two managed services of the file publish one port, if neither the    *)
(* first file nor an editor wrote that; nothing is assumed of the lock.    *)
THEOREM PortsSafe ==
    ASSUME \A f \in InitialFiles \cup HandFiles : ValidDocument(Load(f))
    PROVE  Spec => []NoPortClash
<1>1. Init => PortInv
  BY DEF Init, PortInv, NoPortClash, Saving
<1>2. TypeOK /\ PortInv /\ [Next]_vars => PortInv'
  BY PortStep
<1>3. PortInv => NoPortClash
  BY DEF PortInv
<1> QED
  BY <1>1, <1>2, <1>3, TypeCorrect, PTL DEF Spec

-----------------------------------------------------------------------------
(* The manager implements the store of atomic saves and applies.           *)

(* The store's copy of the operators on documents is the manager's.        *)
LEMMA SameDocuments ==
    /\ \A f : /\ Store!Readable(f) = Readable(f)
             /\ Store!Load(f) = Load(f)
             /\ Store!Hash(f) = Hash(f)
    /\ \A s : /\ Store!ValidDocument(s) = ValidDocument(s)
             /\ Store!Doc(s) = Doc(s)
    /\ \A c : Store!IsSave(c) = IsSave(c) /\ Store!ValidCall(c) = ValidCall(c)
    /\ \A s, c : IsSave(c) => Store!Edit(s, c) = Edit(s, c)
    /\ \A f, c : IsSave(c) => (Store!Saves(f, c) <=> Saves(f, c))
<1>1. \A f : /\ Store!Readable(f) = Readable(f)
            /\ Store!Load(f) = Load(f)
            /\ Store!Hash(f) = Hash(f)
  BY DEF Store!Readable, Readable, Store!Load, Load, Store!Hash, Hash,
         Store!Doc, Doc
<1>2. \A s : /\ Store!ValidDocument(s) = ValidDocument(s)
            /\ Store!Doc(s) = Doc(s)
  BY DEF Store!ValidDocument, ValidDocument, Store!Managed, Managed,
         Store!Doc, Doc
<1>3. \A c : Store!IsSave(c) = IsSave(c) /\ Store!ValidCall(c) = ValidCall(c)
  BY DEF Store!IsSave, IsSave, Store!ValidCall, ValidCall, Store!ValidInput,
         ValidInput
<1>4. \A s, n : /\ Store!Position(s, n) = Position(s, n)
               /\ Store!NamesOf(s) = NamesOf(s)
  BY DEF Store!Position, Position, Store!NamesOf, NamesOf
<1>5. \A v : Store!StandardService(v) = StandardService(v)
  BY DEF Store!StandardService, StandardService
<1>6. ASSUME NEW s, NEW c, IsSave(c)
      PROVE  /\ Store!Edit(s, c) = Edit(s, c)
             /\ Store!CanEdit(s, c) <=> CanEdit(s, c)
  <2>1. \A n : Store!IsManagedIn(s, n) <=> IsManagedIn(s, n)
    BY <1>4 DEF Store!IsManagedIn, IsManagedIn, Store!Managed, Managed
  <2>2. CASE c.op = "create"
    BY <2>2, <1>4, <1>5 DEF Store!Edit, Edit, Store!CanEdit, CanEdit
  <2>3. CASE c.op = "update"
    BY <2>1, <2>3, <1>4, <1>5 DEF Store!Edit, Edit, Store!CanEdit, CanEdit
  <2>4. CASE c.op = "delete"
    BY <2>1, <2>4, <1>4 DEF Store!Edit, Edit, Store!CanEdit, CanEdit,
                            Store!RemoveAt, RemoveAt
  <2> QED
    BY <1>6, <2>2, <2>3, <2>4 DEF IsSave
<1>7. ASSUME NEW f, NEW c, IsSave(c)
      PROVE  (Store!Saves(f, c) <=> Saves(f, c))
  BY <1>1, <1>2, <1>6, <1>7 DEF Store!Saves, Saves
<1> QED
  BY <1>1, <1>2, <1>3, <1>6, <1>7

LEMMA StoreStep ==
    TypeOK /\ SaveInv /\ ApplyInv /\ [Next]_vars
        => [Store!Next]_<<file, applied>>
<1> SUFFICES ASSUME TypeOK, SaveInv, ApplyInv, [Next]_vars
             PROVE  [Store!Next]_<<file, applied>>
  OBVIOUS
<1> USE DEF disk, docker, request, bounds, At
<1>1. ASSUME NEW r \in Requests, Replace(r)
      PROVE  Store!Next
  <2>1. call[r] \in Calls
    BY DEF TypeOK
  <2>2. Store!Save(call[r])
    BY <1>1, SameDocuments
       DEF Replace, Store!Save, SaveInv, NoLostUpdate, Saving
  <2> QED
    BY <2>1, <2>2 DEF Store!Next
<1>2. ASSUME NEW r \in Requests, Mark(r)
      PROVE  Store!Next \/ UNCHANGED <<file, applied>>
  <2>1. Store!Forget \/ UNCHANGED <<file, applied>>
    BY <1>2, SameDocuments DEF Mark, Store!Forget, ApplyInv, Applying
  <2> QED
    BY <2>1 DEF Store!Next
<1>8. ASSUME NEW r \in Requests, Record(r)
      PROVE  Store!Next \/ UNCHANGED <<file, applied>>
  <2>1. Hash(file) = Doc(doc[r])
    BY <1>8 DEF Record, ApplyInv, Applying, TypeOK, Contents, Hash, Doc, Load
  <2>2. Store!Record \/ UNCHANGED <<file, applied>>
    BY <1>8, <2>1, SameDocuments DEF Record, Store!Record, ApplyInv, Applying
  <2> QED
    BY <2>2 DEF Store!Next
<1>3. CASE HandEdit
  BY <1>3 DEF HandEdit, Store!Next, Store!HandEdit
<1>4. ASSUME NEW r \in Requests, NEW c \in Calls, Receive(r, c)
      PROVE  UNCHANGED <<file, applied>>
  BY <1>4 DEF Receive
<1>5. ASSUME NEW r \in Requests, Step(r), ~Replace(r), ~Mark(r), ~Record(r)
      PROVE  UNCHANGED <<file, applied>>
  BY <1>5 DEF Step, Acquire, Release, LoadForSave, LoadForService,
              LoadForApply, LoadForRestart, LoadRefused, Check, Backup, Prune,
              Config, Start, Up, Down, UpDone, UpFailed, Command,
              ReadDocument, ReadRuntime, Answer
<1>6. CASE Crash
  BY <1>6 DEF Crash
<1>7. CASE UNCHANGED vars
  BY <1>7 DEF vars
<1> QED
  BY <1>1, <1>2, <1>3, <1>4, <1>5, <1>6, <1>7, <1>8 DEF Next

THEOREM ImplementsStore ==
    ASSUME ~EditAnyTime
    PROVE  Spec => StoreSpec
<1>1. Init => Store!Init
  BY DEF Init, Store!Init
<1>2. TypeOK /\ SaveInv /\ ApplyInv /\ [Next]_vars
          => [Store!Next]_<<file, applied>>
  BY StoreStep
<1> QED
  BY <1>1, <1>2, TypeCorrect, SaveInvariant, ApplyInvariant, PTL
     DEF Spec, StoreSpec, Store!Spec

-----------------------------------------------------------------------------
(* The backups: the file a save replaces is among them, they do not pile   *)
(* up, and pruning leaves the newest.                                      *)

Copies == [file: Contents, copy: Nat]

(* What the elements are after an insertion.                               *)
LEMMA InsertAtElements ==
    ASSUME NEW S, NEW s \in Seq(S), NEW i \in 1..Len(s) + 1, NEW e \in S
    PROVE  /\ InsertAt(s, i, e) \in Seq(S)
           /\ Len(InsertAt(s, i, e)) = Len(s) + 1
           /\ InsertAt(s, i, e)[i] = e
           /\ \A j \in 1..i - 1 : InsertAt(s, i, e)[j] = s[j]
<1> DEFINE front == SubSeq(s, 1, i - 1)
           back == SubSeq(s, i, Len(s))
<1>1. /\ front \in Seq(S) /\ Len(front) = i - 1
      /\ \A j \in 1..i - 1 : front[j] = s[j]
  BY SubSeqProperties
<1>2. back \in Seq(S) /\ Len(back) = Len(s) - i + 1
  BY SubSeqProperties
<1> HIDE DEF front, back
<1>3. <<e>> \in Seq(S) /\ Len(<<e>>) = 1 /\ <<e>>[1] = e
  OBVIOUS
<1>4. /\ front \o <<e>> \in Seq(S) /\ Len(front \o <<e>>) = i
      /\ (front \o <<e>>)[i] = e
      /\ \A j \in 1..i - 1 : (front \o <<e>>)[j] = s[j]
  <2>1. /\ front \o <<e>> \in Seq(S) /\ Len(front \o <<e>>) = Len(front) + 1
        /\ \A j \in 1..Len(front) + 1 : (front \o <<e>>)[j] =
                IF j <= Len(front) THEN front[j] ELSE <<e>>[j - Len(front)]
    BY <1>1, <1>3, ConcatProperties
  <2>2. Len(front) = i - 1 /\ Len(front) + 1 = i /\ i \in Nat
    BY <1>1
  <2>3. (front \o <<e>>)[i] = <<e>>[i - Len(front)] /\ i - Len(front) = 1
    BY <2>1, <2>2
  <2>4. \A j \in 1..i - 1 : (front \o <<e>>)[j] = front[j]
    BY <2>1, <2>2
  <2> QED
    BY <1>1, <1>3, <2>1, <2>2, <2>3, <2>4
<1>5. InsertAt(s, i, e) = (front \o <<e>>) \o back
  BY DEF InsertAt, front, back
<1>6. /\ InsertAt(s, i, e) \in Seq(S)
      /\ Len(InsertAt(s, i, e)) = Len(s) + 1
  BY <1>2, <1>4, <1>5, ConcatProperties
<1>7. \A j \in 1..i : InsertAt(s, i, e)[j] = (front \o <<e>>)[j]
  BY <1>2, <1>4, <1>5, ConcatProperties
<1>8. i \in 1..i /\ \A j \in 1..i - 1 : j \in 1..i
  OBVIOUS
<1> QED
  BY <1>4, <1>6, <1>7, <1>8

-----------------------------------------------------------------------------
(* Steps other than those of _write_document.  A thread that does not save *)
(* never gets to where the backups are touched, nor one that saves to the  *)
(* commands of Compose.                                                    *)
Commanding == {"config", "start", "up", "down", "mark", "record", "command"}
Apart == \A r \in Requests : pc[r] \in Commanding => ~IsSave(call[r])

Elsewhere ==
    /\ UNCHANGED <<backups, copies, crashes>>
    /\ file' = file \/ HandEdit
    /\ \A r \in Requests :
          /\ pc'[r] = "replace" <=> pc[r] = "replace"
          /\ pc'[r] = "prune" <=> pc[r] = "prune"
          /\ pc'[r] = "release" =>
                \/ pc[r] = "release" /\ call'[r] = call[r]
                \/ ~IsSave(call'[r])
          /\ pc'[r] \in Commanding => ~IsSave(call'[r])

LEMMA Elsewheres ==
    ASSUME TypeOK, Apart, [Next]_vars,
           ~Crash, \A r \in Requests : ~(Backup(r) \/ Replace(r) \/ Prune(r))
    PROVE  Elsewhere
<1> USE DEF TypeOK, Elsewhere, Apart, Commanding, Steps, disk, docker,
            request, bounds, At, Goto
<1>1. ASSUME NEW r \in Requests, NEW c \in Calls, Receive(r, c)
      PROVE  Elsewhere
  BY <1>1 DEF Receive
<1>2. ASSUME NEW r \in Requests, Acquire(r) \/ Release(r)
      PROVE  Elsewhere
  BY <1>2 DEF Acquire, Release
<1>3. ASSUME NEW r \in Requests, LoadForSave(r)
      PROVE  Elsewhere
  BY <1>3 DEF LoadForSave
<1>4. ASSUME NEW r \in Requests,
             LoadForService(r) \/ LoadForApply(r) \/ LoadForRestart(r)
      PROVE  Elsewhere
  <2>1. ~IsSave(call[r])
    BY <1>4 DEF LoadForService, LoadForApply, LoadForRestart, IsSave, ServiceCalls
  <2>2. /\ UNCHANGED <<file, backups, copies, crashes, call>>
        /\ \E step \in Commanding \cup {"read_document"} :
              pc' = [pc EXCEPT ![r] = step]
    BY <1>4 DEF LoadForService, LoadForApply, LoadForRestart
  <2> QED BY <1>4, <2>1, <2>2 DEF LoadForService, LoadForApply, LoadForRestart
<1>5. ASSUME NEW r \in Requests, LoadRefused(r) \/ Check(r)
      PROVE  Elsewhere
  BY <1>5 DEF LoadRefused, Check, Fail
<1>6. ASSUME NEW r \in Requests, Config(r) \/ UpFailed(r) \/ Start(r)
      PROVE  Elsewhere
  BY <1>6 DEF Config, UpFailed, Start, Fail
<1>7. ASSUME NEW r \in Requests, Up(r) \/ Down(r) \/ UpDone(r) \/ Mark(r) \/ Record(r)
      PROVE  Elsewhere
  BY <1>7 DEF Up, Down, UpDone, Converged, Mark, Record, Fail
<1>8. ASSUME NEW r \in Requests, Command(r)
      PROVE  Elsewhere
  BY <1>8 DEF Command, Fail
<1>9. ASSUME NEW r \in Requests,
             ReadDocument(r) \/ ReadRuntime(r) \/ Answer(r)
      PROVE  Elsewhere
  BY <1>9 DEF ReadDocument, ReadRuntime, Answer, Fail
<1>10. CASE HandEdit
  BY <1>10 DEF HandEdit
<1>11. CASE UNCHANGED vars
  BY <1>11 DEF vars
<1> QED
  BY <1>1, <1>2, <1>3, <1>4, <1>5, <1>6, <1>7, <1>8, <1>9, <1>10, <1>11
     DEF Next, Step

LEMMA ApartStep == TypeOK /\ Apart /\ [Next]_vars => Apart'
<1> SUFFICES ASSUME TypeOK, Apart, [Next]_vars PROVE Apart'
  OBVIOUS
<1>1. ASSUME NEW r \in Requests, Backup(r) \/ Replace(r) \/ Prune(r)
      PROVE  Apart'
  BY <1>1 DEF Backup, Replace, Prune, Apart, Commanding, TypeOK, At, Goto, request
<1>2. CASE Crash
  BY <1>2 DEF Crash, Apart, Commanding
<1>3. CASE Elsewhere
  BY <1>3 DEF Elsewhere, Apart
<1> QED
  BY <1>1, <1>2, <1>3, Elsewheres

LEMMA StaysApart == Spec => []Apart
<1>1. Init => Apart
  BY DEF Init, Apart, Commanding
<1> QED
  BY <1>1, ApartStep, TypeCorrect, PTL DEF Spec

-----------------------------------------------------------------------------
(* What a backup and a pruning do to the sequence.                         *)
LEMMA BackupEffect ==
    ASSUME TypeOK, NEW r \in Requests, Backup(r)
    PROVE  /\ pc[r] = "backup" /\ pc' = [pc EXCEPT ![r] = "replace"]
           /\ UNCHANGED <<file, call, lock, crashes>>
           /\ \/ file.kind = "absent" /\ UNCHANGED <<backups, copies>>
              \/ /\ copies' = copies + 1
                 /\ backups' \in Seq(Copies) /\ Len(backups') = Len(backups) + 1
                 /\ \E i \in 1..Len(backups) + 1 :
                       /\ backups'[i] = [file |-> file, copy |-> copies']
                       /\ ClockMayStepBack \/ i = Len(backups) + 1
                       /\ \A j \in 1..i - 1 : backups'[j] = backups[j]
<1>1. /\ pc[r] = "backup" /\ pc' = [pc EXCEPT ![r] = "replace"]
      /\ UNCHANGED <<file, call, lock, crashes>>
  BY DEF Backup, At, Goto, request, bounds
<1>2. CASE file.kind = "absent"
  BY <1>1, <1>2 DEF Backup
<1>3. CASE file.kind # "absent"
  <2>1. copies' = copies + 1
    BY <1>3 DEF Backup
  <2>2. PICK i \in 1..Len(backups) + 1 :
           /\ ClockMayStepBack \/ i = Len(backups) + 1
           /\ backups' = InsertAt(backups, i, [file |-> file, copy |-> copies'])
    BY <1>3 DEF Backup
  <2>3. backups \in Seq(Copies) /\ [file |-> file, copy |-> copies'] \in Copies
    BY <2>1 DEF TypeOK, Copies
  <2>4. /\ backups' \in Seq(Copies) /\ Len(backups') = Len(backups) + 1
        /\ backups'[i] = [file |-> file, copy |-> copies']
        /\ \A j \in 1..i - 1 : backups'[j] = backups[j]
    BY <2>2, <2>3, InsertAtElements
  <2> QED BY <1>1, <2>1, <2>2, <2>4
<1> QED BY <1>2, <1>3

LEMMA PruneEffect ==
    ASSUME TypeOK, NEW r \in Requests, Prune(r)
    PROVE  /\ pc[r] = "prune"
           /\ UNCHANGED <<file, copies, call, lock, crashes>>
           /\ \/ /\ Len(backups) > Keep /\ UNCHANGED pc
                 /\ Len(backups') = Len(backups) - 1
                 /\ \A j \in 1..Len(backups') : backups'[j] = backups[j + 1]
              \/ /\ Len(backups) <= Keep /\ UNCHANGED backups
                 /\ pc' = [pc EXCEPT ![r] = "release"]
<1> USE BridgeAssumption DEF TypeOK, Prune, At, Goto, request, bounds
<1>1. /\ pc[r] = "prune"
      /\ UNCHANGED <<file, copies, call, lock, crashes>>
  OBVIOUS
<1>2. backups \in Seq(Copies) /\ Len(backups) \in Nat
  BY DEF Copies
<1>3. CASE Len(backups) > Keep
  <2>1. backups' = Tail(backups) /\ UNCHANGED pc
    BY <1>3
  <2>2. backups # <<>>
    BY <1>2, <1>3
  <2>3. /\ Len(Tail(backups)) = Len(backups) - 1
        /\ \A j \in 1..Len(backups) - 1 : Tail(backups)[j] = backups[j + 1]
    BY <1>2, <2>2, HeadTailProperties
  <2> QED BY <1>1, <1>3, <2>1, <2>3
<1>4. CASE ~(Len(backups) > Keep)
  BY <1>1, <1>2, <1>4
<1> QED BY <1>3, <1>4

-----------------------------------------------------------------------------
(* BackupsBounded.  Only the one that holds the lock and has made a copy   *)
(* may have left one more than a crash explains.                           *)
BoundInv ==
    /\ BackupsBounded
    /\ (\A r \in Requests : pc[r] \notin {"replace", "prune"}) =>
           Len(backups) <= Keep + crashes

LEMMA BoundStep ==
    TypeOK /\ LockDiscipline /\ Apart /\ BoundInv /\ [Next]_vars => BoundInv'
<1> SUFFICES ASSUME TypeOK, LockDiscipline, Apart, BoundInv, [Next]_vars
             PROVE  BoundInv'
  OBVIOUS
<1>0. Len(backups) \in Nat /\ crashes \in Nat /\ Keep \in Nat
  BY BridgeAssumption, LenProperties DEF TypeOK
<1> USE DEF BoundInv, BackupsBounded, At
<1>1. ASSUME NEW r \in Requests, Backup(r) PROVE BoundInv'
  <2>1. \A q \in Requests : q # r => pc[q] \notin Holding
    BY <1>1, BackupEffect DEF LockDiscipline, Holding
  <2>2. Len(backups) <= Keep + crashes
    BY <1>1, <2>1, BackupEffect DEF Holding
  <2>3. Len(backups') <= Keep + 1 + crashes' /\ crashes' = crashes
    BY <1>0, <1>1, <2>2, BackupEffect
  <2>4. /\ \A q \in Requests : pc'[q] # "release"
        /\ pc'[r] = "replace"
    BY <1>1, <2>1, BackupEffect DEF Holding, TypeOK
  <2> QED BY <2>3, <2>4
<1>2. ASSUME NEW r \in Requests, Prune(r) PROVE BoundInv'
  <2>1. /\ pc[r] = "prune" /\ UNCHANGED <<call, crashes>>
        /\ \A q \in Requests : q # r => pc[q] \notin Holding
    BY <1>2, PruneEffect DEF LockDiscipline, Holding
  <2>2. CASE Len(backups) > Keep
    <3>1. Len(backups') = Len(backups) - 1 /\ UNCHANGED pc
      BY <1>0, <1>2, <2>2, PruneEffect
    <3> QED BY <1>0, <2>1, <3>1 DEF Holding
  <2>3. CASE Len(backups) <= Keep
    <3>1. UNCHANGED backups
      BY <1>0, <1>2, <2>3, PruneEffect
    <3> QED BY <1>0, <2>1, <2>3, <3>1
  <2> QED BY <1>0, <2>2, <2>3
<1>3. ASSUME NEW r \in Requests, Replace(r) PROVE BoundInv'
  BY <1>3 DEF Replace, Goto, TypeOK, request, bounds
<1>4. CASE Crash
  BY <1>0, <1>4 DEF Crash, disk, request
<1>5. CASE Elsewhere
  <2>1. UNCHANGED <<backups, crashes>>
    BY <1>5 DEF Elsewhere
  <2>2. \A q \in Requests : IsSave(call'[q]) /\ pc'[q] = "release" =>
            IsSave(call[q]) /\ pc[q] = "release"
    BY <1>5 DEF Elsewhere
  <2>3. \A q \in Requests :
            pc'[q] \in {"replace", "prune"} <=> pc[q] \in {"replace", "prune"}
    BY <1>5 DEF Elsewhere
  <2> QED BY <2>1, <2>2, <2>3
<1> QED
  BY <1>1, <1>2, <1>3, <1>4, <1>5, Elsewheres

(* A crash leaves at most one copy that no save has pruned yet, and the    *)
(* next save to finish makes up for all of them.                           *)
THEOREM BackupsArePruned == Spec => []BackupsBounded
<1>1. Init => BoundInv
  BY BridgeAssumption DEF Init, BoundInv, BackupsBounded, At
<1>2. BoundInv => BackupsBounded
  BY DEF BoundInv
<1> QED
  BY <1>1, <1>2, BoundStep, TypeCorrect, LockSafe, StaysApart, PTL DEF Spec

-----------------------------------------------------------------------------
(* NewestRetained.  With a clock that does not step back the names are in  *)
(* the order of age: the backups are the copies up to the last one made,   *)
(* without a gap, and pruning starts above Keep.                           *)
OrderInv ==
    /\ \A i \in 1..Len(backups) : backups[i].copy = copies - Len(backups) + i
    /\ Len(backups) <= copies
    /\ Len(backups) >= Keep \/ Len(backups) = copies

LEMMA OrderStep ==
    ASSUME ~ClockMayStepBack
    PROVE  TypeOK /\ Apart /\ OrderInv /\ [Next]_vars => OrderInv'
<1> SUFFICES ASSUME TypeOK, Apart, OrderInv, [Next]_vars
             PROVE  OrderInv'
  OBVIOUS
<1>0. Len(backups) \in Nat /\ copies \in Nat /\ Keep \in Nat
  BY BridgeAssumption, LenProperties DEF TypeOK
<1> USE DEF OrderInv
<1>1. ASSUME NEW r \in Requests, Backup(r) PROVE OrderInv'
  <2>1. CASE UNCHANGED <<backups, copies>>
    BY <2>1
  <2>2. CASE ~UNCHANGED <<backups, copies>>
    <3> DEFINE last == Len(backups) + 1
    <3>1. /\ copies' = copies + 1 /\ Len(backups') = last
          /\ backups'[last] = [file |-> file, copy |-> copies']
          /\ \A j \in 1..last - 1 : backups'[j] = backups[j]
      BY <1>1, <2>2, BackupEffect
    <3>2. backups'[last].copy = copies' - Len(backups') + last
      BY <1>0, <3>1
    <3>3. \A j \in 1..last - 1 : backups'[j].copy = copies' - Len(backups') + j
      BY <1>0, <3>1
    <3>4. 1..Len(backups') = 1..last - 1 \cup {last}
      BY <1>0, <3>1
    <3>5. \A j \in 1..Len(backups') : backups'[j].copy = copies' - Len(backups') + j
      BY <3>2, <3>3, <3>4
    <3>6. /\ Len(backups') <= copies'
          /\ Len(backups') >= Keep \/ Len(backups') = copies'
      BY <1>0, <3>1
    <3> QED BY <3>5, <3>6
  <2> QED BY <2>1, <2>2
<1>2. ASSUME NEW r \in Requests, Prune(r) PROVE OrderInv'
  <2>1. CASE Len(backups) > Keep
    <3>1. /\ Len(backups') = Len(backups) - 1 /\ UNCHANGED copies
          /\ \A j \in 1..Len(backups') : backups'[j] = backups[j + 1]
      BY <1>0, <1>2, <2>1, PruneEffect
    <3>2. ASSUME NEW j \in 1..Len(backups')
          PROVE  backups'[j].copy = copies' - Len(backups') + j
      <4>1. j + 1 \in 1..Len(backups)
        BY <1>0, <3>1
      <4>2. backups[j + 1].copy = copies - Len(backups) + (j + 1)
        BY <4>1
      <4>3. copies - Len(backups) + (j + 1) = copies' - Len(backups') + j
        BY <1>0, <3>1
      <4> QED BY <3>1, <4>2, <4>3
    <3> QED BY <1>0, <2>1, <3>1, <3>2
  <2>2. CASE Len(backups) <= Keep
    <3>1. UNCHANGED <<backups, copies>>
      BY <1>0, <1>2, <2>2, PruneEffect
    <3> QED BY <3>1
  <2> QED BY <1>0, <2>1, <2>2
<1>3. ASSUME NEW r \in Requests, Replace(r) PROVE OrderInv'
  BY <1>3 DEF Replace
<1>4. CASE Crash
  BY <1>4 DEF Crash, disk
<1>5. CASE Elsewhere
  BY <1>5 DEF Elsewhere
<1> QED
  BY <1>1, <1>2, <1>3, <1>4, <1>5, Elsewheres

LEMMA OrderRetains == TypeOK /\ OrderInv => NewestRetained
<1> SUFFICES ASSUME TypeOK, OrderInv,
                    NEW c \in 1..copies, c > copies - Keep
             PROVE  \E b \in ToSet(backups) : b.copy = c
  BY DEF NewestRetained
<1> DEFINE i == c - copies + Len(backups)
<1>1. Len(backups) \in Nat /\ copies \in Nat /\ Keep \in Nat
  BY BridgeAssumption, LenProperties DEF TypeOK
<1>2. i \in 1..Len(backups)
  BY <1>1 DEF OrderInv
<1>3. backups[i].copy = c
  BY <1>1, <1>2 DEF OrderInv
<1>4. backups[i] \in ToSet(backups)
  BY <1>2, LenProperties DEF ToSet, TypeOK
<1> QED BY <1>3, <1>4

(* The newest Keep copies are never pruned, whatever crashes interrupt the *)
(* pruning, if the clock that names the copies does not step back.         *)
THEOREM NewestStay ==
    ASSUME ~ClockMayStepBack
    PROVE  Spec => []NewestRetained
<1>1. Init => OrderInv
  BY BridgeAssumption DEF Init, OrderInv
<1>2. TypeOK /\ Apart /\ OrderInv /\ [Next]_vars => OrderInv'
  BY OrderStep
<1> QED
  BY <1>1, <1>2, OrderRetains, TypeCorrect, StaysApart, PTL DEF Spec

-----------------------------------------------------------------------------
(* PreviousBackedUp: between the copy and the replacement neither the file *)
(* nor the backups change.                                                 *)
CopiedInv ==
    \A r \in Requests :
        pc[r] = "replace" /\ file.kind # "absent" =>
            \E b \in ToSet(backups) : b.file = file

LEMMA CopiedStep ==
    ASSUME ~EditAnyTime
    PROVE  TypeOK /\ LockDiscipline /\ Apart /\ CopiedInv /\ [Next]_vars
               => CopiedInv'
<1> SUFFICES ASSUME TypeOK, LockDiscipline, Apart, CopiedInv, [Next]_vars,
                    NEW p \in Requests, pc'[p] = "replace",
                    file'.kind # "absent"
             PROVE  (\E b \in ToSet(backups) : b.file = file)'
  BY DEF CopiedInv
<1>1. ASSUME NEW r \in Requests, Backup(r)
      PROVE  (\E b \in ToSet(backups) : b.file = file)'
  <2>1. PICK i \in 1..Len(backups) + 1 :
           /\ backups' \in Seq(Copies) /\ Len(backups') = Len(backups) + 1
           /\ backups'[i] = [file |-> file, copy |-> copies']
           /\ UNCHANGED file
    BY <1>1, BackupEffect
  <2>2. DOMAIN backups' = 1..Len(backups')
    BY <2>1, LenProperties
  <2>3. backups'[i] \in ToSet(backups')
    BY <2>1, <2>2 DEF ToSet
  <2> QED BY <2>1, <2>3
<1>2. ASSUME NEW r \in Requests, Prune(r) \/ Replace(r) PROVE FALSE
  <2>1. pc[r] \in {"prune", "replace"} /\ pc'[r] # "replace"
    BY <1>2, PruneEffect DEF Replace, At, Goto, TypeOK
  <2>2. pc[r] \in Holding
    BY <2>1 DEF Holding
  <2>3. p # r /\ pc'[p] = pc[p]
    BY <1>2, <2>1, PruneEffect DEF Replace, Goto, TypeOK
  <2>4. lock = {r} /\ lock = {p}
    BY <2>2, <2>3 DEF LockDiscipline, Holding
  <2> QED BY <2>3, <2>4
<1>3. CASE Crash
  BY <1>3 DEF Crash
<1>4. CASE Elsewhere
  <2>1. pc[p] = "replace" /\ UNCHANGED backups
    BY <1>4 DEF Elsewhere
  <2>2. lock = {p}
    BY <2>1 DEF LockDiscipline, Holding
  <2>3. UNCHANGED file
    BY <1>4, <2>2 DEF Elsewhere, HandEdit
  <2> QED BY <2>1, <2>3 DEF CopiedInv
<1> QED
  BY <1>1, <1>2, <1>3, <1>4, Elsewheres

(* Whatever a save replaces can be found among the backups, if editors     *)
(* keep off the file while the lock is held.                               *)
THEOREM ReplacedIsBackedUp ==
    ASSUME ~EditAnyTime
    PROVE  Spec => PreviousBackedUp
<1>1. Init => CopiedInv
  BY DEF Init, CopiedInv
<1>2. TypeOK /\ LockDiscipline /\ Apart /\ CopiedInv /\ [Next]_vars => CopiedInv'
  BY CopiedStep
<1>3. CopiedInv =>
        [(\E r \in Requests : Replace(r)) /\ file.kind # "absent" =>
            \E b \in ToSet(backups) : b.file = file]_vars
  BY DEF CopiedInv, Replace, At
<1> QED
  BY <1>1, <1>2, <1>3, TypeCorrect, LockSafe, StaysApart, PTL
     DEF Spec, PreviousBackedUp

-----------------------------------------------------------------------------
(* ReadOnlyKept: a save changes one managed service, adds one or takes one *)
(* out, and the others keep their order.                                   *)

LEMMA RemoveAtElements ==
    ASSUME NEW S, NEW s \in Seq(S), NEW p \in 1..Len(s)
    PROVE  /\ RemoveAt(s, p) \in Seq(S) /\ Len(RemoveAt(s, p)) = Len(s) - 1
           /\ \A i \in 1..p - 1 : RemoveAt(s, p)[i] = s[i]
           /\ \A i \in p + 1..Len(s) : RemoveAt(s, p)[i - 1] = s[i]
<1> DEFINE before == SubSeq(s, 1, p - 1)  after == SubSeq(s, p + 1, Len(s))
<1>0. Len(s) \in Nat /\ p \in Nat /\ 1 <= p /\ p <= Len(s)
  OBVIOUS
<1>1. /\ before \in Seq(S) /\ Len(before) = p - 1
      /\ \A i \in 1..p - 1 : before[i] = s[i]
  BY <1>0, SubSeqProperties
<1>2. /\ after \in Seq(S) /\ Len(after) = Len(s) - p
      /\ \A i \in 1..Len(s) - p : after[i] = s[p + i]
  <2>1. after \in Seq(S)
    BY <1>0, SubSeqProperties
  <2> QED BY <1>0, <2>1
<1>3. RemoveAt(s, p) = before \o after
  BY DEF RemoveAt
<1> HIDE DEF before, after
<1>4. /\ before \o after \in Seq(S)
      /\ Len(before \o after) = Len(before) + Len(after)
      /\ \A i \in 1..Len(before) : (before \o after)[i] = before[i]
      /\ \A i \in Len(before) + 1..Len(before) + Len(after) :
            (before \o after)[i] = after[i - Len(before)]
  <2>1. before \in Seq(S) /\ after \in Seq(S)
    BY <1>1, <1>2
  <2> QED BY <2>1, ConcatProperties
<1>5. Len(before \o after) = Len(s) - 1
  BY <1>0, <1>1, <1>2, <1>4
<1>6. \A i \in 1..p - 1 : (before \o after)[i] = s[i]
  BY <1>1, <1>4
<1>7. ASSUME NEW i \in p + 1..Len(s) PROVE (before \o after)[i - 1] = s[i]
  <2>1. /\ i - 1 \in Len(before) + 1..Len(before) + Len(after)
        /\ (i - 1) - Len(before) = i - p /\ i - p \in 1..Len(s) - p
        /\ p + (i - p) = i
    BY <1>0, <1>1, <1>2
  <2> QED BY <1>2, <1>4, <2>1
<1> QED BY <1>3, <1>4, <1>5, <1>6, <1>7

LEMMA EditKeepsReadOnly ==
    ASSUME NEW s \in Seq(Services), NEW c \in AllCalls, IsSave(c), CanEdit(s, c)
    PROVE  SameReadOnly(s, Edit(s, c))
<1> DEFINE t == Edit(s, c)
<1>0. DOMAIN s = 1..Len(s) /\ Len(s) \in Nat
  OBVIOUS
<1>1. ASSUME c.op = "create" \/ c.op = "update"
      PROVE  ReadOnlyAt(t) = ReadOnlyAt(s) /\ \A i \in ReadOnlyAt(s) : t[i] = s[i]
  <2>1. Managed(StandardService(c.value))
    BY DEF Managed, StandardService
  <2>2. CASE c.op = "create"
    <3>1. t = Append(s, StandardService(c.value))
      BY <2>2 DEF Edit
    <3> DEFINE e == StandardService(c.value)
    <3> HIDE DEF e
    <3>2. /\ DOMAIN Append(s, e) = 1..Len(s) + 1
          /\ \A i \in 1..Len(s) : Append(s, e)[i] = s[i]
          /\ Append(s, e)[Len(s) + 1] = e
      <4>1. s \in Seq(Services \cup {e}) /\ e \in Services \cup {e}
        OBVIOUS
      <4> QED BY <4>1, AppendProperties
    <3>3. t = Append(s, e) /\ Managed(e)
      BY <2>1, <3>1 DEF e
    <3> HIDE DEF t
    <3>4. \A i \in DOMAIN t : i \in DOMAIN s \/ t[i] = e
      BY <1>0, <3>2, <3>3
    <3>5. \A i \in DOMAIN s : i \in DOMAIN t /\ t[i] = s[i]
      BY <1>0, <3>2, <3>3
    <3> QED BY <3>3, <3>4, <3>5 DEF ReadOnlyAt
  <2>3. CASE c.op = "update"
    <3> DEFINE p == Position(s, c.name)
    <3>1. p \in DOMAIN s /\ Managed(s[p])
      BY <2>3, PositionInDomain DEF CanEdit, IsManagedIn
    <3>2. t = [s EXCEPT ![p] = StandardService(c.value)]
      BY <2>3 DEF Edit
    <3> HIDE DEF p
    <3>3. /\ DOMAIN t = DOMAIN s /\ t[p] = StandardService(c.value)
          /\ \A i \in DOMAIN s : i # p => t[i] = s[i]
      BY <3>1, <3>2
    <3> HIDE DEF t
    <3> QED BY <2>1, <3>1, <3>3 DEF ReadOnlyAt
  <2> QED BY <1>1, <2>2, <2>3
<1>2. CASE c.op = "create" \/ c.op = "update"
  <2> DEFINE f == [i \in ReadOnlyAt(s) |-> i]
  <2>1. f \in [ReadOnlyAt(s) -> ReadOnlyAt(t)]
    BY <1>1, <1>2
  <2>2. \A i \in ReadOnlyAt(s) : f[i] = i /\ t[i] = s[i]
    BY <1>1, <1>2
  <2>3. \A k \in ReadOnlyAt(t) : k \in ReadOnlyAt(s)
    BY <1>1, <1>2
  <2> HIDE DEF f, t
  <2>4. \A k \in ReadOnlyAt(t) : \E i \in ReadOnlyAt(s) : f[i] = k
    BY <2>2, <2>3
  <2>5. SameReadOnly(s, t)
    BY <2>1, <2>2, <2>4 DEF SameReadOnly
  <2> QED BY <2>5 DEF t
<1>3. CASE c.op = "delete"
  <2> DEFINE p == Position(s, c.name)
             f == [i \in ReadOnlyAt(s) |-> IF i < p THEN i ELSE i - 1]
  <2>1. p \in DOMAIN s /\ Managed(s[p])
    BY <1>3, PositionInDomain DEF CanEdit, IsManagedIn
  <2>2. t = RemoveAt(s, p)
    BY <1>3 DEF Edit
  <2> HIDE DEF p
  <2>3. /\ t \in Seq(Services) /\ Len(t) = Len(s) - 1
        /\ \A i \in 1..p - 1 : t[i] = s[i]
        /\ \A i \in p + 1..Len(s) : t[i - 1] = s[i]
    <3>1. p \in 1..Len(s)
      BY <1>0, <2>1
    <3> HIDE DEF t
    <3> QED BY <2>2, <3>1, RemoveAtElements
  <2>4. DOMAIN t = 1..Len(s) - 1
    BY <2>3
  <2> HIDE DEF t
  <2>5. ASSUME NEW i \in ReadOnlyAt(s)
        PROVE  /\ i \in 1..Len(s) /\ i # p /\ ~Managed(s[i])
               /\ i < p => i \in 1..p - 1 /\ i \in DOMAIN t
               /\ i > p => i \in p + 1..Len(s) /\ i - 1 \in DOMAIN t
    BY <1>0, <2>1, <2>4 DEF ReadOnlyAt
  <2>6. ASSUME NEW i \in ReadOnlyAt(s)
        PROVE  f[i] \in ReadOnlyAt(t) /\ t[f[i]] = s[i]
    <3>1. CASE i < p
      BY <2>3, <2>5, <3>1 DEF ReadOnlyAt
    <3>2. CASE i > p
      <4>1. f[i] = i - 1
        BY <1>0, <2>1, <2>5, <3>2
      <4> QED BY <2>3, <2>5, <3>2, <4>1 DEF ReadOnlyAt
    <3> QED BY <1>0, <2>1, <2>5, <3>1, <3>2
  <2>7. f \in [ReadOnlyAt(s) -> ReadOnlyAt(t)]
    BY <2>6
  <2>8. ASSUME NEW i \in ReadOnlyAt(s), NEW j \in ReadOnlyAt(s), i < j
        PROVE  f[i] < f[j]
    <3>1. i \in Nat /\ j \in Nat /\ p \in Nat /\ i # p /\ j # p
      BY <1>0, <2>1, <2>5
    <3> QED BY <2>8, <3>1
  <2>9. ASSUME NEW k \in ReadOnlyAt(t) PROVE \E i \in ReadOnlyAt(s) : f[i] = k
    <3>1. k \in 1..Len(s) - 1 /\ ~Managed(t[k]) /\ p \in 1..Len(s)
      BY <1>0, <2>1, <2>4 DEF ReadOnlyAt
    <3>2. CASE k < p
      <4>1. k \in 1..p - 1 /\ k \in DOMAIN s
        BY <1>0, <3>1, <3>2
      <4>2. k \in ReadOnlyAt(s)
        BY <2>3, <3>1, <4>1 DEF ReadOnlyAt
      <4> QED BY <3>2, <4>2
    <3>3. CASE ~(k < p)
      <4>1. k + 1 \in p + 1..Len(s) /\ k + 1 \in DOMAIN s /\ (k + 1) - 1 = k
        BY <1>0, <3>1, <3>3
      <4>2. t[k] = s[k + 1]
        BY <2>3, <4>1
      <4>3. k + 1 \in ReadOnlyAt(s)
        BY <3>1, <4>1, <4>2 DEF ReadOnlyAt
      <4>4. f[k + 1] = k
        BY <1>0, <3>1, <3>3, <4>1, <4>3
      <4> QED BY <4>3, <4>4
    <3> QED BY <3>2, <3>3
  <2> HIDE DEF f
  <2>10. SameReadOnly(s, t)
    BY <2>6, <2>7, <2>8, <2>9 DEF SameReadOnly
  <2> QED BY <2>10 DEF t
<1> QED BY <1>2, <1>3 DEF IsSave

(* No save touches what was written by hand, if editors keep off the file  *)
(* while the lock is held.                                                 *)
THEOREM ReadOnlyStays ==
    ASSUME ~EditAnyTime
    PROVE  Spec => ReadOnlyKept
<1>1. TypeOK /\ SaveInv =>
        [(\E r \in Requests : Replace(r)) => SameReadOnly(Load(file), Load(file'))]_vars
  <2> SUFFICES ASSUME TypeOK, SaveInv, NEW r \in Requests, Replace(r)
               PROVE  SameReadOnly(Load(file), Load(file'))
    OBVIOUS
  <2>1. pc[r] = "replace" /\ file' = Doc(doc[r])
    BY DEF Replace, At
  <2>2. /\ Saves(file, call[r]) /\ doc[r] = Edit(Load(file), call[r])
        /\ IsSave(call[r])
    BY <2>1 DEF SaveInv, NoLostUpdate, Saving
  <2>3. Load(file) \in Seq(Services) /\ call[r] \in AllCalls
    BY BridgeAssumption DEF TypeOK, Contents, Load
  <2>4. Load(file') = Edit(Load(file), call[r])
    BY <2>1, <2>2 DEF Doc, Load
  <2>5. SameReadOnly(Load(file), Edit(Load(file), call[r]))
    BY <2>2, <2>3, EditKeepsReadOnly DEF Saves
  <2> QED BY <2>4, <2>5
<1> QED
  BY <1>1, TypeCorrect, SaveInvariant, PTL DEF Spec, ReadOnlyKept

=============================================================================
