------------------------- MODULE BridgeRemoteProofs -------------------------
(***************************************************************************)
(* BridgeRemote implements BridgeCalls, for any number of submissions and  *)
(* hosts, any configuration, any saves, hand edits, time-outs and restarts.*)
(***************************************************************************)
EXTENDS BridgeRemote, FiniteSetTheorems, SequenceTheorems, TLAPS

(* Where a request is at the head, at the minion and for its user.         *)
Domains ==
    /\ file = [h \in Hosts |-> file[h]]
    /\ call \in [Requests -> Submissions]
    /\ head \in [Requests -> {"free", "sending", "waiting", "answered"}]
    /\ minion \in [Requests -> {"none", "queued", "saved", "refused", "failed", "late", "gone"}]
    /\ told \in [Requests -> {"none", "saved", "refused", "unsure"}]

(* The last conjunct is what TypeOK does not say: whoever was told of an   *)
(* outcome has nothing in a queue any more.                                *)
Agree(r) ==
    /\ head[r] = "answered" <=> told[r] # "none"
    /\ head[r] \in {"free", "sending"} => minion[r] = "none"
    /\ head[r] = "waiting" => minion[r] \notin {"none", "gone"}
    /\ minion[r] = "queued" => told[r] \in {"none", "unsure"}

RemoteInv == Domains /\ \A r \in Requests : Agree(r)

LEMMA RemoteInit == Init => RemoteInv
  BY RemoteAssumption DEF Init, RemoteInv, Domains, Agree

LEMMA RemoteStep == RemoteInv /\ [Next]_vars => RemoteInv'
<1> SUFFICES ASSUME RemoteInv, [Next]_vars PROVE RemoteInv'
  OBVIOUS
<1> USE DEF RemoteInv, Domains, Agree, requests, pages
<1>1. ASSUME NEW r \in Requests, Submit(r) PROVE RemoteInv'
  BY <1>1 DEF Submit, Answered
<1>2. ASSUME NEW r \in Requests, HeadStep(r) PROVE RemoteInv'
  <2>1. CASE Unreachable(r)
    BY <2>1 DEF Unreachable, Answered
  <2>2. CASE Send(r)
    BY <2>2 DEF Send
  <2>3. CASE TimeOut(r)
    BY <2>3 DEF TimeOut, Answered
  <2>4. CASE Answer(r)
    BY <2>4 DEF Answer, Answered, Outcome
  <2> QED BY <1>2, <2>1, <2>2, <2>3, <2>4 DEF HeadStep
<1>3. ASSUME NEW r \in Requests, MinionStep(r) PROVE RemoteInv'
  <2>1. CASE Save(r)
    BY <2>1 DEF Save, Handled, Write
  <2>2. CASE Refuse(r)
    BY <2>2 DEF Refuse, Handled
  <2> QED BY <1>3, <2>1, <2>2 DEF MinionStep
<1>4. ASSUME NEW h \in Hosts, MinionRestart(h) PROVE RemoteInv'
  BY <1>4 DEF MinionRestart
<1>5. ASSUME NEW h \in Hosts, HandEdit(h) PROVE RemoteInv'
  BY <1>5 DEF HandEdit, Write
<1>6. CASE HeadRestart
  BY <1>6 DEF HeadRestart
<1>7. CASE (\E h \in Listed : PageStep(h)) \/ AskPage \/ ShowPage \/ UNCHANGED vars
  <2>1. UNCHANGED <<file, requests>>
    BY <1>7 DEF PageStep, AskHost, ReadHost, HostFails, HostConfuses, AskPage,
            ShowPage, vars
  <2> QED BY <2>1
<1> QED
  BY <1>1, <1>2, <1>3, <1>4, <1>5, <1>6, <1>7 DEF Next

-----------------------------------------------------------------------------
(* The operators on documents of the promise are those of the minion.      *)
LEMMA SameDocuments ==
    /\ \A f : Promise!Load(f) = Load(f)
    /\ \A s : Promise!Doc(s) = Doc(s)
    /\ \A c : Promise!ValidCall(c) <=> ValidCall(c)
    /\ \A s, c : IsSave(c) => Promise!Edit(s, c) = Edit(s, c)
    /\ \A f, c : IsSave(c) => (Promise!Saves(f, c) <=> Saves(f, c))
<1>1. \A f : /\ Promise!Readable(f) <=> Readable(f)
             /\ Promise!Load(f) = Load(f)
  BY DEF Promise!Readable, Readable, Promise!Load, Load
<1>2. \A s : /\ Promise!ValidDocument(s) <=> ValidDocument(s)
             /\ Promise!Doc(s) = Doc(s)
  BY DEF Promise!ValidDocument, ValidDocument, Promise!Managed, Managed,
         Promise!Doc, Doc
<1>3. \A c : Promise!ValidCall(c) <=> ValidCall(c)
  BY DEF Promise!ValidCall, ValidCall, Promise!ValidInput, ValidInput
<1>4. \A s, n : /\ Promise!Position(s, n) = Position(s, n)
                /\ Promise!NamesOf(s) = NamesOf(s)
  BY DEF Promise!Position, Position, Promise!NamesOf, NamesOf
<1>5. \A v : Promise!StandardService(v) = StandardService(v)
  BY DEF Promise!StandardService, StandardService
<1>6. ASSUME NEW s, NEW c, IsSave(c)
      PROVE  /\ Promise!Edit(s, c) = Edit(s, c)
             /\ Promise!CanEdit(s, c) <=> CanEdit(s, c)
  <2>1. \A n : Promise!IsManagedIn(s, n) <=> IsManagedIn(s, n)
    BY <1>4 DEF Promise!IsManagedIn, IsManagedIn, Promise!Managed, Managed
  <2>2. CASE c.op = "create"
    BY <2>2, <1>4, <1>5 DEF Promise!Edit, Edit, Promise!CanEdit, CanEdit
  <2>3. CASE c.op = "update"
    BY <2>1, <2>3, <1>4, <1>5 DEF Promise!Edit, Edit, Promise!CanEdit, CanEdit
  <2>4. CASE c.op = "delete"
    BY <2>1, <2>4, <1>4 DEF Promise!Edit, Edit, Promise!CanEdit, CanEdit,
                            Promise!RemoveAt, RemoveAt
  <2> QED
    BY <1>6, <2>2, <2>3, <2>4 DEF IsSave
<1>7. ASSUME NEW f, NEW c, IsSave(c)
      PROVE  Promise!Saves(f, c) <=> Saves(f, c)
  BY <1>1, <1>2, <1>6, <1>7 DEF Promise!Saves, Saves
<1> QED
  BY <1>1, <1>2, <1>3, <1>6, <1>7

-----------------------------------------------------------------------------
(* Each step is one of the promise, or none.                               *)

Effects == [r \in Requests |-> Effect(r)]
Visible == <<file, call, Effects, told>>

LEMMA PromiseStep == RemoteInv /\ [Next]_vars => [Promise!Next]_Visible
<1> SUFFICES ASSUME RemoteInv, [Next]_vars PROVE [Promise!Next]_Visible
  OBVIOUS
<1> USE DEF RemoteInv, Domains, Agree, Effect, Effects
<1>1. ASSUME NEW r \in Requests, Submit(r) PROVE Promise!Next
  <2>1. /\ head[r] = "free" /\ minion[r] = "none" /\ told[r] = "none"
        /\ UNCHANGED <<file, call, minion>>
    BY <1>1 DEF Submit
  <2>2. CASE At(r) \in Listed
    <3>1. /\ head' = [head EXCEPT ![r] = "sending"]
          /\ UNCHANGED told
      BY <1>1, <2>2 DEF Submit
    <3>2. Effects[r] = "none" /\ Effects' = [Effects EXCEPT ![r] = "open"]
      BY <2>1, <3>1
    <3>3. Promise!Submit(r)
      BY <2>1, <3>1, <3>2 DEF Promise!Submit
    <3> QED BY <3>3 DEF Promise!Next
  <2>3. CASE At(r) \notin Listed
    <3>1. /\ head' = [head EXCEPT ![r] = "answered"]
          /\ told' = [told EXCEPT ![r] = "refused"]
      BY <1>1, <2>3 DEF Submit, Answered
    <3>2. Effects[r] = "none" /\ Effects' = [Effects EXCEPT ![r] = "never"]
      BY <2>1, <3>1
    <3>3. Promise!Reject(r)
      BY <2>1, <3>1, <3>2 DEF Promise!Reject
    <3> QED BY <3>3 DEF Promise!Next
  <2> QED BY <2>2, <2>3
<1>2. ASSUME NEW r \in Requests, Unreachable(r) PROVE Promise!Next
  <2>1. /\ head[r] = "sending" /\ minion[r] = "none" /\ told[r] = "none"
        /\ head' = [head EXCEPT ![r] = "answered"]
        /\ told' = [told EXCEPT ![r] = "unsure"]
        /\ UNCHANGED <<file, call, minion>>
    BY <1>2 DEF Unreachable, Answered
  <2>2. Effects[r] = "open" /\ Effects' = [Effects EXCEPT ![r] = "never"]
    BY <2>1
  <2>3. Promise!Drop({r}, {r})
    BY <2>1, <2>2 DEF Promise!Drop
  <2> QED BY <2>3 DEF Promise!Next
<1>3. ASSUME NEW r \in Requests, Send(r) PROVE UNCHANGED Visible
  BY <1>3 DEF Send, pages, Visible
<1>4. ASSUME NEW r \in Requests, TimeOut(r) PROVE Promise!Next
  <2>1. /\ head[r] = "waiting" /\ minion[r] # "none" /\ told[r] = "none"
        /\ head' = [head EXCEPT ![r] = "answered"]
        /\ told' = [told EXCEPT ![r] = "unsure"]
        /\ UNCHANGED <<file, call, minion>>
    BY <1>4 DEF TimeOut, Answered
  <2>2. UNCHANGED Effects /\ Effects[r] # "none"
    BY <2>1
  <2>3. Promise!Drop({}, {r})
    BY <2>1, <2>2 DEF Promise!Drop
  <2> QED BY <2>3 DEF Promise!Next
<1>5. ASSUME NEW r \in Requests, Answer(r) PROVE Promise!Next
  <2>1. /\ Outcome["saved"] = "saved" /\ Outcome["refused"] = "refused"
        /\ Outcome["failed"] = "unsure" /\ Outcome["late"] = "unsure"
        /\ DOMAIN Outcome = {"saved", "refused", "failed", "late"}
    BY DEF Outcome
  <2>2. /\ UNCHANGED <<file, call, Effects>>
        /\ told[r] = "none" /\ told' = [told EXCEPT ![r] = Outcome[minion[r]]]
    BY <1>5, <2>1 DEF Answer, Answered, pages
  <2>3. CASE minion[r] \in {"saved", "refused"}
    <3>1. \/ Effects[r] = "done" /\ Outcome[minion[r]] = "saved"
          \/ Effects[r] = "never" /\ Outcome[minion[r]] = "refused"
      BY <2>1, <2>3
    <3>2. Promise!Tell(r)
      BY <2>2, <3>1 DEF Promise!Tell
    <3> QED BY <3>2 DEF Promise!Next
  <2>4. CASE minion[r] \in {"failed", "late"}
    <3>1. Outcome[minion[r]] = "unsure" /\ Effects[r] # "none"
      BY <1>5, <2>1, <2>4 DEF Answer
    <3>2. told' = [q \in Requests |-> IF q \in {r} THEN "unsure" ELSE told[q]]
      BY <2>2, <3>1
    <3>3. Effects' = [q \in Requests |-> IF q \in {} THEN "never" ELSE Effects[q]]
      BY <2>2
    <3>4. Promise!Drop({}, {r})
      BY <2>2, <3>1, <3>2, <3>3 DEF Promise!Drop
    <3> QED BY <3>4 DEF Promise!Next
  <2> QED BY <1>5, <2>1, <2>3, <2>4 DEF Answer
<1>6. ASSUME NEW r \in Requests, Save(r) PROVE Promise!Next
  <2> DEFINE h == call[r].host  c == call[r].do
  <2>1. IsSave(c) /\ h \in Hosts /\ At(r) = h
    BY RemoteAssumption DEF SaveCalls, IsSave, At
  <2>2. ValidCall(c) /\ Saves(file[h], c)
    BY <1>6, <2>1 DEF Save, Refuses
  <2>3. file' = [file EXCEPT ![h] = Doc(Edit(Load(file[h]), c))]
    BY <1>6, <2>1 DEF Save, Write
  <2>4. Promise!ValidCall(c) /\ Promise!Saves(file[h], c)
    BY <2>1, <2>2, SameDocuments
  <2>5. Promise!Doc(Promise!Edit(Promise!Load(file[h]), c))
            = Doc(Edit(Load(file[h]), c))
    BY <2>1, SameDocuments
  <2>6. file' = [file EXCEPT ![h] = Promise!Doc(Promise!Edit(Promise!Load(file[h]), c))]
    BY <2>3, <2>5
  <2>7. /\ Effects[r] = "open" /\ told[r] \in {"none", "unsure"}
        /\ Effects' = [Effects EXCEPT ![r] = "done"]
        /\ UNCHANGED <<call, told>>
    <3>1. /\ minion[r] = "queued" /\ UNCHANGED <<call, head, told>>
          /\ \E how \in {"saved", "late"} : minion' = [minion EXCEPT ![r] = how]
      BY <1>6 DEF Save, Handled
    <3>2. head[r] # "free" /\ told[r] \in {"none", "unsure"}
      BY <3>1
    <3>3. PICK how \in {"saved", "late"} : minion' = [minion EXCEPT ![r] = how]
      BY <3>1
    <3>4. Effects[r] = "open" /\ Effects' = [Effects EXCEPT ![r] = "done"]
      BY <3>1, <3>2, <3>3
    <3> QED BY <3>1, <3>2, <3>4
  <2>8. Promise!Happen(r)
    BY <2>4, <2>6, <2>7 DEF Promise!Happen
  <2> QED BY <2>8 DEF Promise!Next
<1>7. ASSUME NEW r \in Requests, Refuse(r) PROVE Promise!Next
  <2>1. /\ minion[r] = "queued" /\ UNCHANGED <<file, call, head, told>>
        /\ \E how \in {"refused", "failed"} : minion' = [minion EXCEPT ![r] = how]
    BY <1>7 DEF Refuse, Handled
  <2>2. /\ Effects[r] = "open"
        /\ Effects' = [q \in Requests |-> IF q \in {r} THEN "never" ELSE Effects[q]]
    BY <2>1
  <2>3. Promise!Drop({r}, {})
    BY <2>1, <2>2 DEF Promise!Drop
  <2> QED BY <2>3 DEF Promise!Next
<1>8. ASSUME NEW h \in Hosts, MinionRestart(h) PROVE Promise!Next
  <2> DEFINE here == {r \in Requests : At(r) = h}
             queued == {r \in here : minion[r] = "queued"}
             waiting == {r \in here : head[r] = "waiting"}
  <2>1. PICK R \in SUBSET Requests, T \in SUBSET Requests :
           R = queued /\ T = waiting
    OBVIOUS
  <2>2. Promise!Drop(R, T)
    BY <1>8, <2>1 DEF MinionRestart, pages, Promise!Drop
  <2> QED BY <2>2 DEF Promise!Next
<1>9. ASSUME NEW h \in Hosts, HandEdit(h) PROVE Promise!Next
  <2>1. Promise!HandEdit(h)
    BY <1>9 DEF HandEdit, Write, requests, pages, Promise!HandEdit
  <2> QED BY <2>1 DEF Promise!Next
<1>10. CASE HeadRestart
  <2> DEFINE sending == {r \in Requests : head[r] = "sending"}
             open == {r \in Requests : head[r] \in {"sending", "waiting"}}
  <2>1. PICK R \in SUBSET Requests, T \in SUBSET Requests :
           R = sending /\ T = open
    OBVIOUS
  <2>2. Promise!Drop(R, T)
    BY <1>10, <2>1 DEF HeadRestart, Promise!Drop
  <2> QED BY <2>2 DEF Promise!Next
<1>11. CASE (\E h \in Listed : PageStep(h)) \/ AskPage \/ ShowPage \/ UNCHANGED vars
  <2>1. UNCHANGED <<file, requests>>
    BY <1>11 DEF PageStep, AskHost, ReadHost, HostFails, HostConfuses, AskPage,
            ShowPage, vars
  <2> QED BY <2>1 DEF Visible, requests
<1> QED
  BY <1>1, <1>2, <1>3, <1>4, <1>5, <1>6, <1>7, <1>8, <1>9, <1>10, <1>11
     DEF Next, HeadStep, MinionStep

(* Users are told "saved" only of what happened and "refused" only of what *)
(* will never happen, and a call happens at most once.                     *)
THEOREM PromiseKept == Spec => KeepsPromise
<1>1. Init => Promise!Init
  BY RemoteAssumption DEF Init, Promise!Init, Promise!Contents, Contents,
     Promise!Services, Services, Effect
<1>2. RemoteInv /\ [Next]_vars => [Promise!Next]_Visible
  BY PromiseStep
<1>3. RemoteInv /\ [Next]_vars => [Promise!Next]_(Promise!vars)
  BY <1>2 DEF Visible, Effects, Promise!vars
<1> QED
  BY <1>1, <1>3, RemoteInit, RemoteStep, PTL DEF Spec, KeepsPromise, Promise!Spec

-----------------------------------------------------------------------------
(* The page.  While it is being asked for, "seen" holds what each file has *)
(* held so far, what it holds now included.                                *)
RowsInv ==
    /\ file = [h \in Hosts |-> file[h]]
    /\ rows = [h \in Listed |-> rows[h]]
    /\ shown = [h \in Listed |-> shown[h]]
    /\ seen = [h \in Hosts |-> seen[h]]
    /\ page = "asking" => \A h \in Hosts : file[h] \in seen[h]
    /\ page # "idle" => \A h \in Listed : rows[h] = "read" => shown[h] \in seen[h]

LEMMA RowsInit == Init => RowsInv
  BY DEF Init, RowsInv

LEMMA RowsStep == RowsInv /\ [Next]_vars => RowsInv'
<1> SUFFICES ASSUME RowsInv, [Next]_vars PROVE RowsInv'
  OBVIOUS
<1> USE RemoteAssumption DEF RowsInv, SetRow, pages
<1>1. ASSUME NEW r \in Requests, Save(r) PROVE RowsInv'
  BY <1>1 DEF Save, Write
<1>2. ASSUME NEW h \in Hosts, HandEdit(h) PROVE RowsInv'
  <2>1. UNCHANGED <<page, rows, shown>>
    BY <1>2 DEF HandEdit
  <2>2. PICK f \in HandFiles : Write(h, f)
    BY <1>2 DEF HandEdit
  <2> QED BY <2>1, <2>2 DEF Write
<1>3. CASE HeadRestart
  BY <1>3 DEF HeadRestart
<1>4. CASE AskPage
  BY <1>4 DEF AskPage
<1>5. ASSUME NEW h \in Listed, PageStep(h) PROVE RowsInv'
  BY <1>5 DEF PageStep, AskHost, ReadHost, HostFails, HostConfuses
<1>6. CASE ShowPage
  BY <1>6 DEF ShowPage
<1>7. CASE UNCHANGED <<file, page, rows, shown, seen>>
  BY <1>7
<1> QED
  BY <1>1, <1>2, <1>3, <1>4, <1>5, <1>6, <1>7
     DEF Next, HeadStep, MinionStep, Submit, Unreachable, Send, TimeOut, Answer,
         Refuse, MinionRestart, vars

(* A row that is shown is what the file of its host held after the page    *)
(* was asked for, never something older.                                   *)
THEOREM RowsAreCurrent == Spec => []RowsCurrent
<1>1. RowsInv => RowsCurrent
  BY DEF RowsInv, RowsCurrent
<1> QED
  BY <1>1, RowsInit, RowsStep, PTL DEF Spec
-----------------------------------------------------------------------------
(* Types.  What a save leaves is a document, and no more hosts are asked   *)
(* at a time than there are threads.                                       *)

LEMMA SavedDocument ==
    ASSUME NEW s \in Seq(Services), NEW c \in SaveCalls, CanEdit(s, c)
    PROVE  Edit(s, c) \in Seq(Services)
<1>1. \A n \in NamesOf(s) : Position(s, n) \in 1..Len(s)
  BY DEF NamesOf, Position
<1>2. CASE c.op = "delete"
  <2> DEFINE i == Position(s, c.name)
  <2>1. i \in 1..Len(s)
    BY <1>1, <1>2 DEF CanEdit, IsManagedIn
  <2> HIDE DEF i
  <2>2. SubSeq(s, 1, i - 1) \in Seq(Services)
    BY <2>1, SubSeqProperties
  <2>3. SubSeq(s, i + 1, Len(s)) \in Seq(Services)
    BY <2>1, SubSeqProperties
  <2>4. SubSeq(s, 1, i - 1) \o SubSeq(s, i + 1, Len(s)) \in Seq(Services)
    BY <2>2, <2>3, ConcatProperties
  <2> QED BY <1>2, <2>4 DEF Edit, RemoveAt, i
<1>3. CASE c.op \in {"create", "update"}
  <2>1. StandardService(c.value) \in Services
    BY <1>3 DEF SaveCalls, Inputs, StandardService, Services
  <2>2. c.op = "update" => Position(s, c.name) \in 1..Len(s)
    BY <1>1 DEF CanEdit, IsManagedIn
  <2> QED BY <1>3, <2>1, <2>2 DEF Edit
<1> QED
  BY <1>2, <1>3 DEF SaveCalls

PageInv ==
    /\ page \in {"idle", "asking", "shown", "failed"}
    /\ rows \in [Listed -> {"unread", "asked", "read", "unavailable",
                             "nonsense", "endless"}]
    /\ IsFiniteSet(Busy) /\ Cardinality(Busy) <= Pool

LEMMA PageInit == Init => PageInv
<1> SUFFICES ASSUME Init PROVE PageInv
  OBVIOUS
<1>1. Busy = {}
  BY DEF Init, Busy
<1> QED
  BY <1>1, FS_EmptySet, RemoteAssumption DEF Init, PageInv

LEMMA PageKept == PageInv /\ [Next]_vars => PageInv'
<1> SUFFICES ASSUME PageInv, [Next]_vars PROVE PageInv'
  OBVIOUS
<1> USE DEF PageInv
<1>1. CASE HeadRestart \/ AskPage
  <2>1. /\ page' \in {"idle", "asking"}
        /\ rows' = [h \in Listed |-> "unread"]
    BY <1>1 DEF HeadRestart, AskPage
  <2>2. Busy' = {}
    BY <2>1 DEF Busy
  <2> QED BY <2>1, <2>2, FS_EmptySet, RemoteAssumption
<1>2. ASSUME NEW h \in Listed, AskHost(h) PROVE PageInv'
  <2>1. /\ page' = page /\ rows' = [rows EXCEPT ![h] = "asked"]
        /\ rows[h] = "unread" /\ Cardinality(Busy) < Pool
    BY <1>2 DEF AskHost, SetRow, Busy
  <2>2. Busy' = Busy \cup {h}
    BY <2>1 DEF Busy
  <2>3. /\ IsFiniteSet(Busy \cup {h}) /\ h \notin Busy
        /\ Cardinality(Busy \cup {h}) = Cardinality(Busy) + 1
    BY <2>1, FS_AddElement DEF Busy
  <2> QED
    BY <2>1, <2>2, <2>3, FS_CardinalityType, RemoteAssumption
<1>3. ASSUME NEW h \in Listed, ReadHost(h) \/ HostFails(h) \/ HostConfuses(h)
      PROVE  PageInv'
  <2>1. /\ page' = page /\ rows[h] = "asked"
        /\ \E to \in {"read", "unavailable", "nonsense", "endless"} :
              rows' = [rows EXCEPT ![h] = to]
    BY <1>3 DEF ReadHost, HostFails, HostConfuses, SetRow
  <2>2. Busy' \subseteq Busy
    BY <2>1 DEF Busy
  <2>3. IsFiniteSet(Busy') /\ Cardinality(Busy') <= Cardinality(Busy)
    BY <2>2, FS_Subset
  <2> QED
    BY <2>1, <2>3, FS_CardinalityType, RemoteAssumption
<1>4. CASE ShowPage \/ UNCHANGED <<page, rows>>
  BY <1>4 DEF ShowPage, Busy
<1> QED
  BY <1>1, <1>2, <1>3, <1>4
     DEF Next, HeadStep, MinionStep, PageStep, Submit, Unreachable, Send,
         TimeOut, Answer, Save, Refuse, MinionRestart, HandEdit, pages, vars

FilesInv ==
    /\ file \in [Hosts -> Contents]
    /\ shown \in [Listed -> Contents]
    /\ seen \in [Hosts -> SUBSET Contents]

LEMMA FilesInit == Init => FilesInv
  BY RemoteAssumption DEF Init, FilesInv, Contents, NoFile

LEMMA FilesStep == RemoteInv /\ FilesInv /\ [Next]_vars => FilesInv'
<1> SUFFICES ASSUME RemoteInv, FilesInv, [Next]_vars PROVE FilesInv'
  OBVIOUS
<1> USE RemoteAssumption DEF FilesInv
<1>1. ASSUME NEW h \in Hosts, NEW f \in Contents, Write(h, f), shown' = shown
      PROVE  FilesInv'
  BY <1>1 DEF Write
<1>2. ASSUME NEW r \in Requests, Save(r) PROVE FilesInv'
  <2> DEFINE h == At(r)  c == call[r].do  s == Load(file[h])
  <2>1. h \in Hosts /\ c \in SaveCalls
    BY DEF RemoteInv, Domains, At
  <2>2. s \in Seq(Services)
    BY <2>1 DEF Contents, Load
  <2>3. CanEdit(s, c)
    BY <1>2 DEF Save, Refuses, Saves
  <2>4. Edit(s, c) \in Seq(Services)
    BY <2>1, <2>2, <2>3, SavedDocument
  <2>5. Doc(Edit(s, c)) \in Contents
    BY <2>4 DEF Doc, Contents
  <2>6. Write(h, Doc(Edit(s, c))) /\ shown' = shown
    BY <1>2 DEF Save, pages
  <2> HIDE DEF h, c, s
  <2> QED BY <1>1, <2>1, <2>5, <2>6
<1>3. ASSUME NEW h \in Hosts, HandEdit(h) PROVE FilesInv'
  BY <1>1, <1>3 DEF HandEdit, pages
<1>4. CASE HeadRestart
  BY <1>4 DEF HeadRestart, Contents, NoFile
<1>5. CASE AskPage
  BY <1>5 DEF AskPage
<1>6. ASSUME NEW h \in Listed, PageStep(h) PROVE FilesInv'
  BY <1>6 DEF PageStep, AskHost, ReadHost, HostFails, HostConfuses
<1>7. CASE UNCHANGED <<file, shown, seen>>
  BY <1>7
<1> QED
  BY <1>2, <1>3, <1>4, <1>5, <1>6, <1>7
     DEF Next, HeadStep, MinionStep, Submit, Unreachable, Send, TimeOut, Answer,
         Refuse, MinionRestart, ShowPage, pages, vars

(* Every variable keeps its type, a request is answered if and only if its *)
(* user was told something, the minion knows none that was not sent, and   *)
(* the page asks no more hosts at a time than it has threads.              *)
THEOREM RemoteTypeCorrect == Spec => []TypeOK
<1>1. RemoteInv /\ PageInv /\ FilesInv => TypeOK
  BY DEF RemoteInv, Domains, Agree, PageInv, Busy, FilesInv, TypeOK
<1> QED
  BY <1>1, RemoteInit, RemoteStep, PageInit, PageKept, FilesInit, FilesStep, PTL
     DEF Spec
=============================================================================
