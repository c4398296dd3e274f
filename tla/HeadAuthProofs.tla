--------------------------- MODULE HeadAuthProofs ---------------------------
(***************************************************************************)
(* Theorems about HeadAuth, for any number of requests, any passwords, any *)
(* file the head may start with, and any bounds.                           *)
(***************************************************************************)
EXTENDS HeadAuth, FiniteSetTheorems, TLAPS

-----------------------------------------------------------------------------
(* Types.                                                                  *)

(* What each handler prepares is a state.                                  *)
LEMMA SetupType ==
    ASSUME TypeOK, NEW r \in Requests, call[r].op = "setup"
    PROVE  [password |-> call[r].password, sessions |-> {NewSession}] \in State
<1> USE AuthAssumption
<1>1. NewSession \in Session
  BY DEF TypeOK, NewSession, Session
<1>2. call[r].password \in Passwords
  BY DEF TypeOK, Calls, NoCall
<1> QED
  BY <1>1, <1>2 DEF State

LEMMA ChangeType ==
    ASSUME TypeOK, NEW r \in Requests, call[r].op = "change"
    PROVE  [password |-> call[r].new, sessions |-> {NewSession}] \in State
<1> USE AuthAssumption
<1>1. NewSession \in Session
  BY DEF TypeOK, NewSession, Session
<1>2. call[r].new \in Passwords
  BY DEF TypeOK, Calls, NoCall
<1> QED
  BY <1>1, <1>2 DEF State

(* A file that is neither absent nor invalid holds a state.                *)
LEMMA StoredState ==
    ASSUME NEW f \in Files, f.kind = "stored"
    PROVE  f.state \in State
BY DEF Files, Absent, Corrupt

LEMMA LoginType ==
    ASSUME TypeOK, file.kind = "stored"
    PROVE  [file.state EXCEPT !.sessions =
                LastKept(Active(@)) \cup {NewSession}] \in State
<1> USE AuthAssumption
<1>1. NewSession \in Session
  BY DEF TypeOK, NewSession, Session
<1>2. file.state \in State
  BY StoredState DEF TypeOK
<1>3. LastKept(Active(file.state.sessions)) \subseteq Session
  BY <1>2 DEF LastKept, Active, State
<1> QED
  BY <1>1, <1>2, <1>3 DEF State

LEMMA LogoutType ==
    ASSUME TypeOK, NEW r \in Requests, file.kind = "stored"
    PROVE  [file.state EXCEPT !.sessions =
                {s \in Active(@) : s.token # call[r].cookie}] \in State
<1>1. file.state \in State
  BY StoredState DEF TypeOK
<1>2. {s \in Active(file.state.sessions) : s.token # call[r].cookie}
        \subseteq Session
  BY <1>1 DEF Active, State
<1> QED
  BY <1>1, <1>2 DEF State

(* Files have one of three kinds.                                          *)
LEMMA Kinds ==
    /\ Absent \in Files /\ Corrupt \in Files
    /\ Absent.kind = "absent" /\ Corrupt.kind = "corrupt"
    /\ \A f \in Files : \/ f = Absent
                        \/ f = Corrupt
                        \/ f.kind = "stored"
    /\ \A s \in State : Stored(s) \in Files /\ Stored(s).kind = "stored"
                        /\ Stored(s).state = s
BY DEF Files, Absent, Corrupt, Stored

(* A request that was not refused and is no setup found a state.           *)
LEMMA FoundState ==
    ASSUME TypeOK, NEW r \in Requests, ~Refused(r),
           call[r].op \in {"login", "change", "logout"}
    PROVE  file.kind = "stored"
BY Kinds DEF TypeOK, Refused, Verifies

(* What preparing does to the types.                                       *)
LEMMA PrepareType ==
    ASSUME TypeOK, NEW r \in Requests, NEW op, NEW state \in State,
           NEW tokens \in Nat, Prepare(r, op, state, tokens)
    PROVE  TypeOK'
<1>1. Stored(state) \in Files
  BY Kinds
<1> QED
  BY <1>1 DEF TypeOK, Prepare, At, Goto, InStore, environment

(* Finishing is the same whatever the handler did.                         *)
LEMMA FinishType ==
    ASSUME TypeOK, NEW r \in Requests, Finish(r), loop \subseteq {r}
    PROVE  /\ pc' \in [Requests -> {"idle", "handle"} \cup InStore]
           /\ loop' \in {{}} \cup {{q} : q \in Requests}
           /\ \A q \in Requests : q \in loop' <=> pc'[q] \in InStore
           /\ call' \in [Requests -> Calls \cup {NoCall}]
           /\ open' \in [Requests -> BOOLEAN]
           /\ draft' \in [Requests -> Files]
BY Kinds DEF TypeOK, Finish, Goto, InStore

(* The request inside the store is the only one there.                     *)
LEMMA Alone ==
    ASSUME TypeOK, NEW r \in Requests, pc[r] \in InStore
    PROVE  loop = {r} /\ \A q \in Requests \ {r} : pc[q] \notin InStore
BY DEF TypeOK

LEMMA TypeStep == TypeOK /\ [Next]_vars => TypeOK'
<1> SUFFICES ASSUME TypeOK, [Next]_vars PROVE TypeOK'
  OBVIOUS
<1> USE AuthAssumption
<1>1. ASSUME NEW r \in Requests, NEW c \in Calls, NEW cookie \in 0..issued,
             Check(r, c, cookie)
      PROVE  TypeOK'
  BY <1>1 DEF TypeOK, Check, At, Goto, InStore, environment
<1>2. ASSUME NEW r \in Requests, Redirect(r) \/ Refuse(r)
      PROVE  TypeOK'
  <2>1. call[r].cookie \in Nat
    BY DEF TypeOK, Calls, NoCall
  <2> QED
    BY <1>2, <2>1, FinishType DEF TypeOK, Redirect, Refuse, environment
<1>3. ASSUME NEW r \in Requests, Setup(r)
      PROVE  TypeOK'
  <2>1. call[r].op = "setup"
    BY <1>3 DEF Setup, Prepare
  <2> QED
    BY <1>3, <2>1, SetupType, PrepareType DEF Setup
<1>4. ASSUME NEW r \in Requests, Login(r)
      PROVE  TypeOK'
  <2>1. call[r].op = "login" /\ ~Refused(r)
    BY <1>4 DEF Login, Prepare
  <2> QED
    BY <1>4, <2>1, FoundState, LoginType, PrepareType DEF Login
<1>5. ASSUME NEW r \in Requests, ChangePassword(r)
      PROVE  TypeOK'
  <2>1. call[r].op = "change"
    BY <1>5 DEF ChangePassword, Prepare
  <2> QED
    BY <1>5, <2>1, ChangeType, PrepareType DEF ChangePassword
<1>6. ASSUME NEW r \in Requests, Logout(r)
      PROVE  TypeOK'
  <2>1. call[r].op = "logout" /\ ~Refused(r)
    BY <1>6 DEF Logout, Prepare
  <2> QED
    BY <1>6, <2>1, FoundState, LogoutType, PrepareType DEF Logout
<1>7. ASSUME NEW r \in Requests, Disable(r)
      PROVE  TypeOK'
  BY <1>7 DEF TypeOK, Disable, At, Goto, InStore, environment
<1>8. ASSUME NEW r \in Requests, Replace(r) \/ Unlink(r)
      PROVE  TypeOK'
  BY <1>8, Kinds DEF TypeOK, Replace, Unlink, At, Goto, InStore, environment
<1>9. ASSUME NEW r \in Requests, Answer(r)
      PROVE  TypeOK'
  <2>1. loop = {r}
    BY <1>9, Alone DEF Answer, At, InStore
  <2>2. Revokes(call[r]) \subseteq Nat
    BY DEF TypeOK, Calls, NoCall, Revokes
  <2> QED
    BY <1>9, <2>1, <2>2, FinishType DEF TypeOK, Answer, Lapse
<1>10. CASE Tick \/ RemoveFile
  BY <1>10, Kinds DEF TypeOK, Tick, RemoveFile
<1>11. CASE Crash
  BY <1>11, Kinds DEF TypeOK, Crash, InStore
<1>12. CASE UNCHANGED vars
  BY <1>12 DEF TypeOK, vars
<1>13. ASSUME NEW r \in Requests, Raise(r)
       PROVE  TypeOK'
  <2>1. loop = {r}
    BY <1>13, Alone DEF Raise, At, InStore
  <2> QED
    BY <1>13, <2>1, FinishType DEF TypeOK, Raise, Lapse
<1> QED
  BY <1>1, <1>2, <1>3, <1>4, <1>5, <1>6, <1>7, <1>8, <1>9, <1>10, <1>11, <1>12,
     <1>13 DEF Next, Step

LEMMA TypeInit == Init => TypeOK
BY AuthAssumption, Kinds DEF Init, TypeOK, InStore

(* Every variable keeps its type, and the event loop is held by the one    *)
(* request that is inside the store.                                       *)
THEOREM AuthTypeCorrect == Spec => []TypeOK
BY TypeInit, TypeStep, PTL DEF Spec

-----------------------------------------------------------------------------
(* What is on the disk.                                                    *)

(* Only between the change of the name and the fsync may a power loss      *)
(* leave another content.                                                  *)
OnDisk ==
    Synced /\ (\A r \in Requests : ~At(r, "sync")) => survivors = {file}

LEMMA DurableStep == TypeOK /\ OnDisk /\ [Next]_vars => OnDisk'
<1> SUFFICES ASSUME TypeOK, OnDisk, [Next]_vars PROVE OnDisk'
  OBVIOUS
<1> USE DEF OnDisk, Synced, At
<1>1. ASSUME NEW r \in Requests, NEW c \in Calls, NEW cookie \in 0..issued,
             Check(r, c, cookie)
      PROVE  OnDisk'
  BY <1>1 DEF TypeOK, Check, Goto, environment
<1>2. ASSUME NEW r \in Requests, Redirect(r) \/ Refuse(r)
      PROVE  OnDisk'
  BY <1>2 DEF TypeOK, Redirect, Refuse, Finish, Goto, environment
<1>3. ASSUME NEW r \in Requests,
             \/ Setup(r) \/ Login(r) \/ ChangePassword(r) \/ Logout(r)
             \/ Disable(r)
      PROVE  OnDisk'
  BY <1>3 DEF TypeOK, Setup, Login, ChangePassword, Logout, Disable, Prepare,
              Goto, environment
<1>4. ASSUME NEW r \in Requests, Replace(r) \/ Unlink(r)
      PROVE  OnDisk'
  <2>1. pc'[r] = "sync"
    BY <1>4 DEF TypeOK, Replace, Unlink, Goto
  <2> QED
    BY <2>1
<1>5. ASSUME NEW r \in Requests, Answer(r)
      PROVE  OnDisk'
  BY <1>5 DEF TypeOK, Answer, Lapse
<1>6. CASE Tick \/ UNCHANGED vars
  BY <1>6 DEF Tick, vars
<1>7. CASE RemoveFile
  BY <1>7 DEF TypeOK, RemoveFile
<1>8. CASE Crash
  BY <1>8 DEF Crash
<1>9. ASSUME NEW r \in Requests, Raise(r)
      PROVE  OnDisk'
  <2>1. CASE pc[r] \in {"replace", "unlink"} /\ UNCHANGED lapses
    <3>1. \A q \in Requests : pc[q] # "sync"
      BY <2>1, Alone DEF InStore
    <3> QED
      BY <1>9, <2>1, <3>1 DEF Raise
  <2>2. CASE Lapse
    BY <2>2 DEF TypeOK, Lapse
  <2> QED
    BY <1>9, <2>1, <2>2 DEF Raise
<1> QED
  BY <1>1, <1>2, <1>3, <1>4, <1>5, <1>6, <1>7, <1>8, <1>9 DEF Next, Step

(* Between two store operations a power loss changes nothing, as long as   *)
(* the directory could be synced each time and nobody removed the file     *)
(* from a shell: os.replace and unlink are followed by the fsync of the    *)
(* directory before the answer, whatever else fails.                       *)
THEOREM AnswersAreDurable == Spec => []Durable
<1>1. Init => OnDisk
  BY DEF Init, OnDisk
<1>2. TypeOK /\ OnDisk => Durable
  BY DEF TypeOK, OnDisk, Durable, At, InStore
<1> QED
  BY <1>1, <1>2, TypeInit, TypeStep, DurableStep, PTL DEF Spec

-----------------------------------------------------------------------------
(* The inductive invariant of the other theorems.                          *)

(* Every session of a file has a token that was handed out.                *)
Issued(f) ==
    f.kind = "stored" => \A s \in f.state.sessions : s.token <= issued

(* None was revoked since.                                                 *)
Current(f) ==
    f.kind = "stored" => \A s \in f.state.sessions : s.token \notin revoked

(* No power loss has brought back what an answer had replaced.             *)
Faithful == crashes = 0 \/ Synced

(* None of a file's sessions is one that r is about to declare ended.      *)
Spares(f, r) ==
    f.kind = "stored" =>
        \A s \in f.state.sessions : s.token \notin Revokes(call[r])

(* What a request about to write has in hand.                              *)
DraftReady(r) ==
    At(r, "replace") =>
        /\ draft[r].kind = "stored"
        /\ Issued(draft[r]) /\ Spares(draft[r], r)
        /\ Faithful => Current(draft[r])
        /\ call[r].op \in {"setup", "login", "change", "logout"}

(* A request that writes over a password knows it, or writes it back.      *)
DraftHolds(r) ==
    At(r, "replace") /\ file.kind = "stored" =>
        \/ draft[r].state.password = file.state.password
        \/ call[r].op = "change" /\ call[r].password = file.state.password

TokensIssued ==
    /\ revoked \subseteq 1..issued
    /\ \A r \in Requests : call[r].cookie <= issued

(* The file is one of the contents the disk may hold, and current until a  *)
(* power loss has brought back one that is not.                            *)
AllCurrent ==
    /\ file \in survivors
    /\ \A f \in survivors : Issued(f)
    /\ Faithful => Current(file)
    /\ Synced => \A f \in survivors : Current(f)

Drafts == \A r \in Requests : DraftReady(r) /\ DraftHolds(r)

AboutToAnswer ==
    \A r \in Requests :
        /\ pc[r] \in InStore => Revokes(call[r]) \subseteq 1..issued
        /\ At(r, "unlink") => call[r].op = "disable"
        /\ At(r, "sync") => Spares(file, r)

IInv ==
    TypeOK /\ OnDisk /\ TokensIssued /\ AllCurrent /\ Drafts /\ AboutToAnswer

(* The tokens of a file are numbers, so a token more makes none too large. *)
LEMMA SessionTokens ==
    ASSUME NEW f \in Files, f.kind = "stored", NEW s \in f.state.sessions
    PROVE  s.token \in Nat \ {0}
BY StoredState DEF State, Session

LEMMA IssuedStays ==
    ASSUME NEW f \in Files, Issued(f), issued \in Nat, issued' \in Nat,
           issued <= issued'
    PROVE  Issued(f)'
BY SessionTokens DEF Issued

(* What Finish leaves of the invariant: r has nothing in hand.             *)
LEMMA FinishStep ==
    ASSUME IInv, NEW r \in Requests, Finish(r), issued' = issued,
           loop \subseteq {r}
    PROVE  /\ \A q \in Requests : pc'[q] \notin InStore
           /\ \A q \in Requests : call'[q].cookie <= issued
<1>1. \A q \in Requests : pc'[q] \notin InStore
  BY DEF IInv, TypeOK, Finish, Goto, InStore
<1>2. \A q \in Requests : call'[q].cookie <= issued
  <2>1. NoCall.cookie <= issued
    BY DEF NoCall, IInv, TypeOK
  <2> QED
    BY <2>1 DEF IInv, TypeOK, TokensIssued, Finish
<1> QED
  BY <1>1, <1>2

(* What a handler must prepare for the invariant to hold.                  *)
LEMMA PrepareStep ==
    ASSUME IInv, NEW r \in Requests, NEW op, NEW state \in State,
           NEW tokens \in Nat, Prepare(r, op, state, tokens),
           op \in {"setup", "login", "change", "logout"},
           Revokes(call[r])' \subseteq 1..issued + tokens,
           \A s \in state.sessions :
               /\ s.token <= issued + tokens
               /\ s.token \notin Revokes(call[r])'
               /\ Faithful => s.token \notin revoked,
           file.kind = "stored" =>
               \/ state.password = file.state.password
               \/ op = "change" /\ call[r].password = file.state.password
    PROVE  TokensIssued' /\ AllCurrent' /\ Drafts' /\ AboutToAnswer'
<1>1. /\ issued \in Nat /\ issued' = issued + tokens
      /\ revoked' = revoked /\ file' = file /\ survivors' = survivors
      /\ call' = call /\ call[r].op = op
      /\ pc'[r] = "replace" /\ draft'[r] = Stored(state)
      /\ Faithful' = Faithful /\ Synced' = Synced
      /\ \A q \in Requests \ {r} : pc'[q] \notin InStore
  BY DEF IInv, TypeOK, Prepare, Goto, At, InStore, environment, Faithful, Synced
<1>2. TokensIssued'
  <2>1. \A q \in Requests : call[q].cookie \in Nat
    BY DEF IInv, TypeOK, Calls, NoCall
  <2> QED
    BY <1>1, <2>1, AuthAssumption DEF IInv, TokensIssued
<1>3. AllCurrent'
  <2>1. survivors \subseteq Files
    BY DEF IInv, TypeOK
  <2> QED
    BY <1>1, <2>1, IssuedStays DEF IInv, AllCurrent, Current
<1>4. draft'[r].kind = "stored" /\ draft'[r].state = state
  BY <1>1, Kinds
<1>5. Drafts'
  <2>1. ASSUME NEW q \in Requests \ {r}
        PROVE  DraftReady(q)' /\ DraftHolds(q)'
    BY <1>1, <2>1 DEF DraftReady, DraftHolds, At, InStore
  <2>2. DraftReady(r)'
    BY <1>1, <1>4 DEF DraftReady, Issued, Current, Spares
  <2>3. DraftHolds(r)'
    BY <1>1, <1>4 DEF DraftHolds
  <2> QED
    BY <2>1, <2>2, <2>3 DEF Drafts
<1>6. AboutToAnswer'
  BY <1>1 DEF AboutToAnswer, At, InStore
<1> QED
  BY <1>2, <1>3, <1>5, <1>6

(* What each answer declares ended.                                        *)
LEMMA RevokesBy ==
    ASSUME NEW c
    PROVE  /\ c.op \in {"setup", "login"} => Revokes(c) = {}
           /\ c.op = "logout" => Revokes(c) = {c.cookie}
           /\ c.op = "change" => Revokes(c) = 1..issued - 1
           /\ c.op = "disable" => Revokes(c) = 1..issued
BY DEF Revokes

(* A session that is new is in no file and was never declared ended.       *)
LEMMA NewToken ==
    ASSUME IInv
    PROVE  /\ NewSession.token = issued + 1 /\ NewSession.token \in Nat
           /\ NewSession.token \notin revoked
BY DEF IInv, TypeOK, TokensIssued, NewSession

LEMMA SetupStep ==
    ASSUME IInv, NEW r \in Requests, Setup(r)
    PROVE  TokensIssued' /\ AllCurrent' /\ Drafts' /\ AboutToAnswer'
<1> DEFINE state == [password |-> call[r].password, sessions |-> {NewSession}]
<1>1. call[r].op = "setup" /\ call' = call /\ ~Refused(r)
  BY DEF Setup, Prepare
<1>2. Revokes(call[r])' = {}
  BY <1>1 DEF Revokes
<1>3. file.kind # "stored"
  BY <1>1, Kinds DEF Refused
<1>4. state \in State
  BY <1>1, SetupType DEF IInv
<1>5. \A s \in state.sessions :
        s.token <= issued + 1 /\ s.token \notin revoked
  BY NewToken DEF IInv, TypeOK
<1>6. Prepare(r, "setup", state, 1)
  BY DEF Setup
<1> HIDE DEF state
<1> QED
  BY <1>2, <1>3, <1>4, <1>5, <1>6, PrepareStep

LEMMA LoginStep ==
    ASSUME IInv, NEW r \in Requests, Login(r)
    PROVE  TokensIssued' /\ AllCurrent' /\ Drafts' /\ AboutToAnswer'
<1> DEFINE state == [file.state EXCEPT !.sessions =
                        LastKept(Active(@)) \cup {NewSession}]
<1>1. call[r].op = "login" /\ call' = call /\ ~Refused(r)
  BY DEF Login, Prepare
<1>2. Revokes(call[r])' = {}
  BY <1>1 DEF Revokes
<1>3. file.kind = "stored" /\ file \in Files /\ file.state \in State
  BY <1>1, FoundState, StoredState DEF IInv, TypeOK
<1>4. state \in State
  BY <1>3, LoginType DEF IInv
<1>5. state.password = file.state.password
  BY <1>3 DEF State
<1>6. state.sessions \subseteq file.state.sessions \cup {NewSession}
  BY <1>3 DEF State, LastKept, Active
<1>7. \A s \in state.sessions :
        s.token <= issued + 1 /\ (Faithful => s.token \notin revoked)
  <2>1. \A s \in file.state.sessions :
          s.token \in Nat /\ s.token <= issued /\ (Faithful => s.token \notin revoked)
    BY <1>3, SessionTokens DEF IInv, AllCurrent, Issued, Current
  <2> HIDE DEF state
  <2> QED
    BY <1>6, <2>1, NewToken DEF IInv, TypeOK
<1>8. Prepare(r, "login", state, 1)
  BY DEF Login
<1> HIDE DEF state
<1> QED
  BY <1>2, <1>4, <1>5, <1>7, <1>8, PrepareStep

LEMMA ChangeStep ==
    ASSUME IInv, NEW r \in Requests, ChangePassword(r)
    PROVE  TokensIssued' /\ AllCurrent' /\ Drafts' /\ AboutToAnswer'
<1> DEFINE state == [password |-> call[r].new, sessions |-> {NewSession}]
<1>1. /\ call[r].op = "change" /\ call' = call /\ ~Refused(r)
      /\ issued' = issued + 1 /\ issued \in Nat
  BY DEF ChangePassword, Prepare, IInv, TypeOK
<1>2. Revokes(call[r])' = 1..issued
  BY <1>1 DEF Revokes
<1>3. call[r].password = file.state.password
  BY <1>1 DEF Refused, Verifies
<1>4. state \in State
  BY <1>1, ChangeType DEF IInv
<1>5. \A s \in state.sessions :
        /\ s.token <= issued + 1
        /\ s.token \notin revoked /\ s.token \notin 1..issued
  BY <1>1, NewToken
<1>6. Prepare(r, "change", state, 1)
  BY DEF ChangePassword
<1> HIDE DEF state
<1> QED
  BY <1>1, <1>2, <1>3, <1>4, <1>5, <1>6, PrepareStep

LEMMA LogoutStep ==
    ASSUME IInv, NEW r \in Requests, Logout(r)
    PROVE  TokensIssued' /\ AllCurrent' /\ Drafts' /\ AboutToAnswer'
<1> DEFINE state == [file.state EXCEPT !.sessions =
                        {s \in Active(@) : s.token # call[r].cookie}]
<1>1. call[r].op = "logout" /\ call' = call /\ ~Refused(r)
  BY DEF Logout, Prepare
<1>2. call[r].cookie \in 1..issued
  <2>1. call[r].cookie \in Nat /\ call[r].cookie # 0
    BY <1>1 DEF IInv, TypeOK, Calls, NoCall, Refused
  <2> QED
    BY <2>1 DEF IInv, TypeOK, TokensIssued
<1>3. Revokes(call[r])' = {call[r].cookie}
  BY <1>1 DEF Revokes
<1>4. file.kind = "stored" /\ file \in Files /\ file.state \in State
  BY <1>1, FoundState, StoredState DEF IInv, TypeOK
<1>5. state \in State
  BY <1>4, LogoutType DEF IInv
<1>6. state.password = file.state.password
  BY <1>4 DEF State
<1>7. \A s \in state.sessions :
        s \in file.state.sessions /\ s.token # call[r].cookie
  BY <1>4 DEF State, Active
<1>8. \A s \in state.sessions :
        /\ s.token <= issued + 0
        /\ s.token # call[r].cookie /\ (Faithful => s.token \notin revoked)
  <2>1. \A s \in file.state.sessions :
          s.token \in Nat /\ s.token <= issued /\ (Faithful => s.token \notin revoked)
    BY <1>4, SessionTokens DEF IInv, AllCurrent, Issued, Current
  <2> HIDE DEF state
  <2> QED
    BY <1>7, <2>1 DEF IInv, TypeOK
<1>9. {call[r].cookie} \subseteq 1..issued + 0
  BY <1>2 DEF IInv, TypeOK
<1>10. Prepare(r, "logout", state, 0)
  BY DEF Logout
<1> HIDE DEF state
<1> QED
  BY <1>3, <1>5, <1>6, <1>8, <1>9, <1>10, PrepareStep

(* The file gets what the one request inside the store has in hand.        *)
LEMMA ReplaceStep ==
    ASSUME IInv, NEW r \in Requests, Replace(r)
    PROVE  TokensIssued' /\ AllCurrent' /\ Drafts' /\ AboutToAnswer'
<1>1. /\ issued' = issued /\ revoked' = revoked /\ call' = call
      /\ draft' = draft /\ file' = draft[r]
      /\ survivors' = survivors \cup {draft[r]}
      /\ pc[r] = "replace" /\ pc'[r] = "sync"
      /\ Faithful' = Faithful /\ Synced' = Synced /\ (Synced => Faithful)
      /\ \A q \in Requests \ {r} : pc'[q] \notin InStore
  BY Alone DEF IInv, TypeOK, Replace, At, Goto, InStore, environment, Faithful,
     Synced
<1>2. Issued(draft[r]) /\ Spares(draft[r], r) /\ (Faithful => Current(draft[r]))
  BY <1>1 DEF IInv, Drafts, DraftReady, At
<1>3. TokensIssued'
  BY <1>1 DEF IInv, TokensIssued
<1>4. AllCurrent'
  BY <1>1, <1>2 DEF IInv, AllCurrent, Issued, Current
<1>5. Drafts'
  BY <1>1 DEF Drafts, DraftReady, DraftHolds, At, InStore
<1>6. Revokes(call[r])' = Revokes(call[r])
  BY <1>1 DEF Revokes
<1>7. AboutToAnswer'
  <2>1. Revokes(call[r]) \subseteq 1..issued
    BY <1>1 DEF IInv, AboutToAnswer, InStore
  <2>2. Spares(file, r)'
    BY <1>1, <1>2, <1>6 DEF Spares
  <2> QED
    BY <1>1, <1>6, <2>1, <2>2 DEF AboutToAnswer, At, InStore
<1> QED
  BY <1>3, <1>4, <1>5, <1>7

(* The file goes away: there are fewer sessions, and none to spare.        *)
LEMMA UnlinkStep ==
    ASSUME IInv, NEW r \in Requests, Unlink(r)
    PROVE  TokensIssued' /\ AllCurrent' /\ Drafts' /\ AboutToAnswer'
<1>1. /\ issued' = issued /\ revoked' = revoked /\ call' = call
      /\ file' = Absent /\ survivors' = survivors \cup {Absent}
      /\ pc[r] = "unlink" /\ pc'[r] = "sync"
      /\ Faithful' = Faithful /\ Synced' = Synced
      /\ \A q \in Requests \ {r} : pc'[q] \notin InStore
  BY Alone DEF IInv, TypeOK, Unlink, At, Goto, InStore, environment, Faithful,
     Synced
<1>2. TokensIssued'
  BY <1>1 DEF IInv, TokensIssued
<1>3. AllCurrent'
  BY <1>1, Kinds DEF IInv, AllCurrent, Issued, Current
<1>4. Drafts'
  BY <1>1 DEF Drafts, DraftReady, DraftHolds, At, InStore
<1>5. AboutToAnswer'
  <2>1. Revokes(call[r])' = Revokes(call[r])
    BY <1>1 DEF Revokes
  <2>2. Revokes(call[r]) \subseteq 1..issued
    BY <1>1 DEF IInv, AboutToAnswer, InStore
  <2> QED
    BY <1>1, <2>1, <2>2, Kinds DEF AboutToAnswer, Spares, At, InStore
<1> QED
  BY <1>2, <1>3, <1>4, <1>5

(* What disable is about to revoke is every token handed out.              *)
LEMMA DisableStep ==
    ASSUME IInv, NEW r \in Requests, Disable(r)
    PROVE  TokensIssued' /\ AllCurrent' /\ Drafts' /\ AboutToAnswer'
<1>1. /\ issued' = issued /\ revoked' = revoked /\ call' = call
      /\ file' = file /\ survivors' = survivors
      /\ call[r].op = "disable" /\ pc'[r] = "unlink"
      /\ Faithful' = Faithful /\ Synced' = Synced
      /\ \A q \in Requests \ {r} : pc'[q] \notin InStore
  BY DEF IInv, TypeOK, Disable, At, Goto, InStore, environment, Faithful, Synced
<1>2. TokensIssued'
  BY <1>1 DEF IInv, TokensIssued
<1>3. AllCurrent'
  BY <1>1 DEF IInv, AllCurrent, Issued, Current
<1>4. Drafts'
  BY <1>1 DEF Drafts, DraftReady, DraftHolds, At, InStore
<1>5. AboutToAnswer'
  <2>1. Revokes(call[r])' = 1..issued
    BY <1>1 DEF Revokes
  <2> QED
    BY <1>1, <2>1 DEF AboutToAnswer, At, InStore
<1> QED
  BY <1>2, <1>3, <1>4, <1>5

(* The answer revokes, and only the file it wrote can survive, unless the  *)
(* directory was not synced.                                               *)
LEMMA AnswerStep ==
    ASSUME IInv, NEW r \in Requests, Answer(r)
    PROVE  TokensIssued' /\ AllCurrent' /\ Drafts' /\ AboutToAnswer'
<1>1. /\ issued' = issued /\ file' = file /\ crashes' = crashes
      /\ revoked' = revoked \cup Revokes(call[r])
      /\ pc[r] = "sync" /\ Finish(r)
  BY DEF Answer, At
<1>8. \/ survivors' = {file} /\ Synced' = Synced
      \/ survivors' = survivors /\ ~Synced'
  BY DEF Answer, Lapse, Synced, IInv, TypeOK
<1>9. (Faithful' => Faithful) /\ file \in survivors /\ (Synced => Faithful)
  BY <1>1, <1>8 DEF Faithful, Answer, Lapse, Synced, IInv, AllCurrent, TypeOK
<1>2. loop = {r}
  BY <1>1, Alone DEF IInv, InStore
<1>3. /\ \A q \in Requests : pc'[q] \notin InStore
      /\ \A q \in Requests : call'[q].cookie <= issued
  BY <1>1, <1>2, FinishStep
<1>4. Revokes(call[r]) \subseteq 1..issued /\ Spares(file, r)
  BY <1>1 DEF IInv, AboutToAnswer, At, InStore
<1>5. TokensIssued'
  BY <1>1, <1>3, <1>4 DEF IInv, TokensIssued
<1>6. AllCurrent'
  <2>1. Faithful => Current(file)'
    BY <1>1, <1>4 DEF IInv, AllCurrent, Current, Spares
  <2>2. \A f \in survivors' : Issued(f)'
    BY <1>1, <1>8, <1>9 DEF IInv, AllCurrent, Issued
  <2> QED
    BY <1>1, <1>8, <1>9, <2>1, <2>2 DEF AllCurrent, Current
<1>7. Drafts' /\ AboutToAnswer'
  BY <1>3 DEF Drafts, DraftReady, DraftHolds, AboutToAnswer, At, InStore
<1> QED
  BY <1>5, <1>6, <1>7

LEMMA InvariantStep == IInv /\ [Next]_vars => IInv'
<1> SUFFICES ASSUME IInv, [Next]_vars
             PROVE  TokensIssued' /\ AllCurrent' /\ Drafts' /\ AboutToAnswer'
  BY TypeStep, DurableStep DEF IInv
<1> DEFINE Goal == TokensIssued' /\ AllCurrent' /\ Drafts' /\ AboutToAnswer'
<1>1. ASSUME NEW r \in Requests, NEW c \in Calls, NEW cookie \in 0..issued,
             Check(r, c, cookie)
      PROVE  Goal
  <2>1. /\ issued' = issued /\ revoked' = revoked /\ file' = file
        /\ survivors' = survivors
        /\ call' = [call EXCEPT ![r] = c]
        /\ Faithful' = Faithful /\ Synced' = Synced
    BY <1>1 DEF Check, environment, Faithful, Synced
  <2>6. c.cookie <= issued
    BY <1>1 DEF Check, Calls, IInv, TypeOK
  <2>2. \A q \in Requests : pc'[q] \notin InStore
    BY <1>1 DEF IInv, TypeOK, Check, Goto, InStore
  <2>3. TokensIssued'
    BY <2>1, <2>6 DEF IInv, TypeOK, TokensIssued
  <2>4. AllCurrent'
    BY <2>1 DEF IInv, AllCurrent, Issued, Current
  <2>5. Drafts' /\ AboutToAnswer'
    BY <2>2 DEF Drafts, DraftReady, DraftHolds, AboutToAnswer, At, InStore
  <2> QED
    BY <2>3, <2>4, <2>5
<1>2. ASSUME NEW r \in Requests, Redirect(r) \/ Refuse(r)
      PROVE  Goal
  <2>1. /\ issued' = issued /\ file' = file
        /\ survivors' = survivors /\ loop = {} /\ Finish(r)
        /\ Faithful' = Faithful /\ Synced' = Synced
    BY <1>2 DEF Redirect, Refuse, environment, Faithful, Synced
  <2>5. \/ revoked' = revoked
        \/ file = Absent /\ revoked' = revoked \cup ({call[r].cookie} \ {0})
    BY <1>2 DEF Redirect, Refuse
  <2>6. /\ call[r].cookie \in Nat /\ call[r].cookie <= issued /\ issued \in Nat
        /\ Synced => survivors = {file}
    BY <2>1 DEF IInv, TypeOK, Calls, NoCall, TokensIssued, OnDisk, At, InStore
  <2>2. /\ \A q \in Requests : pc'[q] \notin InStore
        /\ \A q \in Requests : call'[q].cookie <= issued
    BY <2>1, FinishStep
  <2>3. TokensIssued'
    <3>1. revoked \subseteq 1..issued
      BY DEF IInv, TokensIssued
    <3>2. {call[r].cookie} \ {0} \subseteq 1..issued
      BY <2>6
    <3>3. revoked' \subseteq 1..issued
      BY <2>5, <3>1, <3>2
    <3> QED
      BY <2>1, <2>2, <3>3 DEF TokensIssued
  <2>7. AllCurrent'
    <3>1. CASE revoked' = revoked
      BY <2>1, <3>1 DEF IInv, AllCurrent, Issued, Current
    <3>2. CASE file = Absent
      BY <2>1, <2>6, <3>2, Kinds DEF IInv, AllCurrent, Issued, Current
    <3> QED
      BY <2>5, <3>1, <3>2
  <2>4. Drafts' /\ AboutToAnswer'
    BY <2>2 DEF Drafts, DraftReady, DraftHolds, AboutToAnswer, At, InStore
  <2> QED
    BY <2>3, <2>4, <2>7
<1>3. ASSUME NEW r \in Requests,
             Setup(r) \/ Login(r) \/ ChangePassword(r) \/ Logout(r)
      PROVE  Goal
  BY <1>3, SetupStep, LoginStep, ChangeStep, LogoutStep
<1>4. ASSUME NEW r \in Requests,
             Disable(r) \/ Replace(r) \/ Unlink(r) \/ Answer(r)
      PROVE  Goal
  BY <1>4, DisableStep, ReplaceStep, UnlinkStep, AnswerStep
<1>5. CASE Tick \/ UNCHANGED vars
  BY <1>5 DEF IInv, TokensIssued, AllCurrent, Drafts, AboutToAnswer, Current,
              Issued, Faithful, Synced, Spares, DraftReady, DraftHolds, Revokes, At, Tick, vars
<1>6. CASE RemoveFile
  <2>1. /\ issued' = issued /\ revoked' = revoked /\ call' = call /\ pc' = pc
        /\ draft' = draft /\ file' = Absent
        /\ survivors' = survivors \cup {Absent}
        /\ ~Synced' /\ (Faithful' => Faithful)
    BY <1>6 DEF RemoveFile, IInv, TypeOK, Faithful, Synced
  <2>2. TokensIssued' /\ AllCurrent'
    BY <2>1, Kinds DEF IInv, TokensIssued, AllCurrent, Issued, Current
  <2>3. Drafts'
    BY <2>1, Kinds DEF IInv, Drafts, DraftReady, DraftHolds, Issued, Current,
                       Spares, Revokes, At
  <2>4. AboutToAnswer'
    BY <2>1, Kinds DEF IInv, AboutToAnswer, Spares, Revokes, At
  <2> QED
    BY <2>2, <2>3, <2>4
<1>7. CASE Crash
  <2>1. /\ issued' = issued /\ revoked' = revoked
        /\ file' \in survivors /\ survivors' = {file'}
        /\ \A q \in Requests : call'[q] = NoCall /\ pc'[q] \notin InStore
        /\ Synced' = Synced /\ (Faithful' => Synced)
    BY <1>7 DEF Crash, InStore, IInv, TypeOK, Faithful, Synced
  <2>2. TokensIssued'
    BY <2>1 DEF IInv, TypeOK, TokensIssued, NoCall
  <2>3. AllCurrent'
    BY <2>1 DEF IInv, AllCurrent, Issued, Current
  <2>4. Drafts' /\ AboutToAnswer'
    BY <2>1 DEF Drafts, DraftReady, DraftHolds, AboutToAnswer, At, InStore
  <2> QED
    BY <2>2, <2>3, <2>4
<1>8. ASSUME NEW r \in Requests, Raise(r)
      PROVE  Goal
  <2>1. /\ issued' = issued /\ revoked' = revoked /\ file' = file
        /\ survivors' = survivors /\ Finish(r) /\ pc[r] \in InStore
        /\ (Faithful' => Faithful) /\ (Synced' => Synced)
    BY <1>8 DEF Raise, Lapse, At, InStore, IInv, TypeOK, Faithful, Synced
  <2>2. loop = {r}
    BY <2>1, Alone DEF IInv
  <2>3. /\ \A q \in Requests : pc'[q] \notin InStore
        /\ \A q \in Requests : call'[q].cookie <= issued
    BY <2>1, <2>2, FinishStep
  <2>4. TokensIssued' /\ AllCurrent'
    BY <2>1, <2>3 DEF IInv, TokensIssued, AllCurrent, Issued, Current
  <2>5. Drafts' /\ AboutToAnswer'
    BY <2>3 DEF Drafts, DraftReady, DraftHolds, AboutToAnswer, At, InStore
  <2> QED
    BY <2>4, <2>5
<1> HIDE DEF Goal
<1> QED
  BY <1>1, <1>2, <1>3, <1>4, <1>5, <1>6, <1>7, <1>8, Zenon DEF Next, Step, Goal

LEMMA InvariantInit == Init => IInv
<1> SUFFICES ASSUME Init PROVE IInv
  OBVIOUS
<1>1. TypeOK
  BY TypeInit
<1>2. TokensIssued
  BY AuthAssumption DEF Init, TokensIssued, NoCall
<1>3. AllCurrent /\ OnDisk
  BY AuthAssumption DEF Init, AllCurrent, Issued, Current, OnDisk
<1>4. Drafts /\ AboutToAnswer
  BY DEF Init, Drafts, DraftReady, DraftHolds, AboutToAnswer, At, InStore
<1> QED
  BY <1>1, <1>2, <1>3, <1>4 DEF IInv

LEMMA Invariant == Spec => []IInv
BY InvariantInit, InvariantStep, PTL DEF Spec

-----------------------------------------------------------------------------
(* The theorems.                                                           *)

(* A session that a logout, a change of password or a disable has ended    *)
(* never works again, with any number of requests, logins, failed writes   *)
(* and removals of the file after it; and with any number of power losses, *)
(* if the directory could be synced each time and nobody removed the file: *)
(* then no file that the disk may hold lists its token.                    *)
THEOREM RevocationHolds == Spec => []RevokedForGood
<1>1. IInv => RevokedForGood
  BY DEF IInv, AllCurrent, Faithful, Current, RevokedForGood, SessionValid
<1> QED
  BY <1>1, Invariant, PTL

(* No step of the head, and no power loss in the middle of one, makes the  *)
(* file unreadable: it is only ever replaced by a complete state.          *)
THEOREM NeverTorn == Spec => StaysReadable
<1>1. IInv /\ [Next]_vars => [(Corrupt \in survivors') => (Corrupt \in survivors)]_vars
  <2> SUFFICES ASSUME IInv, [Next]_vars, Corrupt \in survivors'
               PROVE  Corrupt \in survivors \/ UNCHANGED vars
    OBVIOUS
  <2>1. ASSUME NEW r \in Requests, Replace(r)
        PROVE  Corrupt \in survivors
    <3>1. draft[r] # Corrupt
      BY <2>1, Kinds DEF Replace, IInv, Drafts, DraftReady
    <3> QED
      BY <2>1, <3>1 DEF Replace
  <2>2. ASSUME NEW r \in Requests, Unlink(r)
        PROVE  Corrupt \in survivors
    BY <2>2, Kinds DEF Unlink
  <2>3. ASSUME NEW r \in Requests, Answer(r)
        PROVE  Corrupt \in survivors
    BY <2>3 DEF Answer, IInv, AllCurrent
  <2>9. ASSUME NEW r \in Requests, Raise(r)
        PROVE  survivors' = survivors
    BY <2>9 DEF Raise
  <2>4. CASE Crash
    BY <2>4 DEF Crash
  <2>5. CASE RemoveFile
    BY <2>5, Kinds DEF RemoveFile
  <2>6. CASE survivors' = survivors
    BY <2>6
  <2>7. ASSUME NEW r \in Requests,
               \/ Redirect(r) \/ Refuse(r) \/ Setup(r) \/ Login(r)
               \/ ChangePassword(r) \/ Logout(r) \/ Disable(r)
               \/ \E c \in Calls, cookie \in 0..issued : Check(r, c, cookie)
        PROVE  survivors' = survivors
    BY <2>7 DEF Redirect, Refuse, Setup, Login, ChangePassword, Logout,
                Disable, Check, Prepare
  <2>8. Tick \/ UNCHANGED vars => survivors' = survivors
    BY DEF Tick, vars
  <2> QED
    BY <2>1, <2>2, <2>3, <2>4, <2>5, <2>6, <2>7, <2>8, <2>9 DEF Next, Step
<1> QED
  BY <1>1, Invariant, PTL DEF Spec, StaysReadable

(* While the head runs, nobody sets a new password over one he does not    *)
(* know: a second setup is refused, a login or logout writes the password  *)
(* back, and only a change of password with the old one replaces it.       *)
THEOREM PasswordSafe == Spec => PasswordHeld
<1> DEFINE Held ==
      \/ crashes' # crashes
      \/ file.kind # "stored" \/ file'.kind # "stored"
      \/ file'.state.password = file.state.password
      \/ \E r \in Requests : /\ At(r, "replace") /\ call[r].op = "change"
                             /\ call[r].password = file.state.password
<1>1. IInv /\ [Next]_vars => [Held]_vars
  <2> SUFFICES ASSUME IInv, [Next]_vars PROVE Held \/ UNCHANGED vars
    OBVIOUS
  <2>1. ASSUME NEW r \in Requests, Replace(r)
        PROVE  Held
    BY <2>1 DEF Replace, IInv, Drafts, DraftHolds
  <2>2. ASSUME NEW r \in Requests, Unlink(r)
        PROVE  Held
    BY <2>2, Kinds DEF Unlink
  <2>3. CASE Crash
    BY <2>3 DEF Crash, IInv, TypeOK
  <2>4. CASE RemoveFile
    BY <2>4, Kinds DEF RemoveFile
  <2>5. CASE file' = file
    BY <2>5
  <2>6. ASSUME NEW r \in Requests,
               \/ Redirect(r) \/ Refuse(r) \/ Setup(r) \/ Login(r)
               \/ ChangePassword(r) \/ Logout(r) \/ Disable(r) \/ Answer(r)
               \/ Raise(r)
               \/ \E c \in Calls, cookie \in 0..issued : Check(r, c, cookie)
        PROVE  file' = file
    BY <2>6 DEF Redirect, Refuse, Setup, Login, ChangePassword, Logout,
                Disable, Answer, Raise, Check, Prepare
  <2>7. Tick \/ UNCHANGED vars => file' = file
    BY DEF Tick, vars
  <2> HIDE DEF Held
  <2> QED
    BY <2>1, <2>2, <2>3, <2>4, <2>5, <2>6, <2>7, Zenon DEF Next, Step
<1> QED
  BY <1>1, Invariant, PTL DEF Spec, PasswordHeld

-----------------------------------------------------------------------------
(* The limit on the sessions.                                              *)

Distinct(sessions) ==
    /\ IsFiniteSet(sessions) /\ sessions \subseteq Session
    /\ \A s, t \in sessions : s.token = t.token => s = t

Age(sessions, s) == Cardinality(Younger(sessions, s))
Youngest(sessions, n) == {s \in sessions : Age(sessions, s) < n}

(* The numbers of sessions younger than each are 0, 1, 2, ... in turn.     *)
LEMMA Ages ==
    ASSUME NEW S, Distinct(S)
    PROVE  /\ \A s \in S : IsFiniteSet(Younger(S, s)) /\ Age(S, s) \in Nat
           /\ \A s, t \in S : s.token <= t.token => Age(S, t) <= Age(S, s)
           /\ \A s, t \in S : Age(S, s) = Age(S, t) => s = t
           /\ \A i \in 0..Cardinality(S) - 1 : \E s \in S : Age(S, s) = i
<1> DEFINE n == Cardinality(S)
<1>1. \A s \in S : s.token \in Nat
  BY DEF Distinct, Session
<1>2. n \in Nat
  BY FS_CardinalityType DEF Distinct
<1>3. ASSUME NEW s \in S
      PROVE  /\ IsFiniteSet(Younger(S, s)) /\ Age(S, s) \in Nat
             /\ Age(S, s) \in 0..n - 1
  <2>1. Younger(S, s) \subseteq S \ {s}
    BY <1>1 DEF Younger
  <2>2. IsFiniteSet(S \ {s}) /\ Cardinality(S \ {s}) = n - 1
    BY FS_RemoveElement DEF Distinct
  <2>3. IsFiniteSet(Younger(S, s)) /\ Age(S, s) <= n - 1
    BY <2>1, <2>2, FS_Subset DEF Age
  <2>4. Age(S, s) \in Nat
    BY <2>3, FS_CardinalityType DEF Age
  <2> QED BY <1>2, <2>3, <2>4
<1>4. ASSUME NEW s \in S, NEW t \in S, s.token <= t.token
      PROVE  Age(S, t) <= Age(S, s)
  <2>1. Younger(S, t) \subseteq Younger(S, s)
    BY <1>1, <1>4 DEF Younger
  <2> QED BY <1>3, <2>1, FS_Subset DEF Age
<1>5. ASSUME NEW s \in S, NEW t \in S, s.token < t.token
      PROVE  Age(S, s) # Age(S, t)
  <2>1. Younger(S, t) \subseteq Younger(S, s)
    BY <1>1, <1>5 DEF Younger
  <2>2. t \in Younger(S, s) /\ t \notin Younger(S, t)
    BY <1>1, <1>5 DEF Younger
  <2> QED BY <1>3, <2>1, <2>2, FS_Subset DEF Age
<1>6. ASSUME NEW s \in S, NEW t \in S, Age(S, s) = Age(S, t)
      PROVE  s = t
  <2>1. s.token = t.token
    BY <1>1, <1>5, <1>6
  <2> QED BY <2>1 DEF Distinct
<1> DEFINE f == [s \in S |-> Age(S, s)]
<1>7. f \in Injection(S, 0..n - 1)
  BY <1>3, <1>6 DEF Injection, IsInjective
<1>8. IsFiniteSet(0..n - 1) /\ Cardinality(0..n - 1) = n
  BY <1>2, FS_Interval
<1>9. f \in Surjection(S, 0..n - 1)
  BY <1>7, <1>8, FS_Injection
<1>10. \A i \in 0..n - 1 : \E s \in S : f[s] = i
  BY <1>9 DEF Surjection
<1> QED
  BY <1>3, <1>4, <1>6, <1>10

(* The youngest n are n, unless there are fewer, and whoever is not among  *)
(* them is older than each.                                                *)
LEMMA YoungestSessions ==
    ASSUME NEW S, Distinct(S), NEW n \in Nat
    PROVE  /\ IsFiniteSet(Youngest(S, n)) /\ Cardinality(Youngest(S, n)) <= n
           /\ \A s \in S \ Youngest(S, n) :
                 /\ Cardinality(Youngest(S, n)) = n
                 /\ \A t \in Youngest(S, n) : t.token > s.token
<1> DEFINE L == Youngest(S, n)
<1>1. L \subseteq S /\ IsFiniteSet(L) /\ Cardinality(L) \in Nat
  BY FS_Subset, FS_CardinalityType DEF Youngest, Distinct
<1>2. \A s \in L : Age(S, s) \in 0..n - 1
  BY Ages DEF Youngest
<1>3. IsFiniteSet(0..n - 1) /\ Cardinality(0..n - 1) = n
  BY FS_Interval
<1> DEFINE f == [s \in L |-> Age(S, s)]
<1>4. f \in Injection(L, 0..n - 1)
  BY <1>1, <1>2, Ages DEF Injection, IsInjective
<1>5. Cardinality(L) <= n
  BY <1>3, <1>4, FS_Injection
<1>6. ASSUME NEW s \in S \ L
      PROVE  Cardinality(L) = n /\ \A t \in L : t.token > s.token
  <2>1. Age(S, s) \in Nat /\ Age(S, s) >= n
    BY Ages DEF Youngest
  <2>2. \A t \in L : t.token > s.token
    <3> SUFFICES ASSUME NEW t \in L, t.token <= s.token PROVE FALSE
      BY <1>1 DEF Distinct, Session
    <3>1. Age(S, s) <= Age(S, t)
      BY <1>1, Ages
    <3> QED BY <1>2, <2>1, <3>1
  <2>3. n <= Cardinality(S) - 1
    <3>1. Younger(S, s) \subseteq S \ {s}
      BY DEF Younger, Distinct, Session
    <3>2. IsFiniteSet(S \ {s}) /\ Cardinality(S \ {s}) = Cardinality(S) - 1
      BY FS_RemoveElement DEF Distinct
    <3>3. Age(S, s) <= Cardinality(S) - 1
      BY <3>1, <3>2, FS_Subset DEF Age
    <3>4. Cardinality(S) \in Nat
      BY FS_CardinalityType DEF Distinct
    <3> QED BY <2>1, <3>3, <3>4
  <2>4. ASSUME NEW i \in 0..n - 1 PROVE \E t \in L : f[t] = i
    <3>1. Cardinality(S) \in Nat
      BY FS_CardinalityType DEF Distinct
    <3>2. i \in 0..Cardinality(S) - 1
      BY <2>3, <3>1
    <3>3. PICK t \in S : Age(S, t) = i
      BY <3>2, Ages
    <3>4. t \in L
      BY <3>3 DEF Youngest
    <3> QED BY <3>3, <3>4
  <2>5. f \in Surjection(L, 0..n - 1)
    BY <1>2, <2>4 DEF Surjection
  <2>6. n <= Cardinality(L)
    BY <1>1, <1>3, <2>5, FS_Surjection
  <2> QED BY <1>1, <1>5, <2>2, <2>6
<1> QED
  BY <1>1, <1>5, <1>6

-----------------------------------------------------------------------------
(* What a login or a logout has in hand spares the sessions that are valid *)
(* in the file, until it is replaced: only a removal from a shell and the  *)
(* clock come in between.                                                  *)

Limited(f) ==
    f.kind = "stored" =>
        /\ Distinct(f.state.sessions)
        /\ Cardinality(f.state.sessions) <= MaxSessions

Ends(r, kept, s) ==
    \/ call[r].op = "logout" /\ s.token = call[r].cookie
    \/ /\ call[r].op = "login"
       /\ Cardinality(Younger(kept, s)) >= MaxSessions

DraftKeeps(r) ==
    At(r, "replace") =>
        /\ draft[r].kind = "stored" /\ Limited(draft[r])
        /\ call[r].op \in {"login", "logout"} /\ file.kind = "stored" =>
              \A s \in Active(file.state.sessions) \ draft[r].state.sessions :
                  Ends(r, draft[r].state.sessions, s)

KeepInv ==
    /\ \A f \in survivors \cup {file} : Limited(f)
    /\ \A r \in Requests : DraftKeeps(r)

LEMMA OneSession ==
    ASSUME TypeOK
    PROVE  Distinct({NewSession}) /\ Cardinality({NewSession}) <= MaxSessions
<1>1. NewSession \in Session
  BY AuthAssumption DEF TypeOK, NewSession, Session
<1>2. IsFiniteSet({NewSession}) /\ Cardinality({NewSession}) = 1
  BY FS_Singleton
<1>3. 1 <= MaxSessions
  BY AuthAssumption
<1> QED
  BY <1>1, <1>2, <1>3 DEF Distinct

(* What login keeps, and what it does not.                                 *)
LEMMA LoginKeeps ==
    ASSUME TypeOK, NEW S, Distinct(S), \A s \in S : s.token <= issued
    PROVE  LET kept == LastKept(S) \cup {NewSession}
           IN  /\ Distinct(kept) /\ Cardinality(kept) <= MaxSessions
               /\ \A s \in S \ kept : Cardinality(Younger(kept, s)) >= MaxSessions
<1> DEFINE n == MaxSessions - 1
           L == Youngest(S, n)
           kept == L \cup {NewSession}
<1>1. n \in Nat /\ LastKept(S) = L
  BY AuthAssumption DEF LastKept, Youngest, Age
<1>2. /\ NewSession \in Session /\ NewSession.token = issued + 1
      /\ issued \in Nat
  BY AuthAssumption DEF TypeOK, NewSession, Session
<1>3. \A s \in S : s.token \in Nat /\ s.token < NewSession.token
  BY <1>2 DEF Distinct, Session
<1>4. L \subseteq S /\ IsFiniteSet(L) /\ Cardinality(L) <= n
  BY <1>1, YoungestSessions DEF Youngest
<1>5. NewSession \notin L
  BY <1>3, <1>4
<1>6. Cardinality(L) \in Nat
  BY <1>4, FS_CardinalityType
<1> HIDE DEF L
<1>7. IsFiniteSet(kept) /\ Cardinality(kept) = Cardinality(L) + 1
  BY <1>4, <1>5, FS_AddElement
<1>8. Distinct(kept)
  BY <1>2, <1>3, <1>4, <1>7 DEF Distinct
<1>9. Cardinality(kept) <= MaxSessions
  BY <1>1, <1>4, <1>6, <1>7, AuthAssumption
<1>10. ASSUME NEW s \in S \ kept PROVE Cardinality(Younger(kept, s)) >= MaxSessions
  <2>1. Cardinality(L) = n /\ \A t \in L : t.token > s.token
    BY <1>1, YoungestSessions DEF L
  <2>2. \A t \in kept : t.token > s.token
    BY <1>2, <1>3, <2>1
  <2>3. {t \in kept : t.token > s.token} = kept
    <3> HIDE DEF kept
    <3> QED BY <2>2
  <2>4. Cardinality(kept) = MaxSessions
    BY <1>7, <2>1, AuthAssumption
  <2> HIDE DEF kept
  <2>5. Younger(kept, s) = kept
    BY <2>3 DEF Younger
  <2> QED BY <2>4, <2>5, AuthAssumption
<1> QED
  BY <1>1, <1>8, <1>9, <1>10

LEMMA SubsetDistinct ==
    ASSUME NEW S, Distinct(S), NEW T \in SUBSET S
    PROVE  Distinct(T) /\ Cardinality(T) <= Cardinality(S)
<1>1. IsFiniteSet(T) /\ Cardinality(T) <= Cardinality(S)
  BY FS_Subset DEF Distinct
<1> QED
  BY <1>1 DEF Distinct

LEMMA PrepareKeeps ==
    ASSUME TypeOK, KeepInv, NEW r \in Requests, NEW op, NEW state \in State,
           NEW tokens \in Nat, Prepare(r, op, state, tokens),
           Distinct(state.sessions), Cardinality(state.sessions) <= MaxSessions,
           op \in {"login", "logout"} /\ file.kind = "stored" =>
               \A s \in Active(file.state.sessions) \ state.sessions :
                   Ends(r, state.sessions, s)
    PROVE  KeepInv'
<1>1. /\ file' = file /\ survivors' = survivors /\ call' = call /\ now' = now
      /\ call[r].op = op /\ pc'[r] = "replace" /\ draft'[r] = Stored(state)
      /\ \A q \in Requests \ {r} : pc'[q] \notin InStore
  BY DEF TypeOK, Prepare, Goto, At, InStore, environment
<1>2. draft'[r].kind = "stored" /\ draft'[r].state = state
  BY <1>1, Kinds
<1>3. \A f : Limited(f)' <=> Limited(f)
  BY DEF Limited
<1>4. Limited(draft'[r])
  BY <1>2 DEF Limited
<1>5. /\ Active(file.state.sessions)' = Active(file.state.sessions)
      /\ \A s : Ends(r, state.sessions, s)' <=> Ends(r, state.sessions, s)
  BY <1>1 DEF Active, Ends
<1>6. DraftKeeps(r)'
  BY <1>1, <1>2, <1>4, <1>5 DEF DraftKeeps, Active, Ends
<1>7. \A q \in Requests \ {r} : DraftKeeps(q)'
  BY <1>1 DEF DraftKeeps, At, InStore
<1> QED
  BY <1>1, <1>3, <1>6, <1>7 DEF KeepInv

LEMMA KeepStep == IInv /\ KeepInv /\ [Next]_vars => KeepInv'
<1> SUFFICES ASSUME IInv, KeepInv, [Next]_vars PROVE KeepInv'
  OBVIOUS
<1>0. TypeOK
  BY DEF IInv
<1>1. \A f : Limited(f)' <=> Limited(f)
  BY DEF Limited
<1>2. ASSUME \A q \in Requests : pc'[q] # "replace",
             survivors' \cup {file'} \subseteq survivors \cup {file, Absent}
      PROVE  KeepInv'
  <2>1. Limited(Absent)
    BY Kinds DEF Limited
  <2> QED BY <1>1, <1>2, <2>1 DEF KeepInv, DraftKeeps, At
<1>3. ASSUME NEW r \in Requests, NEW c \in Calls, NEW cookie \in 0..issued,
             Check(r, c, cookie)
      PROVE  KeepInv'
  <2>1. \A q \in Requests : pc'[q] # "replace"
    BY <1>0, <1>3 DEF TypeOK, Check, Goto, InStore
  <2> QED BY <1>2, <1>3, <2>1 DEF Check
<1>4. ASSUME NEW r \in Requests,
             Redirect(r) \/ Refuse(r) \/ Answer(r) \/ Raise(r)
      PROVE  KeepInv'
  <2>1. loop \subseteq {r}
    BY <1>0, <1>4, Alone DEF Redirect, Refuse, Answer, Raise, At, InStore
  <2>2. Finish(r) /\ issued' = issued
    BY <1>4 DEF Redirect, Refuse, Answer, Raise
  <2>3. \A q \in Requests : pc'[q] # "replace"
    BY <2>1, <2>2, FinishStep DEF InStore
  <2>4. survivors' \cup {file'} \subseteq survivors \cup {file}
    BY <1>4 DEF Redirect, Refuse, Answer, Raise
  <2> QED BY <1>2, <2>3, <2>4
<1>5. ASSUME NEW r \in Requests, Setup(r)
      PROVE  KeepInv'
  <2> DEFINE state == [password |-> call[r].password, sessions |-> {NewSession}]
  <2>1. call[r].op = "setup" /\ Prepare(r, "setup", state, 1)
    BY <1>5 DEF Setup, Prepare
  <2>2. state \in State
    BY <1>0, <2>1, SetupType
  <2>3. Distinct(state.sessions) /\ Cardinality(state.sessions) <= MaxSessions
    BY <1>0, OneSession
  <2> HIDE DEF state
  <2> QED BY <1>0, <2>1, <2>2, <2>3, PrepareKeeps
<1>6. ASSUME NEW r \in Requests, ChangePassword(r)
      PROVE  KeepInv'
  <2> DEFINE state == [password |-> call[r].new, sessions |-> {NewSession}]
  <2>1. call[r].op = "change" /\ Prepare(r, "change", state, 1)
    BY <1>6 DEF ChangePassword, Prepare
  <2>2. state \in State
    BY <1>0, <2>1, ChangeType
  <2>3. Distinct(state.sessions) /\ Cardinality(state.sessions) <= MaxSessions
    BY <1>0, OneSession
  <2> HIDE DEF state
  <2> QED BY <1>0, <2>1, <2>2, <2>3, PrepareKeeps
<1>7. ASSUME NEW r \in Requests, Login(r)
      PROVE  KeepInv'
  <2> DEFINE active == Active(file.state.sessions)
             kept == LastKept(active) \cup {NewSession}
             state == [file.state EXCEPT !.sessions =
                          LastKept(Active(@)) \cup {NewSession}]
  <2>1. call[r].op = "login" /\ ~Refused(r) /\ Prepare(r, "login", state, 1)
    BY <1>7 DEF Login, Prepare
  <2>2. file.kind = "stored" /\ file \in Files /\ file.state \in State
    BY <1>0, <2>1, FoundState, StoredState DEF TypeOK
  <2>3. state \in State /\ state.sessions = kept
    BY <1>0, <2>2, LoginType DEF State
  <2>4. Distinct(active) /\ \A s \in active : s.token <= issued
    <3>1. Distinct(file.state.sessions) /\ active \subseteq file.state.sessions
      BY <2>2 DEF KeepInv, Limited, Active
    <3>2. \A s \in file.state.sessions : s.token <= issued
      BY <2>2 DEF IInv, AllCurrent, Issued
    <3> QED BY <3>1, <3>2, SubsetDistinct
  <2> HIDE DEF state, active
  <2>5. /\ Distinct(kept) /\ Cardinality(kept) <= MaxSessions
        /\ \A s \in active \ kept : Cardinality(Younger(kept, s)) >= MaxSessions
    BY <1>0, <2>4, LoginKeeps
  <2>6. \A s \in active \ state.sessions : Ends(r, state.sessions, s)
    BY <2>1, <2>3, <2>5 DEF Ends
  <2> QED BY <1>0, <2>1, <2>3, <2>5, <2>6, PrepareKeeps DEF active
<1>8. ASSUME NEW r \in Requests, Logout(r)
      PROVE  KeepInv'
  <2> DEFINE active == Active(file.state.sessions)
             kept == {s \in active : s.token # call[r].cookie}
             state == [file.state EXCEPT !.sessions =
                          {s \in Active(@) : s.token # call[r].cookie}]
  <2>1. call[r].op = "logout" /\ ~Refused(r) /\ Prepare(r, "logout", state, 0)
    BY <1>8 DEF Logout, Prepare
  <2>2. file.kind = "stored" /\ file \in Files /\ file.state \in State
    BY <1>0, <2>1, FoundState, StoredState DEF TypeOK
  <2>3. state \in State /\ state.sessions = kept
    BY <1>0, <2>2, LogoutType DEF State
  <2>4. /\ Distinct(file.state.sessions)
        /\ Cardinality(file.state.sessions) <= MaxSessions
    BY <2>2 DEF KeepInv, Limited
  <2>5. kept \subseteq file.state.sessions
    BY DEF Active
  <2>6. Distinct(kept) /\ Cardinality(kept) <= MaxSessions
    <3>1. Distinct(kept) /\ Cardinality(kept) <= Cardinality(file.state.sessions)
      BY <2>4, <2>5, SubsetDistinct
    <3>2. Cardinality(kept) \in Nat /\ Cardinality(file.state.sessions) \in Nat
      BY <2>4, <3>1, FS_CardinalityType DEF Distinct
    <3> HIDE DEF kept
    <3> QED BY <2>4, <3>1, <3>2, AuthAssumption
  <2>7. \A s \in active \ state.sessions : Ends(r, state.sessions, s)
    BY <2>1, <2>3 DEF Ends
  <2> HIDE DEF state, active
  <2> QED BY <1>0, <2>1, <2>3, <2>6, <2>7, PrepareKeeps DEF active
<1>9. ASSUME NEW r \in Requests, Disable(r) \/ Unlink(r)
      PROVE  KeepInv'
  <2>1. \A q \in Requests : pc'[q] # "replace"
    BY <1>0, <1>9, Alone DEF TypeOK, Disable, Unlink, At, Goto, InStore
  <2> QED BY <1>2, <1>9, <2>1 DEF Disable, Unlink
<1>10. ASSUME NEW r \in Requests, Replace(r)
       PROVE  KeepInv'
  <2>1. \A q \in Requests : pc'[q] # "replace"
    BY <1>0, <1>10, Alone DEF TypeOK, Replace, At, Goto, InStore
  <2>2. Limited(draft[r])
    BY <1>10 DEF KeepInv, DraftKeeps, Replace
  <2>3. survivors' \cup {file'} \subseteq survivors \cup {draft[r]}
    BY <1>10 DEF Replace
  <2> QED BY <1>1, <2>1, <2>2, <2>3 DEF KeepInv, DraftKeeps, At
<1>11. CASE Tick
  <2>1. /\ UNCHANGED <<file, survivors, pc, call, draft>> /\ now' = now + 1
        /\ now \in Nat
    BY <1>0, <1>11 DEF Tick, TypeOK
  <2>2. file.kind = "stored" =>
           Active(file.state.sessions)' \subseteq Active(file.state.sessions)
    <3> SUFFICES ASSUME file.kind = "stored"
                 PROVE  Active(file.state.sessions)'
                           \subseteq Active(file.state.sessions)
      OBVIOUS
    <3>1. \A s \in file.state.sessions : s.expires \in Nat
      BY <1>0, StoredState DEF TypeOK, State, Session
    <3> QED BY <2>1, <3>1 DEF Active
  <2>3. \A r, kept, s : Ends(r, kept, s)' <=> Ends(r, kept, s)
    BY <2>1 DEF Ends
  <2>4. ASSUME NEW r \in Requests PROVE DraftKeeps(r)'
    BY <1>1, <2>1, <2>2, <2>3 DEF KeepInv, DraftKeeps, At
  <2> QED BY <1>1, <2>1, <2>4 DEF KeepInv
<1>12. CASE RemoveFile
  <2>1. /\ UNCHANGED <<pc, call, draft>> /\ file' = Absent
        /\ survivors' = survivors \cup {Absent}
    BY <1>12 DEF RemoveFile
  <2>2. \A r \in Requests : DraftKeeps(r)'
    BY <1>1, <2>1, Kinds DEF KeepInv, DraftKeeps, At
  <2>3. Limited(Absent)
    BY Kinds DEF Limited
  <2> QED BY <1>1, <2>1, <2>2, <2>3 DEF KeepInv
<1>13. CASE Crash
  <2>1. \A q \in Requests : pc'[q] # "replace"
    BY <1>13 DEF Crash
  <2> QED BY <1>2, <1>13, <2>1 DEF Crash
<1>14. CASE UNCHANGED vars
  BY <1>1, <1>14 DEF vars, KeepInv, DraftKeeps, Active, Ends, At
<1> QED
  BY <1>3, <1>4, <1>5, <1>6, <1>7, <1>8, <1>9, <1>10, <1>11, <1>12, <1>13,
     <1>14 DEF Next, Step

LEMMA KeepInit == Init => KeepInv
<1> SUFFICES ASSUME Init PROVE KeepInv
  OBVIOUS
<1>1. file \in InitialFiles /\ file \in Files /\ survivors = {file}
  BY AuthAssumption DEF Init
<1>2. Limited(file)
  BY <1>1, StoredState, AuthAssumption DEF Limited, Distinct, State
<1>3. \A r \in Requests : DraftKeeps(r)
  BY DEF Init, DraftKeeps, At
<1> QED
  BY <1>1, <1>2, <1>3 DEF KeepInv

(* A login and a logout leave the other sessions that are valid when the   *)
(* file is replaced, but for those that MaxSessions younger ones of the    *)
(* same file have outlived; and no more than MaxSessions are kept.         *)
THEOREM OtherSessionsKept == Spec => SessionsKept
<1> DEFINE Kept ==
      \A r \in Requests :
         /\ At(r, "replace") /\ pc'[r] = "sync"
         /\ call[r].op \in {"login", "logout"} /\ file.kind = "stored"
         => LET kept == file'.state.sessions
            IN  /\ Cardinality(kept) <= MaxSessions
                /\ \A s \in Active(file.state.sessions) \ kept :
                      \/ call[r].op = "logout" /\ s.token = call[r].cookie
                      \/ /\ call[r].op = "login"
                         /\ Cardinality(Younger(kept, s)) >= MaxSessions
<1>1. IInv /\ KeepInv /\ [Next]_vars => [Kept]_vars
  <2> SUFFICES ASSUME IInv, KeepInv, [Next]_vars,
                      NEW r \in Requests, pc[r] = "replace", pc'[r] = "sync",
                      call[r].op \in {"login", "logout"}, file.kind = "stored"
               PROVE  LET kept == file'.state.sessions
                      IN  /\ Cardinality(kept) <= MaxSessions
                          /\ \A s \in Active(file.state.sessions) \ kept :
                                Ends(r, kept, s)
    BY DEF At, Ends
  <2>1. TypeOK
    BY DEF IInv
  <2>2. ASSUME NEW q \in Requests, ~Replace(q),
               \/ Step(q)
               \/ \E c \in Calls, cookie \in 0..issued : Check(q, c, cookie)
        PROVE  FALSE
    <3>1. pc'[r] = pc[r] \/ pc'[r] # "sync"
      BY <2>1, <2>2, Alone DEF Step, TypeOK, Check, Redirect, Refuse, Setup,
         Login, ChangePassword, Logout, Disable, Unlink, Answer, Raise, Prepare,
         Finish,
         At, Goto, InStore
    <3> QED BY <3>1
  <2>3. ~(Tick \/ RemoveFile \/ Crash \/ UNCHANGED vars)
    BY DEF Tick, RemoveFile, Crash, vars
  <2>4. PICK q \in Requests : Replace(q)
    BY <2>2, <2>3 DEF Next
  <2>5. q = r
    BY <2>1, <2>4, Alone DEF Replace, At, InStore
  <2>6. file' = draft[r] /\ Limited(draft[r]) /\ draft[r].kind = "stored"
    BY <2>4, <2>5 DEF Replace, KeepInv, DraftKeeps, At
  <2>7. \A s \in Active(file.state.sessions) \ draft[r].state.sessions :
           Ends(r, draft[r].state.sessions, s)
    BY DEF KeepInv, DraftKeeps, At
  <2> QED BY <2>6, <2>7 DEF Limited
<1> QED
  BY <1>1, Invariant, KeepInit, KeepStep, PTL DEF Spec, SessionsKept
=============================================================================
