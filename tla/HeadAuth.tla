------------------------------ MODULE HeadAuth ------------------------------
(***************************************************************************)
(* Head authentication: the middleware that guards every page, the         *)
(* handlers under /auth, and HeadAuthStore, which keeps the password and   *)
(* the sessions in one JSON file.                                          *)
(*                                                                         *)
(* The head is one process with one event loop.  A handler awaits the body *)
(* of its request between the middleware's check and the store, so other   *)
(* requests run in between; the store itself is synchronous, so while one  *)
(* request is in it (loop # {}) no other request moves.  An administrator  *)
(* with a shell, and a crash, respect neither.                             *)
(*                                                                         *)
(* A power loss may bring back any content of the file that no fsync of    *)
(* the directory has superseded: these contents are "survivors".  That     *)
(* fsync may not happen: _sync_parent swallows it when the directory       *)
(* cannot be opened, and answers all the same.                             *)
(***************************************************************************)
EXTENDS Integers, FiniteSets

CONSTANTS
    Requests,       \* HTTP requests in progress
    Passwords,      \* passwords people use
    Weak,           \* those validate_password refuses
    InitialFiles,   \* what the file may hold when the head starts
    InitialTokens,  \* tokens handed out before it started
    MaxSessions,    \* sessions kept (32 in the code; at 1 its slice keeps all)
    Lifetime,       \* ticks a session lasts (30 days)
    MaxTokens, MaxTime, MaxCrashes, MaxRemovals, MaxLapses  \* bounds of runs

(* The code keeps the sessions in a list, the oldest first.  Tokens are    *)
(* numbered as they are handed out, so a set says as much; 0 is no cookie. *)
Session == [token: Nat \ {0}, expires: Nat]
State   == [password: Passwords, sessions: SUBSET Session]

(* The file is absent, holds a state, or is not valid (AuthStateCorrupt).  *)
Absent  == [kind |-> "absent"]
Corrupt == [kind |-> "corrupt"]
Stored(s) == [kind |-> "stored", state |-> s]
Files == {Absent, Corrupt} \cup [kind: {"stored"}, state: State]

(* A file the head starts with is one that it wrote: a token is of one     *)
(* session, and there are no more sessions than are kept.                  *)
ASSUME AuthAssumption ==
    /\ Weak \subseteq Passwords
    /\ InitialFiles \subseteq Files
    /\ InitialTokens \in Nat
    /\ \A f \in InitialFiles : f.kind = "stored" =>
          /\ \A s \in f.state.sessions : s.token <= InitialTokens
          /\ \A s, t \in f.state.sessions : s.token = t.token => s = t
          /\ IsFiniteSet(f.state.sessions)
          /\ Cardinality(f.state.sessions) <= MaxSessions
    /\ MaxSessions \in Nat \ {0, 1} /\ Lifetime \in Nat
    /\ MaxTokens \in Nat /\ MaxTime \in Nat
    /\ MaxCrashes \in Nat /\ MaxRemovals \in Nat /\ MaxLapses \in Nat

(* What a handler takes from its request; only logout reads the cookie.    *)
Calls ==
    [op: {"setup", "login", "disable"}, password: Passwords, cookie: {0}]
    \cup [op: {"change"}, password: Passwords, new: Passwords, cookie: {0}]
    \cup [op: {"logout"}, cookie: 0..MaxTokens]
NoCall == [op |-> "none", cookie |-> 0]

VARIABLES
    file,           \* the authentication file, as the head sees it
    survivors,      \* the contents a power loss may leave
    now,            \* the clock
    issued,         \* tokens handed out are 1..issued
    loop,           \* the request inside the store, if one is
    pc, call,       \* next step and content of each request
    open,           \* did the check find no password configured?
    draft,          \* what a request is about to write
    revoked,        \* tokens whose revocation a client was told of
    crashes, removals,
    lapses          \* fsyncs of the directory that the system did not make

vars == <<file, survivors, now, issued, loop, pc, call, open, draft, revoked,
          crashes, removals, lapses>>

(* The steps made inside the store, by one request at a time.              *)
InStore == {"replace", "unlink", "sync"}

TypeOK ==
    /\ file \in Files /\ survivors \in SUBSET Files
    /\ now \in Nat /\ issued \in Nat
    /\ crashes \in Nat /\ removals \in Nat /\ lapses \in Nat
    /\ pc \in [Requests -> {"idle", "handle"} \cup InStore]
    /\ loop \in {{}} \cup {{r} : r \in Requests}
    /\ \A r \in Requests : r \in loop <=> pc[r] \in InStore
    /\ call \in [Requests -> Calls \cup {NoCall}]
    /\ open \in [Requests -> BOOLEAN]
    /\ draft \in [Requests -> Files]
    /\ revoked \in SUBSET Nat

Init ==
    /\ file \in InitialFiles
    /\ survivors = {file}
    /\ now = 0 /\ issued = InitialTokens
    /\ loop = {}
    /\ pc = [r \in Requests |-> "idle"]
    /\ call = [r \in Requests |-> NoCall]
    /\ open = [r \in Requests |-> FALSE]
    /\ draft = [r \in Requests |-> Absent]
    /\ revoked = {}
    /\ crashes = 0 /\ removals = 0 /\ lapses = 0

At(r, step) == pc[r] = step
Goto(r, step) == pc' = [pc EXCEPT ![r] = step]
environment == <<now, crashes, removals, lapses>>

-----------------------------------------------------------------------------
(* Sessions.                                                               *)

Active(sessions) == {s \in sessions : s.expires > now}
Younger(sessions, s) == {t \in sessions : t.token > s.token}
NewSession == [token |-> issued + 1, expires |-> now + Lifetime]

AllKept(sessions) == sessions   \* a fault: no limit
OldestKept(sessions) ==         \* a fault: the wrong end of the list
    {s \in sessions : Cardinality({t \in sessions : t.token < s.token})
                          < MaxSessions - 1}

(* A login leaves room for its own session: the last MAX_SESSIONS - 1.     *)
LastKept(sessions) ==
    {s \in sessions : Cardinality(Younger(sessions, s)) < MaxSessions - 1}

(* session_valid: the cookie is the token of a session that has not        *)
(* expired.                                                                *)
SessionValid(f, cookie) ==
    /\ f.kind = "stored"
    /\ \E s \in f.state.sessions : s.token = cookie /\ s.expires > now

-----------------------------------------------------------------------------
(* The middleware.                                                         *)

Public(c) == c.op \in {"login", "setup"}

(* A request for one of the handlers below (a page changes nothing).  It   *)
(* goes on to its handler when no password is configured, or the path is   *)
(* public, or the session is valid.  The rest is refused, and everything   *)
(* is (503) while the file is invalid.  Setup and login are told what the  *)
(* check has seen.                                                         *)
Check(r, c, cookie) ==
    /\ At(r, "idle") /\ loop = {}
    /\ c.op = "logout" => c.cookie = cookie
    /\ file.kind = "absent" \/ Public(c) \/ SessionValid(file, cookie)
    /\ file.kind # "corrupt"
    /\ call' = [call EXCEPT ![r] = c]
    /\ open' = [open EXCEPT ![r] = Public(c) /\ file.kind = "absent"]
    /\ Goto(r, "handle")
    /\ UNCHANGED <<file, survivors, issued, loop, draft, revoked, environment>>

-----------------------------------------------------------------------------
(* The handlers, once they have their form.  The redirects of setup (when  *)
(* the check saw a password) and login (when it saw none) come first.      *)

Redirected(r) ==
    \/ call[r].op = "setup" /\ ~open[r]
    \/ call[r].op = "login" /\ open[r]

Finish(r) ==
    /\ Goto(r, "idle")
    /\ call' = [call EXCEPT ![r] = NoCall]
    /\ open' = [open EXCEPT ![r] = FALSE]
    /\ draft' = [draft EXCEPT ![r] = Absent]
    /\ loop' = {}

Redirect(r) ==
    /\ At(r, "handle") /\ loop = {}
    /\ Redirected(r)
    /\ Finish(r)
    /\ UNCHANGED <<file, survivors, issued, revoked, environment>>

Verifies(r) ==
    file.kind = "stored" /\ file.state.password = call[r].password

(* A fault: setup trusts the check, and does not look again under the lock. *)
SetupTrustsCheck(r) ==
    \/ file.kind = "corrupt"
    \/ call[r].op = "setup" /\ call[r].password \in Weak
    \/ call[r].op \in {"login", "disable", "change"} /\ ~Verifies(r)
    \/ call[r].op = "change" /\ call[r].new \in Weak
    \/ call[r].op = "logout" /\ (file = Absent \/ call[r].cookie = 0)

(* The store refuses: InvalidPassword, PasswordValidationError,            *)
(* AuthAlreadyConfigured, AuthStateCorrupt.  A logout without a password   *)
(* or a cookie does nothing and is answered like any other.                *)
Refused(r) ==
    \/ file.kind = "corrupt"
    \/ call[r].op = "setup" /\ (file # Absent \/ call[r].password \in Weak)
    \/ call[r].op \in {"login", "disable", "change"} /\ ~Verifies(r)
    \/ call[r].op = "change" /\ call[r].new \in Weak
    \/ call[r].op = "logout" /\ (file = Absent \/ call[r].cookie = 0)

Refuse(r) ==
    /\ At(r, "handle") /\ loop = {}
    /\ ~Redirected(r) /\ Refused(r)
    /\ Finish(r)
    /\ revoked' = revoked \cup (IF call[r].op = "logout" /\ file = Absent
                               THEN {call[r].cookie} \ {0} ELSE {})
    /\ UNCHANGED <<file, survivors, issued, environment>>

(* The store reads the file, checks the password (a tenth of a second of   *)
(* scrypt) and prepares what it will write.                                *)
Prepare(r, op, state, tokens) ==
    /\ At(r, "handle") /\ loop = {}
    /\ call[r].op = op /\ ~Redirected(r) /\ ~Refused(r)
    /\ issued + tokens <= MaxTokens
    /\ issued' = issued + tokens
    /\ draft' = [draft EXCEPT ![r] = Stored(state)]
    /\ loop' = {r}
    /\ Goto(r, "replace")
    /\ UNCHANGED <<file, survivors, call, open, revoked, environment>>

Setup(r) ==
    Prepare(r, "setup",
            [password |-> call[r].password, sessions |-> {NewSession}], 1)

Login(r) ==
    Prepare(r, "login",
            [file.state EXCEPT !.sessions =
                LastKept(Active(@)) \cup {NewSession}], 1)

(* A fault: the other sessions survive a change of password.               *)
ChangeKeepingSessions(r) ==
    Prepare(r, "change",
            [password |-> call[r].new,
             sessions |-> Active(file.state.sessions) \cup {NewSession}], 1)

ChangePassword(r) ==
    Prepare(r, "change",
            [password |-> call[r].new, sessions |-> {NewSession}], 1)

Logout(r) ==
    Prepare(r, "logout",
            [file.state EXCEPT !.sessions =
                {s \in Active(@) : s.token # call[r].cookie}], 0)

Disable(r) ==
    /\ At(r, "handle") /\ loop = {}
    /\ call[r].op = "disable" /\ ~Refused(r)
    /\ loop' = {r}
    /\ Goto(r, "unlink")
    /\ UNCHANGED <<file, survivors, issued, call, open, draft, revoked,
                   environment>>

(* A fault: the temporary file is not synced before it is renamed.         *)
ReplaceUnsynced(r) ==
    /\ At(r, "replace")
    /\ file' = draft[r]
    /\ survivors' = survivors \cup {draft[r], Corrupt}
    /\ Goto(r, "sync")
    /\ UNCHANGED <<issued, loop, call, open, draft, revoked, environment>>

(* The temporary file is complete and synced when it gets the name.        *)
Replace(r) ==
    /\ At(r, "replace")
    /\ file' = draft[r]
    /\ survivors' = survivors \cup {draft[r]}
    /\ Goto(r, "sync")
    /\ UNCHANGED <<issued, loop, call, open, draft, revoked, environment>>

Unlink(r) ==
    /\ At(r, "unlink")
    /\ file' = Absent
    /\ survivors' = survivors \cup {Absent}
    /\ Goto(r, "sync")
    /\ UNCHANGED <<issued, loop, call, open, draft, revoked, environment>>

(* What the answer tells the client is signed out.                         *)
Revokes(c) ==
    CASE c.op = "logout"  -> {c.cookie}
      [] c.op = "change"  -> 1..issued - 1
      [] c.op = "disable" -> 1..issued
      [] OTHER            -> {}

Lapse == lapses < MaxLapses /\ lapses' = lapses + 1

(* A fault: the directory is not synced before the answer.                 *)
AnswerUnsynced(r) ==
    /\ At(r, "sync")
    /\ revoked' = revoked \cup Revokes(call[r])
    /\ Finish(r)
    /\ UNCHANGED <<file, survivors, issued, environment>>

Answer(r) ==
    /\ At(r, "sync")
    /\ \/ survivors' = {file} /\ UNCHANGED lapses
       \/ Lapse /\ UNCHANGED survivors     \* the directory was not opened
    /\ revoked' = revoked \cup Revokes(call[r])
    /\ Finish(r)
    /\ UNCHANGED <<file, issued, now, crashes, removals>>

(* An OSError that nothing catches (500): of the temporary file or the     *)
(* unlink, or of the fsync of the directory, when the name is changed.     *)
Raise(r) ==
    /\ \/ pc[r] \in {"replace", "unlink"} /\ UNCHANGED lapses
       \/ At(r, "sync") /\ Lapse
    /\ Finish(r)
    /\ UNCHANGED <<file, survivors, issued, revoked, now, crashes, removals>>

-----------------------------------------------------------------------------
(* The world outside the head.                                             *)

Tick ==
    /\ now < MaxTime
    /\ now' = now + 1
    /\ UNCHANGED <<file, survivors, issued, loop, pc, call, open, draft,
                   revoked, crashes, removals, lapses>>

(* rm -f of the file, from a shell: nothing syncs it.                      *)
RemoveFile ==
    /\ removals < MaxRemovals
    /\ removals' = removals + 1
    /\ file' = Absent /\ survivors' = survivors \cup {Absent}
    /\ UNCHANGED <<now, issued, loop, pc, call, open, draft, revoked, crashes,
                   lapses>>

Crash ==
    /\ crashes < MaxCrashes
    /\ crashes' = crashes + 1
    /\ file' \in survivors
    /\ survivors' = {file'}
    /\ loop' = {}
    /\ pc' = [r \in Requests |-> "idle"]
    /\ call' = [r \in Requests |-> NoCall]
    /\ open' = [r \in Requests |-> FALSE]
    /\ draft' = [r \in Requests |-> Absent]
    /\ UNCHANGED <<now, issued, revoked, removals, lapses>>

Step(r) ==
    \/ Redirect(r) \/ Refuse(r)
    \/ Setup(r) \/ Login(r) \/ ChangePassword(r) \/ Logout(r) \/ Disable(r)
    \/ Replace(r) \/ Unlink(r) \/ Answer(r) \/ Raise(r)

Next ==
    \/ \E r \in Requests :
          \/ Step(r)
          \/ \E c \in Calls, cookie \in 0..issued : Check(r, c, cookie)
    \/ Tick \/ RemoveFile \/ Crash

Spec == Init /\ [][Next]_vars

-----------------------------------------------------------------------------
(* Properties.                                                             *)

(* The disk follows the store: the directory was synced each time that the *)
(* code asked for it, and nobody removed the file from a shell (which      *)
(* syncs nothing).                                                         *)
Synced == lapses = 0 /\ removals = 0

(* Once the store has answered, a power loss changes nothing: the contents *)
(* it answered for are the only ones the disk may hold (fsync of the file, *)
(* rename, fsync of the directory).  Only where the directory could not be *)
(* synced may an answer be undone: _sync_parent keeps that to itself.      *)
Durable == loop = {} /\ Synced => survivors = {file}

(* A session whose end was told to a client, by a logout, a change of      *)
(* password or a disable, never works again: not after later logins and    *)
(* logouts, failed writes and removals of the file, nor, if the disk       *)
(* follows the store, after a power loss or in anything one may bring back.*)
RevokedForGood ==
    \A token \in revoked :
        /\ crashes = 0 \/ Synced => ~SessionValid(file, token)
        /\ Synced => \A f \in survivors : ~SessionValid(f, token)

(* No step of the head, and no power loss in the middle of one, leaves a   *)
(* file that the head then refuses to read (503 on every page).            *)
StaysReadable == [][(Corrupt \in survivors') => (Corrupt \in survivors)]_vars

(* Running, the head replaces a password only for a client that knows it:  *)
(* of two people who both found no password, the second to set one is      *)
(* refused, however their requests interleave.                             *)
PasswordHeld ==
    [][ \/ crashes' # crashes
       \/ file.kind # "stored" \/ file'.kind # "stored"
       \/ file'.state.password = file.state.password
       \/ \E r \in Requests : /\ At(r, "replace") /\ call[r].op = "change"
                              /\ call[r].password = file.state.password
      ]_vars

(* A login or a logout ends no other session, except that a login may push *)
(* out one that MaxSessions - 1 younger ones and its own have followed;    *)
(* and more than MaxSessions are never kept.                               *)
SessionsKept ==
    [][\A r \in Requests :
         /\ At(r, "replace") /\ pc'[r] = "sync"
         /\ call[r].op \in {"login", "logout"} /\ file.kind = "stored"
         => LET kept == file'.state.sessions
            IN  /\ Cardinality(kept) <= MaxSessions
                /\ \A s \in Active(file.state.sessions) \ kept :
                      \/ call[r].op = "logout" /\ s.token = call[r].cookie
                      \/ /\ call[r].op = "login"
                         /\ Cardinality(Younger(kept, s)) >= MaxSessions
      ]_vars

(* NOT a property of the code (README, known deviations).  "The next       *)
(* request opens the setup page": a removed file is back only when somebody*)
(* sets a password (README.md:210-216).  False of a login, logout or change*)
(* that read the file before it was removed.                               *)
RemovedStaysRemoved ==
    [][file = Absent /\ file' # Absent /\ crashes' = crashes
         => \E r \in Requests : At(r, "replace") /\ call[r].op = "setup"]_vars
=============================================================================
