---------------------------- MODULE BridgeRemote ----------------------------
(***************************************************************************)
(* Bridge calls as users make them: a form is posted to the head           *)
(* (api/head.py), whose client (services/bridge_client.py) sends one HTTP  *)
(* request to the minion of the host and waits for a limited time; the     *)
(* handler of the minion (api/minion.py) runs in a thread that nobody      *)
(* cancels when the client has gone.  And the page of all projects, which  *)
(* asks every host in a pool of threads.                                   *)
(*                                                                         *)
(* The bridge manager is taken as module BridgeStore describes it: a save  *)
(* is one step.  The set of calls is that of the users' forms; a retry is  *)
(* another request with the same call.                                     *)
(***************************************************************************)
EXTENDS BridgeDocument, FiniteSets

CONSTANTS
    Requests,       \* submissions of forms
    Hosts,
    Listed,         \* hosts the head's configuration lists for bridges
    Accepting,      \* hosts whose own configuration and token agree to it
    Calls,          \* saves
    Submissions,    \* what may be asked of which host
    InitialFiles, HandFiles,
    Pool            \* threads of fetch_bridge_projects: 8

ASSUME RemoteAssumption ==
    /\ Listed \subseteq Hosts /\ Accepting \subseteq Hosts
    /\ Calls \subseteq SaveCalls
    /\ Submissions \subseteq [host: Hosts, do: Calls]
    /\ InitialFiles \subseteq Contents /\ HandFiles \subseteq Contents
    /\ Pool \in Nat \ {0}

VARIABLES
    file, call,
    head,       \* each request at the head: "free", "sending", "waiting", "answered"
    minion,     \* at the minion: "none", "queued", "saved", "refused",
                \* "failed" or "late" (an internal error before the file was
                \* replaced, or after), "gone"
    told,       \* what the redirect to the page of forwards says
    page,       \* "idle", "asking", "shown" or "failed"
    rows,       \* each host on the page: "unread", "asked", "read", "unavailable",
                \* "nonsense" (an answer that raises) or "endless"
    shown,      \* the project of each row that was read
    seen        \* what each file has held while the page was being asked for

requests == <<call, head, minion, told>>
pages == <<page, rows, shown>>
vars == <<file, requests, pages, seen>>

At(r) == call[r].host

Init ==
    /\ file \in [Hosts -> InitialFiles]
    /\ call \in [Requests -> Submissions]
    /\ head = [r \in Requests |-> "free"]
    /\ minion = [r \in Requests |-> "none"]
    /\ told = [r \in Requests |-> "none"]
    /\ page = "idle"
    /\ rows = [h \in Listed |-> "unread"]
    /\ shown = [h \in Listed |-> NoFile]
    /\ seen = [h \in Hosts |-> {}]

Write(h, f) ==
    /\ file' = [file EXCEPT ![h] = f]
    /\ seen' = IF page = "asking" THEN [seen EXCEPT ![h] = @ \cup {f}] ELSE seen

-----------------------------------------------------------------------------
(* The head. *)

Answered(r, words) ==
    /\ head' = [head EXCEPT ![r] = "answered"]
    /\ told' = [told EXCEPT ![r] = words]

(* The routes and _host: a host the head does not list is refused there.   *)
Submit(r) ==
    /\ head[r] = "free"
    /\ \/ /\ At(r) \in Listed
          /\ head' = [head EXCEPT ![r] = "sending"]
          /\ UNCHANGED told
       \/ At(r) \notin Listed /\ Answered(r, "refused")
    /\ UNCHANGED <<file, call, minion, pages, seen>>

(* Opening the connection raises: nothing was sent.                        *)
Unreachable(r) ==
    /\ head[r] = "sending"
    /\ Answered(r, "unsure")
    /\ UNCHANGED <<file, call, minion, pages, seen>>

Send(r) ==
    /\ head[r] = "sending"
    /\ head' = [head EXCEPT ![r] = "waiting"]
    /\ minion' = [minion EXCEPT ![r] = "queued"]
    /\ UNCHANGED <<file, call, told, pages, seen>>

(* A mistake: a time-out is reported like an error of the minion.          *)
TimeOutRefused(r) ==
    /\ head[r] = "waiting"
    /\ Answered(r, "refused")
    /\ UNCHANGED <<file, call, minion, pages, seen>>

(* No answer within the time-out of the operation: "Cannot reach".  The    *)
(* minion's thread, or its place in the queue for the flock, stays.        *)
TimeOut(r) ==
    /\ head[r] = "waiting"
    /\ Answered(r, "unsure")
    /\ UNCHANGED <<file, call, minion, pages, seen>>

(* The status of the response decides between the message and the error.   *)
(* An internal error (500) comes without a reason: it does not say whether *)
(* the file was replaced before.                                           *)
Outcome == [saved |-> "saved", refused |-> "refused",
            failed |-> "unsure", late |-> "unsure"]

Answer(r) ==
    /\ head[r] = "waiting" /\ minion[r] \in DOMAIN Outcome
    /\ Answered(r, Outcome[minion[r]])
    /\ UNCHANGED <<file, call, minion, pages, seen>>

(* The head stops: browsers get an error page, and threads of minions stay.*)
HeadRestart ==
    /\ LET R == {r \in Requests : head[r] \in {"sending", "waiting"}} IN
       /\ head' = [r \in Requests |-> IF r \in R THEN "answered" ELSE head[r]]
       /\ told' = [r \in Requests |-> IF r \in R THEN "unsure" ELSE told[r]]
    /\ page' = "idle"
    /\ rows' = [h \in Listed |-> "unread"]
    /\ shown' = [h \in Listed |-> NoFile]
    /\ seen' = [h \in Hosts |-> {}]
    /\ UNCHANGED <<file, call, minion>>

-----------------------------------------------------------------------------
(* The minion: a queued request waits for a thread and for the flock.      *)

Handled(r, how) == minion' = [minion EXCEPT ![r] = how]

Refuses(r) ==
    LET h == At(r)  c == call[r].do IN
    \/ h \notin Accepting
    \/ ~ValidCall(c)
    \/ ~Saves(file[h], c)

Save(r) ==
    /\ minion[r] = "queued" /\ ~Refuses(r)
    /\ Write(At(r), Doc(Edit(Load(file[At(r)]), call[r].do)))
    /\ Handled(r, "saved") \/ Handled(r, "late")
    /\ UNCHANGED <<call, head, told, pages>>

(* The checks of the token, of the form and of the document (Refuses),     *)
(* docker compose config, or an error nobody handles before os.replace.    *)
Refuse(r) ==
    /\ minion[r] = "queued"
    /\ Handled(r, "refused") \/ Handled(r, "failed")
    /\ UNCHANGED <<file, call, head, told, pages, seen>>

(* The minion stops: what was queued is gone, connections are reset.       *)
MinionRestart(h) ==
    /\ LET here == {r \in Requests : At(r) = h}
           waiting == {r \in here : head[r] = "waiting"} IN
       /\ minion' = [r \in Requests |->
             IF r \in here /\ minion[r] = "queued" THEN "gone" ELSE minion[r]]
       /\ head' = [r \in Requests |-> IF r \in waiting THEN "answered" ELSE head[r]]
       /\ told' = [r \in Requests |-> IF r \in waiting THEN "unsure" ELSE told[r]]
    /\ UNCHANGED <<file, call, pages, seen>>

(* Only the files that the head can read and change are of interest.       *)
HandEdit(h) ==
    /\ h \in Accepting
    /\ \E f \in HandFiles : Write(h, f)
    /\ UNCHANGED <<requests, pages>>

-----------------------------------------------------------------------------
(* The page of projects: forwards_page, fetch_bridge_projects.  Pages share*)
(* nothing, so one of them is modelled, and another after a head restart.  *)

SetRow(h, to) == rows' = [rows EXCEPT ![h] = to]

(* The threads of the pool that have a host.                               *)
Busy == {h \in Listed : rows[h] \in {"asked", "endless"}}

AskPage ==
    /\ page = "idle"
    /\ page' = "asking"
    /\ rows' = [h \in Listed |-> "unread"]
    /\ seen' = [h \in Hosts |-> {file[h]}]
    /\ UNCHANGED <<file, requests, shown>>

(* A mistake: one thread for each host.                                    *)
AskHostNow(h) ==
    /\ page = "asking" /\ rows[h] = "unread"
    /\ SetRow(h, "asked")
    /\ UNCHANGED <<file, requests, page, shown, seen>>

AskHost(h) ==
    /\ page = "asking" /\ rows[h] = "unread"
    /\ Cardinality(Busy) < Pool
    /\ SetRow(h, "asked")
    /\ UNCHANGED <<file, requests, page, shown, seen>>

ReadHost(h) ==
    /\ page = "asking" /\ rows[h] = "asked" /\ h \in Accepting
    /\ SetRow(h, "read")
    /\ shown' = [shown EXCEPT ![h] = file[h]]
    /\ UNCHANGED <<file, requests, page, seen>>

(* A mistake: a host that fails shows what was read from it last.          *)
HostFailsQuietly(h) ==
    /\ page = "asking" /\ rows[h] = "asked"
    /\ SetRow(h, "read")
    /\ UNCHANGED <<file, requests, page, shown, seen>>

(* Any error of bridge_request, its time-outs of five seconds among them:  *)
(* for the connection, and for every read of the answer.                   *)
HostFails(h) ==
    /\ page = "asking" /\ rows[h] = "asked"
    /\ SetRow(h, "unavailable")
    /\ UNCHANGED <<file, requests, page, shown, seen>>

(* Another version, or another program, on the port of the minion: JSON    *)
(* that is no object or lacks the keys of a project (TypeError, KeyError), *)
(* or an answer that never ends, whose every part is in time.              *)
HostConfuses(h) ==
    /\ page = "asking" /\ rows[h] = "asked"
    /\ SetRow(h, "nonsense") \/ SetRow(h, "endless")
    /\ UNCHANGED <<file, requests, page, shown, seen>>

(* future.result() and the loop over the projects raise what nobody        *)
(* handles, after all threads have ended.                                  *)
Ended == \A h \in Listed : rows[h] \in {"read", "unavailable", "nonsense"}
Confused == \E h \in Listed : rows[h] = "nonsense"

(* A mistake: the error of a host is raised again for the page.            *)
ShowPageComplete ==
    /\ page = "asking" /\ Ended
    /\ page' = IF \A h \in Listed : rows[h] = "read" THEN "shown" ELSE "failed"
    /\ UNCHANGED <<file, requests, rows, shown, seen>>

ShowPage ==
    /\ page = "asking" /\ Ended
    /\ page' = IF Confused THEN "failed" ELSE "shown"
    /\ UNCHANGED <<file, requests, rows, shown, seen>>

-----------------------------------------------------------------------------
HeadStep(r) == Unreachable(r) \/ Send(r) \/ TimeOut(r) \/ Answer(r)
MinionStep(r) == Save(r) \/ Refuse(r)
PageStep(h) == AskHost(h) \/ ReadHost(h) \/ HostFails(h) \/ HostConfuses(h)

Next ==
    \/ \E r \in Requests : Submit(r) \/ HeadStep(r) \/ MinionStep(r)
    \/ \E h \in Hosts : MinionRestart(h) \/ HandEdit(h)
    \/ \E h \in Listed : PageStep(h)
    \/ HeadRestart \/ AskPage \/ ShowPage

Spec == Init /\ [][Next]_vars

(* Threads of the head run, and httpx gives up when a part of an answer is *)
(* late; an answer of endless parts is a state of its own.  Nothing makes  *)
(* a minion's thread get the flock.                                        *)
FairSpec ==
    /\ Spec
    /\ \A r \in Requests : WF_vars(HeadStep(r))
    /\ \A h \in Listed : WF_vars(PageStep(h))
    /\ WF_vars(ShowPage)

-----------------------------------------------------------------------------
(* Properties. *)

TypeOK ==
    /\ file \in [Hosts -> Contents]
    /\ call \in [Requests -> Submissions]
    /\ head \in [Requests -> {"free", "sending", "waiting", "answered"}]
    /\ minion \in [Requests -> {"none", "queued", "saved", "refused", "failed", "late", "gone"}]
    /\ told \in [Requests -> {"none", "saved", "refused", "unsure"}]
    /\ page \in {"idle", "asking", "shown", "failed"}
    /\ rows \in [Listed -> {"unread", "asked", "read", "unavailable",
                             "nonsense", "endless"}]
    /\ shown \in [Listed -> Contents]
    /\ seen \in [Hosts -> SUBSET Contents]
    /\ \A r \in Requests :
          /\ head[r] = "answered" <=> told[r] # "none"
          /\ head[r] \in {"free", "sending"} => minion[r] = "none"
          /\ head[r] = "waiting" => minion[r] \notin {"none", "gone"}
    /\ Cardinality(Busy) <= Pool

(* What a request has done so far to the file, which its user may not know.*)
Effect(r) ==
    IF head[r] = "free" THEN "none"
    ELSE CASE minion[r] \in {"saved", "late"} -> "done"
           [] minion[r] = "queued" -> "open"
           [] minion[r] \in {"refused", "failed", "gone"} -> "never"
           [] minion[r] = "none" ->
                IF head[r] = "answered" THEN "never" ELSE "open"

(* A submitted call takes effect at most once, and never once its user was *)
(* told that it was refused; "saved" means that it has taken effect.  The  *)
(* files change by such effects and by hand only.                          *)
Promise == INSTANCE BridgeCalls WITH
    file <- file, call <- call, told <- told,
    effect <- [r \in Requests |-> Effect(r)]
KeepsPromise == Promise!Spec

(* A row of the page shows what the file of that host held at some moment  *)
(* after the page was asked for, or says that the host is unavailable.     *)
RowsCurrent ==
    page = "shown" =>
        \A h \in Listed : rows[h] = "read" => shown[h] \in seen[h]

(* Hosts that are silent, down, refuse, or answer with errors or with no   *)
(* JSON keep nobody from the page: it comes, whatever the order and the    *)
(* threads.  Only a host that confuses the head can take it away, with an  *)
(* answer of another shape (the page is an error) or one without an end.   *)
PageComes ==
    page = "asking" ~>
        \/ page \in {"idle", "shown"}
        \/ page = "failed" /\ Confused
        \/ \E h \in Listed : rows[h] = "endless"
=============================================================================
