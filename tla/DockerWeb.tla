----------------------------- MODULE DockerWeb -----------------------------
(***************************************************************************)
(* Discovery of web services (collectors/docker_web.py): the published     *)
(* bindings of running containers become candidates, which a few probes at *)
(* a time ask for "/", with one protocol and then with the other, each     *)
(* request within a limit and all of them within a budget.                 *)
(*                                                                         *)
(* A binding is an address and a port of a container.  Which protocols its *)
(* server speaks is fixed, when it answers is not.                         *)
(***************************************************************************)
EXTENDS Integers, Sequences, FiniteSets

CONSTANTS
    None,
    Any, Vpn, Public,   \* addresses a binding may have
    Loopback,       \* and any other that is neither of the host's
    Name,           \* the host's entry in public_hostnames
    Hosts,          \* what the minion knows of its host: [ip, name, public]
    Bindings,       \* [service, address, tls]: tls is "on port 443"
    Order,          \* the bindings as Docker lists and the code sorts them
    Special,        \* services with a discovery of their own (Jellyfin)
    Speaks,         \* the protocols a server answers within Limit: one that
                    \* needs longer speaks none, as far as discovery can see
    Broken,         \* bindings whose server answers with an error (5xx)
    Probes,         \* PROBE_CONCURRENCY
    Limit,          \* REQUEST_TIMEOUT
    Budget          \* DISCOVERY_BUDGET

ASSUME WebAssumption ==
    /\ None \notin {Vpn, Public, Name}
    /\ Any \notin {Vpn, Public} /\ Public # Vpn
    /\ Hosts \subseteq [ip: {Vpn, None}, name: {Name, None}, public: {Public, None}]
    /\ \A h \in Hosts : h.ip = None => h.name = None   \* listed by VPN address
    /\ Order \in Seq(Bindings) /\ Bindings = {Order[i] : i \in DOMAIN Order}
    /\ \A i, j \in DOMAIN Order : Order[i] = Order[j] => i = j
    /\ Speaks \in [Bindings -> SUBSET {"http", "https"}]
    /\ Broken \subseteq Bindings
    /\ {Probes, Limit, Budget} \subseteq Nat \ {0}

VARIABLES
    host, published,
    now,
    step,           \* of each binding: "none" (no candidate), "queued",
                    \* "first" or "second" (request under way), "over"
    asked,          \* when that request began
    found, warned, done,
    raised          \* done by an exception that discovery does not handle

fixed == <<host, published>>
outcome == <<found, warned, done, raised>>
vars == <<fixed, now, step, asked, outcome>>

-----------------------------------------------------------------------------
(* Candidates. *)

Or(x, y) == IF x # None THEN x ELSE y

(* Where a binding is probed and what its link shows; None: nowhere.       *)
Addresses(h, b) ==
    CASE b.address = Any ->
           [probe |-> Or(h.ip, h.public), link |-> Or(h.name, Or(h.public, h.ip))]
      [] b.address = Public ->
           [probe |-> Public, link |-> Or(h.name, Public)]
      [] b.address = Vpn /\ h.ip = Vpn -> [probe |-> Vpn, link |-> Vpn]
      [] OTHER -> [probe |-> None, link |-> None]

IsCandidate(h, b) ==
    /\ b.service \notin Special
    /\ Addresses(h, b).probe # None /\ Addresses(h, b).link # None

Scheme(b) ==
    IF b.tls THEN [first |-> "https", second |-> "http"]
             ELSE [first |-> "http", second |-> "https"]

Init ==
    /\ host \in Hosts
    /\ published \in SUBSET Bindings
    /\ now = 0
    /\ step = [b \in Bindings |->
          IF b \in published /\ IsCandidate(host, b) THEN "queued" ELSE "none"]
    /\ asked = [b \in Bindings |-> 0]
    /\ found = {} /\ warned = FALSE /\ done = FALSE /\ raised = FALSE

-----------------------------------------------------------------------------
(* Discovery. *)

Running == {b \in Bindings : step[b] \in {"first", "second"}}
Queued == {b \in Bindings : step[b] = "queued"}

Slot == Cardinality(Running) < Probes

(* A mistake: each part of a request gets the limit of the whole.          *)
DeadlineOfParts(b) == asked[b] + 2 * Limit

Deadline(b) == asked[b] + Limit

(* The semaphore lets candidates in as they queued.                        *)
NextInLine(b) ==
    \E i \in DOMAIN Order :
        /\ Order[i] = b /\ b \in Queued
        /\ \A j \in 1..i - 1 : Order[j] \notin Queued

(* Waiting is all that takes time: a free slot is taken at once, and a     *)
(* request ends at its limit, or before it if the server answers.          *)
Tick ==
    /\ ~done /\ now < Budget
    /\ ~(Slot /\ Queued # {})
    /\ Running # {}
    /\ \A b \in Running :
          IF Scheme(b)[step[b]] \in Speaks[b] THEN now + 1 < Deadline(b)
                                              ELSE now < Deadline(b)
    /\ now' = now + 1
    /\ UNCHANGED <<fixed, step, asked, outcome>>

(* A mistake: no semaphore.                                                *)
BeginAtOnce(b) ==
    /\ ~done /\ NextInLine(b)
    /\ step' = [step EXCEPT ![b] = "first"]
    /\ asked' = [asked EXCEPT ![b] = now]
    /\ UNCHANGED <<fixed, now, outcome>>

Begin(b) ==
    /\ ~done /\ Slot /\ NextInLine(b)
    /\ step' = [step EXCEPT ![b] = "first"]
    /\ asked' = [asked EXCEPT ![b] = now]
    /\ UNCHANGED <<fixed, now, outcome>>

Answer(b) ==
    /\ ~done /\ b \in Running
    /\ Scheme(b)[step[b]] \in Speaks[b]
    /\ found' = found \cup
          {[of |-> b, scheme |-> Scheme(b)[step[b]],
            link |-> Addresses(host, b).link,
            status |-> IF b \in Broken THEN "down" ELSE "up"]}
    /\ step' = [step EXCEPT ![b] = "over"]
    /\ UNCHANGED <<fixed, now, asked, warned, done, raised>>

(* An httpx.HTTPError, or the limit: the other protocol is tried, with a   *)
(* new limit.                                                              *)
Fail(b) ==
    /\ ~done /\ b \in Running
    /\ Scheme(b)[step[b]] \notin Speaks[b]
    /\ step' = [step EXCEPT ![b] = IF @ = "first" THEN "second" ELSE "over"]
    /\ asked' = [asked EXCEPT ![b] = now]
    /\ UNCHANGED <<fixed, now, outcome>>

Stop == [b \in Bindings |-> IF b \in Running \cup Queued THEN "over" ELSE step[b]]

(* Any other exception leaves gather and collect_docker: all containers,   *)
(* and what was found, are lost to an error of the snapshot.               *)
Raise(b) ==
    /\ ~done /\ b \in Running
    /\ step' = Stop
    /\ found' = {}
    /\ done' = TRUE /\ raised' = TRUE
    /\ UNCHANGED <<fixed, now, asked, warned>>

Finish ==
    /\ ~done /\ Running \cup Queued = {}
    /\ done' = TRUE
    /\ UNCHANGED <<fixed, now, step, asked, found, warned, raised>>

(* A mistake: only an empty result is worth a warning.                     *)
CancelQuietly ==
    /\ ~done /\ now = Budget
    /\ step' = Stop
    /\ warned' = (found = {})
    /\ done' = TRUE
    /\ UNCHANGED <<fixed, now, asked, found, raised>>

(* The budget is over: whatever waits or runs is cancelled, what was found *)
(* is kept.  It may be over just when the last probe ends.                 *)
Cancel ==
    /\ ~done /\ now = Budget
    /\ step' = Stop
    /\ warned' = TRUE
    /\ done' = TRUE
    /\ UNCHANGED <<fixed, now, asked, found, raised>>

Next ==
    \/ Tick \/ Finish \/ Cancel
    \/ \E b \in Bindings : Begin(b) \/ Answer(b) \/ Fail(b) \/ Raise(b)

Spec == Init /\ [][Next]_vars

-----------------------------------------------------------------------------
(* Properties. *)

Candidates == {b \in published : IsCandidate(host, b)}

TypeOK ==
    /\ host \in Hosts /\ published \subseteq Bindings
    /\ now \in 0..Budget
    /\ step \in [Bindings -> {"none", "queued", "first", "second", "over"}]
    /\ asked \in [Bindings -> 0..Budget]
    /\ found \subseteq [of: Candidates, scheme: {"http", "https"},
                        link: {Vpn, Public, Name}, status: {"up", "down"}]
    /\ {warned, done, raised} \subseteq BOOLEAN
    /\ Cardinality(Running) <= Probes
    /\ done => Running \cup Queued = {}
    /\ raised => done

(* "an exhausted budget produces a collector warning" (README.md:44): a    *)
(* list that comes without one, and without the error of the snapshot, has *)
(* every candidate that answers a request within the limit.  One that      *)
(* takes longer is missing without a warning.                              *)
WarnedOrComplete ==
    done /\ ~warned /\ ~raised =>
        \A b \in Candidates : Speaks[b] # {} => \E f \in found : f.of = b

(* The budget is enough, however slow or silent the servers are, for two   *)
(* requests at the limit of every candidate, Probes of them at a time: for *)
(* eight candidates surely (for sixteen it is a race).                     *)
Waves == (Cardinality(Candidates) + Probes - 1) \div Probes

FewFinish == Waves * 2 * Limit < Budget => ~warned
=============================================================================
