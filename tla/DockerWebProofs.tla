-------------------------- MODULE DockerWebProofs ---------------------------
(***************************************************************************)
(* Theorems about web discovery, for any host, bindings, servers, number   *)
(* of probes, limit and budget.                                            *)
(***************************************************************************)
EXTENDS DockerWeb, FiniteSetTheorems, TLAPS

(* What the probes know: no candidate is forgotten, one that is asked in   *)
(* its second protocol does not speak the first, and one that is over was  *)
(* found or speaks neither, until the budget or an exception ends all.     *)
Known(b) ==
    /\ step[b] \in {"queued", "first", "second", "over"}
    /\ step[b] = "second" => Scheme(b).first \notin Speaks[b]
    /\ step[b] = "over" /\ ~warned /\ ~raised /\ Speaks[b] # {} =>
          \E f \in found : f.of = b

KnownInv ==
    /\ published \subseteq Bindings
    /\ step = [b \in Bindings |-> step[b]]
    /\ \A b \in Candidates : Known(b)
    /\ done /\ ~warned /\ ~raised => \A b \in Candidates : step[b] = "over"

LEMMA TwoProtocols ==
    ASSUME NEW b \in Bindings, Scheme(b).first \notin Speaks[b],
           Scheme(b).second \notin Speaks[b]
    PROVE  Speaks[b] = {}
<1>1. Speaks[b] \subseteq {"http", "https"}
  BY WebAssumption
<1>2. {Scheme(b).first, Scheme(b).second} = {"http", "https"}
  BY DEF Scheme
<1> QED BY <1>1, <1>2

LEMMA KnownStep == KnownInv /\ [Next]_vars => KnownInv'
<1> SUFFICES ASSUME KnownInv, [Next]_vars PROVE KnownInv'
  OBVIOUS
<1>1. /\ UNCHANGED <<host, published>> /\ published \subseteq Bindings
      /\ Candidates' = Candidates /\ Candidates \subseteq Bindings
  BY DEF Next, Tick, Begin, Finish, Cancel, Answer, Fail, Raise, fixed, vars,
         Candidates, KnownInv
<1>2. ASSUME UNCHANGED <<step, found, warned, done, raised>> PROVE KnownInv'
  BY <1>1, <1>2 DEF KnownInv, Known
<1>3. ASSUME NEW a \in Bindings, Begin(a) PROVE KnownInv'
  <2>1. /\ ~done /\ ~done' /\ UNCHANGED <<found, warned, raised>>
        /\ step' = [step EXCEPT ![a] = "first"]
    BY <1>3 DEF Begin, outcome
  <2>2. \A b \in Bindings : step'[b] \in {step[b], "first"}
    BY <2>1 DEF KnownInv
  <2>3. step' = [b \in Bindings |-> step'[b]]
    BY <2>1 DEF KnownInv
  <2> QED BY <1>1, <2>1, <2>2, <2>3 DEF KnownInv, Known
<1>4. ASSUME NEW a \in Bindings, Answer(a) PROVE KnownInv'
  <2>1. /\ ~done /\ ~done' /\ UNCHANGED <<warned, raised>> /\ found \subseteq found'
        /\ step' = [step EXCEPT ![a] = "over"]
    BY <1>4 DEF Answer
  <2>2. \E f \in found' : f.of = a
    <3> DEFINE F == [of |-> a, scheme |-> Scheme(a)[step[a]],
                     link |-> Addresses(host, a).link,
                     status |-> IF a \in Broken THEN "down" ELSE "up"]
    <3>1. F \in found'
      BY <1>4 DEF Answer
    <3>2. F.of = a
      OBVIOUS
    <3> QED BY <3>1, <3>2
  <2>3. \A b \in Candidates : b # a => step'[b] = step[b]
    BY <1>1, <2>1 DEF KnownInv
  <2>4. \A b \in Candidates : Known(b)'
    BY <1>1, <2>1, <2>2, <2>3 DEF KnownInv, Known
  <2>5. step' = [b \in Bindings |-> step'[b]]
    BY <2>1 DEF KnownInv
  <2> QED BY <1>1, <2>1, <2>4, <2>5 DEF KnownInv
<1>5. ASSUME NEW a \in Bindings, Fail(a) PROVE KnownInv'
  <2>1. /\ ~done /\ ~done' /\ UNCHANGED <<found, warned, raised>>
        /\ step[a] \in {"first", "second"}
        /\ Scheme(a)[step[a]] \notin Speaks[a]
        /\ step' = [step EXCEPT ![a] = IF @ = "first" THEN "second" ELSE "over"]
    BY <1>5 DEF Fail, Running, outcome
  <2>2. \A b \in Candidates : b # a => step'[b] = step[b]
    BY <1>1, <2>1 DEF KnownInv
  <2>3. ASSUME a \in Candidates PROVE Known(a)'
    <3>1. CASE step[a] = "first"
      BY <1>1, <2>1, <2>3, <3>1 DEF KnownInv, Known
    <3>2. CASE step[a] = "second"
      <4>1. Speaks[a] = {}
        BY <2>1, <2>3, <3>2, TwoProtocols DEF KnownInv, Known
      <4> QED BY <2>1, <3>2, <4>1 DEF KnownInv, Known
    <3> QED BY <2>1, <3>1, <3>2
  <2> QED BY <1>1, <2>1, <2>2, <2>3 DEF KnownInv, Known
<1>6. CASE Finish
  <2>1. UNCHANGED <<step, found, warned, raised>>
    BY <1>6 DEF Finish
  <2>2. \A b \in Candidates : step[b] = "over"
    BY <1>1, <1>6 DEF Finish, KnownInv, Known, Running, Queued
  <2> QED BY <1>1, <2>1, <2>2 DEF KnownInv, Known
<1>7. CASE Cancel \/ \E a \in Bindings : Raise(a)
  <2>1. /\ warned' \/ raised'
        /\ step' = [b \in Bindings |->
              IF b \in Running \cup Queued THEN "over" ELSE step[b]]
    BY <1>7 DEF Cancel, Raise, Stop
  <2>2. \A b \in Candidates : step'[b] = "over"
    BY <1>1, <2>1 DEF KnownInv, Known, Running, Queued
  <2>3. step' = [b \in Bindings |-> step'[b]]
    BY <2>1
  <2> QED BY <1>1, <2>1, <2>2, <2>3 DEF KnownInv, Known
<1>8. CASE Tick \/ UNCHANGED vars
  BY <1>2, <1>8 DEF Tick, vars, outcome
<1> QED
  BY <1>3, <1>4, <1>5, <1>6, <1>7, <1>8 DEF Next

(* A list that comes without a warning, from a discovery that raised no    *)
(* error, has every candidate that answers HTTP or HTTPS within the limit  *)
(* of a request, whatever stands before it in the queue.  A server that    *)
(* needs longer speaks no protocol here and may be left out silently.      *)
THEOREM CompleteOrWarned == Spec => []WarnedOrComplete
<1>1. Init => KnownInv
  BY DEF Init, KnownInv, Known, Candidates
<1>2. KnownInv => WarnedOrComplete
  BY DEF KnownInv, Known, WarnedOrComplete
<1> QED
  BY <1>1, <1>2, KnownStep, PTL DEF Spec

-----------------------------------------------------------------------------
(* Types, and the number of probes.                                        *)

LEMMA FiniteBindings == IsFiniteSet(Bindings)
<1>1. Len(Order) \in Nat /\ DOMAIN Order = 1..Len(Order)
  BY WebAssumption
<1>2. Order \in Surjection(1..Len(Order), Bindings)
  BY <1>1, WebAssumption DEF Surjection
<1>3. IsFiniteSet(1..Len(Order))
  BY <1>1, FS_Interval
<1> QED BY <1>2, <1>3, FS_Surjection

Times ==
    /\ host \in Hosts /\ published \subseteq Bindings
    /\ now \in 0..Budget
    /\ step \in [Bindings -> {"none", "queued", "first", "second", "over"}]
    /\ asked \in [Bindings -> 0..Budget]
    /\ warned \in BOOLEAN /\ done \in BOOLEAN /\ raised \in BOOLEAN
    /\ raised => done
    /\ Running \cup Queued \subseteq Candidates
    /\ Cardinality(Running) <= Probes
    /\ done => Running \cup Queued = {}

LEMMA RunningFinite == IsFiniteSet(Running) /\ Cardinality(Running) \in Nat
  BY FiniteBindings, FS_Subset, FS_CardinalityType DEF Running

LEMMA TimesStep == Times /\ [Next]_vars => Times'
<1> SUFFICES ASSUME Times, [Next]_vars PROVE Times'
  OBVIOUS
<1>0. Budget \in Nat /\ Probes \in Nat /\ now \in Nat
  BY WebAssumption DEF Times
<1>1. /\ UNCHANGED <<host, published>>
      /\ Candidates' = Candidates /\ Candidates \subseteq Bindings
  BY DEF Next, Tick, Begin, Finish, Cancel, Answer, Fail, Raise, fixed, vars,
         Candidates, Times
<1>2. ASSUME UNCHANGED <<step, asked, warned, done, raised>>, now' \in 0..Budget
      PROVE  Times'
  BY <1>1, <1>2 DEF Times, Running, Queued
<1>3. ASSUME NEW a \in Bindings, Begin(a) PROVE Times'
  <2>1. /\ UNCHANGED <<now, warned, done, raised>> /\ ~done
        /\ step' = [step EXCEPT ![a] = "first"]
        /\ asked' = [asked EXCEPT ![a] = now]
        /\ Slot /\ a \in Queued
    BY <1>3 DEF Begin, NextInLine, outcome
  <2>2. Running' = Running \cup {a} /\ a \notin Running /\ Queued' = Queued \ {a}
    BY <2>1 DEF Running, Queued, Times
  <2>3. Cardinality(Running') = Cardinality(Running) + 1
    BY <2>2, RunningFinite, FS_AddElement
  <2>4. Cardinality(Running') <= Probes
    BY <1>0, <2>1, <2>3, RunningFinite DEF Slot
  <2>5. Running' \cup Queued' \subseteq Candidates'
    BY <1>1, <2>1, <2>2 DEF Times
  <2> QED BY <1>1, <2>1, <2>4, <2>5 DEF Times
<1>4. ASSUME Running' \subseteq Running, Queued' \subseteq Queued,
             UNCHANGED now, asked' \in [Bindings -> 0..Budget],
             step' \in [Bindings -> {"none", "queued", "first", "second", "over"}],
             warned' \in BOOLEAN, done' \in BOOLEAN, raised' \in BOOLEAN,
             raised' => done',
             done' => Running' \cup Queued' = {}
      PROVE  Times'
  <2>1. Cardinality(Running') <= Cardinality(Running)
        /\ Cardinality(Running') \in Nat
    BY <1>4, RunningFinite, FS_Subset, FS_CardinalityType
  <2>2. Cardinality(Running') <= Probes
    BY <1>0, <2>1, RunningFinite DEF Times
  <2>3. Running' \cup Queued' \subseteq Candidates'
    BY <1>1, <1>4 DEF Times
  <2> QED BY <1>1, <1>4, <2>2, <2>3 DEF Times
<1>5. ASSUME NEW a \in Bindings, Answer(a) \/ Fail(a) PROVE Times'
  <2>1. /\ UNCHANGED <<now, warned, done, raised>> /\ ~done /\ a \in Running
        /\ \E to \in {"second", "over"} : step' = [step EXCEPT ![a] = to]
        /\ asked' = asked \/ asked' = [asked EXCEPT ![a] = now]
    BY <1>5 DEF Answer, Fail, outcome
  <2>2. Running' \subseteq Running /\ Queued' \subseteq Queued
    BY <2>1 DEF Running, Queued, Times
  <2>3. /\ asked' \in [Bindings -> 0..Budget]
        /\ step' \in [Bindings -> {"none", "queued", "first", "second", "over"}]
    BY <2>1 DEF Times
  <2>4. raised' \in BOOLEAN /\ (raised' => done') /\ warned' \in BOOLEAN
        /\ done' \in BOOLEAN
    BY <2>1 DEF Times
  <2> QED BY <1>4, <2>1, <2>2, <2>3, <2>4
<1>6. CASE Finish
  BY <1>4, <1>6 DEF Finish, Running, Queued, Times
<1>7. CASE Cancel \/ \E a \in Bindings : Raise(a)
  <2>1. /\ step' = [b \in Bindings |->
              IF b \in Running \cup Queued THEN "over" ELSE step[b]]
        /\ UNCHANGED <<now, asked>> /\ done' = TRUE
        /\ warned' \in BOOLEAN /\ raised' \in BOOLEAN
    BY <1>7 DEF Cancel, Raise, Stop, Times
  <2>2. Running' = {} /\ Queued' = {}
    BY <2>1 DEF Running, Queued
  <2>3. step' \in [Bindings -> {"none", "queued", "first", "second", "over"}]
    BY <2>1 DEF Times
  <2> QED BY <1>4, <2>1, <2>2, <2>3 DEF Times
<1>8. CASE Tick
  <2>1. now' \in 0..Budget
    BY <1>0, <1>8 DEF Tick
  <2> QED BY <1>2, <1>8, <2>1 DEF Tick, outcome
<1>9. CASE UNCHANGED vars
  BY <1>2, <1>9 DEF vars, outcome, Times
<1> QED
  BY <1>3, <1>5, <1>6, <1>7, <1>8, <1>9 DEF Next

LEMMA TimesInit == Init => Times
<1> SUFFICES ASSUME Init PROVE Times
  OBVIOUS
<1>1. Running = {} /\ Queued \subseteq Candidates
  BY DEF Init, Running, Queued, Candidates
<1>2. Cardinality(Running) = 0 /\ Probes \in Nat /\ Budget \in Nat
  BY <1>1, FS_EmptySet, WebAssumption
<1>3. /\ now \in 0..Budget /\ asked \in [Bindings -> 0..Budget]
      /\ step \in [Bindings -> {"none", "queued", "first", "second", "over"}]
  BY <1>2 DEF Init
<1>4. Cardinality(Running) <= Probes
  BY <1>2
<1> QED BY <1>1, <1>3, <1>4 DEF Init, Times

LEMMA TimesHold == Spec => []Times
  BY TimesInit, TimesStep, PTL DEF Spec

-----------------------------------------------------------------------------
(* What is found.                                                          *)

Rows == [of: Candidates, scheme: {"http", "https"},
         link: {Vpn, Public, Name}, status: {"up", "down"}]

FoundInv == found \subseteq Rows

(* Each "or" of web_candidates ends at an address or name of the host, or  *)
(* at none.                                                                *)
LEMMA LinksOfCandidates ==
    ASSUME NEW h \in Hosts, NEW b, IsCandidate(h, b)
    PROVE  Addresses(h, b).link \in {Vpn, Public, Name}
<1>1. /\ h.ip \in {Vpn, None} /\ h.name \in {Name, None}
      /\ h.public \in {Public, None}
  BY WebAssumption
<1>2. Addresses(h, b).link # None
  BY DEF IsCandidate
<1>3. CASE b.address = Any
  BY <1>1, <1>2, <1>3, WebAssumption DEF Addresses, Or
<1>4. CASE b.address = Public
  BY <1>1, <1>2, <1>4, WebAssumption DEF Addresses, Or
<1>5. CASE b.address = Vpn
  BY <1>1, <1>2, <1>5, WebAssumption DEF Addresses, Or
<1>6. CASE b.address \notin {Any, Public, Vpn}
  BY <1>2, <1>6 DEF Addresses
<1> QED BY <1>3, <1>4, <1>5, <1>6

LEMMA FoundStep == Times /\ FoundInv /\ [Next]_vars => FoundInv'
<1> SUFFICES ASSUME Times, FoundInv, [Next]_vars PROVE FoundInv'
  OBVIOUS
<1>1. UNCHANGED <<host, published>> /\ Candidates' = Candidates
  BY DEF Next, Tick, Begin, Finish, Cancel, Answer, Fail, Raise, fixed, vars,
         Candidates, Times
<1>2. ASSUME UNCHANGED found PROVE FoundInv'
  BY <1>1, <1>2 DEF FoundInv, Rows
<1>3. ASSUME NEW a \in Bindings, Answer(a) PROVE FoundInv'
  <2> DEFINE row == [of |-> a, scheme |-> Scheme(a)[step[a]],
                     link |-> Addresses(host, a).link,
                     status |-> IF a \in Broken THEN "down" ELSE "up"]
  <2>1. found' = found \cup {row} /\ row.scheme \in Speaks[a] /\ a \in Running
    BY <1>3 DEF Answer
  <2>2. a \in Candidates /\ IsCandidate(host, a) /\ host \in Hosts
    BY <2>1 DEF Times, Candidates
  <2>3. row.link \in {Vpn, Public, Name}
    BY <2>2, LinksOfCandidates
  <2>4. row.scheme \in {"http", "https"}
    BY <2>1, WebAssumption
  <2>5. row \in Rows
    BY <2>2, <2>3, <2>4 DEF Rows
  <2> HIDE DEF row
  <2> QED BY <1>1, <2>1, <2>5 DEF FoundInv, Rows
<1>4. ASSUME NEW a \in Bindings, Raise(a) PROVE FoundInv'
  BY <1>4 DEF Raise, FoundInv
<1> QED
  BY <1>2, <1>3, <1>4 DEF Next, Tick, Begin, Fail, Finish, Cancel, vars, outcome

LEMMA FoundHolds == Spec => []FoundInv
<1>1. Init => FoundInv
  BY DEF Init, FoundInv
<1> QED
  BY <1>1, FoundStep, TimesHold, PTL DEF Spec

(* Every variable keeps its type, and there are never more requests under  *)
(* way than probes, whenever servers answer.                               *)
THEOREM WebTypeCorrect == Spec => []TypeOK
<1>1. Times /\ FoundInv => TypeOK
  BY DEF Times, FoundInv, Rows, TypeOK
<1> QED
  BY <1>1, TimesHold, FoundHolds, PTL
-----------------------------------------------------------------------------
(* Progress.  A wave is two requests at the limit.  Whoever was asked by   *)
(* the k-th wave's beginning is over before the next one's: these are all  *)
(* the candidates, or as many as all probes could begin with until then.   *)
Wave(k) == k * (2 * Limit)

AskedBy(k) ==
    {b \in Candidates :
        \/ step[b] = "over"
        \/ step[b] = "first" /\ asked[b] <= Wave(k)
        \/ step[b] = "second" /\ asked[b] <= Wave(k) + Limit}

Enough(k) ==
    \/ Candidates \subseteq AskedBy(k)
    \/ Cardinality(AskedBy(k)) >= (k + 1) * Probes

WaveInv ==
    /\ \A b \in Running : asked[b] <= now /\ now <= asked[b] + Limit
    /\ \A b \in Candidates : step[b] # "none"
    /\ \A k \in Nat : Wave(k) < now => Enough(k)
    /\ now <= Wave(Waves)
    /\ warned => now = Budget

LEMMA WaveStep ==
    /\ \A k \in Nat : Wave(k) \in Nat /\ Wave(k + 1) = Wave(k) + 2 * Limit
    /\ \A k \in Nat : (k + 1) * Probes \in Nat
    /\ \A k \in Nat : (k + 2) * Probes = (k + 1) * Probes + Probes
    /\ \A j, k \in Nat : j < k => Wave(j) + 2 * Limit <= Wave(k)
    /\ Wave(0) = 0 /\ Limit \in Nat \ {0} /\ Probes \in Nat \ {0}
    /\ Budget \in Nat
<1>1. Limit \in Nat \ {0} /\ Probes \in Nat \ {0} /\ Budget \in Nat
  BY WebAssumption
<1>2. \A k \in Nat : Wave(k) \in Nat /\ Wave(k + 1) = Wave(k) + 2 * Limit
  BY <1>1 DEF Wave
<1>3. \A k \in Nat : (k + 1) * Probes \in Nat
  BY <1>1
<1>4. \A k \in Nat : (k + 2) * Probes = (k + 1) * Probes + Probes
  BY <1>1
<1>5. \A j, k \in Nat : j < k => Wave(j) + 2 * Limit <= Wave(k)
  <2> TAKE j, k \in Nat
  <2>1. HAVE j < k
  <2>2. k - (j + 1) \in Nat /\ 2 * Limit \in Nat
    BY <1>1, <2>1
  <2>3. (k - (j + 1)) * (2 * Limit) \in Nat
    BY <2>2
  <2>4. Wave(k) = Wave(j) + 2 * Limit + (k - (j + 1)) * (2 * Limit)
    BY <1>1 DEF Wave
  <2>5. Wave(j) \in Nat
    BY <1>2
  <2> HIDE DEF Wave
  <2> QED BY <2>2, <2>3, <2>4, <2>5
<1>6. Wave(0) = 0
  BY <1>1 DEF Wave
<1> QED BY <1>1, <1>2, <1>3, <1>4, <1>5, <1>6

LEMMA Quotient ==
    ASSUME NEW n \in Nat, NEW p \in Nat \ {0}
    PROVE  /\ (n + p - 1) \div p \in Nat
           /\ ((n + p - 1) \div p) * p >= n
<1> DEFINE q == (n + p - 1) \div p
           r == (n + p - 1) % p
<1>1. q \in Int /\ r \in 0..p - 1 /\ n + p - 1 = p * q + r
  OBVIOUS
<1> HIDE DEF q, r
<1>2. p * q >= n
  BY <1>1
<1>3. ASSUME q < 0 PROVE FALSE
  <2>1. -q \in Nat /\ p * (-q) \in Nat
    BY <1>1, <1>3
  <2>2. p * q = -(p * (-q))
    BY <1>1
  <2>3. p * q <= 0 /\ n = 0
    BY <2>1, <2>2, <1>1, <1>2
  <2>4. r = p - 1 - p * q
    BY <1>1, <2>3
  <2>5. -q >= 1
    BY <1>1, <1>3
  <2>6. p * (-q) >= 1
    BY <2>1, <2>5
  <2> QED BY <1>1, <2>2, <2>4, <2>6
<1>4. q * p = p * q
  BY <1>1
<1> QED BY <1>1, <1>2, <1>3, <1>4 DEF q

LEMMA WavesAreEnough ==
    ASSUME Times
    PROVE  /\ IsFiniteSet(Candidates) /\ Cardinality(Candidates) \in Nat
           /\ Waves \in Nat
           /\ Waves * Probes >= Cardinality(Candidates)
<1>1. IsFiniteSet(Candidates) /\ Cardinality(Candidates) \in Nat
  BY FiniteBindings, FS_Subset, FS_CardinalityType DEF Candidates, Times
<1>2. Probes \in Nat \ {0}
  BY WaveStep
<1> QED BY <1>1, <1>2, Quotient DEF Waves

LEMMA AskedIsFinite ==
    ASSUME Times, NEW k \in Nat
    PROVE  /\ IsFiniteSet(AskedBy(k)) /\ Cardinality(AskedBy(k)) \in Nat
           /\ AskedBy(k) \subseteq Candidates
<1>1. AskedBy(k) \subseteq Candidates /\ Candidates \subseteq Bindings
  BY DEF AskedBy, Candidates, Times
<1> QED BY <1>1, FiniteBindings, FS_Subset, FS_CardinalityType

(* Nobody leaves the set of those asked by some time.                      *)
LEMMA EnoughStays ==
    ASSUME Times, Times', NEW k \in Nat, Enough(k),
           Candidates' = Candidates, AskedBy(k) \subseteq AskedBy(k)'
    PROVE  Enough(k)'
<1>1. CASE Candidates \subseteq AskedBy(k)
  BY <1>1 DEF Enough
<1>2. CASE Cardinality(AskedBy(k)) >= (k + 1) * Probes
  <2>1. IsFiniteSet(AskedBy(k)') /\ Cardinality(AskedBy(k)') \in Nat
    BY AskedIsFinite, FiniteBindings, FS_Subset, FS_CardinalityType DEF AskedBy, Candidates, Times
  <2>2. Cardinality(AskedBy(k)) <= Cardinality(AskedBy(k)')
    BY <2>1, FS_Subset
  <2>3. (k + 1) * Probes \in Nat /\ Cardinality(AskedBy(k)) \in Nat
    BY WaveStep, AskedIsFinite
  <2> QED BY <1>2, <2>1, <2>2, <2>3 DEF Enough
<1> QED BY <1>1, <1>2 DEF Enough
LEMMA AllOver ==
    ASSUME Times, WaveInv, Tick, NEW k \in Nat, Wave(k) + 2 * Limit <= now
    PROVE  AskedBy(k) \cap Running = {}
<1> SUFFICES ASSUME NEW b \in Running, b \in AskedBy(k) PROVE FALSE
  OBVIOUS
<1>1. asked[b] \in Nat /\ now \in Nat /\ Wave(k) \in Nat /\ Limit \in Nat
  BY WaveStep DEF Times, Running
<1>2. now < asked[b] + Limit
  BY <1>1 DEF Tick, Deadline
<1>3. asked[b] <= Wave(k) + Limit
  BY <1>1 DEF AskedBy, Running
<1> QED BY <1>1, <1>2, <1>3

(* A wave begins with every probe at work, or with nothing left to begin.  *)
LEMMA WaveBegins ==
    ASSUME Times, WaveInv, Tick, NEW k \in Nat, Wave(k) = now
    PROVE  Enough(k)
<1>1. Running \subseteq AskedBy(k)
  <2> SUFFICES ASSUME NEW b \in Running PROVE b \in AskedBy(k)
    OBVIOUS
  <2>1. b \in Candidates /\ asked[b] <= Wave(k) /\ asked[b] \in Nat
    BY DEF Times, WaveInv, Running
  <2>2. Wave(k) \in Nat /\ Limit \in Nat
    BY WaveStep
  <2>3. asked[b] <= Wave(k) + Limit
    BY <2>1, <2>2
  <2> HIDE DEF Wave
  <2> QED BY <2>1, <2>3 DEF AskedBy, Running
<1>2. CASE Queued = {}
  <2> SUFFICES ASSUME NEW b \in Candidates PROVE b \in AskedBy(k)
    BY DEF Enough
  <2>1. b \in Bindings /\ step[b] \in {"first", "second", "over"}
    BY <1>2 DEF WaveInv, Times, Queued, Candidates
  <2> QED BY <1>1, <2>1 DEF Running, AskedBy
<1>3. CASE ~Slot
  <2>1. Cardinality(Running) >= Probes /\ Cardinality(Running) \in Nat
    BY <1>3, RunningFinite, WaveStep DEF Slot
  <2>2. CASE k = 0
    <3>1. Cardinality(Running) <= Cardinality(AskedBy(k))
      BY <1>1, AskedIsFinite, FS_Subset
    <3>2. (k + 1) * Probes = Probes
      BY <2>2, WaveStep
    <3> QED BY <2>1, <3>1, <3>2, AskedIsFinite, WaveStep DEF Enough
  <2>3. CASE k # 0
    <3> DEFINE j == k - 1
    <3>1. j \in Nat /\ j + 1 = k /\ j + 2 = k + 1
      BY <2>3
    <3> HIDE DEF j
    <3>2. Wave(j) + 2 * Limit = now /\ Wave(j) < now
      <4>1. Wave(j + 1) = Wave(j) + 2 * Limit /\ Wave(j) \in Nat
        BY <3>1, WaveStep
      <4>2. Wave(j) + 2 * Limit = now
        BY <3>1, <4>1
      <4> QED BY <4>1, <4>2, WaveStep
    <3>3. AskedBy(j) \cap Running = {}
      BY <3>1, <3>2, AllOver, WaveStep
    <3>4. Running # {}
      BY DEF Tick
    <3>5. ~(Candidates \subseteq AskedBy(j))
      BY <3>3, <3>4 DEF Times
    <3>6. Cardinality(AskedBy(j)) >= (j + 1) * Probes
      BY <3>1, <3>2, <3>5 DEF WaveInv, Enough
    <3>7. AskedBy(j) \subseteq AskedBy(k)
      <4> SUFFICES ASSUME NEW b \in AskedBy(j), b \notin Running
                   PROVE  b \in AskedBy(k)
        BY <1>1
      <4> QED BY DEF AskedBy, Running, Candidates, Times
    <3>8. /\ IsFiniteSet(AskedBy(j) \cup Running)
          /\ Cardinality(AskedBy(j) \cup Running)
                = Cardinality(AskedBy(j)) + Cardinality(Running)
      <4>1. Cardinality(AskedBy(j) \cap Running) = 0
        BY <3>3, FS_EmptySet
      <4>2. IsFiniteSet(AskedBy(j)) /\ Cardinality(AskedBy(j)) \in Nat
        BY <3>1, AskedIsFinite
      <4>3. /\ IsFiniteSet(AskedBy(j) \cup Running)
            /\ Cardinality(AskedBy(j) \cup Running)
                  = Cardinality(AskedBy(j)) + Cardinality(Running)
                       - Cardinality(AskedBy(j) \cap Running)
        BY <4>2, RunningFinite, FS_Union
      <4> QED BY <4>1, <4>2, <4>3, RunningFinite
    <3>9. Cardinality(AskedBy(j) \cup Running) <= Cardinality(AskedBy(k))
      BY <1>1, <3>7, AskedIsFinite, FS_Subset
    <3>10. (k + 1) * Probes = k * Probes + Probes /\ k * Probes \in Nat
      BY <3>1, WaveStep
    <3>11. /\ Cardinality(AskedBy(j)) \in Nat /\ Cardinality(AskedBy(k)) \in Nat
           /\ Probes \in Nat
      BY <3>1, AskedIsFinite, WaveStep
    <3>12. Cardinality(AskedBy(j)) >= k * Probes
      BY <3>1, <3>6
    <3>13. Cardinality(AskedBy(k)) >= k * Probes + Probes
      BY <2>1, <3>8, <3>9, <3>10, <3>11, <3>12
    <3> QED
      BY <3>10, <3>13 DEF Enough
  <2> QED BY <2>2, <2>3
<1> QED BY <1>2, <1>3 DEF Tick

(* After the last wave nothing is under way.                               *)
LEMMA LastWave ==
    ASSUME Times, WaveInv, Tick
    PROVE  now < Wave(Waves)
<1> SUFFICES ASSUME now = Wave(Waves) PROVE FALSE
  <2>1. Wave(Waves) \in Nat
    BY WavesAreEnough, WaveStep
  <2>2. now <= Wave(Waves) /\ now \in Int
    BY DEF WaveInv, Times
  <2> QED BY <2>1, <2>2
<1>1. Running # {} /\ Running \subseteq Candidates
  BY DEF Tick, Times
<1>2. CASE Waves = 0
  <2>1. Cardinality(Candidates) = 0
    BY <1>2, WavesAreEnough, WaveStep
  <2> QED BY <1>1, <2>1, WavesAreEnough, FS_EmptySet
<1>3. CASE Waves # 0
  <2> DEFINE k == Waves - 1
  <2>1. k \in Nat /\ k + 1 = Waves
    BY <1>3, WavesAreEnough
  <2> HIDE DEF k
  <2>2. Wave(k) + 2 * Limit = now /\ Wave(k) < now
    <3>1. Wave(k + 1) = Wave(k) + 2 * Limit /\ Wave(k) \in Nat
      BY <2>1, WaveStep
    <3>2. Wave(k) + 2 * Limit = now
      BY <2>1, <3>1
    <3> QED BY <3>1, <3>2, WaveStep
  <2>3. AskedBy(k) \cap Running = {}
    BY <2>1, <2>2, AllOver, WaveStep
  <2>4. Cardinality(AskedBy(k)) >= (k + 1) * Probes
    BY <1>1, <2>1, <2>2, <2>3 DEF WaveInv, Enough
  <2>5. Cardinality(AskedBy(k)) = Cardinality(Candidates)
    <3>1. /\ AskedBy(k) \in SUBSET Candidates
          /\ Cardinality(AskedBy(k)) \in Nat /\ Cardinality(Candidates) \in Nat
      BY <2>1, AskedIsFinite, WavesAreEnough
    <3>2. Cardinality(AskedBy(k)) <= Cardinality(Candidates)
      BY <3>1, WavesAreEnough, FS_Subset
    <3>3. Waves * Probes >= Cardinality(Candidates) /\ Waves * Probes \in Nat
      BY <2>1, WavesAreEnough, WaveStep
    <3>4. Cardinality(AskedBy(k)) >= Waves * Probes
      BY <2>1, <2>4
    <3> QED BY <3>1, <3>2, <3>3, <3>4
  <2>6. AskedBy(k) = Candidates
    BY <2>1, <2>5, WavesAreEnough, AskedIsFinite, FS_Subset
  <2> QED BY <1>1, <2>3, <2>6
<1> QED BY <1>2, <1>3

(* What may become of a candidate while no time passes.                    *)
Moves(b) ==
    \/ step'[b] = step[b] /\ asked'[b] = asked[b]
    \/ step[b] = "queued" /\ step'[b] = "first" /\ asked'[b] = now
    \/ step[b] = "first" /\ step'[b] = "second" /\ asked'[b] = now
    \/ step[b] # "none" /\ step'[b] = "over"

LEMMA MovesKeepWaves ==
    ASSUME Times, Times', WaveInv, UNCHANGED <<host, published, now>>,
           \A b \in Candidates : Moves(b), warned' => now = Budget
    PROVE  WaveInv'
<1>1. Candidates' = Candidates /\ Waves' = Waves /\ Candidates \subseteq Bindings
  BY DEF Candidates, Waves, Times
<1>2. ASSUME NEW b \in Candidates, b \in Running PROVE
             /\ asked[b] \in Nat /\ now \in Nat
             /\ asked[b] <= now /\ now <= asked[b] + Limit
  BY <1>2 DEF Times, WaveInv, Running
<1>3. ASSUME NEW b \in Running' PROVE asked'[b] <= now' /\ now' <= asked'[b] + Limit
  <2>1. b \in Candidates /\ Moves(b) /\ now \in Nat
    BY <1>1, <1>3 DEF Times
  <2>2. CASE asked'[b] = now
    BY <2>1, <2>2, WaveStep
  <2>3. CASE step'[b] = step[b] /\ asked'[b] = asked[b]
    BY <1>2, <1>3, <2>1, <2>3 DEF Running
  <2> QED BY <1>3, <2>1, <2>2, <2>3 DEF Moves, Running
<1>4. \A b \in Candidates : step'[b] # "none"
  BY DEF Moves, WaveInv
<1>5. ASSUME NEW k \in Nat, Wave(k) < now PROVE Enough(k)'
  <2>1. AskedBy(k) \subseteq AskedBy(k)'
    <3> SUFFICES ASSUME NEW b \in Candidates, b \in AskedBy(k)
                 PROVE  b \in AskedBy(k)'
      BY DEF AskedBy
    <3>1. Moves(b) /\ b \in Candidates'
      BY <1>1
    <3>2. CASE step[b] = "first" /\ step'[b] = "second" /\ asked'[b] = now
      <4>1. b \in Running
        BY <1>1, <3>2 DEF Running
      <4>2. asked[b] <= Wave(k) /\ Wave(k) \in Nat /\ Limit \in Nat
        BY <3>2, WaveStep DEF AskedBy
      <4>3. asked'[b] <= Wave(k) + Limit
        BY <1>2, <3>2, <4>1, <4>2
      <4> QED BY <3>1, <3>2, <4>3 DEF AskedBy, Wave
    <3>3. CASE step'[b] = step[b] /\ asked'[b] = asked[b]
      BY <3>1, <3>3 DEF AskedBy, Wave
    <3>4. CASE step'[b] = "over"
      BY <3>1, <3>4 DEF AskedBy
    <3> QED BY <3>1, <3>2, <3>3, <3>4 DEF Moves, AskedBy
  <2> QED BY <1>1, <1>5, <2>1, EnoughStays DEF WaveInv
<1>6. /\ now' <= Wave(Waves') /\ (warned' => now' = Budget)
  BY <1>1 DEF WaveInv
<1> QED BY <1>1, <1>3, <1>4, <1>5, <1>6 DEF WaveInv, Wave

LEMMA TickKeepsWaves ==
    ASSUME Times, Times', WaveInv, Tick
    PROVE  WaveInv'
<1>1. /\ UNCHANGED <<host, published, step, asked, found, warned, done>>
      /\ now' = now + 1 /\ now \in Nat /\ ~done
  BY DEF Tick, fixed, outcome, Times
<1>2. /\ Candidates' = Candidates /\ Waves' = Waves /\ Running' = Running
      /\ \A k : Enough(k)' <=> Enough(k)
  BY <1>1 DEF Candidates, Waves, Running, Enough, AskedBy, Wave
<1>3. ASSUME NEW b \in Running PROVE asked[b] <= now + 1 /\ now + 1 <= asked[b] + Limit
  <2>1. asked[b] \in Nat /\ asked[b] <= now /\ Limit \in Nat
    BY WaveStep DEF Times, WaveInv, Running
  <2>2. now < asked[b] + Limit
    BY <1>1, <2>1 DEF Tick, Deadline
  <2> QED BY <1>1, <2>1, <2>2
<1>4. ASSUME NEW k \in Nat, Wave(k) < now + 1 PROVE Enough(k)
  <2>1. Wave(k) \in Nat
    BY WaveStep
  <2>2. CASE Wave(k) < now
    BY <2>2 DEF WaveInv
  <2>3. CASE Wave(k) = now
    BY <2>3, WaveBegins
  <2> QED BY <1>1, <1>4, <2>1, <2>2, <2>3
<1>5. now + 1 <= Wave(Waves)
  <2>1. Wave(Waves) \in Nat
    BY WavesAreEnough, WaveStep
  <2> QED BY <1>1, <2>1, LastWave
<1>6. ~warned'
  BY <1>1, WaveStep DEF WaveInv, Tick
<1> QED
  BY <1>1, <1>2, <1>3, <1>4, <1>5, <1>6 DEF WaveInv, Wave

LEMMA WavesStep == Times /\ Times' /\ WaveInv /\ [Next]_vars => WaveInv'
<1> SUFFICES ASSUME Times, Times', WaveInv, [Next]_vars PROVE WaveInv'
  OBVIOUS
<1>1. Candidates \subseteq Bindings
  BY DEF Candidates, Times
<1>2. ASSUME NEW a \in Bindings, Begin(a) PROVE WaveInv'
  BY <1>1, <1>2, MovesKeepWaves
     DEF Begin, NextInLine, Queued, Moves, Times, WaveInv, fixed, outcome
<1>3. ASSUME NEW a \in Bindings, Answer(a) PROVE WaveInv'
  BY <1>1, <1>3, MovesKeepWaves
     DEF Answer, Running, Moves, Times, WaveInv, fixed
<1>4. ASSUME NEW a \in Bindings, Fail(a) PROVE WaveInv'
  BY <1>1, <1>4, MovesKeepWaves
     DEF Fail, Running, Moves, Times, WaveInv, fixed, outcome
<1>5. CASE Finish \/ UNCHANGED vars
  BY <1>1, <1>5, MovesKeepWaves
     DEF Finish, vars, Moves, WaveInv, fixed, outcome
<1>6. CASE Cancel
  BY <1>1, <1>6, MovesKeepWaves
     DEF Cancel, Stop, Running, Queued, Moves, Times, WaveInv, fixed
<1>7. ASSUME NEW a \in Bindings, Raise(a) PROVE WaveInv'
  BY <1>1, <1>7, MovesKeepWaves
     DEF Raise, Stop, Running, Queued, Moves, Times, WaveInv, fixed
<1> QED
  BY <1>2, <1>3, <1>4, <1>5, <1>6, <1>7, TickKeepsWaves DEF Next

(* Discovery of few enough candidates ends before its budget, and without  *)
(* a warning, however slow or silent their servers are.                    *)
THEOREM FewAreChecked == Spec => []FewFinish
<1>1. Init => WaveInv
  <2> SUFFICES ASSUME Init PROVE WaveInv
    OBVIOUS
  <2>1. Times
    BY TimesInit
  <2>2. Running = {} /\ now = 0 /\ ~warned
    BY DEF Init, Running
  <2>3. \A b \in Candidates : step[b] # "none"
    BY <2>1 DEF Init, Candidates, Times
  <2>4. ASSUME NEW k \in Nat PROVE ~(Wave(k) < 0) /\ 0 <= Wave(k)
    <3>1. Wave(k) \in Nat
      BY WaveStep
    <3> HIDE DEF Wave
    <3> QED BY <3>1
  <2>5. 0 <= Wave(Waves)
    BY <2>1, <2>4, WavesAreEnough
  <2> QED BY <2>2, <2>3, <2>4, <2>5 DEF WaveInv
<1>2. Times /\ WaveInv => FewFinish
  <2> SUFFICES ASSUME Times, WaveInv, Waves * 2 * Limit < Budget, warned
               PROVE  FALSE
    BY DEF FewFinish
  <2>1. Waves * 2 * Limit = Wave(Waves)
    BY WavesAreEnough, WaveStep DEF Wave
  <2>2. Wave(Waves) \in Nat /\ Budget \in Nat
    BY WavesAreEnough, WaveStep
  <2> QED BY <2>1, <2>2 DEF WaveInv
<1> QED
  BY <1>1, <1>2, WavesStep, TimesHold, PTL DEF Spec
=============================================================================
