-------------------------- MODULE HeadPagesProofs --------------------------
(***************************************************************************)
(* The time properties of HeadSnapshots, for any nodes, time-outs,         *)
(* intervals, limits and errors of clocks, and on top of them what the     *)
(* pages of HeadPages say, for any reports, paths, mappings, names,        *)
(* addresses and devices.                                                  *)
(***************************************************************************)
EXTENDS HeadPages, FiniteSetTheorems, WellFoundedInduction, TLAPS

-----------------------------------------------------------------------------
(* Induction, and the least and greatest of numbers. *)

LEMMA LeastElement ==
    ASSUME NEW S \in SUBSET Nat, S # {}
    PROVE  \E m \in S : \A n \in S : m <= n
  <1> DEFINE R == OpToRel(<, Nat)
  <1>1. \A m, n \in Nat : <<m, n>> \in R <=> m < n
    BY DEF OpToRel
  <1>2. IsWellFoundedOn(R, Nat)
    BY NatLessThanWellFounded
  <1> HIDE DEF R
  <1>3. PICK m \in S : \A n \in S : ~(<<n, m>> \in R)
    BY <1>2, WFMin
  <1>4. \A n \in S : n \in Nat /\ m \in Nat
    OBVIOUS
  <1>5. \A n \in S : ~(n < m)
    BY <1>1, <1>3, <1>4
  <1> QED BY <1>4, <1>5

LEMMA SetInduction ==
    ASSUME NEW S, 0 \in S, \A n \in Nat : n \in S => n + 1 \in S
    PROVE  Nat \subseteq S
  <1> SUFFICES ASSUME Nat \ S # {} PROVE FALSE
    OBVIOUS
  <1>1. PICK m \in Nat \ S : \A n \in Nat \ S : m <= n
    BY LeastElement
  <1>2. m # 0 /\ m - 1 \in Nat
    BY <1>1
  <1>3. m - 1 \in S
    BY <1>1, <1>2
  <1> QED BY <1>1, <1>2, <1>3

LEMMA GreatestElement ==
    ASSUME NEW top \in Nat, NEW S \in SUBSET (0..top), S # {}
    PROVE  \E m \in S : \A n \in S : n <= m
  <1> DEFINE D == {top - n : n \in S}
  <1>1. D \in SUBSET Nat /\ D # {}
    <2>1. \A n \in S : top - n \in Nat
      OBVIOUS
    <2> QED BY <2>1
  <1>2. PICK d \in D : \A e \in D : d <= e
    BY <1>1, LeastElement
  <1>3. PICK m \in S : d = top - m
    BY <1>2
  <1>4. ASSUME NEW n \in S PROVE n <= m
    <2>1. top - m <= top - n /\ m \in 0..top /\ n \in 0..top
      BY <1>2, <1>3
    <2> QED BY <2>1
  <1> QED BY <1>4

LEMMA LeastIsMin ==
    ASSUME NEW S \in SUBSET Nat, S # {}
    PROVE  Min(S) \in S
  <1>1. \E m \in S : \A n \in S : m <= n
    BY LeastElement
  <1> QED BY <1>1 DEF Min

LEMMA GreatestIsMax ==
    ASSUME NEW top \in Nat, NEW S \in SUBSET (0..top), S # {}
    PROVE  Max(S) \in S
  <1>1. \E m \in S : \A n \in S : n <= m
    BY GreatestElement
  <1>2. \A m, n \in S : n <= m => m >= n
    OBVIOUS
  <1>3. \E m \in S : \A n \in S : m >= n
    BY <1>1, <1>2
  <1> QED BY <1>3 DEF Max

-----------------------------------------------------------------------------
(* Snapshots and time. *)

Turns == Len(Order)
Rest == DnsMost + Interval

(* A step of the poller is never past its deadline, and deadlines are as   *)
(* near as the step allows.                                                *)
OnTime ==
    /\ since <= now /\ now <= by
    /\ turn <= Turns => by <= since + parts * Timeout
    /\ turn = Turns + 1 => by <= since + Rest

(* The snapshot that is shown has nearly the time of the one that came     *)
(* last, and nearly the time it was received.                              *)
Near ==
    \A n \in stored :
        /\ received[n] <= last[n] /\ last[n] <= now
        /\ at[n] <= received[n] + Skew
        /\ at[n] >= last[n] - Longest - Skew

(* What k polls may take.                                                  *)
Polls(k) == k * Longest

(* How long ago a node that answered in its turn can have done so, when    *)
(* the present step began: the polls since, and once the rest.             *)
Recent ==
    /\ \A n \in answered : \E i \in 1..Turns : Order[i] = n
    /\ \A i \in 1..Turns : Order[i] \in answered =>
          /\ turn > i => since <= last[Order[i]] + Polls(turn - i - 1)
          /\ turn <= i => since <= last[Order[i]] + Rest + Polls(Turns - i + turn - 1)

IInv == TypeOK /\ OnTime /\ Near /\ Recent

LEMMA Parts ==
    Timeout \in Nat /\ MostParts \in Nat /\ MostParts >= 1
  BY SnapshotAssumption

LEMMA Constants ==
    /\ Longest \in Nat /\ DnsMost \in Nat /\ Interval \in Nat /\ Rest \in Nat
    /\ StaleAfter \in Nat /\ Skew \in Nat
    /\ \A n \in Nodes : Reports[n] # {}
  <1>1. DnsMost \in Nat /\ Interval \in Nat
    BY SnapshotAssumption
  <1>3. Longest \in Nat
    BY Parts DEF Longest
  <1> QED BY <1>1, <1>3, SnapshotAssumption DEF Rest

LEMMA TurnsNat ==
    /\ Turns \in Nat /\ Turns >= 1 /\ Turns = Len(Order)
    /\ \A i \in 1..Turns : Order[i] \in Nodes
    /\ \A i, j \in 1..Turns : Order[i] = Order[j] => i = j
  <1>1. Order \in Seq(Nodes) /\ Order # <<>>
    BY SnapshotAssumption
  <1>2. DOMAIN Order = 1..Len(Order) /\ Len(Order) \in Nat /\ Len(Order) # 0
    BY <1>1
  <1> QED BY <1>1, <1>2, SnapshotAssumption DEF Turns

USE Constants, Parts

LEMMA OnePollMore ==
    ASSUME NEW k \in Int PROVE Polls(k + 1) = Polls(k) + Longest /\ Polls(k) \in Int
  BY DEF Polls

LEMMA MorePolls ==
    ASSUME NEW k \in Nat, NEW m \in Nat, k <= m PROVE Polls(k) <= Polls(m)
  <1>1. m * Longest = k * Longest + (m - k) * Longest
    OBVIOUS
  <1>2. (m - k) * Longest >= 0
    <2>1. m - k \in Nat /\ Longest \in Nat
      OBVIOUS
    <2> QED BY <2>1
  <1>3. k * Longest \in Int /\ m * Longest \in Int /\ (m - k) * Longest \in Int
    OBVIOUS
  <1> QED BY <1>1, <1>2, <1>3 DEF Polls

(* Each part has its time-out, and so a poll is over after all of them.    *)
LEMMA PartsFit ==
    ASSUME NEW k \in 1..MostParts
    PROVE  /\ k * Timeout \in Nat /\ k * Timeout <= Longest
           /\ (k + 1) * Timeout = k * Timeout + Timeout
  <1>1. MostParts * Timeout = k * Timeout + (MostParts - k) * Timeout
    OBVIOUS
  <1>2. (MostParts - k) * Timeout \in Nat
    <2>1. MostParts - k \in Nat
      OBVIOUS
    <2> QED BY <2>1
  <1>3. k * Timeout \in Nat /\ (k + 1) * Timeout = k * Timeout + Timeout
    OBVIOUS
  <1>4. MostParts * Timeout \in Nat
    OBVIOUS
  <1> QED BY <1>1, <1>2, <1>3, <1>4 DEF Longest

LEMMA PollFits ==
    ASSUME TypeOK, OnTime, turn \in 1..Turns
    PROVE  now <= since + Longest
  <1>1. /\ now \in Nat /\ since \in Nat /\ by \in Nat /\ now <= by
        /\ parts \in 1..MostParts /\ by <= since + parts * Timeout
    BY TurnsNat DEF TypeOK, OnTime
  <1>2. parts * Timeout \in Nat /\ parts * Timeout <= Longest
    BY <1>1, PartsFit
  <1> DEFINE d == parts * Timeout
  <1> HIDE DEF d
  <1>3. d \in Nat /\ d <= Longest /\ by <= since + d
    BY <1>1, <1>2 DEF d
  <1> QED BY <1>1, <1>3

LEMMA Initially == Init => IInv
  <1> SUFFICES ASSUME Init PROVE IInv
    OBVIOUS
  <1>1. TypeOK
    BY TurnsNat DEF Init, TypeOK, Rounds, Turns
  <1>2. OnTime
    BY TurnsNat DEF Init, OnTime, Turns, Rest
  <1>3. Near
    BY DEF Init, Near
  <1>4. Recent
    BY DEF Init, Recent
  <1> QED BY <1>1, <1>2, <1>3, <1>4 DEF IInv

(* Going on to the next turn keeps to the time-table.                      *)
LEMMA GoOn ==
    ASSUME IInv, NEW n \in Nodes, Asking(n), Proceed, now' = now
    PROVE  /\ turn' \in Rounds /\ since' \in Nat /\ by' \in Nat
           /\ parts' \in 1..MostParts
           /\ OnTime'
           /\ \A i \in 1..Turns : i # turn /\ Order[i] \in answered =>
                 /\ turn' > i => since' <= last[Order[i]] + Polls(turn' - i - 1)
                 /\ turn' <= i =>
                       since' <= last[Order[i]] + Rest + Polls(Turns - i + turn' - 1)
  <1>1. /\ turn \in 1..Turns /\ now \in Nat /\ since \in Nat /\ by \in Nat
        /\ turn' = turn + 1 /\ since' = now /\ parts' = 1
    BY TurnsNat DEF IInv, TypeOK, Rounds, Asking, Proceed, Turns
  <1>6. now <= since + Longest
    BY <1>1, PollFits DEF IInv
  <1>2. by' = now + (IF turn < Turns THEN Timeout ELSE Rest)
    BY TurnsNat DEF Proceed, Turns, Rest, IInv, TypeOK
  <1>3. turn' \in Rounds /\ since' \in Nat /\ by' \in Nat
    BY <1>1, <1>2, TurnsNat DEF Rounds, Turns, Rest
  <1>4. OnTime'
    <2>1. parts' * Timeout = Timeout
      BY <1>1
    <2> QED BY <1>1, <1>2, <2>1, TurnsNat DEF OnTime, Turns, Rest
  <1>5. ASSUME NEW i \in 1..Turns, i # turn, Order[i] \in answered
        PROVE  /\ turn' > i => since' <= last[Order[i]] + Polls(turn' - i - 1)
               /\ turn' <= i =>
                     since' <= last[Order[i]] + Rest + Polls(Turns - i + turn' - 1)
    <2>1. last[Order[i]] \in Nat /\ Rest \in Nat
      BY TurnsNat, <1>5 DEF IInv, TypeOK, Rest
    <2>2. CASE turn > i
      <3>1. since <= last[Order[i]] + Polls(turn - i - 1)
        BY <1>5, <2>2 DEF IInv, Recent
      <3>2. Polls(turn' - i - 1) = Polls(turn - i - 1) + Longest /\ Polls(turn - i - 1) \in Int
        <4>1. turn - i - 1 \in Int /\ turn' - i - 1 = (turn - i - 1) + 1
          BY <1>1, TurnsNat
        <4> QED BY <4>1, OnePollMore
      <3>3. ~(turn' <= i)
        BY <1>1, <2>2, TurnsNat
      <3>4. since' <= last[Order[i]] + Polls(turn' - i - 1)
        <4> DEFINE more == Polls(turn' - i - 1)  few == Polls(turn - i - 1)
                   l == last[Order[i]]
        <4>1. more = few + Longest /\ few \in Int /\ since <= l + few /\ l \in Nat
          BY <2>1, <3>1, <3>2
        <4> HIDE DEF more, few, l
        <4>2. since' <= l + more
          BY <1>1, <1>6, <4>1
        <4> QED BY <4>2 DEF more, l
      <3> QED BY <3>3, <3>4
    <2>3. CASE turn < i
      <3>1. since <= last[Order[i]] + Rest + Polls(Turns - i + turn - 1)
        BY <1>5, <2>3, <1>1, TurnsNat DEF IInv, Recent
      <3>2. /\ Polls(Turns - i + turn' - 1) = Polls(Turns - i + turn - 1) + Longest
            /\ Polls(Turns - i + turn - 1) \in Int
        <4>1. /\ Turns - i + turn - 1 \in Int
              /\ Turns - i + turn' - 1 = (Turns - i + turn - 1) + 1
          BY <1>1, TurnsNat
        <4> QED BY <4>1, OnePollMore
      <3>3. ~(turn' > i)
        BY <1>1, <2>3, TurnsNat
      <3>4. since' <= last[Order[i]] + Rest + Polls(Turns - i + turn' - 1)
        <4> DEFINE more == Polls(Turns - i + turn' - 1)
                   few == Polls(Turns - i + turn - 1)
                   l == last[Order[i]] + Rest
        <4>1. more = few + Longest /\ few \in Int /\ since <= l + few /\ l \in Nat
          BY <2>1, <3>1, <3>2
        <4> HIDE DEF more, few, l
        <4>2. since' <= l + more
          BY <1>1, <1>6, <4>1
        <4> QED BY <4>2 DEF more, l
      <3> QED BY <3>3, <3>4
    <2> QED BY <1>1, <1>5, <2>2, <2>3, TurnsNat
  <1> QED BY <1>1, <1>3, <1>4, <1>5

LEMMA Steps == IInv /\ [Next]_vars => IInv'
  <1> SUFFICES ASSUME IInv, [Next]_vars PROVE IInv'
    OBVIOUS
  <1> USE DEF IInv
  <1>1. CASE Tick
    <2>1. TypeOK'
      BY <1>1 DEF Tick, TypeOK, latest, poller
    <2>2. OnTime'
      BY <1>1, TurnsNat DEF Tick, TypeOK, OnTime, latest, poller, Turns, Rest, Rounds
    <2>3. Near'
      BY <1>1 DEF Tick, TypeOK, Near, latest, poller
    <2>4. Recent'
      BY <1>1 DEF Tick, Recent, latest, poller
    <2> QED BY <2>1, <2>2, <2>3, <2>4
  <1>2. ASSUME NEW n \in Nodes, Answer(n) PROVE IInv'
    <2>1. Asking(n) /\ Proceed /\ now' = now
      BY <1>2 DEF Answer
    <2>2. PICK taken \in since..now, error \in -Skew..Skew, x \in Reports[n] :
              Store(n, taken + error, x)
      BY <1>2 DEF Answer
    <2>3. /\ last' = [last EXCEPT ![n] = now] /\ answered' = answered \cup {n}
          /\ stored' = stored \cup {n}
      BY <1>2, <2>2 DEF Answer, Store
    <2>4. /\ turn \in 1..Turns /\ Order[turn] = n /\ turn' = turn + 1
          /\ now \in Nat /\ since \in Nat /\ since' = now
      BY <2>1, TurnsNat DEF TypeOK, Rounds, Asking, Proceed, Turns
    <2>10. now <= since + Longest
      BY <2>4, PollFits
    <2>5. taken + error \in Int /\ taken + error <= now + Skew
              /\ taken + error >= now - Longest - Skew
      BY <2>2, <2>4, <2>10
    <2>6. TypeOK'
      <3>1. at' \in [Nodes -> Int] /\ received' \in [Nodes -> Nat]
              /\ \A k \in Nodes : report'[k] \in Reports[k]
        <4>1. /\ at \in [Nodes -> Int] /\ received \in [Nodes -> Nat]
              /\ \A k \in Nodes : report[k] \in Reports[k]
          BY DEF TypeOK
        <4>2. CASE /\ at' = [at EXCEPT ![n] = taken + error]
                   /\ received' = [received EXCEPT ![n] = now]
                   /\ report' = [report EXCEPT ![n] = x]
          <5>1. at' \in [Nodes -> Int]
            BY <2>5, <4>1, <4>2
          <5>2. received' \in [Nodes -> Nat]
            BY <2>4, <4>1, <4>2
          <5>3. ASSUME NEW k \in Nodes PROVE report'[k] \in Reports[k]
            BY <4>1, <4>2
          <5> QED BY <5>1, <5>2, <5>3
        <4>3. CASE UNCHANGED <<at, received, report>>
          BY <4>1, <4>3
        <4> QED BY <2>2, <4>2, <4>3 DEF Store
      <3> QED BY <2>1, <2>3, <2>4, <3>1, GoOn DEF TypeOK
    <2>7. OnTime'
      BY <2>1, GoOn
    <2>8. Near'
      <3> SUFFICES ASSUME NEW k \in stored'
                   PROVE  /\ received'[k] <= last'[k] /\ last'[k] <= now'
                          /\ at'[k] <= received'[k] + Skew
                          /\ at'[k] >= last'[k] - Longest - Skew
        BY DEF Near
      <3>1. CASE k # n
        BY <2>1, <2>2, <2>3, <3>1 DEF Store, TypeOK, Near
      <3>2. CASE k = n
        <4>1. last'[n] = now
          BY <2>3 DEF TypeOK
        <4>2. CASE at'[n] = taken + error /\ received'[n] = now
          BY <2>1, <2>4, <2>5, <3>2, <4>1, <4>2
        <4>3. CASE /\ n \in stored /\ taken + error <= at[n]
                   /\ at' = at /\ received' = received
          <5>1. /\ received[n] <= last[n] /\ last[n] <= now
                /\ at[n] <= received[n] + Skew
                /\ at[n] \in Int /\ received[n] \in Nat /\ last[n] \in Nat
            BY <4>3 DEF Near, TypeOK
          <5> QED BY <2>1, <2>4, <2>5, <3>2, <4>1, <4>3, <5>1
        <4> QED BY <2>2, <4>2, <4>3 DEF Store, TypeOK
      <3> QED BY <3>1, <3>2
    <2>9. Recent'
      <3>1. \A k \in answered' : \E i \in 1..Turns : Order[i] = k
        BY <2>3, <2>4 DEF Recent
      <3>2. ASSUME NEW i \in 1..Turns, Order[i] \in answered'
            PROVE  /\ turn' > i => since' <= last'[Order[i]] + Polls(turn' - i - 1)
                   /\ turn' <= i => since' <= last'[Order[i]] + Rest
                                                + Polls(Turns - i + turn' - 1)
        <4>1. CASE i = turn
          <5>1. last'[Order[i]] = now /\ turn' - i - 1 = 0 /\ turn' > i
            BY <2>3, <2>4, <4>1, TurnsNat DEF TypeOK
          <5>2. Polls(0) = 0
            BY DEF Polls
          <5> QED BY <2>4, <5>1, <5>2
        <4>2. CASE i # turn
          <5>1. Order[i] # n /\ Order[i] \in answered
            BY <2>3, <2>4, <3>2, <4>2, TurnsNat
          <5>2. last'[Order[i]] = last[Order[i]]
            BY <2>3, <5>1 DEF TypeOK
          <5> QED BY <2>1, <4>2, <5>1, <5>2, GoOn
        <4> QED BY <4>1, <4>2
      <3> QED BY <3>1, <3>2 DEF Recent, Turns, Rest
    <2> QED BY <2>6, <2>7, <2>8, <2>9
  <1>3. ASSUME NEW n \in Nodes, Silent(n) PROVE IInv'
    <2>1. /\ Asking(n) /\ Proceed /\ now' = now /\ answered' = answered \ {n}
          /\ UNCHANGED <<stored, at, received, report, last>>
      BY <1>3 DEF Silent, latest
    <2>2. TypeOK'
      BY <2>1, GoOn DEF TypeOK
    <2>3. OnTime'
      BY <2>1, GoOn
    <2>4. Near'
      BY <2>1 DEF Near
    <2>5. Recent'
      <3>1. \A k \in answered' : \E i \in 1..Turns : Order[i] = k
        BY <2>1 DEF Recent
      <3>2. ASSUME NEW i \in 1..Turns, Order[i] \in answered'
            PROVE  i # turn /\ Order[i] \in answered
        BY <2>1, <3>2 DEF Asking
      <3>3. ASSUME NEW i \in 1..Turns, Order[i] \in answered'
            PROVE  /\ turn' > i => since' <= last'[Order[i]] + Polls(turn' - i - 1)
                   /\ turn' <= i => since' <= last'[Order[i]] + Rest
                                                + Polls(Turns - i + turn' - 1)
        BY <2>1, <3>2, <3>3, GoOn
      <3> QED BY <3>1, <3>3 DEF Recent, Turns, Rest
    <2> QED BY <2>2, <2>3, <2>4, <2>5
  <1>4. CASE NewRound
    <2>1. /\ turn = Turns + 1 /\ turn' = 1 /\ since' = now /\ by' = now + Timeout
          /\ parts' = 1
          /\ UNCHANGED <<now, stored, at, received, report, last, answered>>
      BY <1>4 DEF NewRound, latest, Turns
    <2>2. now \in Nat /\ since \in Nat /\ now <= since + Rest /\ Rest \in Nat
      BY <2>1 DEF TypeOK, OnTime, Rest
    <2>3. TypeOK'
      <3>1. /\ turn' \in Rounds /\ since' \in Nat /\ by' \in Nat
            /\ parts' \in 1..MostParts
        BY <2>1, <2>2, TurnsNat DEF Rounds
      <3> QED BY <2>1, <3>1 DEF TypeOK
    <2>4. OnTime'
      <3>1. parts' * Timeout = Timeout
        BY <2>1
      <3> QED BY <2>1, <2>2, <3>1, TurnsNat DEF OnTime, Turns, Rest
    <2>5. Near'
      BY <2>1 DEF Near
    <2>6. Recent'
      <3>1. ASSUME NEW i \in 1..Turns, Order[i] \in answered
            PROVE  since' <= last[Order[i]] + Rest + Polls(Turns - i + turn' - 1)
        <4>1. since <= last[Order[i]] + Polls(turn - i - 1)
          BY <2>1, <3>1, TurnsNat DEF Recent
        <4>2. turn - i - 1 = Turns - i + turn' - 1 /\ Turns - i + turn' - 1 \in Int
          BY <2>1, TurnsNat
        <4>3. Polls(Turns - i + turn' - 1) \in Int /\ last[Order[i]] \in Nat
          BY <4>2, OnePollMore, TurnsNat DEF TypeOK
        <4> QED BY <2>1, <2>2, <4>1, <4>2, <4>3
      <3>2. \A i \in 1..Turns : turn' <= i
        BY <2>1, TurnsNat
      <3>3. turn' \in Int /\ \A i \in 1..Turns : ~(turn' > i)
        BY <2>1, TurnsNat
      <3> QED BY <2>1, <3>1, <3>3 DEF Recent, Turns, Rest
    <2> QED BY <2>3, <2>4, <2>5, <2>6
  <1>5. CASE UNCHANGED vars
    BY <1>5 DEF vars, latest, poller, TypeOK, OnTime, Near, Recent
  <1>6. ASSUME NEW n \in Nodes, Part(n) PROVE IInv'
    <2>1. /\ turn \in 1..Turns /\ parts' = parts + 1 /\ by' = now + Timeout
          /\ parts \in 1..MostParts /\ parts' \in 1..MostParts
          /\ now \in Nat /\ since \in Nat /\ by \in Nat
          /\ UNCHANGED <<now, stored, at, received, report, last, answered, turn,
                         since>>
      BY <1>6, TurnsNat DEF Part, Asking, TypeOK, Rounds, Turns, latest
    <2>2. TypeOK'
      BY <2>1 DEF TypeOK
    <2>3. OnTime'
      <3> DEFINE d == parts * Timeout  e == parts' * Timeout
      <3>1. e = d + Timeout /\ d \in Nat
        BY <2>1, PartsFit
      <3>2. now <= by /\ since <= now /\ by <= since + d
        BY <2>1, TurnsNat DEF OnTime
      <3> HIDE DEF d, e
      <3>3. now <= by' /\ by' <= since + e
        BY <2>1, <3>1, <3>2
      <3> QED BY <2>1, <3>2, <3>3, TurnsNat DEF OnTime, Turns, e
    <2>4. Near'
      BY <2>1 DEF Near
    <2>5. Recent'
      BY <2>1 DEF Recent, Turns, Rest
    <2> QED BY <2>2, <2>3, <2>4, <2>5
  <1> QED BY <1>1, <1>2, <1>3, <1>4, <1>5, <1>6 DEF Next

LEMMA Invariant == Spec => []IInv
  BY Initially, Steps, PTL DEF Spec

-----------------------------------------------------------------------------
(* Every variable keeps its type.                                          *)
THEOREM SnapshotsTypeCorrect == Spec => []TypeOK
  BY Invariant, PTL DEF IInv

(* What a clock that was ahead hides is bounded by its error.              *)
THEOREM NothingHiddenLong == Spec => []ShownIsRecent
  <1>1. IInv => ShownIsRecent
    <2> SUFFICES ASSUME IInv, NEW n \in stored
                 PROVE  last[n] - received[n] <= 2 * Skew + Longest
      BY DEF ShownIsRecent
    <2>1. at[n] \in Int /\ received[n] \in Nat /\ last[n] \in Nat
      BY DEF IInv, TypeOK
    <2>2. at[n] <= received[n] + Skew /\ at[n] >= last[n] - Longest - Skew
      BY DEF IInv, Near
    <2>3. Skew \in Nat /\ Longest \in Nat
      BY SnapshotAssumption
    <2> QED BY <2>1, <2>2, <2>3
  <1> QED BY <1>1, Invariant, PTL

(* A node shown online was heard recently, whatever the clocks.            *)
THEOREM OnlineIsAlive == Spec => []OnlineWasHeard
  <1>1. IInv => OnlineWasHeard
    BY DEF IInv, TypeOK, Near, OnlineWasHeard, Online, Stale
  <1> QED BY <1>1, Invariant, PTL

(* A node that was heard recently enough is shown online.                  *)
THEOREM AliveIsOnline == Spec => []HeardIsOnline
  <1>1. IInv => HeardIsOnline
    BY DEF IInv, TypeOK, Near, HeardIsOnline, Online, Stale
  <1> QED BY <1>1, Invariant, PTL

(* A node that answers stays online, if a round of time-outs fits into the *)
(* limit: for any number of nodes.                                         *)
THEOREM AnsweringStaysOnline == Spec => []AnsweringIsOnline
  <1>1. IInv => AnsweringIsOnline
    <2> SUFFICES ASSUME IInv, RoundFits, NEW n \in answered PROVE Online(n)
      BY DEF AnsweringIsOnline
    <2>1. PICK i \in 1..Turns : Order[i] = n
      BY DEF IInv, Recent
    <2>2. /\ now \in Nat /\ since \in Nat /\ by \in Nat /\ turn \in 1..Turns + 1
          /\ at[n] \in Int /\ last[n] \in Nat /\ n \in stored /\ Rest \in Nat
          /\ Turns \in Nat /\ Turns # 0
      BY <2>1, TurnsNat DEF IInv, TypeOK, Rounds, Turns, Rest
    <2>3. at[n] >= last[n] - Longest - Skew
      BY <2>2 DEF IInv, Near
    <2>4. Polls(Turns) \in Int /\ (Turns + 1) * Longest = Polls(Turns) + Longest
      BY <2>2, OnePollMore DEF Polls
    <2>5. Polls(Turns) + Longest + Rest + Skew <= StaleAfter
      <3>1. (Turns + 1) * Longest + DnsMost + Interval + Skew <= StaleAfter
        BY DEF RoundFits, Turns
      <3> QED BY <2>4, <3>1 DEF Rest
    <2>6. now <= last[n] + Rest + Polls(Turns)
      <3>1. CASE turn > i /\ turn <= Turns
        <4>1. now <= since + Longest
          BY <2>2, <3>1, PollFits DEF IInv
        <4>2. since <= last[n] + Polls(turn - i - 1)
          BY <2>1, <3>1 DEF IInv, Recent
        <4>3. Polls(turn - i) = Polls(turn - i - 1) + Longest /\ Polls(turn - i - 1) \in Int
          <5>1. turn - i - 1 \in Int /\ turn - i = (turn - i - 1) + 1
            BY <2>2
          <5> QED BY <5>1, OnePollMore
        <4>4. Polls(turn - i) <= Polls(Turns)
          <5>1. turn - i \in Nat /\ turn - i <= Turns
            BY <2>2, <3>1
          <5> QED BY <2>2, <5>1, MorePolls
        <4> QED BY <2>2, <2>4, <4>1, <4>2, <4>3, <4>4
      <3>2. CASE turn = Turns + 1
        <4>1. now <= since + Rest
          BY <2>2, <3>2 DEF IInv, OnTime
        <4>2. since <= last[n] + Polls(turn - i - 1)
          BY <2>1, <2>2, <3>2 DEF IInv, Recent
        <4>3. Polls(turn - i - 1) <= Polls(Turns) /\ Polls(turn - i - 1) \in Int
          <5>1. turn - i - 1 \in Nat /\ turn - i - 1 <= Turns
            BY <2>2, <3>2
          <5> QED BY <2>2, <5>1, MorePolls, OnePollMore
        <4> QED BY <2>2, <2>4, <4>1, <4>2, <4>3
      <3>3. CASE turn <= i
        <4>1. now <= since + Longest
          BY <2>1, <2>2, <3>3, PollFits DEF IInv
        <4>2. since <= last[n] + Rest + Polls(Turns - i + turn - 1)
          BY <2>1, <3>3 DEF IInv, Recent
        <4>3. /\ Polls(Turns - i + turn) = Polls(Turns - i + turn - 1) + Longest
              /\ Polls(Turns - i + turn - 1) \in Int
          <5>1. /\ Turns - i + turn - 1 \in Int
                /\ Turns - i + turn = (Turns - i + turn - 1) + 1
            BY <2>2
          <5> QED BY <5>1, OnePollMore
        <4>4. Polls(Turns - i + turn) <= Polls(Turns)
          <5>1. Turns - i + turn \in Nat /\ Turns - i + turn <= Turns
            BY <2>2, <3>3
          <5> QED BY <2>2, <5>1, MorePolls
        <4> QED BY <2>2, <2>4, <4>1, <4>2, <4>3, <4>4
      <3> QED BY <2>2, <3>1, <3>2, <3>3
    <2> QED BY <2>2, <2>3, <2>4, <2>5, <2>6 DEF Online, Stale
  <1> QED BY <1>1, Invariant, PTL

-----------------------------------------------------------------------------
(* Paths. *)

HIDE Parts

LEMMA PrefixPointwise ==
    ASSUME NEW X, NEW s \in Seq(X), NEW t \in Seq(X)
    PROVE  IsPrefix(s, t) <=>
              Len(s) <= Len(t) /\ \A k \in 1..Len(s) : s[k] = t[k]
  <1>1. Len(s) \in Nat /\ Len(t) \in Nat
    OBVIOUS
  <1>2. SubSeq(s, 1, Len(s)) = [k \in 1..Len(s) |-> s[k]]
    OBVIOUS
  <1>3. Len(s) <= Len(t) => SubSeq(t, 1, Len(s)) = [k \in 1..Len(s) |-> t[k]]
    BY <1>1
  <1> QED BY <1>1, <1>2, <1>3 DEF IsPrefix

LEMMA EnteredType ==
    ASSUME NEW X, NEW p \in Seq(X \ {Up}), NEW c \in X
    PROVE  Entered(p, c) \in Seq(X \ {Up})
  <1>1. CASE c # Up
    BY <1>1 DEF Entered
  <1>2. CASE c = Up /\ p = <<>>
    BY <1>2 DEF Entered
  <1>3. CASE c = Up /\ p # <<>>
    <2>1. Len(p) - 1 \in Nat /\ Len(p) - 1 <= Len(p)
      BY <1>3
    <2>2. SubSeq(p, 1, Len(p) - 1) \in Seq(X \ {Up})
      BY <2>1
    <2> QED BY <1>3, <2>2 DEF Entered, Front
  <1> QED BY <1>1, <1>2, <1>3

(* The recursive function of Normal exists.                                *)
IsWalk(f, path, n) ==
    f = [i \in 0..n |-> IF i = 0 THEN <<>> ELSE Entered(f[i - 1], path[i])]

LEMMA WalkExists ==
    ASSUME NEW path, NEW n \in Nat
    PROVE  \E f : IsWalk(f, path, n)
  <1> DEFINE S == {k \in Nat : \E f : IsWalk(f, path, k)}
  <1>1. 0 \in S
    <2> DEFINE f == [i \in 0..0 |-> <<>>]
    <2>1. IsWalk(f, path, 0)
      BY DEF IsWalk
    <2> QED BY <2>1
  <1>2. ASSUME NEW k \in Nat, k \in S PROVE k + 1 \in S
    <2>1. PICK f : IsWalk(f, path, k)
      BY <1>2
    <2> DEFINE g == [i \in 0..k + 1 |->
                       IF i = k + 1 THEN Entered(f[k], path[k + 1]) ELSE f[i]]
    <2>2. ASSUME NEW i \in 0..k + 1
          PROVE  g[i] = IF i = 0 THEN <<>> ELSE Entered(g[i - 1], path[i])
      <3>1. CASE i = k + 1
        BY <3>1
      <3>2. CASE i # k + 1
        <4>1. i \in 0..k /\ i # 0 =>
                  (i - 1 \in 0..k /\ i - 1 # k + 1 /\ i - 1 \in 0..k + 1)
          BY <3>2
        <4>2. f[i] = IF i = 0 THEN <<>> ELSE Entered(f[i - 1], path[i])
          BY <2>1, <3>2 DEF IsWalk
        <4> QED BY <3>2, <4>1, <4>2
      <3> QED BY <3>1, <3>2
    <2>3. g = [i \in 0..k + 1 |-> g[i]]
      OBVIOUS
    <2> HIDE DEF g
    <2>4. IsWalk(g, path, k + 1)
      BY <2>2, <2>3 DEF IsWalk
    <2> QED BY <2>4
  <1> HIDE DEF S
  <1>3. Nat \subseteq S
    BY <1>1, <1>2, SetInduction
  <1> QED BY <1>3 DEF S

(* Normal from left to right.                                              *)
LEMMA NormalWalk ==
    ASSUME NEW X, NEW path \in Seq(X)
    PROVE  \E f : /\ f[0] = <<>> /\ f[Len(path)] = Normal(path)
                  /\ \A i \in 1..Len(path) : f[i] = Entered(f[i - 1], path[i])
                  /\ \A i \in 0..Len(path) : f[i] \in Seq(X \ {Up})
  <1> DEFINE n == Len(path)
             f == CHOOSE g : IsWalk(g, path, n)
  <1>1. n \in Nat /\ \A i \in 1..n : path[i] \in X
    OBVIOUS
  <1>2. Normal(path) = f[n]
    BY DEF Normal, IsWalk
  <1>3. IsWalk(f, path, n)
    BY <1>1, WalkExists
  <1> HIDE DEF f
  <1>4. f[0] = <<>> /\ \A i \in 1..n : f[i] = Entered(f[i - 1], path[i])
    BY <1>1, <1>3 DEF IsWalk
  <1> DEFINE S == {i \in Nat : i <= n => f[i] \in Seq(X \ {Up})}
  <1>5. 0 \in S
    <2>1. <<>> \in Seq(X \ {Up})
      OBVIOUS
    <2> QED BY <1>4, <2>1
  <1>6. ASSUME NEW i \in Nat, i \in S PROVE i + 1 \in S
    <2> SUFFICES ASSUME i + 1 <= n PROVE f[i + 1] \in Seq(X \ {Up})
      OBVIOUS
    <2>1. i + 1 \in 1..n /\ (i + 1) - 1 = i /\ f[i] \in Seq(X \ {Up})
      BY <1>1, <1>6
    <2>2. f[i + 1] = Entered(f[i], path[i + 1]) /\ path[i + 1] \in X
      BY <1>1, <1>4, <2>1
    <2> QED BY <2>1, <2>2, EnteredType
  <1> HIDE DEF S
  <1>7. Nat \subseteq S
    BY <1>5, <1>6, SetInduction
  <1>8. \A i \in 0..n : f[i] \in Seq(X \ {Up})
    BY <1>1, <1>7 DEF S
  <1> QED BY <1>2, <1>4, <1>8

(* A normal path has no "..".                                              *)
LEMMA NormalType ==
    ASSUME NEW X, NEW path \in Seq(X)
    PROVE  Normal(path) \in Seq(X \ {Up})
  <1>1. Len(path) \in 0..Len(path)
    OBVIOUS
  <1> QED BY <1>1, NormalWalk

(* What follows a path without ".." to leave it stays below it: this is    *)
(* why a remote path is normalised before it is joined with the chroot.    *)
LEMMA NormalBelow ==
    ASSUME NEW X, NEW c \in Seq(X), NEW q \in Seq(X \ {Up})
    PROVE  IsPrefix(Normal(c), Normal(c \o q))
  <1> DEFINE m == Len(c)  n == Len(q)  path == c \o q
  <1>0. m \in Nat /\ n \in Nat
    OBVIOUS
  <1>1. /\ path \in Seq(X) /\ Len(path) = m + n
        /\ \A i \in 1..m : path[i] = c[i]
        /\ \A i \in m + 1..m + n : path[i] = q[i - m] /\ i - m \in 1..n
    OBVIOUS
  <1>2. \A i \in 1..n : q[i] \in X /\ q[i] # Up
    OBVIOUS
  <1> HIDE DEF path
  <1>3. PICK g : /\ g[0] = <<>> /\ g[m] = Normal(c)
                 /\ \A i \in 1..m : g[i] = Entered(g[i - 1], c[i])
                 /\ \A i \in 0..m : g[i] \in Seq(X \ {Up})
    BY NormalWalk
  <1>4. PICK f : /\ f[0] = <<>> /\ f[m + n] = Normal(path)
                 /\ \A i \in 1..m + n : f[i] = Entered(f[i - 1], path[i])
                 /\ \A i \in 0..m + n : f[i] \in Seq(X \ {Up})
    <2> HIDE DEF m, n
    <2>1. path \in Seq(X) /\ Len(path) = m + n
      BY <1>1
    <2>2. \E f : /\ f[0] = <<>> /\ f[Len(path)] = Normal(path)
                 /\ \A i \in 1..Len(path) : f[i] = Entered(f[i - 1], path[i])
                 /\ \A i \in 0..Len(path) : f[i] \in Seq(X \ {Up})
      BY <2>1, NormalWalk
    <2> QED BY <2>1, <2>2
  <1> HIDE DEF m, n
  <1> DEFINE S == {i \in Nat : i <= m => f[i] = g[i]}
  <1>5. 0 \in S
    BY <1>3, <1>4
  <1>6. ASSUME NEW i \in Nat, i \in S PROVE i + 1 \in S
    <2> SUFFICES ASSUME i + 1 <= m PROVE f[i + 1] = g[i + 1]
      OBVIOUS
    <2>1. i + 1 \in 1..m /\ i + 1 \in 1..m + n /\ (i + 1) - 1 = i /\ f[i] = g[i]
      BY <1>0, <1>6
    <2> QED BY <1>1, <1>3, <1>4, <2>1
  <1> HIDE DEF S
  <1>7. Nat \subseteq S
    BY <1>5, <1>6, SetInduction
  <1>8. f[m] = g[m]
    BY <1>0, <1>7 DEF S
  <1> DEFINE T == {i \in Nat : i <= n => IsPrefix(g[m], f[m + i])}
  <1>9. 0 \in T
    <2>1. m + 0 = m /\ m \in 0..m /\ g[m] \in Seq(X \ {Up})
      BY <1>0, <1>3
    <2>2. IsPrefix(g[m], g[m])
      BY <2>1, PrefixPointwise
    <2> QED BY <1>8, <2>1, <2>2
  <1>10. ASSUME NEW i \in Nat, i \in T PROVE i + 1 \in T
    <2> SUFFICES ASSUME i + 1 <= n PROVE IsPrefix(g[m], f[m + (i + 1)])
      OBVIOUS
    <2>1. /\ m + (i + 1) \in 1..m + n /\ (m + (i + 1)) - 1 = m + i
          /\ m + (i + 1) \in m + 1..m + n /\ (m + (i + 1)) - m = i + 1
          /\ i + 1 \in 1..n /\ m \in 0..m /\ m + i \in 0..m + n
      BY <1>0
    <2>2. path[m + (i + 1)] # Up
      BY <1>1, <1>2, <2>1
    <2>3. f[m + (i + 1)] = Append(f[m + i], path[m + (i + 1)])
      BY <1>4, <2>1, <2>2 DEF Entered
    <2>4. /\ g[m] \in Seq(X \ {Up}) /\ f[m + i] \in Seq(X \ {Up})
          /\ f[m + (i + 1)] \in Seq(X \ {Up})
      <3>1. m + (i + 1) \in 0..m + n
        BY <1>0, <2>1
      <3> QED BY <1>3, <1>4, <2>1, <3>1
    <2>5. /\ Len(g[m]) <= Len(f[m + i])
          /\ \A k \in 1..Len(g[m]) : g[m][k] = f[m + i][k]
      <3>1. i <= n
        BY <1>0
      <3>2. i <= n => IsPrefix(g[m], f[m + i])
        BY <1>10
      <3> QED BY <2>4, <3>1, <3>2, PrefixPointwise
    <2>6. /\ Len(g[m]) <= Len(f[m + (i + 1)])
          /\ \A k \in 1..Len(g[m]) : g[m][k] = f[m + (i + 1)][k]
      <3>1. Len(g[m]) \in Nat /\ Len(f[m + i]) \in Nat
        BY <2>4
      <3>2. /\ Len(f[m + (i + 1)]) = Len(f[m + i]) + 1
            /\ \A k \in 1..Len(f[m + i]) : f[m + (i + 1)][k] = f[m + i][k]
        BY <2>3, <2>4
      <3>3. ASSUME NEW k \in 1..Len(g[m]) PROVE g[m][k] = f[m + (i + 1)][k]
        <4>1. k \in 1..Len(f[m + i])
          BY <2>5, <3>1
        <4> QED BY <2>5, <3>2, <4>1
      <3>4. Len(g[m]) <= Len(f[m + (i + 1)])
        BY <2>5, <3>1, <3>2
      <3> QED BY <3>3, <3>4
    <2> QED BY <2>4, <2>6, PrefixPointwise
  <1> HIDE DEF T
  <1>11. Nat \subseteq T
    BY <1>9, <1>10, SetInduction
  <1>12. IsPrefix(g[m], f[m + n])
    BY <1>0, <1>11 DEF T
  <1> QED BY <1>3, <1>4, <1>12 DEF path

-----------------------------------------------------------------------------
(* The rows of mounts. *)

LEMMA ReportTypes ==
    ASSUME TypeOK, NEW n \in Nodes
    PROVE  /\ IsSequence(report[n].mounts) /\ IsSequence(report[n].exports)
           /\ IsSequence(report[n].windows)
           /\ \A m \in ToSet(report[n].mounts) : IsPath(m.path)
           /\ \A e \in ToSet(report[n].exports) : IsPath(e.chroot)
           /\ \A w \in ToSet(report[n].windows) : IsSequence(w.path)
  <1>1. report[n] \in Reports[n]
    BY DEF TypeOK
  <1> QED BY <1>1, ReportsAssumption

LEMMA SequenceDomain ==
    ASSUME NEW s, IsSequence(s)
    PROVE  /\ DOMAIN s = 1..Len(s) /\ Len(s) \in Nat
           /\ \A i \in DOMAIN s : s[i] \in ToSet(s)
  BY DEF IsSequence, ToSet

(* A name that is a target is what exactly one node is called.             *)
LEMMA TargetIsUnique ==
    ASSUME NEW a, Target(a) # None
    PROVE  Target(a) \in Nodes /\ Called(a) = {Target(a)}
  BY DEF Target

LEMMA ExportFits ==
    ASSUME TypeOK, NEW n \in Nodes, NEW m, Export(n, m) # None
    PROVE  /\ Export(n, m) \in ToSet(report[n].exports)
           /\ Export(n, m).user = m.user /\ m.port \in Export(n, m).ports
  <1> DEFINE exports == report[n].exports
             fit == {i \in DOMAIN exports :
                        exports[i].user = m.user /\ m.port \in exports[i].ports}
  <1>1. fit # {} /\ Export(n, m) = exports[Min(fit)]
    BY DEF Export
  <1>2. fit \in SUBSET Nat
    BY ReportTypes, SequenceDomain
  <1> HIDE DEF fit
  <1>3. Min(fit) \in fit
    BY <1>1, <1>2, LeastIsMin
  <1> QED BY <1>1, <1>3, ReportTypes, SequenceDomain DEF fit

(* A directory is known only by way of a target and an export.             *)
LEMMA KnownDirectory ==
    ASSUME NEW n, NEW m, MountRow(n, m).dir # None
    PROVE  LET t == Target(m.host)
               e == Export(t, m)
           IN  /\ MountRow(n, m).target = t /\ t # None /\ Online(t) /\ e # None
               /\ e.chroot # Relative /\ m.path # Relative
               /\ MountRow(n, m).dir = Normal(e.chroot \o Normal(m.path))
               /\ MountRow(n, m).windows = WindowsDirectory(t, MountRow(n, m).dir)
  <1> DEFINE t == Target(m.host)
             e == IF t = None \/ Stale(t) THEN None ELSE Export(t, m)
             d == IF e = None THEN None ELSE Directory(e.chroot, m.path)
  <1>1. /\ MountRow(n, m).target = t /\ MountRow(n, m).dir = d
        /\ MountRow(n, m).windows = IF d = None THEN None ELSE WindowsDirectory(t, d)
    BY DEF MountRow
  <1>2. d # None
    BY <1>1
  <1>3. e # None /\ d = Directory(e.chroot, m.path)
    BY <1>2
  <1>4. t # None /\ Online(t) /\ e = Export(t, m)
    BY <1>3 DEF Online
  <1>5. /\ e.chroot # Relative /\ m.path # Relative
        /\ d = Normal(e.chroot \o Normal(m.path))
    BY <1>2, <1>3 DEF Directory
  <1>6. MountRow(n, m).windows = WindowsDirectory(t, MountRow(n, m).dir)
    BY <1>1, <1>2
  <1>7. Export(t, m).chroot # Relative /\ m.path # Relative
        /\ d = Normal(Export(t, m).chroot \o Normal(m.path))
    BY <1>4, <1>5
  <1>8. Export(t, m) # None
    BY <1>3, <1>4
  <1> HIDE DEF e, d
  <1> QED BY <1>1, <1>4, <1>6, <1>7, <1>8

LEMMA DirectoryBelow ==
    ASSUME TypeOK, NEW n \in Nodes, NEW m \in ToSet(report[n].mounts),
           MountRow(n, m).dir # None
    PROVE  LET t == Target(m.host)
           IN  /\ MountRow(n, m).target = t
               /\ t \in Nodes /\ Online(t) /\ Called(m.host) = {t}
               /\ MountRow(n, m).windows = WindowsDirectory(t, MountRow(n, m).dir)
               /\ IsSequence(MountRow(n, m).dir)
               /\ \E e \in ToSet(report[t].exports) :
                     /\ e.user = m.user /\ m.port \in e.ports
                     /\ IsPrefix(Normal(e.chroot), MountRow(n, m).dir)
  <1> DEFINE t == Target(m.host)
             e == Export(t, m)
             d == MountRow(n, m).dir
  <1>1. /\ MountRow(n, m).target = t /\ t # None /\ Online(t) /\ e # None
        /\ e.chroot # Relative /\ m.path # Relative
        /\ d = Normal(e.chroot \o Normal(m.path))
        /\ MountRow(n, m).windows = WindowsDirectory(t, d)
    BY KnownDirectory
  <1>2. t \in Nodes /\ Called(m.host) = {t}
    BY <1>1, TargetIsUnique
  <1> HIDE DEF t, d
  <1>3. e \in ToSet(report[t].exports) /\ e.user = m.user /\ m.port \in e.ports
    BY <1>1, <1>2, ExportFits
  <1>4. IsSequence(e.chroot) /\ IsSequence(m.path)
    BY <1>1, <1>2, <1>3, ReportTypes DEF IsPath
  <1> HIDE DEF e
  <1> DEFINE X == ToSet(e.chroot) \cup ToSet(m.path)
             q == Normal(m.path)
  <1>5. e.chroot \in Seq(X) /\ m.path \in Seq(X)
    BY <1>4 DEF IsSequence
  <1> HIDE DEF X
  <1>6. q \in Seq(X \ {Up})
    BY <1>5, NormalType
  <1> HIDE DEF q
  <1>7. e.chroot \o q \in Seq(X)
    BY <1>5, <1>6
  <1>8. IsPrefix(Normal(e.chroot), Normal(e.chroot \o q))
    BY <1>5, <1>6, NormalBelow
  <1>9. d \in Seq(X \ {Up})
    BY <1>1, <1>7, NormalType DEF q
  <1>10. IsSequence(d)
    <2>1. d = [i \in 1..Len(d) |-> d[i]] /\ Len(d) \in Nat /\ DOMAIN d = 1..Len(d)
      BY <1>9
    <2>2. \A i \in 1..Len(d) : d[i] \in ToSet(d)
      BY <2>1 DEF ToSet
    <2> QED BY <2>1, <2>2 DEF IsSequence
  <1>11. IsPrefix(Normal(e.chroot), d)
    BY <1>1, <1>8 DEF q
  <1> QED BY <1>1, <1>2, <1>3, <1>10, <1>11 DEF t, d

(* What the only node of a name is called is no name of another.           *)
LEMMA OthersNotCalled ==
    ASSUME NEW a, NEW t \in Nodes, Called(a) = {t}, NEW o \in Nodes \ {t}
    PROVE  a \notin {o, Ip[o]} /\ (Online(o) => report[o].host # a)
  <1>1. a \notin Aliases(o)
    BY DEF Called
  <1> QED BY <1>1 DEF Aliases

-----------------------------------------------------------------------------
(* The three parts of DetailsJustified. *)

LEMMA UpSeen == IInv => UpWasSeen
  <1> SUFFICES ASSUME IInv, NEW row \in InterfaceRows, row.status = "up"
               PROVE  /\ report[row.node].web = "up"
                      /\ now - received[row.node] <= StaleAfter + Skew
    BY DEF UpWasSeen
  <1>1. PICK n \in Nodes : row \in InterfaceRow(n)
    BY DEF InterfaceRows
  <1>2. /\ n \in stored /\ row.node = n
        /\ row.status = IF Stale(n) THEN "stale" ELSE report[n].web
    BY <1>1 DEF InterfaceRow
  <1>3. ~Stale(n) /\ report[n].web = "up"
    BY <1>2
  <1>4. now - at[n] <= StaleAfter /\ at[n] <= received[n] + Skew
    BY <1>2, <1>3 DEF Stale, IInv, Near, TypeOK
  <1>5. now \in Nat /\ at[n] \in Int /\ received[n] \in Nat /\ StaleAfter \in Nat
    BY DEF IInv, TypeOK
  <1>6. now - received[n] <= StaleAfter + Skew
    BY <1>4, <1>5
  <1> QED BY <1>2, <1>3, <1>6

LEMMA DirectoriesExported == TypeOK => DirectoryExported
  <1> SUFFICES ASSUME TypeOK, NEW n \in Nodes, NEW m \in ToSet(report[n].mounts),
                      MountRow(n, m).dir # None
               PROVE  \E t \in Nodes :
                         /\ MountRow(n, m).target = t /\ Online(t)
                         /\ \A o \in Nodes \ {t} :
                               /\ m.host \notin {o, Ip[o]}
                               /\ Online(o) => report[o].host # m.host
                         /\ \E e \in ToSet(report[t].exports) :
                               /\ e.user = m.user /\ m.port \in e.ports
                               /\ IsPrefix(Normal(e.chroot), MountRow(n, m).dir)
    BY DEF DirectoryExported
  <1> DEFINE t == Target(m.host)
  <1>1. /\ MountRow(n, m).target = t
        /\ t \in Nodes /\ Online(t) /\ Called(m.host) = {t}
        /\ \E e \in ToSet(report[t].exports) :
              /\ e.user = m.user /\ m.port \in e.ports
              /\ IsPrefix(Normal(e.chroot), MountRow(n, m).dir)
    BY DirectoryBelow
  <1>2. \A o \in Nodes \ {t} :
            m.host \notin {o, Ip[o]} /\ (Online(o) => report[o].host # m.host)
    BY <1>1, OthersNotCalled
  <1> QED BY <1>1, <1>2

LEMMA PlaceType ==
    ASSUME NEW p
    PROVE  p \in Places <=>
              \E i \in DOMAIN ByName : /\ Online(ByName[i])
                                       /\ p \in {i} \X DOMAIN report[ByName[i]].mounts
  BY DEF Places

LEMMA RowOfPlace ==
    ASSUME TypeOK, NEW row \in MountRows
    PROVE  \E n \in Nodes : \E m \in ToSet(report[n].mounts) : row = MountRow(n, m)
  <1>1. PICK p \in Places : row = RowAt(p)
    BY DEF MountRows
  <1>2. PICK i \in DOMAIN ByName : p \in {i} \X DOMAIN report[ByName[i]].mounts
    BY <1>1, PlaceType
  <1> DEFINE n == ByName[i]
  <1>3. p[1] = i /\ p[2] \in DOMAIN report[n].mounts
    BY <1>2
  <1>4. n \in Nodes
    BY PagesAssumption, SequenceDomain
  <1>5. report[n].mounts[p[2]] \in ToSet(report[n].mounts)
    BY <1>3, <1>4, ReportTypes, SequenceDomain
  <1>6. row = MountRow(n, report[n].mounts[p[2]])
    BY <1>1, <1>3 DEF RowAt
  <1> QED BY <1>4, <1>5, <1>6

(* Of the mappings of a part of the way the longest is found, and it has   *)
(* all others as parts of its way.                                         *)
LEMMA ClosestMapping ==
    ASSUME TypeOK, NEW t \in Nodes, NEW dir, IsSequence(dir), Windows(t, dir) # None
    PROVE  /\ Windows(t, dir) \in ToSet(report[t].windows)
           /\ IsPrefix(Windows(t, dir).path, dir)
           /\ \A v \in ToSet(report[t].windows) :
                 IsPrefix(v.path, dir) => IsPrefix(v.path, Windows(t, dir).path)
  <1> DEFINE windows == report[t].windows
             fit == {i \in DOMAIN windows : IsPrefix(windows[i].path, dir)}
             closest == {i \in fit : \A j \in fit :
                            Len(windows[j].path) <= Len(windows[i].path)}
             lengths == {Len(windows[i].path) : i \in fit}
  <1>1. fit # {} /\ Windows(t, dir) = windows[Min(closest)]
    BY DEF Windows
  <1>2. /\ DOMAIN windows = 1..Len(windows) /\ Len(windows) \in Nat
        /\ \A i \in DOMAIN windows : windows[i] \in ToSet(windows)
    BY ReportTypes, SequenceDomain
  <1>3. \A i \in DOMAIN windows : IsSequence(windows[i].path)
    BY <1>2, ReportTypes
  <1>4. Len(dir) \in Nat
    BY SequenceDomain
  <1>5. \A i \in fit : Len(windows[i].path) \in 0..Len(dir)
    <2> TAKE i \in fit
    <2>1. Len(windows[i].path) \in Nat
      BY <1>3, SequenceDomain
    <2>2. Len(windows[i].path) <= Len(dir)
      BY DEF IsPrefix
    <2> QED BY <1>4, <2>1, <2>2
  <1>6. lengths \in SUBSET (0..Len(dir)) /\ lengths # {}
    BY <1>1, <1>5
  <1>7. PICK most \in lengths : \A l \in lengths : l <= most
    <2> HIDE DEF lengths
    <2> QED BY <1>4, <1>6, GreatestElement
  <1>8. PICK k \in fit : most = Len(windows[k].path)
    BY <1>7
  <1>9. k \in closest
    BY <1>7, <1>8
  <1>10. closest \in SUBSET Nat /\ closest # {}
    <2>1. \A i \in closest : i \in fit
      OBVIOUS
    <2>2. \A i \in fit : i \in Nat
      BY <1>2
    <2> HIDE DEF closest, fit
    <2> QED BY <1>9, <2>1, <2>2
  <1>11. Min(closest) \in closest
    <2> HIDE DEF closest
    <2> QED BY <1>10, LeastIsMin
  <1> DEFINE c == Min(closest)
  <1>12. c \in fit /\ \A j \in fit : Len(windows[j].path) <= Len(windows[c].path)
    BY <1>11
  <1> HIDE DEF c
  <1>13. ASSUME NEW v \in ToSet(windows), IsPrefix(v.path, dir)
         PROVE  IsPrefix(v.path, windows[c].path)
    <2>1. PICK j \in DOMAIN windows : windows[j] = v
      BY DEF ToSet
    <2>2. j \in fit
      BY <1>13, <2>1
    <2> DEFINE X == ToSet(dir) \cup ToSet(v.path) \cup ToSet(windows[c].path)
    <2>3. /\ IsSequence(v.path) /\ IsSequence(windows[c].path)
      BY <1>3, <1>12, <2>1
    <2>4. dir \in Seq(X) /\ v.path \in Seq(X) /\ windows[c].path \in Seq(X)
      BY <2>3 DEF IsSequence
    <2> HIDE DEF X
    <2>5. /\ Len(v.path) <= Len(windows[c].path)
          /\ Len(v.path) \in Nat /\ Len(windows[c].path) \in Nat
      BY <1>12, <2>1, <2>2, <2>4
    <2>6. /\ \A x \in 1..Len(v.path) : v.path[x] = dir[x]
          /\ \A x \in 1..Len(windows[c].path) : windows[c].path[x] = dir[x]
      BY <1>12, <1>13, <2>4, PrefixPointwise
    <2>7. \A x \in 1..Len(v.path) : v.path[x] = windows[c].path[x]
      BY <2>5, <2>6
    <2> QED BY <2>4, <2>5, <2>7, PrefixPointwise
  <1> QED BY <1>1, <1>2, <1>12, <1>13 DEF c

LEMMA WindowsAreSame == TypeOK => WindowsIsSame
  <1> SUFFICES ASSUME TypeOK, NEW row \in MountRows, row.windows # None
               PROVE  \E w \in ToSet(report[row.target].windows) :
                         /\ IsPrefix(w.path, row.dir)
                         /\ row.windows = w.root \o SubSeq(row.dir, Len(w.path) + 1,
                                                           Len(row.dir))
                         /\ \A v \in ToSet(report[row.target].windows) :
                               IsPrefix(v.path, row.dir) => IsPrefix(v.path, w.path)
    BY DEF WindowsIsSame
  <1>1. PICK n \in Nodes : \E m \in ToSet(report[n].mounts) : row = MountRow(n, m)
    BY RowOfPlace
  <1>2. PICK m \in ToSet(report[n].mounts) : row = MountRow(n, m)
    BY <1>1
  <1>3. row.dir # None
    <2>1. MountRow(n, m).dir = None => MountRow(n, m).windows = None
      BY DEF MountRow
    <2> QED BY <1>2, <2>1
  <1> DEFINE t == Target(m.host)
             w == Windows(t, row.dir)
  <1>4. /\ row.target = t /\ t \in Nodes /\ IsSequence(row.dir)
        /\ row.windows = WindowsDirectory(t, row.dir)
    <2>1. MountRow(n, m).dir # None
      BY <1>2, <1>3
    <2>2. /\ MountRow(n, m).target = t /\ t \in Nodes /\ IsSequence(MountRow(n, m).dir)
          /\ MountRow(n, m).windows = WindowsDirectory(t, MountRow(n, m).dir)
      BY <2>1, DirectoryBelow
    <2> QED BY <1>2, <2>2
  <1> HIDE DEF t
  <1>5. /\ w # None
        /\ row.windows = w.root \o SubSeq(row.dir, Len(w.path) + 1, Len(row.dir))
    BY <1>3, <1>4 DEF WindowsDirectory
  <1>6. /\ w \in ToSet(report[t].windows) /\ IsPrefix(w.path, row.dir)
        /\ \A v \in ToSet(report[t].windows) :
              IsPrefix(v.path, row.dir) => IsPrefix(v.path, w.path)
    BY <1>4, <1>5, ClosestMapping
  <1> HIDE DEF w
  <1> QED BY <1>4, <1>5, <1>6

(* No page says more of a node than its fresh report does.                 *)
THEOREM PagesJustified == Spec => []DetailsJustified
  <1>1. IInv => DetailsJustified
    BY UpSeen, DirectoriesExported, WindowsAreSame DEF IInv, DetailsJustified
  <1> QED BY <1>1, Invariant, PTL

-----------------------------------------------------------------------------
(* No mount is lost. *)

(* Of the places whose rows have one key there is a last one.              *)
LEMMA LastOfKey ==
    ASSUME TypeOK, NEW p \in Places
    PROVE  \E q \in Places : /\ Key(RowAt(q)) = Key(RowAt(p))
                             /\ RowAt(q) \in MountRows
  <1> DEFINE alike == {q \in Places : Key(RowAt(q)) = Key(RowAt(p))}
             firsts == {q[1] : q \in alike}
  <1>1. DOMAIN ByName = 1..Len(ByName) /\ Len(ByName) \in Nat
    BY PagesAssumption, SequenceDomain
  <1>2. \A q \in Places : /\ q[1] \in DOMAIN ByName
                          /\ q[2] \in DOMAIN report[ByName[q[1]]].mounts
                          /\ q = <<q[1], q[2]>>
    BY PlaceType
  <1>3. firsts \in SUBSET (0..Len(ByName)) /\ firsts # {}
    <2>1. \A q \in alike : q[1] \in 0..Len(ByName)
      BY <1>1, <1>2
    <2> QED BY <2>1
  <1>4. PICK i \in firsts : \A k \in firsts : k <= i
    <2> HIDE DEF firsts
    <2> QED BY <1>1, <1>3, GreatestElement
  <1> DEFINE mounts == report[ByName[i]].mounts
             here == {q \in alike : q[1] = i}
             seconds == {q[2] : q \in here}
  <1>5. PICK r \in alike : r[1] = i
    BY <1>4
  <1>6. i \in DOMAIN ByName /\ ByName[i] \in Nodes
    BY <1>2, <1>5, PagesAssumption, SequenceDomain
  <1>7. DOMAIN mounts = 1..Len(mounts) /\ Len(mounts) \in Nat
    BY <1>6, ReportTypes, SequenceDomain
  <1>8. seconds \in SUBSET (0..Len(mounts)) /\ seconds # {}
    <2>1. \A q \in here : q[2] \in 0..Len(mounts)
      BY <1>2, <1>7
    <2> QED BY <1>5, <2>1
  <1>9. PICK j \in seconds : \A k \in seconds : k <= j
    <2> HIDE DEF seconds
    <2> QED BY <1>7, <1>8, GreatestElement
  <1>10. PICK q \in here : q[2] = j
    BY <1>9
  <1>11. ASSUME NEW o \in Places, Later(o, q)
         PROVE  Key(RowAt(o)) # Key(RowAt(q))
    <2> SUFFICES ASSUME o \in alike PROVE FALSE
      BY <1>10
    <2>1. o[1] \in Nat /\ o[1] <= i
      BY <1>1, <1>2, <1>4
    <2>2. o[1] = i /\ o[2] > j
      BY <1>6, <1>1, <1>10, <1>11, <2>1 DEF Later
    <2>3. o[2] \in seconds
      BY <2>2
    <2>4. o[2] \in Nat /\ j \in Nat
      BY <1>8, <2>3
    <2>5. o[2] <= j
      BY <1>9, <2>3
    <2> HIDE DEF seconds, alike, here
    <2> QED BY <2>2, <2>4, <2>5
  <1>12. RowAt(q) \in MountRows
    BY <1>10, <1>11 DEF MountRows
  <1> QED BY <1>10, <1>12

(* Every mount of an online node has a row that shows it.                  *)
THEOREM EveryMountShown == Spec => []MountsComplete
  <1>1. IInv => MountsComplete
    <2> SUFFICES ASSUME IInv, NEW n \in Nodes, Online(n),
                        NEW m \in ToSet(report[n].mounts)
                 PROVE  \E row \in MountRows :
                           /\ row.from = Ip[n] /\ row.local = m.dir
                           /\ row.ip = MountRow(n, m).ip
      BY DEF MountsComplete
    <2>1. TypeOK
      BY DEF IInv
    <2>2. PICK i \in DOMAIN ByName : ByName[i] = n
      BY PagesAssumption DEF ToSet
    <2>3. PICK j \in DOMAIN report[n].mounts : report[n].mounts[j] = m
      BY DEF ToSet
    <2> DEFINE p == <<i, j>>
    <2>4. p \in Places
      BY <2>2, <2>3, PlaceType
    <2>5. RowAt(p) = MountRow(n, m)
      BY <2>2, <2>3 DEF RowAt
    <2>6. MountRow(n, m).from = Ip[n] /\ MountRow(n, m).local = m.dir
      BY DEF MountRow
    <2> HIDE DEF p
    <2>7. PICK q \in Places : Key(RowAt(q)) = Key(RowAt(p)) /\ RowAt(q) \in MountRows
      BY <2>1, <2>4, LastOfKey
    <2>8. /\ RowAt(q).from = RowAt(p).from /\ RowAt(q).ip = RowAt(p).ip
          /\ RowAt(q).local = RowAt(p).local
      BY <2>7 DEF Key
    <2> QED BY <2>5, <2>6, <2>7, <2>8
  <1> QED BY <1>1, Invariant, PTL

-----------------------------------------------------------------------------
(* DNS targets. *)

LEMMA WithDeviceAt ==
    ASSUME NEW map, DOMAIN map = Addresses, map = [t \in Addresses |-> map[t]],
           NEW d \in ToSet(Devices), NEW t \in Addresses
    PROVE  /\ DOMAIN WithDevice(map, d) = Addresses
           /\ WithDevice(map, d) = [a \in Addresses |-> WithDevice(map, d)[a]]
           /\ WithDevice(map, d)[t] =
                 IF t = d.ip \/ (t = d.endpoint /\ map[t] = None) THEN d.name ELSE map[t]
  <1>1. d.endpoint \in Addresses \cup {None} /\ d.name # None /\ None \notin Addresses
    BY PagesAssumption
  <1> DEFINE here == [map EXCEPT ![d.ip] = d.name]
  <1>2. here = [a \in Addresses |-> IF a = d.ip THEN d.name ELSE map[a]]
    OBVIOUS
  <1>3. CASE d.endpoint # None /\ here[d.endpoint] = None
    <2>1. WithDevice(map, d) = [here EXCEPT ![d.endpoint] = d.name]
      BY <1>3 DEF WithDevice
    <2>2. WithDevice(map, d) = [a \in Addresses |->
              IF a = d.endpoint THEN d.name ELSE IF a = d.ip THEN d.name ELSE map[a]]
      BY <1>2, <2>1
    <2>3. d.endpoint # d.ip /\ map[d.endpoint] = None
      BY <1>1, <1>2, <1>3
    <2> QED BY <2>2, <2>3
  <1>4. CASE ~(d.endpoint # None /\ here[d.endpoint] = None)
    <2>1. WithDevice(map, d) = here
      BY <1>4 DEF WithDevice
    <2>2. t = d.endpoint => t = d.ip \/ map[t] # None
      BY <1>1, <1>2, <1>4
    <2> QED BY <1>2, <2>1, <2>2
  <1> QED BY <1>3, <1>4

(* The recursive function of WithDevices exists.                           *)
IsNaming(f, known, n) ==
    f = [i \in 0..n |-> IF i = 0 THEN known ELSE WithDevice(f[i - 1], Devices[i])]

LEMMA NamingExists ==
    ASSUME NEW known, NEW n \in Nat
    PROVE  \E f : IsNaming(f, known, n)
  <1> DEFINE S == {k \in Nat : \E f : IsNaming(f, known, k)}
  <1>1. 0 \in S
    <2> DEFINE f == [i \in 0..0 |-> known]
    <2>1. IsNaming(f, known, 0)
      BY DEF IsNaming
    <2> QED BY <2>1
  <1>2. ASSUME NEW k \in Nat, k \in S PROVE k + 1 \in S
    <2>1. PICK f : IsNaming(f, known, k)
      BY <1>2
    <2> DEFINE g == [i \in 0..k + 1 |->
                       IF i = k + 1 THEN WithDevice(f[k], Devices[k + 1]) ELSE f[i]]
    <2>2. ASSUME NEW i \in 0..k + 1
          PROVE  g[i] = IF i = 0 THEN known ELSE WithDevice(g[i - 1], Devices[i])
      <3>1. CASE i = k + 1
        BY <3>1
      <3>2. CASE i # k + 1
        <4>1. i \in 0..k /\ i # 0 =>
                  (i - 1 \in 0..k /\ i - 1 # k + 1 /\ i - 1 \in 0..k + 1)
          BY <3>2
        <4>2. f[i] = IF i = 0 THEN known ELSE WithDevice(f[i - 1], Devices[i])
          BY <2>1, <3>2 DEF IsNaming
        <4> QED BY <3>2, <4>1, <4>2
      <3> QED BY <3>1, <3>2
    <2>3. g = [i \in 0..k + 1 |-> g[i]]
      OBVIOUS
    <2> HIDE DEF g
    <2>4. IsNaming(g, known, k + 1)
      BY <2>2, <2>3 DEF IsNaming
    <2> QED BY <2>4
  <1> HIDE DEF S
  <1>3. Nat \subseteq S
    BY <1>1, <1>2, SetInduction
  <1> QED BY <1>3 DEF S

(* The devices one after the other: who has an address, who is known there *)
(* and who has taken it.                                                   *)
LEMMA DevicesNamed ==
    ASSUME NEW known, known = [t \in Addresses |-> known[t]], NEW t \in Addresses
    PROVE  LET names == WithDevices(known)[t]
               Claims(d) == t \in {d.ip, d.endpoint}
           IN  /\ names = None <=>
                     known[t] = None /\ \A d \in ToSet(Devices) : ~Claims(d)
               /\ names # None =>
                     \/ names = known[t]
                     \/ \E d \in ToSet(Devices) : Claims(d) /\ names = d.name
               /\ (\E d \in ToSet(Devices) : d.ip = t) =>
                     \E d \in ToSet(Devices) : d.ip = t /\ names = d.name
  <1> DEFINE n == Len(Devices)
             map == CHOOSE f : IsNaming(f, known, n)
             Seen(i) == {Devices[k] : k \in 1..i}
             At(d) == t \in {d.ip, d.endpoint}
  <1>1. /\ n \in Nat /\ DOMAIN Devices = 1..n
        /\ \A i \in 1..n : Devices[i] \in ToSet(Devices)
    BY PagesAssumption, SequenceDomain
  <1>2. WithDevices(known) = map[n]
    BY DEF WithDevices, IsNaming
  <1>3. IsNaming(map, known, n)
    BY <1>1, NamingExists
  <1> HIDE DEF map
  <1>4. /\ map[0] = known
        /\ \A i \in 1..n : map[i] = WithDevice(map[i - 1], Devices[i])
    BY <1>1, <1>3 DEF IsNaming
  <1> DEFINE Fine(i) ==
                /\ DOMAIN map[i] = Addresses /\ map[i] = [a \in Addresses |-> map[i][a]]
                /\ map[i][t] = None <=>
                      known[t] = None /\ \A d \in Seen(i) : ~At(d)
                /\ map[i][t] # None =>
                      \/ map[i][t] = known[t]
                      \/ \E d \in Seen(i) : At(d) /\ map[i][t] = d.name
                /\ (\E d \in Seen(i) : d.ip = t) =>
                      \E d \in Seen(i) : d.ip = t /\ map[i][t] = d.name
             S == {i \in Nat : i <= n => Fine(i)}
  <1>5. 0 \in S
    <2>1. Seen(0) = {}
      OBVIOUS
    <2> HIDE DEF Seen, At
    <2> QED BY <1>4, <2>1
  <1>6. ASSUME NEW i \in Nat, i \in S PROVE i + 1 \in S
    <2> SUFFICES ASSUME i + 1 <= n PROVE Fine(i + 1)
      OBVIOUS
    <2> DEFINE d == Devices[i + 1]
    <2>1. i + 1 \in 1..n /\ (i + 1) - 1 = i
      BY <1>1
    <2>2. d \in ToSet(Devices) /\ map[i + 1] = WithDevice(map[i], d)
      BY <1>1, <1>4, <2>1
    <2>3. Fine(i)
      BY <1>1, <1>6
    <2>4. Seen(i + 1) = Seen(i) \cup {d}
      <3>1. 1..i + 1 = 1..i \cup {i + 1}
        OBVIOUS
      <3> QED BY <3>1
    <2> HIDE DEF d, Seen
    <2>5. /\ DOMAIN map[i + 1] = Addresses
          /\ map[i + 1] = [a \in Addresses |-> map[i + 1][a]]
          /\ map[i + 1][t] = IF t = d.ip \/ (t = d.endpoint /\ map[i][t] = None)
                             THEN d.name ELSE map[i][t]
      BY <2>2, <2>3, WithDeviceAt
    <2>6. d.name # None
      BY <2>2, PagesAssumption
    <2> DEFINE before == map[i][t]  after == map[i + 1][t]
    <2>7. after = None <=> known[t] = None /\ \A e \in Seen(i + 1) : ~At(e)
      BY <2>3, <2>4, <2>5, <2>6
    <2>8. after # None => \/ after = known[t]
                          \/ \E e \in Seen(i + 1) : At(e) /\ after = e.name
      BY <2>3, <2>4, <2>5, <2>6
    <2>9. (\E e \in Seen(i + 1) : e.ip = t) =>
              \E e \in Seen(i + 1) : e.ip = t /\ after = e.name
      <3>1. CASE t = d.ip
        BY <2>4, <2>5, <3>1
      <3>2. CASE t # d.ip /\ \E e \in Seen(i) : e.ip = t
        <4>1. PICK e \in Seen(i) : e.ip = t /\ before = e.name
          BY <2>3, <3>2
        <4>2. At(e)
          BY <4>1
        <4>3. before # None
          BY <2>3, <4>1, <4>2
        <4>4. after = before
          BY <2>5, <3>2, <4>3
        <4> QED BY <2>4, <4>1, <4>4
      <3> QED BY <2>4, <3>1, <3>2
    <2> QED BY <2>5, <2>7, <2>8, <2>9
  <1> HIDE DEF S
  <1>7. Nat \subseteq S
    BY <1>5, <1>6, SetInduction
  <1>8. Fine(n)
    BY <1>1, <1>7 DEF S
  <1>9. Seen(n) = ToSet(Devices)
    BY <1>1 DEF ToSet
  <1> QED BY <1>2, <1>8, <1>9

LEMMA LastNamedIsOne ==
    ASSUME NEW S \in SUBSET Nodes, S # {}
    PROVE  LastNamed(S) \in S
  <1> DEFINE places == {i \in DOMAIN ByName : ByName[i] \in S}
  <1>1. DOMAIN ByName = 1..Len(ByName) /\ Len(ByName) \in Nat
    BY PagesAssumption, SequenceDomain
  <1>2. places \in SUBSET (0..Len(ByName))
    BY <1>1
  <1>3. places # {}
    BY PagesAssumption DEF ToSet
  <1>4. Max(places) \in places
    <2> HIDE DEF places
    <2> QED BY <1>1, <1>2, <1>3, GreatestIsMax
  <1> QED BY <1>4 DEF LastNamed

LEMMA NodesNamed ==
    ASSUME NEW t \in Addresses
    PROVE  LET holders == {n \in Nodes : t \in {Ip[n], Public(n)}}
           IN  /\ NodesByIp[t] = None <=> holders = {}
               /\ NodesByIp[t] # None => NodesByIp[t] \in holders
  <1> DEFINE seen == {n \in Nodes : Public(n) = t}
             own  == {n \in Nodes : Ip[n] = t}
             holders == {n \in Nodes : t \in {Ip[n], Public(n)}}
  <1>1. NodesByIp[t] = CASE seen # {} -> LastNamed(seen)
                         [] seen = {} /\ own # {} -> LastNamed(own)
                         [] OTHER -> None
    BY DEF NodesByIp
  <1>2. holders = seen \cup own /\ None \notin Nodes
    BY PagesAssumption
  <1>3. /\ seen # {} => LastNamed(seen) \in seen
        /\ own # {} => LastNamed(own) \in own
    BY LastNamedIsOne
  <1>4. seen \subseteq Nodes /\ own \subseteq Nodes
    OBVIOUS
  <1> HIDE DEF seen, own, holders
  <1>5. CASE seen # {}
    BY <1>1, <1>2, <1>3, <1>4, <1>5 DEF holders
  <1>6. CASE seen = {} /\ own # {}
    BY <1>1, <1>2, <1>3, <1>4, <1>6 DEF holders
  <1>7. CASE seen = {} /\ own = {}
    BY <1>1, <1>2, <1>7 DEF holders
  <1> QED BY <1>5, <1>6, <1>7

(* An address is matched with one who has it, and with nobody only if      *)
(* nobody has; at a VPN address of a device, with such a device.           *)
THEOREM TargetsMatched == Spec => []MatchedToHolder
  <1>1. MatchedToHolder
    <2> SUFFICES ASSUME NEW t \in Addresses
                 PROVE  /\ IpMap[t] = None <=> Holders(t) = {}
                        /\ IpMap[t] # None => IpMap[t] \in Holders(t)
                        /\ \A d \in ToSet(Devices) : d.ip = t =>
                              \E e \in ToSet(Devices) :
                                 e.ip = t /\ IpMap[t] = e.name
      BY DEF MatchedToHolder
    <2> DEFINE nodes == {n \in Nodes : t \in {Ip[n], Public(n)}}
               At(d) == t \in {d.ip, d.endpoint}
               devices == {d.name : d \in {d \in ToSet(Devices) : At(d)}}
    <2>1. Holders(t) = nodes \cup devices
      BY DEF Holders
    <2>2. NodesByIp = [a \in Addresses |-> NodesByIp[a]]
      BY DEF NodesByIp
    <2>3. /\ NodesByIp[t] = None <=> nodes = {}
          /\ NodesByIp[t] # None => NodesByIp[t] \in nodes
      BY NodesNamed
    <2>4. /\ IpMap[t] = None <=>
                NodesByIp[t] = None /\ \A d \in ToSet(Devices) : ~At(d)
          /\ IpMap[t] # None =>
                \/ IpMap[t] = NodesByIp[t]
                \/ \E d \in ToSet(Devices) : At(d) /\ IpMap[t] = d.name
          /\ (\E d \in ToSet(Devices) : d.ip = t) =>
                \E d \in ToSet(Devices) : d.ip = t /\ IpMap[t] = d.name
      BY <2>2, DevicesNamed DEF IpMap
    <2>5. devices = {} <=> \A d \in ToSet(Devices) : ~At(d)
      OBVIOUS
    <2>6. \A d \in ToSet(Devices) : At(d) => d.name \in devices
      OBVIOUS
    <2> HIDE DEF nodes, devices, At
    <2> QED BY <2>1, <2>3, <2>4, <2>5, <2>6
  <1> QED BY <1>1, PTL
=============================================================================
