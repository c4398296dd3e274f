--------------------------- MODULE HeadSnapshots ---------------------------
(***************************************************************************)
(* Snapshots and time: the head asks one node after the other (itself      *)
(* first), stores what they report with the time of THEIR clocks, and      *)
(* shows a node online while the latest of these times is not too long     *)
(* ago on its own.  Clocks of minions may be wrong, by Skew at most.       *)
(*                                                                         *)
(* The table of snapshots only grows and only the latest of a node is ever *)
(* read, so the model keeps that one.  Time is the head's, in a unit of    *)
(* one's choice; a step of the poller ends when it may, but not after its  *)
(* deadline.  For a poll that is the deadline of the part of the answer    *)
(* (connecting, sending, a read) that is waited for: the next part sets    *)
(* another, and the request as a whole has none.  What ends the poller for *)
(* good is in HeadInventory.                                               *)
(***************************************************************************)
EXTENDS Integers, Sequences

CONSTANTS
    Nodes,
    Order,          \* the nodes in the order of a round
    Reports,        \* what each node's snapshot may say
    Timeout,        \* the time-out of each part of a poll (timeout=10)
    MostParts,      \* the most parts one comes in: nothing in the code says so
    Interval,       \* polling_interval_seconds
    DnsMost,        \* the most that refreshing the DNS records takes
    StaleAfter,     \* stale_after_seconds
    Skew,           \* the most by which a minion's clock is wrong
    MaxTime         \* bound of the checked runs

ASSUME SnapshotAssumption ==
    /\ Order \in Seq(Nodes) /\ Order # <<>>
    /\ \A i, j \in DOMAIN Order : Order[i] = Order[j] => i = j
    /\ \A n \in Nodes : Reports[n] # {}
    /\ {Timeout, Interval, DnsMost, StaleAfter, Skew, MaxTime} \subseteq Nat
    /\ MostParts \in Nat \ {0}

(* The most that asking one node takes.                                    *)
Longest == MostParts * Timeout

VARIABLES
    now,            \* the head's clock
    stored,         \* nodes that have a snapshot
    at, received, report,   \* of the latest one of each node: collected_at,
                            \* when the head got it, and what it says
    last,           \* when each node answered last, with any snapshot
    answered,       \* nodes that answered when they were asked last
    turn, since, by,    \* the poller: whose turn it is (after the last: its
                        \* rest), since when, and by when it is over or there
    parts               \* is a further part, and the part of a poll it is in

latest == <<stored, at, received, report>>
poller == <<turn, since, by, parts>>
vars == <<now, latest, last, answered, poller>>

Rounds == 1..Len(Order) + 1

Init ==
    /\ now = 0
    /\ stored = {}
    /\ at = [n \in Nodes |-> 0]
    /\ received = [n \in Nodes |-> 0]
    /\ report = [n \in Nodes |-> CHOOSE x \in Reports[n] : TRUE]
    /\ last = [n \in Nodes |-> 0]
    /\ answered = {}
    /\ turn = 1 /\ since = 0 /\ by = Timeout /\ parts = 1

Tick ==
    /\ now < by /\ now < MaxTime
    /\ now' = now + 1
    /\ UNCHANGED <<latest, last, answered, poller>>

-----------------------------------------------------------------------------
(* The poller. *)

Asking(n) == turn <= Len(Order) /\ Order[turn] = n

(* On to the next node, or to DNS and the wait for the next round.         *)
Proceed ==
    /\ turn' = turn + 1
    /\ since' = now /\ parts' = 1
    /\ by' = now + (IF turn < Len(Order) THEN Timeout ELSE DnsMost + Interval)

(* A part of the answer comes: the next one has the whole time-out again.  *)
Part(n) ==
    /\ Asking(n)
    /\ parts < MostParts
    /\ parts' = parts + 1
    /\ by' = now + Timeout
    /\ UNCHANGED <<now, latest, last, answered, turn, since>>

(* store_snapshot, as latest_snapshot reads it: the latest collected_at    *)
(* wins, and of equal ones either may.                                     *)
Store(n, time, x) ==
    /\ stored' = stored \cup {n}
    /\ \/ /\ n \notin stored \/ time >= at[n]
          /\ at' = [at EXCEPT ![n] = time]
          /\ received' = [received EXCEPT ![n] = now]
          /\ report' = [report EXCEPT ![n] = x]
       \/ /\ n \in stored /\ time <= at[n]
          /\ UNCHANGED <<at, received, report>>

(* The snapshot was taken while it was waited for, by the node's clock.    *)
Answer(n) ==
    /\ Asking(n)
    /\ \E taken \in since..now, error \in -Skew..Skew, x \in Reports[n] :
          Store(n, taken + error, x)
    /\ last' = [last EXCEPT ![n] = now]
    /\ answered' = answered \cup {n}
    /\ Proceed
    /\ UNCHANGED now

(* A mistake: the others are not asked in a round in which one is silent.  *)
SilentEndsRound(n) ==
    /\ Asking(n)
    /\ answered' = answered \ {n}
    /\ turn' = Len(Order) + 1
    /\ since' = now /\ parts' = 1
    /\ by' = now + DnsMost + Interval
    /\ UNCHANGED <<now, latest, last>>

(* An error, a time-out, or an answer that is no snapshot.                 *)
Silent(n) ==
    /\ Asking(n)
    /\ answered' = answered \ {n}
    /\ Proceed
    /\ UNCHANGED <<now, latest, last>>

NewRound ==
    /\ turn = Len(Order) + 1 /\ now >= since + Interval
    /\ turn' = 1 /\ since' = now /\ parts' = 1
    /\ by' = now + Timeout
    /\ UNCHANGED <<now, latest, last, answered>>

-----------------------------------------------------------------------------
Next ==
    \/ Tick
    \/ \E n \in Nodes : Part(n) \/ Answer(n) \/ Silent(n)
    \/ NewRound

Spec == Init /\ [][Next]_vars

-----------------------------------------------------------------------------
(* What the pages say of a node. *)

(* A mistake: a snapshot, however old, is enough.                          *)
StaleNever(n) == n \notin stored

Stale(n) == n \notin stored \/ now - at[n] > StaleAfter
Online(n) == ~Stale(n)

-----------------------------------------------------------------------------
(* Properties. *)

TypeOK ==
    /\ now \in Nat
    /\ stored \subseteq Nodes /\ answered \subseteq stored
    /\ at \in [Nodes -> Int] /\ received \in [Nodes -> Nat]
    /\ last \in [Nodes -> Nat]
    /\ \A n \in Nodes : report[n] \in Reports[n]
    /\ turn \in Rounds /\ since \in Nat /\ by \in Nat /\ parts \in 1..MostParts

(* A minion's clock that was ahead and is corrected hides its newer        *)
(* snapshots behind an old one, but not behind one that is older than      *)
(* twice the error (and a poll).                                           *)
ShownIsRecent ==
    \A n \in stored : last[n] - received[n] <= 2 * Skew + Longest

(* No clock, and no silence of a node, keeps it online for longer than     *)
(* stale_after_seconds and the error of the clock.                         *)
OnlineWasHeard ==
    \A n \in stored : Online(n) => now - last[n] <= StaleAfter + Skew

(* A node that has answered less than stale_after_seconds ago, the error   *)
(* of its clock and the time of a poll taken off, is online.               *)
HeardIsOnline ==
    \A n \in stored :
        now - last[n] <= StaleAfter - Skew - Longest => Online(n)

(* A node that answers every time stays online however many others do not, *)
(* or answer slowly, provided that a whole round in which everybody needs  *)
(* the time-out for each of MostParts parts fits into stale_after_seconds. *)
RoundFits ==
    (Len(Order) + 1) * Longest + DnsMost + Interval + Skew <= StaleAfter

AnsweringIsOnline == RoundFits => \A n \in answered : Online(n)
=============================================================================
