------------------------ MODULE HeadInventoryProofs -------------------------
(***************************************************************************)
(* Theorems about HeadInventory, for any configurations, client files,     *)
(* DNS names and answers, and any number of edits, commands that hang,     *)
(* snapshots that are refused, answers without end, outages and restarts.  *)
(***************************************************************************)
EXTENDS HeadInventory, FiniteSetTheorems, WellFoundedInduction, TLAPS

-----------------------------------------------------------------------------
(* Induction.  That < is well-founded on the naturals gives a least        *)
(* element, and so induction on the members of a set.                      *)

LEMMA LeastElement ==
    ASSUME NEW S \in SUBSET Nat, S # {}
    PROVE  \E m \in S : \A n \in S : m <= n
<1> DEFINE R == OpToRel(<, Nat)
<1>1. \A m, n \in Nat : <<m, n>> \in R <=> m < n
  BY DEF OpToRel
<1>2. IsWellFoundedOn(R, Nat)
  BY NatLessThanWellFounded
<1> HIDE DEF R
<1>3. PICK m \in S : \A n \in S : ~(<<n, m>> \in R)
  BY <1>2, WFMin
<1>4. \A n \in S : n \in Nat /\ m \in Nat
  OBVIOUS
<1>5. \A n \in S : ~(n < m)
  BY <1>1, <1>3, <1>4
<1> QED
  BY <1>4, <1>5

LEMMA SetInduction ==
    ASSUME NEW S, 0 \in S, \A n \in Nat : n \in S => n + 1 \in S
    PROVE  Nat \subseteq S
<1> SUFFICES ASSUME Nat \ S # {} PROVE FALSE
  OBVIOUS
<1>1. PICK m \in Nat \ S : \A n \in Nat \ S : m <= n
  BY LeastElement
<1>2. m # 0 /\ m - 1 \in Nat
  BY <1>1
<1>3. m - 1 \in S
  BY <1>1, <1>2
<1> QED
  BY <1>1, <1>2, <1>3

-----------------------------------------------------------------------------
(* Sets as sequences and back.                                             *)

LEMMA ListedOnce ==
    ASSUME NEW S, IsFiniteSet(S)
    PROVE  SetToSeq(S) \in Seq(S) /\ ToSet(SetToSeq(S)) = S
<1> DEFINE n == Cardinality(S)  s == SetToSeq(S)
<1>1. n \in Nat /\ \E f \in [1..n -> S] : IsInjective(f)
  BY FS_CardinalityType DEF ExistsBijection, Bijection, Injection
<1>2. s \in [1..n -> S] /\ IsInjective(s)
  BY <1>1 DEF SetToSeq
<1>3. s \in Injection(1..n, S)
  BY <1>2 DEF Injection
<1>4. Cardinality(1..n) = n
  BY <1>1, FS_Interval
<1> HIDE DEF s
<1>5. s \in Surjection(1..n, S)
  BY <1>3, <1>4, FS_Injection
<1>6. s \in Seq(S) /\ DOMAIN s = 1..n
  BY <1>1, <1>2
<1>7. \A e \in S : \E i \in DOMAIN s : s[i] = e
  BY <1>5, <1>6 DEF Surjection
<1>8. ToSet(s) = S
  BY <1>2, <1>6, <1>7 DEF ToSet
<1> QED
  BY <1>6, <1>8 DEF s

LEMMA ElementsFinite ==
    ASSUME NEW S, NEW s \in Seq(S)
    PROVE  IsFiniteSet(ToSet(s)) /\ ToSet(s) \subseteq S
<1>1. s \in [1..Len(s) -> S] /\ DOMAIN s = 1..Len(s) /\ Len(s) \in Nat
  OBVIOUS
<1>2. ToSet(s) \subseteq S
  BY <1>1 DEF ToSet
<1>3. s \in Surjection(1..Len(s), ToSet(s))
  BY <1>1 DEF Surjection, ToSet
<1>4. IsFiniteSet(1..Len(s))
  BY <1>1, FS_Interval
<1> QED
  BY <1>2, <1>3, <1>4, FS_Surjection

-----------------------------------------------------------------------------
(* The tables as sets of rows.                                             *)
Rows == UNION (Topologies \cup ClientFiles)
IsTable(rows) ==
    /\ IsFiniteSet(rows)
    /\ \A r \in rows : r = Named(r.name, r.ip)
    /\ \A m, n \in rows : m.name = n.name => m = n

LEMMA NamesFinite ==
    ASSUME NEW rows, IsFiniteSet(rows)
    PROVE  IsFiniteSet(NamesOf(rows))
<1> DEFINE f == [r \in rows |-> r.name]
<1>1. f \in Surjection(rows, NamesOf(rows))
  BY DEF Surjection, NamesOf
<1> QED
  BY <1>1, FS_Surjection

(* One of the suffixes is free, by the pigeonhole principle, and so there  *)
(* is a first one.                                                         *)
LEMMA FreeNameIsFree ==
    ASSUME NEW device, NEW names, IsFiniteSet(names)
    PROVE  FreeName(device, names) \notin names
<1> DEFINE c == Cardinality(names)
           Suffixed(n) == <<device.ip, n>>
           free == {n \in 2..c + 2 : Suffixed(n) \notin names}
<1>1. c \in Nat
  BY FS_CardinalityType
<1>2. free # {}
  <2> SUFFICES ASSUME free = {} PROVE FALSE
    OBVIOUS
  <2> DEFINE f == [n \in 2..c + 2 |-> Suffixed(n)]
  <2>1. \A n \in 2..c + 2 : Suffixed(n) \in names
    OBVIOUS
  <2>2. f \in [2..c + 2 -> names]
    BY <2>1
  <2>3. \A m, n \in 2..c + 2 : f[m] = f[n] => m = n
    OBVIOUS
  <2>4. f \in Injection(2..c + 2, names)
    BY <2>2, <2>3 DEF Injection, IsInjective
  <2>5. Cardinality(2..c + 2) <= c
    BY <2>4, FS_Injection
  <2>6. Cardinality(2..c + 2) = c + 1
    BY <1>1, FS_Interval
  <2> QED
    BY <1>1, <2>5, <2>6
<1>3. PICK n \in free : \A k \in free : n <= k
  <2>1. free \in SUBSET Nat
    BY <1>1
  <2> HIDE DEF free
  <2> QED BY <1>2, <2>1, LeastElement
<1>4. \A k \in 2..n - 1 : Suffixed(k) \in names
  <2> TAKE k \in 2..n - 1
  <2>1. k \in 2..c + 2 /\ n \in Nat /\ ~(n <= k)
    BY <1>1, <1>3
  <2> QED BY <1>3, <2>1
<1>5. \E m \in 2..c + 2 : /\ Suffixed(m) \notin names
                          /\ \A k \in 2..m - 1 : Suffixed(k) \in names
  BY <1>3, <1>4
<1> DEFINE first == CHOOSE m \in 2..c + 2 :
               /\ Suffixed(m) \notin names
               /\ \A k \in 2..m - 1 : Suffixed(k) \in names
<1>6. Suffixed(first) \notin names
  BY <1>5
<1>7. CASE device.name \notin names
  BY <1>7 DEF FreeName
<1>8. CASE device.name \in names /\ device.ip \notin names
  BY <1>8 DEF FreeName
<1>9. CASE device.name \in names /\ device.ip \in names
  BY <1>6, <1>9 DEF FreeName
<1> QED
  BY <1>7, <1>8, <1>9

LEMMA EnsuredTable ==
    ASSUME NEW all, IsTable(all), NEW device
    PROVE  /\ IsTable(Ensured(all, device)) /\ all \subseteq Ensured(all, device)
           /\ device.ip \in IpsOf(Ensured(all, device))
<1>1. CASE device.ip \in IpsOf(all)
  BY <1>1 DEF Ensured
<1>2. CASE device.ip \notin IpsOf(all)
  <2> DEFINE name == FreeName(device, NamesOf(all))
             new == Named(name, device.ip)
  <2>1. name \notin NamesOf(all)
    BY NamesFinite, FreeNameIsFree DEF IsTable
  <2>2. Ensured(all, device) = all \cup {new}
    BY <1>2 DEF Ensured
  <2> HIDE DEF name
  <2>3. new.name = name /\ new.ip = device.ip /\ new = Named(new.name, new.ip)
    BY DEF Named
  <2> HIDE DEF new
  <2>4. \A r \in all : r.name # new.name
    BY <2>1, <2>3 DEF NamesOf
  <2>5. IsFiniteSet(all \cup {new})
    BY FS_AddElement DEF IsTable
  <2>6. IsTable(all \cup {new})
    BY <2>3, <2>4, <2>5 DEF IsTable
  <2>7. device.ip \in IpsOf(all \cup {new})
    BY <2>3 DEF IpsOf
  <2> QED BY <2>2, <2>6, <2>7
<1> QED
  BY <1>1, <1>2

(* The recursive function of EnsureNodes exists.                           *)
IsRun(f, known, rows, n) ==
    f = [i \in 0..n |-> IF i = 0 THEN known ELSE Ensured(f[i - 1], rows[i])]

LEMMA RunExists ==
    ASSUME NEW known, NEW rows, NEW n \in Nat
    PROVE  \E f : IsRun(f, known, rows, n)
<1> DEFINE S == {k \in Nat : \E f : IsRun(f, known, rows, k)}
<1>1. 0 \in S
  <2> DEFINE f == [i \in 0..0 |-> known]
  <2>1. IsRun(f, known, rows, 0)
    BY DEF IsRun
  <2> QED BY <2>1
<1>2. ASSUME NEW k \in Nat, k \in S PROVE k + 1 \in S
  <2>1. PICK f : IsRun(f, known, rows, k)
    BY <1>2
  <2> DEFINE g == [i \in 0..k + 1 |->
                     IF i = k + 1 THEN Ensured(f[k], rows[k + 1]) ELSE f[i]]
  <2>2. ASSUME NEW i \in 0..k + 1
        PROVE  g[i] = IF i = 0 THEN known ELSE Ensured(g[i - 1], rows[i])
    <3>1. CASE i = k + 1
      BY <3>1
    <3>2. CASE i # k + 1
      <4>1. i \in 0..k /\ i # 0 => (i - 1 \in 0..k /\ i - 1 # k + 1 /\ i - 1 \in 0..k + 1)
        BY <3>2
      <4>2. f[i] = IF i = 0 THEN known ELSE Ensured(f[i - 1], rows[i])
        BY <2>1, <3>2 DEF IsRun
      <4> QED BY <3>2, <4>1, <4>2
    <3> QED BY <3>1, <3>2
  <2>3. g = [i \in 0..k + 1 |-> g[i]]
    OBVIOUS
  <2> HIDE DEF g
  <2>4. IsRun(g, known, rows, k + 1)
    BY <2>2, <2>3 DEF IsRun
  <2> QED BY <2>4
<1> HIDE DEF S
<1>3. Nat \subseteq S
  BY <1>1, <1>2, SetInduction
<1> QED
  BY <1>3 DEF S

(* Ensuring adds rows only, keeps names unique, and leaves no device       *)
(* without a node.                                                         *)
LEMMA EnsureNodesTable ==
    ASSUME NEW known, IsTable(known), NEW rows, Len(rows) \in Nat
    PROVE  /\ IsTable(EnsureNodes(known, rows))
           /\ known \subseteq EnsureNodes(known, rows)
           /\ \A i \in 1..Len(rows) : rows[i].ip \in IpsOf(EnsureNodes(known, rows))
<1> DEFINE n == Len(rows)
           after == CHOOSE f : IsRun(f, known, rows, n)
<1>1. EnsureNodes(known, rows) = after[n]
  BY DEF EnsureNodes, IsRun
<1>2. IsRun(after, known, rows, n)
  BY RunExists
<1> HIDE DEF after
<1>3. /\ after[0] = known
      /\ \A i \in 1..n : after[i] = Ensured(after[i - 1], rows[i])
  BY <1>2 DEF IsRun
<1> DEFINE Fine(k) == /\ IsTable(after[k]) /\ known \subseteq after[k]
                      /\ \A i \in 1..k : rows[i].ip \in IpsOf(after[k])
           S == {k \in Nat : k <= n => Fine(k)}
<1>4. 0 \in S
  BY <1>3
<1>5. ASSUME NEW k \in Nat, k \in S PROVE k + 1 \in S
  <2> SUFFICES ASSUME k + 1 <= n PROVE Fine(k + 1)
    OBVIOUS
  <2>1. k + 1 \in 1..n /\ (k + 1) - 1 = k
    OBVIOUS
  <2>2. after[k + 1] = Ensured(after[k], rows[k + 1])
    BY <1>3, <2>1
  <2>3. Fine(k)
    BY <1>5
  <2>4. /\ IsTable(after[k + 1]) /\ after[k] \subseteq after[k + 1]
        /\ rows[k + 1].ip \in IpsOf(after[k + 1])
    BY <2>2, <2>3, EnsuredTable
  <2>5. IpsOf(after[k]) \subseteq IpsOf(after[k + 1])
    BY <2>4 DEF IpsOf
  <2>6. \A i \in 1..k + 1 : i \in 1..k \/ i = k + 1
    OBVIOUS
  <2> QED BY <2>3, <2>4, <2>5, <2>6
<1> HIDE DEF S
<1>6. n \in S
  BY <1>4, <1>5, SetInduction
<1>7. Fine(n)
  BY <1>6 DEF S
<1> QED
  BY <1>1, <1>7

(* What a scan reports: rows, and as devices one row per name.             *)
LEMMA StatusesType ==
    ASSUME clients \in ClientFiles, topology \in Topologies
    PROVE  Statuses \in Seq(Rows)
<1> DEFINE own == {c \in clients : c.ip \in Subnet}
           others == {n \in topology : n.ip \in Subnet /\ n.ip \notin IpsOf(own)}
<1>1. IsFiniteSet(clients) /\ IsFiniteSet(topology)
  BY InventoryAssumption
<1>2. IsFiniteSet(own) /\ own \subseteq Rows
  BY <1>1, FS_Subset DEF Rows
<1>3. IsFiniteSet(others) /\ others \subseteq Rows
  BY <1>1, FS_Subset DEF Rows
<1>4. Statuses = SetToSeq(own) \o SetToSeq(others)
  BY DEF Statuses
<1> HIDE DEF own, others
<1>5. SetToSeq(own) \in Seq(own) /\ SetToSeq(others) \in Seq(others)
  BY <1>2, <1>3, ListedOnce
<1>6. SetToSeq(own) \in Seq(Rows) /\ SetToSeq(others) \in Seq(Rows)
  BY <1>2, <1>3, <1>5
<1> QED
  BY <1>4, <1>6

LEMMA RowsAreRows == \A r \in Rows : r = Named(r.name, r.ip)
  BY InventoryAssumption DEF Rows

LEMMA InventoryTable ==
    ASSUME NEW s \in Seq(Rows)
    PROVE  /\ IsTable(Inventory(s)) /\ Inventory(s) \subseteq Rows
           /\ Inventory(s) \subseteq ToSet(s)
<1>1. IsFiniteSet(ToSet(s)) /\ ToSet(s) \subseteq Rows
  BY ElementsFinite
<1>2. Inventory(s) \subseteq ToSet(s)
  BY DEF Inventory, ToSet
<1>3. IsFiniteSet(Inventory(s)) /\ Inventory(s) \subseteq Rows
  BY <1>1, <1>2, FS_Subset
<1>4. ASSUME NEW a \in Inventory(s), NEW b \in Inventory(s), a.name = b.name
      PROVE  a = b
  <2>1. PICK i \in DOMAIN s : /\ s[i] = a
              /\ \A j \in i + 1..Len(s) : s[j].name # s[i].name
    BY DEF Inventory
  <2>2. PICK k \in DOMAIN s : /\ s[k] = b
              /\ \A j \in k + 1..Len(s) : s[j].name # s[k].name
    BY DEF Inventory
  <2>3. i \in 1..Len(s) /\ k \in 1..Len(s) /\ Len(s) \in Nat
    OBVIOUS
  <2>4. ~(i < k)
    BY <1>4, <2>1, <2>2, <2>3
  <2>5. ~(k < i)
    BY <1>4, <2>1, <2>2, <2>3
  <2>6. i = k
    BY <2>3, <2>4, <2>5
  <2> QED BY <2>1, <2>2, <2>6
<1> QED
  BY <1>2, <1>3, <1>4, RowsAreRows DEF IsTable

-----------------------------------------------------------------------------
(* The invariant.  The tables have unique names; a task that is about to   *)
(* use a node it has found or inserted still finds it; and a scan that is  *)
(* about to commit has read, or brings along, a node for every device.     *)

TablesInv ==
    /\ IsTable(nodes) /\ IsTable(devices) /\ devices \subseteq Rows
    /\ heard \subseteq NamesOf(nodes)

PollInv ==
    /\ poll = [step |-> poll.step, left |-> poll.left]
    /\ poll.step \in {"lookup", "create", "store", "minion", "answer", "dns",
                      "wait", "dead"}
    /\ poll.left \in Seq(ToSet(Targets))
    /\ At(poll, "store") => HeadId \in NamesOf(nodes)
    /\ At(poll, "answer") => poll.left # <<>> /\ Head(poll.left) \in NamesOf(nodes)

ScanInv ==
    /\ scan = [step |-> scan.step, statuses |-> scan.statuses,
               missing |-> scan.missing, error |-> scan.error]
    /\ scan.step \in {"scan", "read", "commit", "report", "wait", "dead"}
    /\ scan.statuses \in Seq(Rows) /\ IsTable(scan.missing)
    /\ At(scan, "commit") =>
          IpsOf(ToSet(scan.statuses)) \subseteq IpsOf(nodes \cup scan.missing)
    /\ head # "running" => At(scan, "dead")

Errors ==
    {None, "timeout", "blank", "endless", "text", "refused", "database"}
WorldInv ==
    /\ db \in BOOLEAN /\ head \in {"down", "synced", "running"}
    /\ clients \in ClientFiles /\ topology \in Topologies
    /\ scan.error \in Errors /\ lastError \in Errors

InventoryInv == TablesInv /\ PollInv /\ ScanInv /\ WorldInv /\ DevicesHaveNodes

LEMMA EmptyTable == IsTable({})
  BY FS_EmptySet DEF IsTable

LEMMA ConfigurationTable == \A config \in Topologies : IsTable(config)
  BY InventoryAssumption DEF IsTable

LEMMA InventoryInit == Init => InventoryInv
<1> SUFFICES ASSUME Init PROVE InventoryInv
  OBVIOUS
<1>1. TablesInv
  BY EmptyTable DEF Init, TablesInv
<1>2. PollInv /\ ScanInv
  BY EmptyTable DEF Init, PollInv, ScanInv, PollAt, ScanAt, At
<1>3. WorldInv /\ DevicesHaveNodes
  BY DEF Init, WorldInv, Errors, DevicesHaveNodes, ScanAt
<1> QED
  BY <1>1, <1>2, <1>3 DEF InventoryInv

(* Rows may be added to a table when their names are new.                  *)
LEMMA TableUnion ==
    ASSUME NEW s, IsTable(s), NEW t, IsTable(t), NamesOf(s) \cap NamesOf(t) = {}
    PROVE  IsTable(s \cup t)
<1>1. IsFiniteSet(s \cup t)
  BY FS_Union DEF IsTable
<1> QED
  BY <1>1 DEF IsTable, NamesOf

LEMMA TableSubset ==
    ASSUME NEW s, IsTable(s), NEW t \in SUBSET s
    PROVE  IsTable(t)
<1>1. IsFiniteSet(t)
  BY FS_Subset DEF IsTable
<1> QED
  BY <1>1 DEF IsTable

(* With more nodes, and nothing else changed in the tables, what was true  *)
(* of names and addresses stays true.                                      *)
LEMMA MoreNodes ==
    ASSUME NEW s, NEW t, s \subseteq t
    PROVE  NamesOf(s) \subseteq NamesOf(t) /\ IpsOf(s) \subseteq IpsOf(t)
  BY DEF NamesOf, IpsOf

LEMMA AllIps == \A s, t : IpsOf(s \cup t) = IpsOf(s) \cup IpsOf(t)
  BY DEF IpsOf

-----------------------------------------------------------------------------
(* Start-up keeps the invariant.                                           *)
LEMMA SyncKeeps ==
    ASSUME InventoryInv, NEW config \in Topologies, Sync(config)
    PROVE  InventoryInv'
<1> DEFINE kept == {n \in nodes : n.name \notin NamesOf(config)}
<1>1. /\ head = "down" /\ head' = "synced" /\ topology' = config
      /\ nodes' = kept \cup config
      /\ UNCHANGED <<devices, records, heard, db, clients, poll, scan,
                     lastError, counts>>
  BY DEF Sync
<1>2. IsTable(nodes')
  <2>1. IsTable(kept)
    BY TableSubset DEF InventoryInv, TablesInv
  <2>2. NamesOf(kept) \cap NamesOf(config) = {}
    BY DEF NamesOf
  <2> HIDE DEF kept
  <2> QED BY <1>1, <2>1, <2>2, ConfigurationTable, TableUnion
<1>3. NamesOf(nodes) \subseteq NamesOf(nodes')
  BY <1>1 DEF NamesOf
<1>4. TablesInv' /\ PollInv'
  BY <1>1, <1>2, <1>3 DEF InventoryInv, TablesInv, PollInv
<1>5. At(scan, "dead")
  BY <1>1 DEF InventoryInv, ScanInv
<1>6. ScanInv'
  BY <1>1, <1>5 DEF InventoryInv, ScanInv, At
<1>7. WorldInv' /\ DevicesHaveNodes'
  BY <1>1 DEF InventoryInv, WorldInv, DevicesHaveNodes
<1> QED
  BY <1>4, <1>6, <1>7 DEF InventoryInv

LEMMA StartKeeps == InventoryInv /\ Start => InventoryInv'
<1> SUFFICES ASSUME InventoryInv, Start PROVE InventoryInv'
  OBVIOUS
<1> DEFINE listed == SetToSeq(devices)
<1>1. /\ nodes' = EnsureNodes(nodes, listed) /\ head' = "running"
      /\ poll' = PollAt("lookup") /\ scan' = ScanAt("scan") /\ lastError' = None
      /\ UNCHANGED <<devices, records, heard, db, clients, topology>>
  BY DEF Start
<1>2. listed \in Seq(devices) /\ ToSet(listed) = devices
  BY ListedOnce DEF InventoryInv, TablesInv, IsTable
<1> HIDE DEF listed
<1>3. /\ IsTable(nodes') /\ nodes \subseteq nodes'
      /\ \A i \in 1..Len(listed) : listed[i].ip \in IpsOf(nodes')
  BY <1>1, <1>2, EnsureNodesTable DEF InventoryInv, TablesInv
<1>4. IpsOf(devices) \subseteq IpsOf(nodes')
  BY <1>2, <1>3 DEF IpsOf, ToSet
<1>5. TablesInv'
  BY <1>1, <1>3, MoreNodes DEF InventoryInv, TablesInv
<1>6. PollInv' /\ ScanInv'
  BY <1>1, EmptyTable DEF PollInv, ScanInv, PollAt, ScanAt, At
<1>7. WorldInv' /\ DevicesHaveNodes'
  BY <1>1, <1>4 DEF InventoryInv, WorldInv, Errors, DevicesHaveNodes, ScanAt
<1> QED
  BY <1>5, <1>6, <1>7 DEF InventoryInv

-----------------------------------------------------------------------------
(* The polling task keeps the invariant: it changes the tables by adding   *)
(* its own node, and names of nodes to those heard.                        *)
PollOnly ==
    /\ UNCHANGED <<devices, world, scan, lastError>>
    /\ nodes \subseteq nodes' /\ IsTable(nodes')
    /\ heard' \subseteq NamesOf(nodes')

LEMMA PollOnlyKeeps == InventoryInv /\ PollOnly /\ PollInv' => InventoryInv'
<1> SUFFICES ASSUME InventoryInv, PollOnly, PollInv' PROVE InventoryInv'
  OBVIOUS
<1>1. IpsOf(nodes) \subseteq IpsOf(nodes')
  BY MoreNodes DEF PollOnly
<1>2. TablesInv'
  BY DEF InventoryInv, TablesInv, PollOnly
<1>3. ScanInv'
  BY <1>1, AllIps DEF InventoryInv, ScanInv, PollOnly, world
<1>4. WorldInv' /\ DevicesHaveNodes'
  BY <1>1 DEF InventoryInv, WorldInv, DevicesHaveNodes, PollOnly, world
<1> QED
  BY <1>2, <1>3, <1>4 DEF InventoryInv

LEMMA PollAtKeeps ==
    ASSUME NEW step \in {"lookup", "create", "store", "minion", "dns", "wait", "dead"},
           poll' = PollAt(step),
           step = "store" => HeadId \in NamesOf(nodes')
    PROVE  PollInv'
<1>1. poll'.step = step /\ poll'.left = <<>>
  BY DEF PollAt
<1>2. poll' = [step |-> poll'.step, left |-> poll'.left]
  BY <1>1 DEF PollAt
<1>3. poll'.left \in Seq(ToSet(Targets))
  BY <1>1
<1> QED
  BY <1>1, <1>2, <1>3 DEF PollInv, At

LEMMA PollingKeeps == InventoryInv /\ Polling => InventoryInv'
<1> SUFFICES ASSUME InventoryInv, Polling PROVE InventoryInv'
  OBVIOUS
<1>1. UNCHANGED <<devices, world, scan, lastError>>
  BY DEF Polling, PollLookup, PollCreate, PollStore, PollMinion, PollAnswer,
         PollDns, PollWait, PollStep, FatalSnapshot
<1>2. IsTable(nodes) /\ heard \subseteq NamesOf(nodes) /\ PollInv
  BY DEF InventoryInv, TablesInv
<1>3. CASE UNCHANGED <<nodes, heard>> /\ PollInv'
  BY <1>1, <1>2, <1>3, PollOnlyKeeps DEF PollOnly
<1>4. ASSUME PollDies PROVE PollInv' /\ UNCHANGED <<nodes, heard>>
  BY <1>4, PollAtKeeps DEF PollDies
<1>5. CASE PollLookup
  <2>1. CASE ~db
    BY <1>3, <1>4, <1>5, <2>1 DEF PollLookup
  <2>2. CASE db
    <3>1. \/ poll' = PollAt("create")
          \/ HeadId \in NamesOf(nodes) /\ poll' = PollAt("store")
      BY <1>5, <2>2 DEF PollLookup
    <3>2. UNCHANGED <<nodes, heard>>
      BY <1>5, <2>2 DEF PollLookup, PollDies
    <3>3. PollInv'
      BY <3>1, <3>2, PollAtKeeps
    <3> QED BY <1>3, <3>2, <3>3
  <2> QED BY <2>1, <2>2
<1>6. CASE PollCreate
  <2>1. CASE ~db \/ HeadId \in NamesOf(nodes)
    BY <1>3, <1>4, <1>6, <2>1 DEF PollCreate
  <2>2. CASE db /\ HeadId \notin NamesOf(nodes)
    <3> DEFINE new == Named(HeadId, "local")
    <3>1. nodes' = nodes \cup {new} /\ poll' = PollAt("store") /\ heard' = heard
      BY <1>6, <2>2 DEF PollCreate
    <3>2. IsTable({new}) /\ NamesOf({new}) = {HeadId}
      BY FS_Singleton DEF IsTable, Named, NamesOf
    <3> HIDE DEF new
    <3>3. IsTable(nodes')
      BY <1>2, <2>2, <3>1, <3>2, TableUnion
    <3>4. HeadId \in NamesOf(nodes') /\ NamesOf(nodes) \subseteq NamesOf(nodes')
      BY <3>1, <3>2 DEF NamesOf
    <3>5. PollInv'
      BY <3>1, <3>4, PollAtKeeps
    <3> QED BY <1>1, <1>2, <3>1, <3>3, <3>4, <3>5, PollOnlyKeeps DEF PollOnly
  <2> QED BY <2>1, <2>2
<1>7. CASE PollStore
  <2>1. CASE PollDies
    BY <1>3, <1>4, <2>1
  <2>2. CASE db /\ ~PollDies
    <3>1. /\ heard' = heard \cup {HeadId} /\ nodes' = nodes
          /\ poll' = [step |-> "minion", left |-> Targets]
          /\ HeadId \in NamesOf(nodes)
      BY <1>2, <1>7, <2>2 DEF PollStore, PollStep, FatalSnapshot, PollInv, At
    <3>2. PollInv'
      BY <3>1, InventoryAssumption DEF PollInv, At
    <3> QED BY <1>1, <1>2, <3>1, <3>2, PollOnlyKeeps DEF PollOnly
  <2> QED BY <1>7, <2>1, <2>2 DEF PollStore, FatalSnapshot
<1>8. CASE PollMinion
  <2>1. ASSUME NEW step \in {"dns", "dead"}, poll' = PollAt(step)
        PROVE  PollInv'
    BY <2>1, PollAtKeeps
  <2>2. ASSUME /\ poll.left # <<>> /\ Head(poll.left) \in NamesOf(nodes)
               /\ poll' = [poll EXCEPT !.step = "answer"]
        PROVE  PollInv'
    <3>1. /\ poll'.step = "answer" /\ poll'.left = poll.left
          /\ poll' = [step |-> poll'.step, left |-> poll'.left]
          /\ UNCHANGED nodes
      BY <1>2, <1>8, <2>2 DEF PollMinion, PollInv
    <3> QED BY <1>2, <2>2, <3>1 DEF PollInv, At
  <2>3. PollInv'
    BY <1>8, <2>1, <2>2 DEF PollMinion
  <2> QED BY <1>3, <1>8, <2>3 DEF PollMinion
<1>9. CASE PollAnswer
  <2>1. CASE PollDies
    BY <1>3, <1>4, <2>1
  <2>2. CASE db /\ ~PollDies
    <3>1. /\ heard' \in {heard, heard \cup {Head(poll.left)}} /\ nodes' = nodes
          /\ poll' = [step |-> "minion", left |-> Tail(poll.left)]
          /\ poll.left # <<>> /\ Head(poll.left) \in NamesOf(nodes)
      BY <1>2, <1>9, <2>2 DEF PollAnswer, PollStep, FatalSnapshot, PollInv, At
    <3>2. PollInv'
      BY <1>2, <3>1 DEF PollInv, At
    <3> QED BY <1>1, <1>2, <3>1, <3>2, PollOnlyKeeps DEF PollOnly
  <2> QED BY <1>9, <2>1, <2>2 DEF PollAnswer, FatalSnapshot
<1>10. CASE PollDns
  <2>1. \/ PollDies
        \/ poll' = PollAt("wait") /\ UNCHANGED <<nodes, heard>>
    BY <1>10 DEF PollDns
  <2> QED BY <1>3, <1>4, <2>1, PollAtKeeps
<1>11. CASE PollWait
  BY <1>3, <1>11, PollAtKeeps DEF PollWait
<1> QED
  BY <1>5, <1>6, <1>7, <1>8, <1>9, <1>10, <1>11 DEF Polling

-----------------------------------------------------------------------------
(* The scanning task keeps the invariant.                                  *)
ScanOnly == UNCHANGED <<records, heard, world, poll>>

LEMMA ScanOnlyKeeps ==
    InventoryInv /\ ScanOnly /\ UNCHANGED <<nodes, devices>> /\ ScanInv'
        /\ {scan'.error, lastError'} \subseteq Errors
        => InventoryInv'
BY DEF ScanOnly, InventoryInv, TablesInv, PollInv, WorldInv, DevicesHaveNodes, world

LEMMA ScanRaisesKeeps ==
    ASSUME InventoryInv, ScanOnly, head = "running",
           NEW error \in Errors, ScanRaises(error)
    PROVE  InventoryInv'
<1>1. ScanInv'
  <2>1. \E step \in {"wait", "report"} :
           scan' = [step |-> step, statuses |-> <<>>, missing |-> {},
                    error |-> error]
    BY DEF ScanRaises, ScanAt
  <2>2. head' = "running"
    BY DEF ScanOnly, world
  <2> QED BY <2>1, <2>2, EmptyTable DEF ScanInv, At
<1>2. {scan'.error, lastError'} \subseteq Errors
  BY DEF ScanRaises, ScanAt, InventoryInv, WorldInv
<1> QED
  BY <1>1, <1>2, ScanOnlyKeeps DEF ScanRaises

LEMMA ScanCommitKeeps ==
    ASSUME InventoryInv, ScanOnly, At(scan, "commit"), head = "running", ~Refused,
           devices' = Inventory(scan.statuses),
           nodes' = nodes \cup scan.missing,
           lastError' = None, scan' = ScanAt("wait")
    PROVE  InventoryInv'
<1>1. /\ IsTable(devices') /\ devices' \subseteq Rows
      /\ devices' \subseteq ToSet(scan.statuses)
  BY InventoryTable DEF InventoryInv, ScanInv
<1>2. IsTable(nodes') /\ NamesOf(nodes) \subseteq NamesOf(nodes')
  BY TableUnion, MoreNodes DEF InventoryInv, TablesInv, ScanInv, Refused
<1>3. IpsOf(devices') \subseteq IpsOf(nodes')
  <2>1. IpsOf(ToSet(scan.statuses)) \subseteq IpsOf(nodes')
    BY DEF InventoryInv, ScanInv
  <2>2. IpsOf(devices') \subseteq IpsOf(ToSet(scan.statuses))
    BY <1>1, MoreNodes
  <2> QED BY <2>1, <2>2
<1>4. TablesInv' /\ PollInv'
  BY <1>1, <1>2 DEF InventoryInv, TablesInv, PollInv, ScanOnly
<1>5. ScanInv'
  BY EmptyTable DEF ScanInv, ScanAt, At, ScanOnly, world
<1>6. WorldInv' /\ DevicesHaveNodes'
  BY <1>3 DEF InventoryInv, WorldInv, Errors, DevicesHaveNodes, ScanAt, ScanOnly,
              world
<1> QED
  BY <1>4, <1>5, <1>6 DEF InventoryInv

LEMMA ScanningKeeps == InventoryInv /\ Scanning => InventoryInv'
<1> SUFFICES ASSUME InventoryInv, Scanning PROVE InventoryInv'
  OBVIOUS
<1>1. ScanOnly /\ head = "running"
  BY DEF Scanning, Scan, ScanRead, ScanCommit, ScanReport, ScanWait, ScanStep,
         ScanOnly
<1>2. CASE Scan
  <2>3. CASE /\ scan' = [ScanAt("dead") EXCEPT !.error = "endless"]
             /\ UNCHANGED <<nodes, devices, lastError>>
    <3>1. scan' = [step |-> "dead", statuses |-> <<>>, missing |-> {},
                   error |-> "endless"]
      BY <2>3 DEF ScanAt
    <3>3. ScanInv'
      BY <1>1, <3>1, EmptyTable DEF ScanInv, At, ScanOnly, world
    <3>2. {scan'.error, lastError'} \subseteq Errors
      BY <2>3, <3>1 DEF Errors, InventoryInv, WorldInv
    <3> QED BY <1>1, <2>3, <3>2, <3>3, ScanOnlyKeeps
  <2>1. CASE \E error \in {"timeout", "blank", "text"} : ScanRaises(error)
    BY <1>1, <2>1, ScanRaisesKeeps DEF Errors
  <2>2. CASE /\ scan' = [ScanAt("read") EXCEPT !.statuses = Statuses]
             /\ UNCHANGED <<nodes, devices, lastError, faults>>
    <3>1. Statuses \in Seq(Rows)
      BY StatusesType DEF InventoryInv, WorldInv
    <3>2. ScanInv'
      BY <1>1, <2>2, <3>1, EmptyTable DEF ScanInv, ScanAt, At, ScanOnly, world
    <3> QED
      BY <1>1, <2>2, <3>2, ScanOnlyKeeps
         DEF ScanAt, Errors, InventoryInv, WorldInv
  <2> QED BY <1>2, <2>1, <2>2, <2>3 DEF Scan
<1>3. CASE ScanRead
  <2>1. CASE ScanRaises("database")
    BY <1>1, <2>1, ScanRaisesKeeps DEF Errors
  <2>2. CASE /\ scan' = [scan EXCEPT !.step = "commit",
                            !.missing = EnsureNodes(nodes, scan.statuses) \ nodes]
             /\ UNCHANGED <<nodes, devices, lastError>>
    <3> DEFINE all == EnsureNodes(nodes, scan.statuses)
    <3>1. scan.statuses \in Seq(Rows)
      BY DEF InventoryInv, ScanInv
    <3>2. /\ IsTable(all) /\ nodes \subseteq all
          /\ \A i \in 1..Len(scan.statuses) : scan.statuses[i].ip \in IpsOf(all)
      BY <3>1, EnsureNodesTable DEF InventoryInv, TablesInv
    <3>3. scan' = [scan EXCEPT !.step = "commit", !.missing = all \ nodes]
      BY <2>2
    <3> HIDE DEF all
    <3>4. IsTable(all \ nodes) /\ nodes \cup (all \ nodes) = all
      BY <3>2, TableSubset
    <3>5. IpsOf(ToSet(scan.statuses)) \subseteq IpsOf(all)
      BY <3>1, <3>2 DEF IpsOf, ToSet
    <3>6. /\ scan'.step = "commit" /\ scan'.missing = all \ nodes
          /\ scan'.statuses = scan.statuses /\ scan'.error = scan.error
          /\ scan' = [step |-> scan'.step, statuses |-> scan'.statuses,
                      missing |-> scan'.missing, error |-> scan'.error]
      BY <3>3 DEF InventoryInv, ScanInv
    <3>7. ScanInv'
      BY <1>1, <2>2, <3>1, <3>4, <3>5, <3>6 DEF ScanInv, At, ScanOnly, world
    <3> QED
      BY <1>1, <2>2, <3>6, <3>7, ScanOnlyKeeps DEF InventoryInv, WorldInv
  <2> QED BY <1>3, <2>1, <2>2 DEF ScanRead
<1>4. CASE ScanCommit
  <2>1. CASE ScanRaises("database") \/ ScanRaises("refused")
    BY <1>1, <2>1, ScanRaisesKeeps DEF Errors
  <2>2. CASE /\ ~Refused
             /\ devices' = Inventory(scan.statuses)
             /\ nodes' = nodes \cup scan.missing
             /\ lastError' = None
             /\ scan' = ScanAt("wait")
    BY <1>1, <1>4, <2>2, ScanCommitKeeps DEF ScanCommit, ScanStep
  <2> QED BY <1>4, <2>1, <2>2 DEF ScanCommit
<1>5. CASE ScanReport \/ ScanWait
  <2>1. /\ UNCHANGED <<nodes, devices, lastError>>
        /\ \E step \in {"scan", "wait", "dead"} : scan' = ScanAt(step)
    BY <1>5 DEF ScanReport, ScanWait
  <2>2. ScanInv'
    BY <1>1, <2>1, EmptyTable DEF ScanInv, ScanAt, At, ScanOnly, world
  <2>3. {scan'.error, lastError'} \subseteq Errors
    BY <2>1 DEF ScanAt, Errors, InventoryInv, WorldInv
  <2> QED BY <1>1, <2>1, <2>2, <2>3, ScanOnlyKeeps
<1> QED
  BY <1>2, <1>3, <1>4, <1>5 DEF Scanning

-----------------------------------------------------------------------------
LEMMA InventoryStep == InventoryInv /\ [Next]_vars => InventoryInv'
<1> SUFFICES ASSUME InventoryInv, [Next]_vars PROVE InventoryInv'
  OBVIOUS
<1>1. CASE /\ UNCHANGED <<nodes, devices, heard, topology, head, poll,
                          scan, lastError>>
           /\ db' \in BOOLEAN /\ clients' \in ClientFiles
  <2>1. TablesInv' /\ PollInv'
    BY <1>1 DEF InventoryInv, TablesInv, PollInv
  <2>2. ScanInv'
    BY <1>1 DEF InventoryInv, ScanInv
  <2>3. WorldInv' /\ DevicesHaveNodes'
    BY <1>1 DEF InventoryInv, WorldInv, DevicesHaveNodes
  <2> QED BY <2>1, <2>2, <2>3 DEF InventoryInv
<1>2. (\E files \in ClientFiles : EditClients(files)) \/ Outage \/ Recover
         \/ UNCHANGED vars => InventoryInv'
  BY <1>1 DEF EditClients, Outage, Recover, tables, vars, world, InventoryInv,
              WorldInv
<1>3. CASE Restart
  <2>1. /\ UNCHANGED <<nodes, devices, heard, db, clients, topology,
                       lastError>>
        /\ head' = "down" /\ poll' = PollAt("dead") /\ scan' = ScanAt("dead")
    BY <1>3 DEF Restart, tables
  <2>2. TablesInv'
    BY <2>1 DEF InventoryInv, TablesInv
  <2>3. PollInv'
    BY <2>1, PollAtKeeps
  <2>4. ScanInv'
    BY <2>1, EmptyTable DEF ScanInv, ScanAt, At
  <2>5. WorldInv' /\ DevicesHaveNodes'
    BY <2>1 DEF InventoryInv, WorldInv, DevicesHaveNodes, ScanAt, Errors
  <2> QED BY <2>2, <2>3, <2>4, <2>5 DEF InventoryInv
<1> QED
  BY <1>2, <1>3, SyncKeeps, StartKeeps, PollingKeeps, ScanningKeeps
     DEF Next, Starting

LEMMA InventoryHolds == Spec => []InventoryInv
  BY InventoryInit, InventoryStep, PTL DEF Spec

(* The tables never hold a name twice, whatever the two tasks insert in    *)
(* between, only nodes are heard, and every variable keeps its type.       *)
THEOREM InventoryTypeCorrect == Spec => []TypeOK
<1>1. InventoryInv => TypeOK
  <2> SUFFICES ASSUME InventoryInv PROVE TypeOK
    OBVIOUS
  <2>1. \A r : r = Named(r.name, r.ip) => DOMAIN r = {"name", "ip"}
    BY DEF Named
  <2> QED
    BY <2>1 DEF InventoryInv, TablesInv, IsTable, PollInv, ScanInv, WorldInv,
                Errors, TypeOK
<1> QED
  BY <1>1, InventoryHolds, PTL

(* Whatever the tasks do, and whatever was known when the head started,    *)
(* every device has a node as long as the head runs.                       *)
THEOREM EveryDeviceHasNode == Spec => []DevicesHaveNodes
<1>1. InventoryInv => DevicesHaveNodes
  BY DEF InventoryInv
<1> QED
  BY <1>1, InventoryHolds, PTL
=============================================================================
