--------------------------- MODULE HeadInventory ---------------------------
(***************************************************************************)
(* The head's inventory: the nodes, devices and DNS records of its         *)
(* database, the start-up that brings the nodes in line with the           *)
(* configuration, and the two background tasks of the Poller that keep the *)
(* rest up to date for as long as the head runs: one polls (itself, each   *)
(* minion, DNS), one scans the WireGuard clients.  They meet in the nodes  *)
(* table, where both insert.                                               *)
(*                                                                         *)
(* A task that meets an exception it does not catch is dead until the head *)
(* is restarted: nothing awaits it.  (The warnings that both tasks store   *)
(* are a log that neither reads; only that storing one may fail matters.)  *)
(***************************************************************************)
EXTENDS Integers, SequencesExt, FiniteSets

CONSTANTS
    HeadId,         \* node_identifier(): the name the head polls itself under
    Targets,        \* names of minion_targets(), in order
    Topologies,     \* what topology_nodes() may be, as the file is edited
    ClientFiles,    \* what the client configurations may be
    NotText,        \* those of clients whose file is not UTF-8
    TooLong,        \* those with a value that is too long for its column
    Subnet,         \* addresses in device_subnets
    Domains, Hostnames,     \* the DNS names inspected
    Answers,        \* what a DNS lookup may find: sets of addresses
    MaxEdits, MaxFaults, MaxFatal, MaxOutages, MaxRestarts   \* bounds

Named(name, ip) == [name |-> name, ip |-> ip]
NamesOf(rows) == {row.name : row \in rows}
IpsOf(rows)   == {row.ip : row \in rows}

(* Names are unique among the nodes of a configuration, which are finitely *)
(* many, and among files; the configuration has a node for each target.    *)
(* Some DNS name is inspected (with none, that step of a round does        *)
(* nothing).                                                               *)
ASSUME InventoryAssumption ==
    /\ \A rows \in Topologies \cup ClientFiles :
          /\ IsFiniteSet(rows)
          /\ \A n \in rows : n = Named(n.name, n.ip)
          /\ \A m, n \in rows : m.name = n.name => m = n
    /\ Targets \in Seq(ToSet(Targets))
    /\ \A topology \in Topologies :
          ToSet(Targets) \subseteq NamesOf(topology)
    /\ NotText \cup TooLong \subseteq UNION ClientFiles
    /\ Domains \cup Hostnames # {}
    /\ {MaxEdits, MaxFaults, MaxFatal, MaxOutages, MaxRestarts} \subseteq Nat

VARIABLES
    nodes, devices, records,    \* tables: nodes and devices [name, ip], DNS
    heard,          \* names of the nodes that have snapshots
    db,             \* is PostgreSQL up?
    clients,        \* the client configurations on disk
    topology,       \* the configuration the head runs with
    head,           \* the process: down, synced (starting) or running
    poll,           \* the polling task: its next step, and targets left
    scan,           \* the scanning task: its next step, and what it holds
    lastError,      \* _last_device_scan_error
    edits, faults, fatal, outages, restarts

tables == <<nodes, devices, records, heard>>
world  == <<db, clients, topology, head>>
counts == <<edits, faults, fatal, outages, restarts>>
vars   == <<tables, world, poll, scan, lastError, counts>>

None == "none"
PollAt(step) == [step |-> step, left |-> <<>>]
At(task, step) == task.step = step
ScanAt(step) == [step |-> step, statuses |-> <<>>, missing |-> {}, error |-> None]

TypeOK ==
    /\ \A row \in nodes \cup devices : DOMAIN row = {"name", "ip"}
    /\ \A m, n \in nodes : m.name = n.name => m = n
    /\ \A m, n \in devices : m.name = n.name => m = n
    /\ heard \subseteq NamesOf(nodes)
    /\ db \in BOOLEAN /\ head \in {"down", "synced", "running"}
    /\ clients \in ClientFiles /\ topology \in Topologies
    /\ poll.step \in {"lookup", "create", "store", "minion", "answer", "dns",
                      "wait", "dead"}
    /\ poll.left \in Seq(ToSet(Targets))
    /\ scan.step \in {"scan", "read", "commit", "report", "wait", "dead"}
    /\ {scan.error, lastError}
          \subseteq {None, "timeout", "blank", "endless", "text", "refused",
                     "database"}

Init ==
    /\ nodes = {} /\ devices = {} /\ records = {}
    /\ heard = {}
    /\ db = TRUE /\ head = "down"
    /\ clients \in ClientFiles /\ topology \in Topologies
    /\ poll = PollAt("dead") /\ scan = ScanAt("dead")
    /\ lastError = None
    /\ edits = 0 /\ faults = 0 /\ fatal = 0 /\ outages = 0 /\ restarts = 0

-----------------------------------------------------------------------------
(* Nodes for devices.                                                      *)

(* A fault: the name is not checked against those of other nodes.          *)
OwnName(device, names) == device.name

(* The name of the node for a device: its own, or else its address, or     *)
(* else the first of address-2, address-3, ... that is free.               *)
FreeName(device, names) ==
    LET Suffixed(n) == <<device.ip, n>>
        free == CHOOSE n \in 2..Cardinality(names) + 2 :
                    /\ Suffixed(n) \notin names
                    /\ \A k \in 2..n - 1 : Suffixed(k) \in names
    IN  CASE device.name \notin names -> device.name
          [] device.ip \notin names   -> device.ip
          [] OTHER                    -> Suffixed(free)

(* ensure_device_nodes: a node for each device whose address has none.     *)
Ensured(all, device) ==
    IF device.ip \in IpsOf(all) THEN all
    ELSE all \cup {Named(FreeName(device, NamesOf(all)), device.ip)}

EnsureNodes(known, rows) ==
    LET after[i \in 0..Len(rows)] ==
            IF i = 0 THEN known ELSE Ensured(after[i - 1], rows[i])
    IN  after[Len(rows)]

(* What a scan reports: a device for each client in the subnets, then one  *)
(* for each configured node that is in them and is not a client.  (The     *)
(* order of the files is theirs; here it is any fixed one.)                *)
Statuses ==
    LET own == {c \in clients : c.ip \in Subnet}
    IN  SetToSeq(own) \o
        SetToSeq({n \in topology : n.ip \in Subnet /\ n.ip \notin IpsOf(own)})

(* A row per name; the last status of a name wins.                         *)
Inventory(statuses) ==
    {statuses[i] : i \in {i \in DOMAIN statuses :
        \A j \in i + 1..Len(statuses) : statuses[j].name # statuses[i].name}}

(* store_device_statuses looks each name up in the table and inserts a row *)
(* if it finds none, so a name that is new and comes twice is inserted     *)
(* twice, and the unique index refuses.                                    *)
InsertsTwice(statuses) ==
    \E i, j \in DOMAIN statuses :
        /\ i # j /\ statuses[i].name = statuses[j].name
        /\ statuses[i].name \notin NamesOf(devices)

-----------------------------------------------------------------------------
(* Start-up.                                                               *)

(* sync_configured_nodes: add the nodes of the configuration, or correct   *)
(* their addresses.                                                        *)
Sync(config) ==
    /\ head = "down" /\ db
    /\ topology' = config
    /\ nodes' = {n \in nodes : n.name \notin NamesOf(config)} \cup config
    /\ head' = "synced"
    /\ UNCHANGED <<devices, records, heard, db, clients, poll, scan, lastError,
                   counts>>

(* A fault: start-up leaves the nodes of known devices to the next scan.   *)
StartUnensured ==
    /\ head = "synced" /\ db
    /\ head' = "running"
    /\ poll' = PollAt("lookup") /\ scan' = ScanAt("scan")
    /\ lastError' = None
    /\ UNCHANGED <<tables, db, clients, topology, counts>>

(* ensure_device_nodes for the devices of the table, and Poller.start.     *)
Start ==
    /\ head = "synced" /\ db
    /\ nodes' = EnsureNodes(nodes, SetToSeq(devices))
    /\ head' = "running"
    /\ poll' = PollAt("lookup") /\ scan' = ScanAt("scan")
    /\ lastError' = None
    /\ UNCHANGED <<devices, records, heard, db, clients, topology, counts>>

-----------------------------------------------------------------------------
(* The polling task.                                                       *)

PollStep(step) ==
    /\ head = "running" /\ At(poll, step)
    /\ UNCHANGED <<devices, world, scan, lastError, edits, faults, outages,
                   restarts>>

(* Whatever the database raises is the end of the task.                    *)
PollDies ==
    /\ poll' = PollAt("dead")
    /\ UNCHANGED <<nodes, records, heard>>

(* So is, in store_snapshot, a snapshot that it refuses (a source that is  *)
(* too long, a text it cannot hold): this is outside of what _poll_minion  *)
(* catches.  And an answer that never ends holds the task as well: each    *)
(* read has a time-out, the request has none.                              *)
FatalSnapshot ==
    /\ fatal < MaxFatal /\ fatal' = fatal + 1
    /\ PollDies

(* _collect_local: get_or_create_node finds the head's node, ...           *)
PollLookup ==
    /\ PollStep("lookup") /\ UNCHANGED fatal
    /\ \/ ~db /\ PollDies
       \/ /\ db
          /\ poll' = PollAt(IF HeadId \in NamesOf(nodes) THEN "store" ELSE "create")
          /\ UNCHANGED <<nodes, records, heard>>

(* ... or inserts it, unless it has been inserted since.                   *)
PollCreate ==
    /\ PollStep("create") /\ UNCHANGED fatal
    /\ \/ (~db \/ HeadId \in NamesOf(nodes)) /\ PollDies
       \/ /\ db /\ HeadId \notin NamesOf(nodes)
          /\ nodes' = nodes \cup {Named(HeadId, "local")}
          /\ poll' = PollAt("store")
          /\ UNCHANGED <<records, heard>>

(* store_snapshot for the head, then the round of the minions.             *)
PollStore ==
    /\ PollStep("store")
    /\ \/ ~db /\ PollDies /\ UNCHANGED fatal
       \/ FatalSnapshot
       \/ /\ db
          /\ heard' = heard \cup {HeadId}
          /\ poll' = [step |-> "minion", left |-> Targets]
          /\ UNCHANGED <<nodes, records, fatal>>

(* The next target, and its node; after the last target, DNS.              *)
PollMinion ==
    /\ PollStep("minion")
    /\ UNCHANGED <<nodes, records, heard, fatal>>
    /\ \/ poll.left = <<>> /\ poll' = PollAt("dns")
       \/ /\ poll.left # <<>>
          /\ poll' = IF db /\ Head(poll.left) \in NamesOf(nodes)
                       THEN [poll EXCEPT !.step = "answer"] ELSE PollAt("dead")

(* A fault: a minion that does not answer is not caught.                   *)
PollAnswerUncaught ==
    /\ PollStep("answer") /\ UNCHANGED fatal
    /\ \/ PollDies
       \/ /\ db
          /\ heard' = heard \cup {Head(poll.left)}
          /\ poll' = [step |-> "minion", left |-> Tail(poll.left)]
          /\ UNCHANGED <<nodes, records>>

(* Its snapshot is stored, unless it is fatal; for anything else that it   *)
(* does, or does not do, a warning.                                        *)
PollAnswer ==
    /\ PollStep("answer")
    /\ \/ ~db /\ PollDies /\ UNCHANGED fatal
       \/ FatalSnapshot
       \/ /\ db
          /\ heard' \in {heard, heard \cup {Head(poll.left)}}
          /\ poll' = [step |-> "minion", left |-> Tail(poll.left)]
          /\ UNCHANGED <<nodes, records, fatal>>

(* DNS is asked for each domain, for a random name under it, and for each  *)
(* hostname.  A record is kept per address found, under the name shown.    *)
Questions == ({"name", "wildcard"} \X Domains) \cup ({"host"} \X Hostnames)
Shown(q) == IF q[1] = "wildcard" THEN q ELSE q[2]

(* A name that is both a domain and a hostname is asked for twice; what    *)
(* answers both times is inserted twice, and the unique index refuses.     *)
InsertedTwice(found) ==
    \E p, q \in Questions :
        p # q /\ Shown(p) = Shown(q) /\ found[p] \cap found[q] # {}

PollDns ==
    /\ PollStep("dns") /\ UNCHANGED fatal
    /\ \E found \in [Questions -> Answers] :
         \/ (~db \/ InsertedTwice(found)) /\ PollDies
         \/ /\ db /\ ~InsertedTwice(found)
            /\ records' = UNION {{Shown(q)} \X found[q] : q \in Questions}
            /\ poll' = PollAt("wait")
            /\ UNCHANGED <<nodes, heard>>

(* polling_interval_seconds later.                                         *)
PollWait ==
    /\ PollStep("wait") /\ UNCHANGED fatal
    /\ poll' = PollAt("lookup")
    /\ UNCHANGED <<nodes, records, heard>>

-----------------------------------------------------------------------------
(* The scanning task.                                                      *)

ScanStep(step) ==
    /\ head = "running" /\ At(scan, step)
    /\ UNCHANGED <<records, heard, world, poll, edits, fatal, outages,
                   restarts>>

(* An exception in a scan is reported, unless its text is the last one     *)
(* again (two of a kind may differ in it).                                 *)
ScanRaises(error) ==
    /\ \E step \in {"report"} \cup (IF error = lastError THEN {"wait"} ELSE {}) :
          scan' = [ScanAt(step) EXCEPT !.error = error]
    /\ lastError' = error
    /\ UNCHANGED <<nodes, devices>>

(* scan_wireguard_clients: files, wg, ping and health checks.  A command   *)
(* that hangs raises TimeoutExpired; some exceptions have no text (a       *)
(* MemoryError); the answer to a health check may never end; and a file of *)
(* a client that is not UTF-8 fails every scan.                            *)
Scan ==
    /\ ScanStep("scan")
    /\ \/ /\ faults < MaxFaults /\ faults' = faults + 1
          /\ \/ \E error \in {"timeout", "blank"} : ScanRaises(error)
             \/ /\ scan' = [ScanAt("dead") EXCEPT !.error = "endless"]
                /\ UNCHANGED <<nodes, devices, lastError>>
       \/ /\ clients \cap NotText # {}
          /\ ScanRaises("text") /\ UNCHANGED faults
       \/ /\ clients \cap NotText = {}
          /\ scan' = [ScanAt("read") EXCEPT !.statuses = Statuses]
          /\ UNCHANGED <<nodes, devices, lastError, faults>>

(* store_device_statuses reads the nodes (nothing is written yet: the      *)
(* session does not flush before the commit).                              *)
ScanRead ==
    /\ ScanStep("read") /\ UNCHANGED faults
    /\ \/ ~db /\ ScanRaises("database")
       \/ /\ db
          /\ scan' = [scan EXCEPT !.step = "commit",
                         !.missing = EnsureNodes(nodes, scan.statuses) \ nodes]
          /\ UNCHANGED <<nodes, devices, lastError>>

(* The columns refuse a value that is too long; the unique indexes a name  *)
(* that comes twice, or that the polling task has inserted since.          *)
Refused ==
    \/ ToSet(scan.statuses) \cap TooLong # {}
    \/ InsertsTwice(scan.statuses)
    \/ NamesOf(scan.missing) \cap NamesOf(nodes) # {}

(* A fault: a device whose configuration is gone is not deleted.           *)
CommitKeepingStale ==
    /\ ScanStep("commit") /\ UNCHANGED faults
    /\ \/ ~db /\ ScanRaises("database")
       \/ db /\ Refused /\ ScanRaises("refused")
       \/ /\ db /\ ~Refused
          /\ devices' = Inventory(scan.statuses)
                \cup {d \in devices : d.name \notin NamesOf(ToSet(scan.statuses))}
          /\ nodes' = nodes \cup scan.missing
          /\ lastError' = None
          /\ scan' = ScanAt("wait")

(* The commit: one transaction for devices and nodes.                      *)
ScanCommit ==
    /\ ScanStep("commit") /\ UNCHANGED faults
    /\ \/ ~db /\ ScanRaises("database")
       \/ db /\ Refused /\ ScanRaises("refused")
       \/ /\ db /\ ~Refused
          /\ devices' = Inventory(scan.statuses)
          /\ nodes' = nodes \cup scan.missing
          /\ lastError' = None
          /\ scan' = ScanAt("wait")

(* _store_device_scan_error: the first line of the text, of which an empty *)
(* one has none, goes to the database; nothing catches what goes wrong.    *)
ScanReport ==
    /\ ScanStep("report") /\ UNCHANGED <<nodes, devices, lastError, faults>>
    /\ scan' = ScanAt(IF db /\ scan.error # "blank" THEN "wait" ELSE "dead")

(* device_scan_interval_seconds later.                                     *)
ScanWait ==
    /\ ScanStep("wait")
    /\ scan' = ScanAt("scan")
    /\ UNCHANGED <<nodes, devices, lastError, faults>>

-----------------------------------------------------------------------------
(* The world outside.                                                      *)

EditClients(files) ==
    /\ edits < MaxEdits /\ edits' = edits + 1
    /\ files # clients /\ clients' = files
    /\ UNCHANGED <<tables, db, topology, head, poll, scan, lastError, faults,
                   fatal, outages, restarts>>

Outage ==
    /\ db /\ outages < MaxOutages /\ outages' = outages + 1
    /\ db' = FALSE
    /\ UNCHANGED <<tables, clients, topology, head, poll, scan, lastError,
                   edits, faults, fatal, restarts>>

Recover ==
    /\ ~db /\ db' = TRUE
    /\ UNCHANGED <<tables, clients, topology, head, poll, scan, lastError,
                   counts>>

(* The process ends, at any point, and Docker starts it again.             *)
Restart ==
    /\ head # "down" /\ restarts < MaxRestarts /\ restarts' = restarts + 1
    /\ head' = "down"
    /\ poll' = PollAt("dead") /\ scan' = ScanAt("dead")
    /\ UNCHANGED <<tables, db, clients, topology, lastError, edits, faults,
                   fatal, outages>>

Polling  == PollLookup \/ PollCreate \/ PollStore \/ PollMinion
               \/ PollAnswer \/ PollDns \/ PollWait
Scanning == Scan \/ ScanRead \/ ScanCommit \/ ScanReport \/ ScanWait
Starting == (\E config \in Topologies : Sync(config)) \/ Start

Next ==
    \/ Starting \/ Polling \/ Scanning
    \/ (\E files \in ClientFiles : EditClients(files))
    \/ Outage \/ Recover \/ Restart

(* Docker restarts the containers, the event loop runs both tasks.         *)
Fairness ==
    /\ WF_vars(Starting) /\ WF_vars(Recover)
    /\ WF_vars(Polling) /\ WF_vars(Scanning)

Spec == Init /\ [][Next]_vars /\ Fairness

-----------------------------------------------------------------------------
(* Properties.                                                             *)

(* While the head runs, every device has a node to show it under, though   *)
(* a start may have moved the addresses of nodes (sync_configured_nodes).  *)
DevicesHaveNodes == head = "running" => IpsOf(devices) \subseteq IpsOf(nodes)

(* As long as the database is up and takes the snapshots it is given,      *)
(* every answer ends, and no client has the name of the head (which the    *)
(* scanner may insert when the polling task is about to), rounds of        *)
(* polling follow each other: no minion stops them by not answering or by  *)
(* an answer that is no snapshot, and no other name the scanner inserts.   *)
PollsGoOn ==
    [](outages = 0 /\ fatal = 0 /\ HeadId \notin NamesOf(clients))
        => []<>(At(poll, "wait"))

(* The last configurations can be stored: every file is text, no value is  *)
(* too long and no two devices want the same name.                         *)
Storable ==
    /\ clients \cap NotText = {}
    /\ ToSet(Statuses) \cap TooLong = {}
    /\ \A i, j \in DOMAIN Statuses : Statuses[i].name = Statuses[j].name => i = j

(* As long as the database is up, no exception comes without a text and    *)
(* every health check ends, the devices end up being those of the last     *)
(* configurations, if these can be stored: whatever files could not be     *)
(* read, and what scans failed, before, and also if the polling task has   *)
(* taken a client's name.                                                  *)
InventoryCatchesUp ==
    [](outages = 0 /\ scan.error \notin {"blank", "endless"})
        => <>[](Storable => devices = ToSet(Statuses))

(* "Every device_scan_interval_seconds, the head: ..." (README.md:185).    *)
ScansGoOn == []<>(At(scan, "wait"))
=============================================================================
