# Cozy Network Manager: specifications

TLA+ models of Cozy Network Manager, the TLC instances that check them and the
TLAPS proofs about them. Line numbers refer to the files of the repository;
paths without a directory are under `src/cozy_network_manager/app/`.

To check: `tlc -config BridgeSaves.cfg MCBridgeManager` (each `.cfg` below names
its module) and `tlapm` on each module whose name ends in `Proofs`.

## The system

Cozy-NM runs in two roles. A **minion** on every host reports a snapshot of the
host and manages the "bridges" (socat containers) of one Docker Compose project.
One **head** polls the minions, scans the WireGuard clients, resolves DNS names,
keeps the results in PostgreSQL, shows them, and passes bridge operations on to
the minions. `deploy.py` installs both over SSH.

| Component | Source | State | Operations | Talks to |
|---|---|---|---|---|
| Bridge manager | `services/bridges.py`, `api/minion.py` | Compose file, `.cozy-nm/` (lock, backups, applied hash), `.dockerignore`; containers | create, update, delete, apply, start, stop, restart, restart project, project | Docker Compose (subprocesses), the head (HTTP), an administrator's editor (the file) |
| Bridge client and pages | `services/bridge_client.py`, `api/head.py` | none but the requests under way | one HTTP request per form, with time-outs; a pool that reads all hosts | users, minions |
| Head authentication | `services/head_auth.py`, `middleware/head_auth.py`, `api/auth.py` | `head-auth.json`; failures per client in memory | check, setup, login, change, disable, logout | browsers, an administrator's shell (the file) |
| Poller and inventory | `services/poller.py`, `nodes.py`, `devices.py`, `dns.py`, `db/init_db.py` | tables nodes, devices, dns_records, snapshots, warnings (the last not modelled); last scan error | start-up, poll round, device scan | PostgreSQL, minions (HTTP), DNS, `wg`, `ping` |
| Pages over snapshots | `api/head.py`, `services/nodes.py`, `services/mounts.py`, `services/dns.py` | none | interface rows, mounts matched across snapshots, addresses matched to names | the tables |
| Docker web discovery | `collectors/docker_web.py` | the probes under way | candidates, probes in a pool, within a budget | containers |
| Other collectors | `collectors/*`, `schemas.py` | none | parse files and command output | the host |
| Configuration | `config.py` | read once | - | - |
| Deployment | `deploy.py` | remote directories, containers | check, stop, copy, start, host after host | SSH, Docker Compose |

What is hard in it:

- FastAPI runs the synchronous bridge handlers in a thread pool. The threads
  share files and Docker; the write path is under an `flock`, building the
  answer is not, and editors know of no lock. Compose commands take minutes,
  fail half-way, or are killed by a time-out. The minion may die anywhere.
- The head gives up on a minion that works on; its user is told something while
  the outcome is open, and may submit again.
- The head's handlers are coroutines: between the middleware's check and the
  store other requests run, so what the check saw is stale. The store must keep
  its file readable and signed-out sessions dead through a power loss.
- The two background tasks of the head insert into the same table and must
  outlive every failure of what they talk to; an uncaught exception ends one
  silently.
- What is online is decided by comparing the minions' clocks with the head's,
  after rounds whose length depends on how many minions do not answer.
- A deployment stops, empties and refills one host after the other and may fail
  at any command; the next run meets what the failed one left.

The `hazards` of `PROJECT.json` list the places one by one.

## The modules

### Bridge management

`BridgeDocument` - the Compose file as a value: a sequence of services, of which
name, port and shape (managed or read-only) are kept, and the pure parts of the
code: validation, the edit of each operation, the checks before it. No state.

`BridgeStore` - what bridge management promises. A save is one step, the edit of
the file at that instant. An apply is two: it forgets the hash recorded last
(`Forget`), then records that of the file at that instant (`Record`), so that one
cut short leaves no hash and a project that is pending. An editor may write at
any time.

`BridgeManager` - the code. One action per step that another thread, an editor or
a crash can see: taking the flock; loading (with the guards of each operation);
`docker compose config` on the temporary file; the copy to the backups;
`os.replace`; each unlink of pruning; each container `up` or `down` changes; the
recorded hash; the commands on containers; and the three readings of `project()`.
`pc[r]` is the next step of thread `r`. `HandEdit` and `Crash` are the world
outside. It implements `BridgeStore` (`Store == INSTANCE BridgeStore WITH ...`,
property `StoreSpec`). Deliberate choices:

- The temporary file is left out: it has a fresh name, and is unlinked or renamed
  on every path; a crash leaves it as garbage nobody reads.
- Compose reads the file itself, so `Start` takes what the file holds then, not
  the loaded document; the manager's choice between `up` and `down` comes from
  the loaded one.
- Backups are ordered by name, that is by the clock; `copy` is their true age.
- `mark_current_applied` hashes the file again, after the command, and writes the
  hash with `write_text`: `Mark` hashes and truncates, `Record` writes, and either
  may fail or be the last thing a minion does. In between `project()` reads an
  empty hash. Hashing and truncating are one step: an edit between the two counts
  as one after them.
- A failing disk is modelled where a hash is recorded. An `OSError` of the copy to
  the backups, of `os.replace` or of an unlink is left out: it ends the call with a
  500 where a crash may end it too, but the other threads go on. Such a failure
  leaves a copy unpruned as a crash does, and would count like one in
  `BackupsBounded`. The copy is one step, so none is cut off.
- `restart_project` on an empty project answers while it holds the lock.

`BridgeService` - one service field by field: when `_parse_service` finds it
managed, and what `_standard_service` writes. The one property is the round trip
from the form through the file to the parser.

`DockerIgnore` - `_ensure_paths`, which reads, truncates and fills
`.dockerignore` before the flock and again under it, and the build that reads it.
Each of these steps may fail with an `OSError`, which ends the call with a 503 and
gives the flock back; a write that fails leaves the file cut off anywhere.
`settled` is history: has a call found or written the entry since a write was last
cut short (by such a failure, or by the end of the minion)? What `EntrySettles`
says is that this alone loses the entry, never the threads between them.

### Bridge calls from the head

`BridgeCalls` - what a user who submits a form is promised: the call takes effect
at most once; "saved" is said only after that; "refused" only of a call that has
and will have no effect; of a call whose outcome the head does not know the user
is told so, and it may still take effect.

`BridgeRemote` - the code, from form to file: `Submit` (the routes and `_host`),
`Send`, `TimeOut`, `Unreachable` and `Answer` (`bridge_request`), the handler on
the minion (`Save`, `Refuse`), restarts of either side (`HeadRestart`,
`MinionRestart`), and the page of all projects (`AskPage`, `AskHost`,
`ReadHost`, `HostFails`, `HostConfuses`, `ShowPage`). A time-out frees the head
and leaves the minion's thread. A host of the page may be unreachable, refuse,
time out or answer with an error: its row says "unavailable". It may also answer
with JSON of another shape, which raises a `TypeError` or `KeyError` that nobody
catches and makes the page an error, once every thread has ended; or with an
answer whose parts never end, each within its time-out, which keeps a thread of
the pool and the page. `PageComes` says that nothing else does. (For a form it
is assumed that who answers is a minion: another program that answers a POST
with 200 and a JSON object would be reported as a save.) The bridge manager is
taken as `BridgeStore` describes it, a save in one step, which
`BridgeManagerProofs` justifies. It implements `BridgeCalls` under the mapping
`Effect`: what a request has done to the file is read off where it is at the
head and at the minion (`Promise == INSTANCE BridgeCalls WITH ...`, property
`KeepsPromise`). "Cannot reach", an error page and a 500 without a reason all
count as "unsure": none of them says what became of the call.

Only saves are submitted. The action, apply and restart forms may be answered
with an error after part of their effect (a Compose command that fails half-way),
so nothing like `BridgeCalls` is promised of them; `BridgeManager` has their
steps.

### Head authentication

`HeadAuth` - a request passes `Check` (the middleware), waits for its form, and
enters the store. The store blocks the one event loop, so `loop` holds the
request inside it and no other request moves; an `rm` from a shell, the clock and
a crash do. `Setup`, `Login`, `ChangePassword`, `Logout` read the file and prepare
the new text; `Replace` renames the synced temporary file; `Answer` syncs the
directory and replies. `Disable` unlinks instead. `survivors` are the contents a
power loss may leave: every content since the last directory sync. That sync may
not happen: `_sync_parent` swallows the failure to open the directory, and the
request is answered as if it had (`Answer` with a `Lapse`). An `OSError` of the
temporary file, of the unlink, or of the fsync itself is caught by nobody and ends
the request with a 500 (`Raise`). So two properties speak of power losses only
where the disk follows the store (`Synced`: no lapse, no `rm`, which syncs
nothing). `revoked` records the sessions whose end was told to somebody, also by a
logout that met no file, which the handler answers like any other. The list of
sessions is a set: tokens are numbered as they are handed out, so the order of the
list is that of the numbers. The flock is left out: one process, one event loop,
nobody else takes it.

### Inventory and pages of the head

`HeadInventory` - start-up (`Sync`, then `Start`), the polling task (own node,
each target, DNS) and the scanning task (scan, read the nodes, commit, or report
the error). A step that meets the database down, or a unique index that refuses,
raises; where the code has no `except`, the task's next step is `dead`. The
transaction of a scan is split between its reading of the nodes and its commit,
where the polling task may insert. Client files and the configuration change;
the process may restart at any step; PostgreSQL may go and come back. An outage is
a database that refuses at once; one that hangs would hold both tasks. What ends a
task, or its scans, without an outage is modelled where the code lets it:

- a snapshot the database refuses (a source longer than its column, a NUL in a
  text): `store_snapshot` is outside the `try` of `_poll_minion`, so the polling
  task ends; so it does, in effect, on an answer of a minion that never ends
  (`FatalSnapshot`, for the minions; the head's own may be refused as well);
- a client file that is not UTF-8 (`NotText`), which makes every scan raise, and a
  value too long for its column (`TooLong`), which makes every commit fail, until
  the file is edited;
- a command that hangs, an exception whose text is empty, of which
  `_store_device_scan_error` takes the first line and raises an `IndexError` that
  ends the task, and a health check whose answer never ends;
- a client with the name of the head, which the scanner may insert between the
  polling task's look and its own insertion.

The liveness properties name these as premises: `PollsGoOn` has no outage, no
fatal snapshot and no client of the head's name; `InventoryCatchesUp` has no
outage, no exception without a text and no endless health check, and asks that the
last files can be stored (`Storable`), not the ones before. A file the head may
not read is as good as absent; a configured node whose `expected_vpn_ip` is no
address would fail every scan and is left out. The table of warnings is left out
as well: both tasks append to it and read it not; that storing one may fail is in
the steps.

`HeadSnapshots` - the same rounds, seen in time: the head asks one node after the
other and stores the answer with the time of the node's clock, which is wrong by
at most `Skew`. The time-out of httpx bounds a part of the request (the
connection, the sending, each read), not the whole: `Part` begins the next one
with the whole time-out again. The code does not bound the parts, so the number
`MostParts` is a premise about minions, and a poll takes `MostParts` time-outs at
most (`Longest`). Only the latest row of a node is ever read, so the model keeps
that one. `Stale` and `Online` are what the pages say. (What ends the poller for
good is in `HeadInventory`; here it goes on.)

`HeadPages` - extends it with what the pages compute at any such moment: status
of web interfaces, SSHFS mounts of one node matched with the exports of another
(aliases that are unique, chroots, `..`, Windows paths), and the map from
addresses to nodes and devices. Rows overwrite earlier rows of the same key
(`Places`, `Later`), devices overwrite nodes at their VPN address
(`NodesByIp`, then `WithDevice` for one device after the other).

### Web discovery

`DockerWeb` - candidates from published bindings (where a binding is probed, and
what its link shows), and the probes: the semaphore in order of the queue, two
requests per candidate each with a limit, the budget around all of them. Time
passes only while nobody can begin. `Speaks` are the protocols a server answers
within the limit: one that needs longer is, for discovery, one that does not
answer, and is left out without a warning. An exception that is neither an
`httpx.HTTPError` nor a time-out leaves `gather` and the collector (`Raise`): all
that was found, and the list of containers, is lost to an error of the snapshot.

### Deployment

`Deploy` - one command of `deploy.py` per action, on the target at hand: SSH
checks, `down` and emptying, copying, `stop`, ports, the database, its health, the
role. Each may fail with part of its work done; the first failure ends the run
(`Stop`), except that of a `down`, which the code ignores. A command may also
never return (`Hang`): neither `run` nor `ssh` has a time-out, and SSH has no
keep-alive. The operator may then interrupt the script; what the remote command
does afterwards is not modelled, it is taken as over. A host with neither `ss` nor
`netstat` (`Blind`) finds no port in use. Another run may follow with another
topology, directory or tree, and `EditTree` changes the tree while a run is under
way.

### Faults

Some definitions are marked as faults or mistakes: a step as a plausible error
would make it (the flock forgotten, the newest backup pruned, ...). No
specification uses them. Put in the place of the real step, each makes the
property it is listed with in `PROJECT.json` fail: the property can fail.

## The runs

| Configuration | Module | Shows | Result |
|---|---|---|---|
| `BridgeSaves` | MCBridgeManager | saves of two threads are serialised, lose nothing, leave read-only services alone, never put two managed services on a port; the backups hold the replaced file, are bounded, and keep the newest | holds |
| `BridgeLive` | MCBridgeManager | a hash is recorded as applied only while Docker runs that file, which still is the file; whoever got the lock releases it and is answered; the files implement `BridgeStore` | holds |
| `BridgeService` | MCBridgeService | what the form saves is managed and reads back | holds |
| `DockerIgnore` | MCDockerIgnore | an entry that was found or written is there once nobody is about to fill the file, unless a write was cut short | holds |
| `BridgeRemote` | MCBridgeRemote | users are told the truth or that the head does not know (`BridgeCalls`); no row is older than the request for the page; only a host that answers nonsense, or without end, takes the page away | holds |
| `HeadAuth` | MCHeadAuth | no unreadable file; a session that was ended stays ended; no password replaced by someone who does not know it; nobody signed out by another's login but the oldest; what was answered is on disk (the second and the last through power losses if the disk follows the store) | holds |
| `HeadInventory` | MCHeadInventory | every device has a node; names stay unique; under the premises above polling goes on and the devices catch up with the client files | holds |
| `HeadScansEnd` | MCHeadInventory | `ScansGoOn`: an outage of the database ends the scanning task for good | violated |
| `HeadSnapshots` | MCHeadSnapshots | what is online was heard recently; who answers stays online while a round fits into the limit | holds |
| `HeadPages` | MCHeadPages | "up" was seen recently, directories of a target only with a fresh, unambiguous target and matching user and port, Windows paths name the same directory (`DetailsJustified`); no mount is lost; addresses match who holds them | holds |
| `DockerWeb` | MCDockerWeb | a list without a warning or an error has all that answers within the limit; few candidates never exhaust the budget | holds |
| `Deploy` | MCDeploy | a run that ends well has deployed every role and ended former ones; a rerun repairs what a failure left; one host down at most; only a command that never returns keeps a run from ending | holds |

`HeadScansEnd` is a disagreement between the code and the README; `findings` in
`PROJECT.json` quotes the lines.

### Bounds

- Bridges: two threads (every property relates at most a writer and another
  thread; the proofs cover any number), two names, two ports. `BridgeSaves` has
  four calls, one hand edit, two crashes, `Keep` = 2 for 20. Four calls make three
  backups and more, so pruning happens and is interrupted by both crashes.
  `BridgeLive` has three calls, one hand edit and one crash, and may start with a
  service in the file: an apply, a delete and a second apply (a `down`) fit, a
  save, an apply and a command, and an apply, an edit and a second apply that is
  cut short between the truncation and the hash.
- `BridgeService`: a hand-written service that differs in each field the parser
  looks at, alone and together, ports 0, 1, 65535 and 65536.
- `DockerIgnore`: three threads (one to truncate, one to copy the truncated file,
  one to look), no bound on calls, failures or restarts.
- `BridgeRemote`: two submissions, equal (a retry), or a creation and an update
  of what it makes; one host that takes them, one that does not, one the head
  does not list; one thread for the pool's eight, so that two listed hosts queue,
  the one behind an endless answer too. No bound on restarts and hand edits. The
  refinement is proved for any number.
- `HeadAuth`: two requests, two passwords, `MaxSessions` = 2 for 32 with three
  tokens, so that a login evicts; one tick with a lifetime of one, so that
  sessions expire; one crash, one `rm`, one sync of the directory that does not
  happen, any number of writes that fail. It starts with no file, an invalid
  one, or one with a session under either password, so that passwords are
  symmetric. No password is too weak: the refusal of a weak one reads and
  changes nothing.
- `HeadInventory`: the head and one target; one client, which has the address the
  target has in one configuration and a name of its own or the head's, or a file
  that is no text, or one with a value that is too long; two configurations, which
  move the target and drop the head; one each of an edit, a scan that fails, a
  fatal snapshot, an outage and a restart; one DNS answer. That is enough for
  crossed names and addresses, for the fallback name and for each failure to hit
  each step.
- `HeadSnapshots`: two nodes, clocks wrong by one unit either way, time-outs of
  one, polls of up to two parts, an interval of one, fourteen units of time: two
  rounds in which everything takes its longest and more of shorter ones, and the
  least `StaleAfter` for which a round fits (`RoundFits`), so that a limit off by
  one fails. The proofs cover any values.
- `HeadPages`: two nodes and two devices; five mounts that call the target by
  host name, address and a foreign name, twice to one directory, with `..` and a
  relative path; reports change ports, host names and public addresses so that
  names collide and addresses are claimed twice. Polls take no time (their length
  is the question of `HeadSnapshots`). Four units of time, so that each node is
  fresh, stale and fresh again.
- `DockerWeb`: every set of eight bindings (each kind of address, port 443, the
  excluded service), two probes for eight, a budget of four limits as in the
  code; three silent servers are enough to exhaust it.
- `Deploy`: three hosts, one of them local, three topologies between which the
  head moves, two directories; two runs, two failures, one edit: a failed run and
  its rerun, with a failure at any command of either.

Deadlock is not checked where the system really stops: clients and operators stop
at the bound, an invalid authentication file turns everybody away, both
background tasks may be dead, a deployment may hang, discovery ends.

### Fairness

`BridgeManager`: a thread that can take a step does (the scheduler; every
subprocess has a time-out). No fairness of the flock is assumed, so `Answered`
speaks of calls that have it. Nothing makes clients call, editors write or
processes crash. `BridgeRemote`: the head's threads run and httpx gives up when
a part of an answer is late (an answer of parts without end is a state of its
own, which no fairness leaves); nothing makes a minion get its lock, answer or
come back. `HeadInventory`: the event loop runs both tasks, whatever they wait
for answers or times out except where the module says that it does not,
PostgreSQL and the head are restarted by Docker (`restart: unless-stopped`).
`Deploy`: the script runs; a command of it either ends or hangs, in a state that
only the operator leaves, and nothing obliges the operator to. Timers are steps
where no module says otherwise; `HeadSnapshots` and `DockerWeb` model time by
upper bounds on when a step happens.

## What is proved

`BridgeManagerProofs`, for any threads, names, calls, hand edits, crashes and
values of the bounds, from `BridgeAssumption` (the constants have their types):

| Theorem | Statement | Further assumption |
|---|---|---|
| `TypeCorrect` | `Spec => []TypeOK` | - |
| `LockSafe` | `Spec => []LockDiscipline` | - |
| `UpdatesKept` | `Spec => []NoLostUpdate` | editors wait for the lock |
| `AppliedIsDeployed` | `Spec => [](AppliedWasConverged /\ MarkedWhenDeployed)` | editors wait for the lock |
| `PortsSafe` | `Spec => []NoPortClash` | nobody writes a clash by hand |
| `ImplementsStore` | `Spec => StoreSpec` | editors wait for the lock |
| `BackupsArePruned` | `Spec => []BackupsBounded` | - |
| `NewestStay` | `Spec => []NewestRetained` | the clock does not step back |
| `ReplacedIsBackedUp` | `Spec => PreviousBackedUp` | editors wait for the lock |
| `ReadOnlyStays` | `Spec => ReadOnlyKept` | editors wait for the lock |

The argument: `LockDiscipline` is inductive with `TypeOK`: a thread is past the
lock exactly while it is the only holder. So a step that changes the file or the
containers is the holder's, and every other thread is outside the critical
section. `SaveInv` adds to `NoLostUpdate` that the call of a saving thread is a
valid save: without it the load could not establish what the replacement needs.
`ApplyInv` says what an apply knows at each step (its document is the file's, and
is valid; a `down` has no service; at the mark the containers are what the
document wants, and between mark and record no hash is recorded and the one at
hand is the file's): `MarkedWhenDeployed` speaks only of the last of these steps
and is not inductive alone. `PortInv` needs neither lock nor quiet editors: the
document to be installed was validated, whatever became of the file. For
`ImplementsStore` the refinement mapping is the identity on `file` and `applied`:
`Replace` is a `Save` by `SaveInv`, `Mark` a `Forget` and `Record` a `Record` by
`ApplyInv`, `HandEdit` is itself, the rest stutter, a failure or a crash between
mark and record too; the lemma `SameDocuments` identifies the operators
of the two modules.

"Editors wait for the lock" is `~EditAnyTime`. It is not something the code
enforces: with `EditAnyTime` an edit during a save is overwritten without a copy,
and text written during an apply is recorded as applied. The runs make the same
assumption.

Of the backups: `Apart` (commands of Compose are never a save's) and the lemma
`Elsewheres` reduce every step to three that touch the backups, a crash, and steps
elsewhere.
`BoundInv` says that one copy more than the bound exists only between the copy
and the pruning of the one thread inside, or since a crash there. `OrderInv`
numbers the backups: they are the last copies made, without a gap, which
`NewestRetained` alone would not tell the next pruning. With `ClockMayStepBack` a
new copy sorts before older ones and may be the one pruned. `CopiedInv` holds
between copy and replacement because nobody else is inside; an editor who does
not wait breaks it. `ReadOnlyStays` takes from `SaveInv` what is installed, and
from the lemma `EditKeepsReadOnly` that an edit of a managed service leaves an
order-preserving one-to-one map between the read-only services before and after.

`BridgePartsProofs`, for any threads and lines of `DockerIgnore`:
`IgnoreTypeCorrect` (`Spec => []TypeOK`) and `EntryIsKept` (`Spec =>
[]EntrySettles`). `EntrySettles` is inductive with the types: whoever truncates
the file goes on to fill it, so that the premise is false before the entry is
back, and who is cut short in this clears `settled`. For any hosts, ports and
hand-written services of `BridgeService`, from `ServiceAssumption` (no valid
host is empty text; null is neither a number nor a host): `SavedIsManaged`
(`ServiceSpec => SavedReadsBack`), by the lemma `StandardIsManaged`, which reads
a written service back through `_environment_dict` and `_integer`.

`BridgeRemoteProofs`, for any submissions, hosts, configurations and saves, from
`RemoteAssumption`: `PromiseKept` (`Spec => KeepsPromise`), `RowsAreCurrent`
(`Spec => []RowsCurrent`) and `RemoteTypeCorrect` (`Spec => []TypeOK`, with the
bound of the pool on the hosts asked at a time, those whose answer never ends
included). `RemoteInv` relates where a request is at the head, at
the minion and for its user; its last part, that whoever was told an outcome has
nothing queued any more, is what `TypeOK` lacks: without it `Save` could be the
effect of a refused call. Then `Save` is `Happen`, `Answer` is `Tell` or (for an
error without a reason) a `Drop` that leaves the user unsure, time-outs and both
restarts are `Drop` with the sets of requests they concern. `RowsInv` says that
`seen` holds the present file of every host while the page is asked for.

`HeadAuthProofs`, for any requests, passwords and bounds and any file to start
with, from `AuthAssumption` (types, and of the first file what the store itself
keeps to: its sessions were handed out before, with unequal tokens, and are no
more than `MaxSessions`):

| Theorem | Statement |
|---|---|
| `AuthTypeCorrect` | `Spec => []TypeOK` |
| `AnswersAreDurable` | `Spec => []Durable` |
| `RevocationHolds` | `Spec => []RevokedForGood` |
| `NeverTorn` | `Spec => StaysReadable` |
| `PasswordSafe` | `Spec => PasswordHeld` |
| `OtherSessionsKept` | `Spec => SessionsKept` |

`TypeOK` holds the discipline of the event loop (a request is in `loop` exactly
while it is inside the store). `Durable` speaks of the moments in which nobody
is, and needs with it that the directory is behind only while somebody is about
to sync it (`OnDisk`): a write that fails before its rename ends without a sync,
but has changed nothing. The others need `IInv`: the sessions of every content
the disk may hold were handed out and, where the disk follows the store, not
revoked (`AllCurrent`; of the file alone it would not survive a crash), the file
itself lists no revoked session until a power loss brings back one that does
(`Faithful`), what a request is about to write is readable, lists no session
that its answer will declare ended and keeps or knows the password (`Drafts`),
and what an answer declares ended was handed out (`AboutToAnswer`, so that a
session made later is not revoked in advance). `SessionsKept` compares what a
login writes with what the file held when it was read. `KeepInv` carries through
the rename that a draft of a login or a logout lacks only sessions which are its
own or have `MaxSessions` younger ones in the draft; the lemmas `Ages` and
`YoungestSessions` say that the youngest n of finitely many sessions are n, all
younger than the rest (the numbers of younger sessions are a bijection onto an
interval).

`HeadInventoryProofs`, for any configurations, client files, DNS names and
answers, and any edits, hanging commands, outages and restarts, from
`InventoryAssumption` (tables are finite and have one row per name, as the
validation of the configuration and the names of files make them):
`InventoryTypeCorrect` (`Spec => []TypeOK`, with the unique names of both tables)
and `EveryDeviceHasNode` (`Spec => []DevicesHaveNodes`). `InventoryInv` adds what
the two tasks hold between their steps: in particular that the nodes a scan has
read and the devices it will commit still fit together when the polling task has
inserted nodes in between. `EnsureNodes` is a recursive function; `EnsuredTable`
and `EnsureNodesTable` show that each device finds its node or gets one, under a
name that is free: of the suffixes tried, one more than there are names, one is
not taken (`FreeNameIsFree`, the pigeonhole principle).

`HeadPagesProofs`, for any nodes, intervals, limits and errors of clocks, from
`SnapshotAssumption`, and for any reports, names and devices, from
`PagesAssumption` and `ReportsAssumption` (the lists are lists, a path is a list
of components or relative):

| Theorem | Statement |
|---|---|
| `SnapshotsTypeCorrect` | `Spec => []TypeOK` |
| `NothingHiddenLong` | `Spec => []ShownIsRecent` |
| `OnlineIsAlive` | `Spec => []OnlineWasHeard` |
| `AliveIsOnline` | `Spec => []HeardIsOnline` |
| `AnsweringStaysOnline` | `Spec => []AnsweringIsOnline` |
| `PagesJustified` | `Spec => []DetailsJustified` |
| `EveryMountShown` | `Spec => []MountsComplete` |
| `TargetsMatched` | `Spec => []MatchedToHolder` |

The inductive invariant is `TypeOK` with `OnTime` (a step of the poller is not
past its deadline, and that of a poll allows a time-out for each part so far),
`Near` (the time a snapshot shows, when it was received and
when the node was last heard differ by the clock's error and a poll at most: it
survives an older snapshot that comes later, as the latest time wins) and
`Recent` (how long ago a node that answers was heard, by its place in the round:
as many polls as turns have passed since). At the end of a round `Recent` gives
the length of a whole round, which `RoundFits` compares with `StaleAfter`.

Of the pages, `UpWasSeen` follows from `Near`. `DirectoryExported` needs that a
remote path cannot leave the chroot: what `Normal` returns has no ".."
(`NormalType`), and a path without ".." that is appended to another keeps the
normal form of the first as a prefix (`NormalBelow`); normalising after joining
would not have this. `WindowsIsSame` needs the longest mapping, `MountsComplete`
the last place of a key (`LastOfKey`). `TargetsMatched` does not depend on time:
`DevicesNamed` says, by induction over the devices in their order, who is known
at an address, who has it and who was put over it.

`DeployProofs`, for any hosts, topologies, directories and any number of runs,
failures and edits, from `DeployAssumption`:

| Theorem | Statement |
|---|---|
| `DeployTypeCorrect` | `Spec => []TypeOK` |
| `TargetsDeployed` | `Spec => []RoleDeployed` |
| `FormerRolesEnd` | `Spec => []OldRoleStopped` |
| `RunsRepair` | `Spec => []RerunRepairs` |
| `CheckedFirst` | `Spec => []NothingTouchedUnchecked` |
| `OneHostAtATime` | `Spec => []OneHostDown` |

`IInv` says what holds of the targets behind the script (`HandledDeployed`, and
until something fails `HandledAlone`), of the target at hand at each command
(`Progress`), and that whatever is lost is lost there (`LostHere`). `TypeOK` says
that containers run whole versions only, so it needs `Progress`: the directory is
filled before anything is started from it.

`DockerWebProofs`, for any hosts, bindings, servers, number of probes, limit and
budget, from `WebAssumption` (a host is listed by its VPN address or not at all;
`Order` lists the bindings without repetition):

| Theorem | Statement |
|---|---|
| `WebTypeCorrect` | `Spec => []TypeOK` |
| `CompleteOrWarned` | `Spec => []WarnedOrComplete` |
| `FewAreChecked` | `Spec => []FewFinish` |

`KnownInv` says what is known of each candidate by its step: none is forgotten,
one in its second protocol does not speak the first, one that is over was found
or speaks neither, until the budget ends what is under way, which sets `warned`,
or an exception does, which sets `raised`. `FoundInv` types the rows found.
`FewFinish` counts in waves of two requests at the limit: `WaveInv` says that
whoever was asked by the beginning of a wave is over by its end, and that by the
beginning of the k-th all candidates were asked or k times as many as there are
probes; so the last wave ends within the budget if the candidates are few
enough.

### Induction

The theorems of the library that take a predicate as a parameter cannot be
instantiated by the provers at hand. Where induction over data is needed (the
components of a path, the devices in their order, the rows that get nodes), it is
made of sets: `LeastElement` takes from the well-foundedness of < on the naturals
that a set of them has a least element, `SetInduction` that a set with 0 and with
n + 1 for each n has them all, and the predicate is a set of numbers in the
proof. The same lemma shows that a recursive function exists (`WalkExists`,
`NamingExists`, `RunExists`), without which nothing is known of its values.

### Only model-checked

Liveness, which is beyond the prover, like `ENABLED`: `Answered`, `RunEnds`,
`PollsGoOn`, `InventoryCatchesUp`, `PageComes`. Every other property of a run is
a theorem. The type invariants, `LockDiscipline`, `AppliedWasConverged`,
`NothingTouchedUnchecked`, `ShownIsRecent` and `HeardIsOnline` are proved, and
most of them no run repeats. `ImplementsStore` and `PromiseKept` prove the
safety of the two refinements; `BridgeStore` and `BridgeCalls` promise nothing
of liveness.

## Known deviations

What the code, or a text of the repository, suggests and what does not hold. The
first is a run; for the others the property stands in the module, marked as not
holding, and the configuration named shows the counterexample with TLC.

- An outage of the database ends the device scans for good (`poller.py:54`,
  README.md:185): run `HeadScansEnd`.
- Other things end a task of the head without an outage, until the head is
  restarted. Of polling: a snapshot that PostgreSQL refuses (`poller.py:86`), an
  answer that never ends (`poller.py:62`), a client with the head's name that the
  scanner inserts at the wrong moment. Of scanning: an exception without a text
  (`poller.py:99`) and a health check whose answer never ends. A client file that
  is not UTF-8 ends nothing but fails every scan while it is there
  (`devices.py:126`). These are steps of `HeadInventory` and premises of its two
  liveness properties; without its premise each property fails.
- A name both in `dns.domains` and `dns.hostnames` violates a unique index and
  ends polling (`dns.py:174`): `PollsGoOn` with `HeadPollsEnd.cfg`.
- After an apply that failed half-way, saving the file back to its last applied
  content shows "applied" though a deleted service still runs (`bridges.py:325`,
  README.md:267): `BadgeTellsTruth` with `BridgeBadgeStale.cfg`.
- `project()` reads document, containers and hash without the lock, so an answer
  may show an applied service as an orphan (`bridges.py:327`):
  `AppliedAnswerHasNoOrphan` with `BridgeAnswerTorn.cfg`.
- A build may read `.dockerignore` just truncated by a thread outside the lock
  (`bridges.py:204`, README.md:262): `BuildExcludes` with `DockerIgnoreBuild.cfg`.
- Removing the authentication file while a login verifies its password brings
  the file back (`head_auth.py:146`, README.md:210): `RemovedStaysRemoved` with
  `HeadAuthRemoved.cfg`.
- A file named with `--config` is validated but not deployed (`deploy.py:412`):
  `ConfigDeployed` with `DeployConfig.cfg`.
- Where the directory of the authentication file cannot be opened, the sync that
  makes a change durable is skipped and the change answered as if it had been made
  (`head_auth.py:306`): after a power loss a session that was signed out may be
  back. The premise `Synced` of `Durable` and `RevokedForGood`.
- A write of `.dockerignore` that fails behind the truncation leaves the file
  without the entry until the next call (`bridges.py:197`), and an apply that is
  already past its check builds with the file as it is.
- One host whose answer is JSON of another shape makes the whole page of projects
  an error (`bridge_client.py:70`, `head.py:144`), and one whose answer never ends
  keeps it from coming: the exceptions of `PageComes`.
- A web server that takes longer than `REQUEST_TIMEOUT` is missing from a list
  that comes without a warning (`docker_web.py:82`).
- A command of a deployment that never returns keeps the script for ever
  (`deploy.py:105`): the exception of `RunEnds`.
- Saving the form of a managed service drops a second port it publishes
  (`bridges.py:145`): `PublishedPortsKept` of `BridgeService`.
- A failing `docker compose down` is ignored, so the old head of a host that
  became a plain minion may stay up after a run that ends well (`deploy.py:275`,
  README.md:12), and hosts that leave the topology keep running.
  `OldRoleStopped` is stated for runs without failures.
- The edit form carries no version of what it shows: of two users who edit one
  bridge, the later undoes the earlier.
- Nothing bounds the error of minions' clocks; `received_at` is stored and not
  read. The properties of `HeadSnapshots` hold up to that error.

## Not modelled

- Of the modelled parts: the text of files, names and hashes (abstracted to
  values; a hash is the document it was made from), HTTP status codes and
  wording, `same_origin` and `safe_next_url` (pure checks of headers), scrypt (a
  password verifies if it is the one), the table of warnings and its page (only
  appended and listed), forms for tags and notes (one assignment and one commit),
  the JSON routes.
- `LoginThrottle`: one counter per address in memory, changed by one step under
  an `asyncio.Lock`, followed by a delay of that response alone; its numeric edge
  is listed as a hazard.
- Collectors other than web discovery, schemas, configuration loading: parsing
  without state, seen by the rest as a snapshot or its absence. Templates and
  migrations.
- Two public addresses on one host, which `DockerWeb` does not give it: two
  bindings of one port would share one link, whose status the probe that ends last
  decides. Nor does any property say that what is probed is what a link shows: the
  code does not see to it (see the hazard at `docker_web.py:54`).

## Where it could go on

The action, apply and restart forms of the head; the pure parsers of
`collectors/mounts.py` and `collectors/public_interfaces.py` against reference
definitions.
