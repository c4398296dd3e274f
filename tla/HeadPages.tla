----------------------------- MODULE HeadPages -----------------------------
(***************************************************************************)
(* What the head's pages compute from the tables at any moment of module   *)
(* HeadSnapshots: the web interfaces of the nodes (api/head.py), the SSHFS *)
(* mounts that one node reports, matched with the exports that another     *)
(* node reports (services/mounts.py), and the names that DNS targets are   *)
(* matched to (services/dns.py).                                           *)
(*                                                                         *)
(* Names, addresses and host names are of one set: any of them may be what *)
(* a mount calls its target.  They are in their normal form (_alias,       *)
(* _normalized_ip).  A path is the sequence of its components, or Relative.*)
(*                                                                         *)
(* A report says: host (the host name), public (its public address), web   *)
(* ("up", "down" or None), mounts [host, port, user, path, dir], exports   *)
(* [user, ports, chroot], windows [path, root].                            *)
(***************************************************************************)
EXTENDS HeadSnapshots, SequencesExt, FiniteSets

CONSTANTS
    ByName,         \* the nodes by their names
    Ip,             \* expected_vpn_ip of each node (its name, if no address)
    Devices,        \* the devices by their names: name, ip, and endpoint, the
                    \* global address their WireGuard peer is seen at, or None
    Addresses,      \* what a DNS answer may be
    Relative, Up,   \* a path that is not absolute; the component ".."
    None

IsSequence(s) == s \in Seq(ToSet(s))
IsPath(path) == path = Relative \/ IsSequence(path)

ASSUME PagesAssumption ==
    /\ IsSequence(ByName)
    /\ ToSet(ByName) = Nodes /\ Len(ByName) = Cardinality(Nodes)
    /\ DOMAIN Ip = Nodes
    /\ IsSequence(Devices)
    /\ \A d \in ToSet(Devices) :
          d.endpoint \in Addresses \cup {None} /\ d.name # None
    /\ None \notin Nodes \cup Addresses

ASSUME ReportsAssumption ==
    \A n \in Nodes : \A says \in Reports[n] :
        /\ IsSequence(says.mounts) /\ IsSequence(says.exports)
        /\ IsSequence(says.windows)
        /\ \A m \in ToSet(says.mounts) : IsPath(m.path)
        /\ \A e \in ToSet(says.exports) : IsPath(e.chroot)
        /\ \A w \in ToSet(says.windows) : IsSequence(w.path)

-----------------------------------------------------------------------------
(* Web interfaces. *)

(* A mistake: the interface is shown as the snapshot has it.               *)
AsReported(n) ==
    {[node |-> n, status |-> report[n].web] : x \in {n} \cap stored}

InterfaceRow(n) ==
    {[node |-> n, status |-> IF Stale(n) THEN "stale" ELSE report[n].web]
        : x \in {n} \cap stored}
InterfaceRows == {row \in UNION {InterfaceRow(n) : n \in Nodes} : row.status # None}

-----------------------------------------------------------------------------
(* SSHFS mounts. *)

(* What a node is called: a stale snapshot gives it no host name.          *)
Aliases(n) == {n, Ip[n]} \cup (IF Online(n) THEN {report[n].host} ELSE {})
Called(a) == {n \in Nodes : a \in Aliases(n)}

(* A mistake: of nodes of one name, the first.                             *)
FirstTarget(a) ==
    LET named == SelectSeq(ByName, LAMBDA n : n \in Called(a))
    IN  IF named = <<>> THEN None ELSE Head(named)

(* _unique_aliases: what two nodes are called is a name of neither.        *)
Target(a) ==
    IF a # None /\ \E n \in Nodes : Called(a) = {n}
    THEN CHOOSE n \in Nodes : Called(a) = {n} ELSE None

(* _target_export: the first for the user on the port.                     *)
Export(n, m) ==
    LET exports == report[n].exports
        fit == {i \in DOMAIN exports :
                   exports[i].user = m.user /\ m.port \in exports[i].ports}
    IN  IF fit = {} \/ m.user = None THEN None ELSE exports[Min(fit)]

(* posixpath.normpath of an absolute path: ".." at the root stays there.   *)
Entered(p, c) ==
    IF c # Up THEN Append(p, c) ELSE IF p = <<>> THEN p ELSE Front(p)

Normal(path) ==
    LET upto[i \in 0..Len(path)] ==
            IF i = 0 THEN <<>> ELSE Entered(upto[i - 1], path[i])
    IN  upto[Len(path)]

(* A mistake: the whole is normalised, and not the remote path first.      *)
JoinThenNormal(chroot, path) ==
    IF Relative \in {chroot, path} THEN None ELSE Normal(chroot \o path)

(* What the user of a chroot calls path is below the chroot.               *)
Directory(chroot, path) ==
    IF Relative \in {chroot, path} THEN None
    ELSE Normal(chroot \o Normal(path))

(* A mistake: the first mapping that fits, not the closest.                *)
WindowsFirst(n, dir) ==
    LET fit == SelectSeq(report[n].windows, LAMBDA w : IsPrefix(w.path, dir))
    IN  IF fit = <<>> THEN None ELSE Head(fit)

Windows(n, dir) ==
    LET windows == report[n].windows
        fit == {i \in DOMAIN windows : IsPrefix(windows[i].path, dir)}
        closest == {i \in fit : \A j \in fit :
                       Len(windows[j].path) <= Len(windows[i].path)}
    IN  IF fit = {} THEN None ELSE windows[Min(closest)]

WindowsDirectory(n, dir) ==
    IF dir = None \/ Windows(n, dir) = None THEN None
    ELSE LET w == Windows(n, dir)
         IN  w.root \o SubSeq(dir, Len(w.path) + 1, Len(dir))

(* The row of a mount: its directories are known only if the target is,    *)
(* its snapshot is not stale, and it has an export for the user.           *)
MountRow(n, m) ==
    LET t == Target(m.host)
        e == IF t = None \/ Stale(t) THEN None ELSE Export(t, m)
        d == IF e = None THEN None ELSE Directory(e.chroot, m.path)
    IN  [from |-> Ip[n], local |-> m.dir, target |-> t,
         ip |-> IF t = None THEN m.host ELSE Ip[t],
         dir |-> d, remote |-> IF d = None THEN m.path ELSE d,
         windows |-> IF d = None THEN None ELSE WindowsDirectory(t, d)]

(* A mistake: rows of one remote directory are one.                        *)
RemoteKey(row) == <<row.from, row.ip, row.remote>>

Key(row) == <<row.from, row.ip, row.local, row.remote>>

(* The mounts that nodes report: of the i-th node the j-th.                *)
Places ==
    UNION {{i} \X DOMAIN report[ByName[i]].mounts :
              i \in {i \in DOMAIN ByName : Online(ByName[i])}}
RowAt(place) ==
    LET n == ByName[place[1]] IN MountRow(n, report[n].mounts[place[2]])
Later(q, p) == q[1] > p[1] \/ (q[1] = p[1] /\ q[2] > p[2])

(* Of rows with the same key the last one stays.                           *)
MountRows ==
    {RowAt(p) : p \in {p \in Places :
        \A q \in Places : Later(q, p) => Key(RowAt(q)) # Key(RowAt(p))}}

-----------------------------------------------------------------------------
(* DNS targets. *)

(* A mistake: a device never replaces what is known of a node.             *)
WithNewDevices(known) ==
    FoldLeft(LAMBDA map, d : [t \in Addresses |->
                 IF map[t] = None /\ t \in {d.ip, d.endpoint} THEN d.name ELSE map[t]],
             known, Devices)

(* Devices replace nodes at their VPN address; at the address a peer is    *)
(* seen at, only what is known of nobody else.                             *)
WithDevice(map, d) ==
    LET here == [map EXCEPT ![d.ip] = d.name]
    IN  IF d.endpoint # None /\ here[d.endpoint] = None
        THEN [here EXCEPT ![d.endpoint] = d.name] ELSE here

WithDevices(known) ==
    LET map[i \in 0..Len(Devices)] ==
            IF i = 0 THEN known ELSE WithDevice(map[i - 1], Devices[i])
    IN  map[Len(Devices)]

Public(n) == IF n \in stored THEN report[n].public ELSE None

(* build_dns_ip_map: VPN addresses, over them public ones of the latest    *)
(* snapshots, stale or not, and of each the last; then the devices.        *)
LastNamed(S) == ByName[Max({i \in DOMAIN ByName : ByName[i] \in S})]

NodesByIp ==
    [t \in Addresses |->
        LET seen == {n \in Nodes : Public(n) = t}
            own  == {n \in Nodes : Ip[n] = t}
        IN  CASE seen # {} -> LastNamed(seen)
              [] seen = {} /\ own # {} -> LastNamed(own)
              [] OTHER -> None]
IpMap == WithDevices(NodesByIp)

-----------------------------------------------------------------------------
(* Properties. *)

(* An interface shown as up was seen up, not longer ago than a node may be *)
(* online without being heard.                                             *)
UpWasSeen ==
    \A row \in InterfaceRows :
        row.status = "up" =>
            /\ report[row.node].web = "up"
            /\ now - received[row.node] <= StaleAfter + Skew

(* A directory on a target is one that the only online node of that name   *)
(* exports to the user of the mount on that port, whatever hosts call      *)
(* themselves.                                                             *)
DirectoryExported ==
    \A n \in Nodes : Online(n) =>
        \A m \in ToSet(report[n].mounts) :
            MountRow(n, m).dir # None =>
                \E t \in Nodes :
                    /\ MountRow(n, m).target = t /\ Online(t)
                    /\ \A o \in Nodes \ {t} :
                          m.host \notin {o, Ip[o]} /\ (Online(o) => report[o].host # m.host)
                    /\ \E e \in ToSet(report[t].exports) :
                          /\ e.user = m.user /\ m.port \in e.ports
                          /\ IsPrefix(Normal(e.chroot), MountRow(n, m).dir)

(* The Windows directory is the target directory under another name: the   *)
(* mapping that mounts it, and no other mapping mounts a part of the way.  *)
WindowsIsSame ==
    \A row \in MountRows :
        row.windows # None =>
            \E w \in ToSet(report[row.target].windows) :
                /\ IsPrefix(w.path, row.dir)
                /\ row.windows = w.root \o SubSeq(row.dir, Len(w.path) + 1, Len(row.dir))
                /\ \A v \in ToSet(report[row.target].windows) :
                      IsPrefix(v.path, row.dir) => IsPrefix(v.path, w.path)

(* "Target details require a fresh target snapshot and a matching SSH      *)
(* username and port" (README.md:238), and what is shown as up is not old: *)
(* no page says more of a node than its fresh report does.                 *)
DetailsJustified == UpWasSeen /\ DirectoryExported /\ WindowsIsSame

(* "If the initiator is fresh but the target is unavailable or cannot be   *)
(* identified, the UI keeps a partial row" (README.md:238): no mount of a  *)
(* node that is online is lost, not even among others that look alike.     *)
MountsComplete ==
    \A n \in Nodes : Online(n) =>
        \A m \in ToSet(report[n].mounts) :
            \E row \in MountRows :
                /\ row.from = Ip[n] /\ row.local = m.dir
                /\ row.ip = MountRow(n, m).ip

(* A DNS target is reported as outside exactly when no node has it as its  *)
(* VPN or its last public address and no device has it or is seen there;   *)
(* a node that reports an address of the VPN as its public one takes       *)
(* nothing from the device that has it.                                    *)
Holders(t) ==
    {n \in Nodes : t \in {Ip[n], Public(n)}} \cup
    {d.name : d \in {d \in ToSet(Devices) : t \in {d.ip, d.endpoint}}}
MatchedToHolder ==
    \A t \in Addresses :
        /\ IpMap[t] = None <=> Holders(t) = {}
        /\ IpMap[t] # None => IpMap[t] \in Holders(t)
        /\ \A d \in ToSet(Devices) : d.ip = t => \E e \in ToSet(Devices) :
              e.ip = t /\ IpMap[t] = e.name
=============================================================================
