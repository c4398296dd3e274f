--------------------------- MODULE BridgeDocument ---------------------------
(***************************************************************************)
(* The Compose file of a bridge project as a value: what services/         *)
(* bridges.py loads from it, accepts, and computes from it before saving.  *)
(*                                                                         *)
(* A document is the sequence of its services (a YAML mapping keeps the    *)
(* order of its keys, and the order decides the bytes and so the hash).    *)
(* Of a service the model keeps the name, the listen port and whether      *)
(* _parse_service recognises the constrained shape ("standard") or not     *)
(* ("custom": written by hand, shown read-only).  Module BridgeService     *)
(* models that recognition field by field.                                 *)
(***************************************************************************)
EXTENDS Integers, SequencesExt

CONSTANT Names              \* service names

Services == [name: Names, port: Int, shape: {"standard", "custom"}]
Inputs   == [name: Names, port: Int]

(* Contents of the Compose file: it may be absent, or hold text that       *)
(* _load_document cannot read as a mapping of services.                    *)
NoFile == [kind |-> "absent", services |-> <<>>]
Broken == [kind |-> "broken", services |-> <<>>]
Doc(s) == [kind |-> "document", services |-> s]

Contents ==
    {f \in [kind: {"absent", "broken", "document"}, services: Seq(Services)] :
        f.kind # "document" => f.services = <<>>}

(* An absent file loads as an empty document and hashes like one.          *)
Readable(f) == f.kind # "broken"
Load(f)     == f.services
Hash(f)     == IF f.kind = "absent" THEN Doc(<<>>) ELSE f

NamesOf(s) == {s[i].name : i \in DOMAIN s}
Position(s, n) == CHOOSE i \in DOMAIN s : s[i].name = n
Managed(e) == e.shape = "standard"

(* validate_bridge_input, _standard_service, _validate_document.           *)
ValidInput(v) == v.port \in 1..65535
StandardService(v) == [name |-> v.name, port |-> v.port, shape |-> "standard"]
ValidDocument(s) ==
    \A i, j \in DOMAIN s :
        /\ Managed(s[i]) /\ Managed(s[j])
        /\ s[i].port = s[j].port
        => i = j

-----------------------------------------------------------------------------
(* A call of the bridge API.                                               *)
SaveCalls ==
    [op: {"create"}, value: Inputs] \cup
    [op: {"update"}, name: Names, value: Inputs] \cup
    [op: {"delete"}, name: Names]
ServiceCalls == [op: {"start", "stop", "restart"}, name: Names]
ProjectCalls == [op: {"project", "apply", "restart_project"}]
AllCalls == SaveCalls \cup ServiceCalls \cup ProjectCalls

IsSave(c) == c.op \in {"create", "update", "delete"}

(* The checks made on the arguments before the lock is taken.              *)
ValidCall(c) == c.op \in {"create", "update"} => ValidInput(c.value)

AnyIn(s, n) == n \in NamesOf(s)
IsManagedIn(s, n) == n \in NamesOf(s) /\ Managed(s[Position(s, n)])

(* The checks made on the loaded document.                                 *)
CanEdit(s, c) ==
    CASE c.op = "create" -> c.value.name \notin NamesOf(s)
      [] c.op = "update" ->
            /\ IsManagedIn(s, c.name)
            /\ c.value.name # c.name => c.value.name \notin NamesOf(s)
      [] c.op = "delete" -> IsManagedIn(s, c.name)

Edit(s, c) ==
    CASE c.op = "create" -> Append(s, StandardService(c.value))
      [] c.op = "update" ->
            [s EXCEPT ![Position(s, c.name)] = StandardService(c.value)]
      [] c.op = "delete" -> RemoveAt(s, Position(s, c.name))

SavesUnvalidated(f, c) == Readable(f) /\ CanEdit(Load(f), c)

(* A save goes through: the document is readable, the call applies to it,  *)
(* and the result has no two managed services on one port.                 *)
Saves(f, c) ==
    /\ Readable(f)
    /\ CanEdit(Load(f), c)
    /\ ValidDocument(Edit(Load(f), c))
=============================================================================
