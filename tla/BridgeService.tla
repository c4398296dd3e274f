--------------------------- MODULE BridgeService ----------------------------
(***************************************************************************)
(* One service of the Compose file, field by field: how _parse_service of  *)
(* services/bridges.py tells the services the UI may change from the ones  *)
(* it only shows, and what a change writes in their place.                 *)
(*                                                                         *)
(* A raw service keeps of the YAML mapping what _parse_service looks at.   *)
(* Its environment is a function from the variables it names; Null stands  *)
(* for a null value, or for a list item without "=".  Ports are numbers;   *)
(* text that is no number is 0, which _integer refuses like it.            *)
(***************************************************************************)
EXTENDS Integers, Functions

CONSTANTS
    Name,           \* the key of the service in the document
    Hosts,          \* target hosts that occur: host -> kind
    RawServices,    \* what may be written by hand
    Null,           \* the value of an environment variable that has none
    Edits           \* what the form may submit: [listen, host, target]

VARIABLE service    \* the service as it is in the file

(* A host that may be saved has a text: no address and no DNS name is      *)
(* empty.                                                                  *)
ASSUME ServiceAssumption ==
    /\ Edits \subseteq [listen: Int, host: DOMAIN Hosts, target: Int]
    /\ \A h \in DOMAIN Hosts : Hosts[h] \in {"ipv4", "dns"} => h # "empty"
    /\ Null \notin Int /\ Null \notin DOMAIN Hosts

None == 0
Variables == {"LISTEN_PORT", "TARGET_HOST", "TARGET_PORT"}

(* A value the form submits.  ip_address accepts "ipv4" and "ipv6",        *)
(* DNS_NAME_RE accepts "dns" and the text of an IPv4 address.              *)
ValidPort(p) == 1 <= p /\ p <= 65535
ValidHost(h) == Hosts[h] \in {"ipv4", "dns"}
ValidInput(v) == ValidPort(v.listen) /\ ValidPort(v.target) /\ ValidHost(v.host)

Environment(raw) ==
    [x \in {y \in DOMAIN raw.environment : raw.environment[y] # Null} |->
        raw.environment[x]]

Value(env, x, default) == IF x \in DOMAIN env THEN env[x] ELSE default
PortOf(env, x) ==
    LET p == Value(env, x, None) IN IF ValidPort(p) THEN p ELSE None

Fields(raw) ==
    LET env == Environment(raw)
    IN  [listen |-> PortOf(env, "LISTEN_PORT"),
         host   |-> Value(env, "TARGET_HOST", "empty"),
         target |-> PortOf(env, "TARGET_PORT")]

(* The errors of _parse_service, none of which a managed service has.      *)
Managed(raw) ==
    LET v == Fields(raw)
    IN  /\ raw.mapping
        /\ ~raw.unknownKeys
        /\ raw.image = "socat-bridge:latest"
        /\ raw.build = "."
        /\ raw.container_name = Name
        /\ raw.restart = "unless-stopped"
        /\ DOMAIN Environment(raw) = Variables
        /\ v.listen # None /\ v.target # None /\ v.host # "empty"
        /\ <<v.listen, v.listen>> \in raw.ports
        /\ ValidInput(v)

(* A fault: the target port published, not the listen port.                *)
StandardServiceSwapped(v) ==
    [mapping |-> TRUE, unknownKeys |-> FALSE,
     build |-> ".", image |-> "socat-bridge:latest",
     container_name |-> Name, restart |-> "unless-stopped",
     ports |-> {<<v.listen, v.target>>},
     environment |-> [x \in Variables |->
        CASE x = "LISTEN_PORT" -> v.listen
          [] x = "TARGET_HOST" -> v.host
          [] x = "TARGET_PORT" -> v.target]]

StandardService(v) ==
    [mapping |-> TRUE, unknownKeys |-> FALSE,
     build |-> ".", image |-> "socat-bridge:latest",
     container_name |-> Name, restart |-> "unless-stopped",
     ports |-> {<<v.listen, v.listen>>},
     environment |-> [x \in Variables |->
        CASE x = "LISTEN_PORT" -> v.listen
          [] x = "TARGET_HOST" -> v.host
          [] x = "TARGET_PORT" -> v.target]]

-----------------------------------------------------------------------------
ServiceInit == service \in RawServices

(* update: the form is submitted for a managed service.                    *)
Update(v) ==
    /\ Managed(service)
    /\ ValidInput(v)
    /\ service' = StandardService(v)

ServiceNext == \E v \in Edits : Update(v)

ServiceSpec == ServiceInit /\ [][ServiceNext]_service

-----------------------------------------------------------------------------
(* What the form saves is managed afterwards and reads back as submitted:  *)
(* a bridge made in the UI can be changed there again.                     *)
ReadsBack ==
    \A v \in Edits : Update(v) => Managed(service') /\ Fields(service') = v
SavedReadsBack == [][ReadsBack]_service

(* NOT a property of the code (README, known deviations).  Saving the form *)
(* as it stands publishes the ports the service published.  False of a     *)
(* managed service that publishes a second port, which the form drops.     *)
PublishedPortsKept ==
    [][Update(Fields(service)) => service'.ports = service.ports]_service
=============================================================================
