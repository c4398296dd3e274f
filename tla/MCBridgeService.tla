-------------------------- MODULE MCBridgeService ---------------------------
(***************************************************************************)
(* Services written by hand that differ from the constrained shape in each *)
(* field _parse_service looks at, one or several at a time, with ports at  *)
(* and past their bounds.                                                  *)
(***************************************************************************)
EXTENDS BridgeService

MCPorts == {0, 1, 65535, 65536}
MCHosts == [v4 |-> "ipv4", dns |-> "dns", v6 |-> "ipv6", unsafe |-> "unsafe",
            empty |-> "unsafe"]

Environments ==
    {[LISTEN_PORT |-> l, TARGET_HOST |-> h, TARGET_PORT |-> t] :
        l, t \in MCPorts, h \in DOMAIN MCHosts}
    \cup {[LISTEN_PORT |-> 1, TARGET_HOST |-> "v4"],
          [LISTEN_PORT |-> 1, TARGET_HOST |-> "v4", TARGET_PORT |-> Null],
          [LISTEN_PORT |-> 1, TARGET_HOST |-> "v4", TARGET_PORT |-> 1,
           DEBUG |-> 1],
          [LISTEN_PORT |-> 1, TARGET_HOST |-> "v4", TARGET_PORT |-> 1,
           DEBUG |-> Null]}

MCRawServices ==
    [mapping: BOOLEAN, unknownKeys: BOOLEAN, build: {".", "./socat"},
     image: {"socat-bridge:latest", "other"}, container_name: {"a", "b"},
     restart: {"unless-stopped", "always"},
     ports: {{}, {<<1, 1>>}, {<<65535, 65535>>}, {<<1, 1>>, <<2, 2>>}},
     environment: Environments]

MCEdits == [listen: MCPorts, host: DOMAIN MCHosts, target: MCPorts]
=============================================================================
