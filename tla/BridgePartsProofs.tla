-------------------------- MODULE BridgePartsProofs --------------------------
(***************************************************************************)
(* Theorems about the two small parts of services/bridges.py that have a   *)
(* module of their own: _ensure_paths (DockerIgnore), for any number of    *)
(* threads and any lines, and one service field by field (BridgeService),  *)
(* for any hosts, ports and services written by hand.                      *)
(*                                                                         *)
(* EntrySettles is inductive: whoever truncates the file goes on to fill   *)
(* it, with the entry or with a failure that unsettles it, and whoever     *)
(* settles it has the entry before its eyes.                               *)
(***************************************************************************)
EXTENDS DockerIgnore, BridgeService, TLAPS

-----------------------------------------------------------------------------
(* The lines of .dockerignore (module DockerIgnore).                       *)

LEMMA TypeStep == TypeOK /\ [Next]_vars => TypeOK'
<1> SUFFICES ASSUME TypeOK, [Next]_vars PROVE TypeOK'
  OBVIOUS
<1> USE IgnoreAssumption DEF TypeOK, Steps, Goto
<1>1. ASSUME NEW r \in Requests, Call(r) PROVE TypeOK'
  BY <1>1 DEF Call
<1>2. ASSUME NEW r \in Requests, NEW here \in Steps, NEW missing \in Steps,
             NEW present \in Steps, Read(r, here, missing, present)
      PROVE  TypeOK'
  BY <1>2 DEF Read, Fail
<1>3. ASSUME NEW r \in Requests, NEW here \in Steps, NEW next \in Steps,
             Truncate(r, here, next) \/ Fill(r, here, next)
      PROVE  TypeOK'
  BY <1>3 DEF Truncate, Fill, Fail
<1>4. ASSUME NEW r \in Requests, Acquire(r) PROVE TypeOK'
  BY <1>4 DEF Acquire
<1>5. ASSUME NEW r \in Requests, Build(r) PROVE TypeOK'
  BY <1>5 DEF Build
<1>7. ASSUME NEW r \in Requests, Release(r) PROVE TypeOK'
  BY <1>7 DEF Release
<1>8. CASE Restart
  BY <1>8 DEF Restart
<1>9. CASE UNCHANGED vars
  BY <1>9 DEF vars
<1> QED
  BY <1>1, <1>2, <1>3, <1>4, <1>5, <1>7, <1>8, <1>9 DEF Next, Step

(* Every variable keeps its type, and the flock has one holder at most.    *)
THEOREM IgnoreTypeCorrect == Spec => []TypeOK
<1>1. Init => TypeOK
  BY IgnoreAssumption DEF Init, TypeOK, Steps
<1> QED
  BY <1>1, TypeStep, PTL DEF Spec

-----------------------------------------------------------------------------
LEMMA EntryStep == TypeOK /\ EntrySettles /\ [Next]_vars => EntrySettles'
<1> SUFFICES ASSUME TypeOK, EntrySettles, [Next]_vars,
                    settled', \A q \in Requests : pc'[q] \notin Filling
             PROVE  Entry \in lines'
  BY DEF EntrySettles
<1> USE DEF TypeOK, EntrySettles, Filling, Goto, Fail
<1>1. ASSUME NEW r \in Requests,
             Call(r) \/ Acquire(r) \/ Build(r) \/ Release(r)
      PROVE  Entry \in lines'
  BY <1>1 DEF Call, Acquire, Build, Release
<1>2. ASSUME NEW r \in Requests,
             \/ Read(r, "read", "truncate", "lock")
             \/ Read(r, "read_again", "truncate_again", "unlock")
      PROVE  Entry \in lines'
  BY <1>2 DEF Read
<1>3. ASSUME NEW r \in Requests,
             \/ Truncate(r, "truncate", "fill")
             \/ Truncate(r, "truncate_again", "fill_again")
      PROVE  Entry \in lines'
  BY <1>3 DEF Truncate
<1>4. ASSUME NEW r \in Requests,
             Fill(r, "fill", "lock") \/ Fill(r, "fill_again", "unlock")
      PROVE  Entry \in lines'
  BY <1>4 DEF Fill
<1>6. CASE Restart
  BY <1>6 DEF Restart
<1>7. CASE UNCHANGED vars
  BY <1>7 DEF vars
<1> QED
  BY <1>1, <1>2, <1>3, <1>4, <1>6, <1>7 DEF Next, Step

(* The threads that check and write .dockerignore without a lock lose the  *)
(* entry between them only where a write is cut short.                     *)
THEOREM EntryIsKept == Spec => []EntrySettles
<1>1. Init => EntrySettles
  BY DEF Init, EntrySettles
<1>2. Init => TypeOK
  BY IgnoreAssumption DEF Init, TypeOK, Steps
<1> QED
  BY <1>1, <1>2, TypeStep, EntryStep, PTL DEF Spec

-----------------------------------------------------------------------------
(* One service, field by field (module BridgeService). *)

(* What the form saves is recognised, and shows what was submitted.        *)
LEMMA StandardIsManaged ==
    ASSUME NEW v \in Edits, ValidInput(v)
    PROVE  /\ Managed(StandardService(v))
           /\ Fields(StandardService(v)) = v
<1> DEFINE raw == StandardService(v)
           env == Environment(raw)
<1>1. /\ v.listen \in Int /\ ValidPort(v.listen)
      /\ v.target \in Int /\ ValidPort(v.target)
      /\ v.host \in DOMAIN Hosts /\ Hosts[v.host] \in {"ipv4", "dns"}
      /\ v = [listen |-> v.listen, host |-> v.host, target |-> v.target]
  BY ServiceAssumption DEF ValidInput, ValidHost
<1>2. v.host # "empty" /\ v.host # Null /\ v.listen # Null /\ v.target # Null
  BY <1>1, ServiceAssumption
<1>3. /\ raw.mapping = TRUE /\ raw.unknownKeys = FALSE
      /\ raw.image = "socat-bridge:latest" /\ raw.build = "."
      /\ raw.container_name = Name /\ raw.restart = "unless-stopped"
      /\ raw.ports = {<<v.listen, v.listen>>}
  BY DEF StandardService
<1>4. /\ DOMAIN raw.environment = {"LISTEN_PORT", "TARGET_HOST", "TARGET_PORT"}
      /\ raw.environment["LISTEN_PORT"] = v.listen
      /\ raw.environment["TARGET_HOST"] = v.host
      /\ raw.environment["TARGET_PORT"] = v.target
  BY DEF StandardService, Variables
<1> HIDE DEF raw
<1>5. /\ DOMAIN env = Variables
      /\ env["LISTEN_PORT"] = v.listen /\ env["TARGET_HOST"] = v.host
      /\ env["TARGET_PORT"] = v.target
  BY <1>2, <1>4 DEF Environment, Variables
<1> HIDE DEF env
<1>6. /\ PortOf(env, "LISTEN_PORT") = v.listen
      /\ PortOf(env, "TARGET_PORT") = v.target
      /\ Value(env, "TARGET_HOST", "empty") = v.host
  BY <1>1, <1>5 DEF PortOf, Value, Variables
<1>7. Fields(raw) = v
  BY <1>1, <1>6 DEF Fields, env
<1>8. Managed(raw)
  <2>1. v.listen # None /\ v.target # None
    BY <1>1 DEF None, ValidPort
  <2> QED BY <1>2, <1>3, <1>5, <1>7, <2>1 DEF Managed, env
<1> QED BY <1>7, <1>8 DEF raw

(* A bridge made or changed in the UI can be changed there again, for any  *)
(* names, hosts, ports and services written by hand (update).              *)
THEOREM SavedIsManaged == ServiceSpec => SavedReadsBack
<1>1. [ServiceNext]_service => [ReadsBack]_service
  BY StandardIsManaged DEF Update, ReadsBack
<1> QED
  BY <1>1, PTL DEF ServiceSpec, SavedReadsBack
=============================================================================
