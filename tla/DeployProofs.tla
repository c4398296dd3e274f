---------------------------- MODULE DeployProofs ----------------------------
(***************************************************************************)
(* Proofs that every run of deploy.py keeps the properties of Deploy, for  *)
(* any hosts, topologies and directories and any number of runs, failures  *)
(* and edits of the tree.                                                  *)
(***************************************************************************)
EXTENDS Deploy, TLAPS

(* The turn of a target: the script is past the check and has not ended.   *)
Turn == pc \in Commands
Handled == Targets(plan) \ (todo \cup (IF Turn THEN {at} ELSE {}))
Sourced == pc \in {"stop", "ports", "postgres", "wait", "up"}

(* Where the script stands: what is left to do, and what it runs from.     *)
Progress ==
    /\ result = "running" <=> pc \notin {"idle", "hung"}
    /\ Turn => at \in Targets(plan) /\ at \notin todo /\ unchecked = {}
    /\ pc = "check" => todo = Targets(plan)
    /\ result = "ok" => todo = {}
    /\ pc = "hung" => result = "hung" /\ faulted
    /\ Sourced /\ at \notin Locals => dirs[at][dir] >= since
    /\ pc \in {"postgres", "wait"} => at = plan.head
    /\ pc = "wait" \/ (pc = "up" /\ at = plan.head) => containers[at]["postgres"] >= since

(* The targets behind the script run what they should.                     *)
HandledDeployed ==
    result \in {"running", "ok"} =>
        \A h \in Handled : \A s \in Role(h) : containers[h][s] >= since

(* Until a command fails, no service of another role is behind the script, *)
(* nor on the target at hand once it was stopped.                          *)
HandledAlone ==
    ~faulted =>
        /\ result \in {"running", "ok"} =>
              \A h \in Handled : \A s \in Services \ Role(h) : containers[h][s] = 0
        /\ pc \in {"postgres", "wait", "up"} =>
              \A s \in Services \ Role(at) : containers[at][s] = 0
        /\ pc = "ports" => \A s \in Services : containers[at][s] = 0

Untouched == unchecked # {} \/ pc = "check" => containers = before
LostHere == \A h \in Hosts : Lost(h) => h = at

IInv ==
    /\ TypeOK /\ Progress /\ HandledDeployed /\ HandledAlone
    /\ RerunRepairs /\ Untouched /\ LostHere

-----------------------------------------------------------------------------
Containers == [Hosts -> [Services -> {0} \cup Versions]]

(* A command changes the containers of the target at hand only.            *)
LEMMA SetContainersType ==
    ASSUME TypeOK, NEW c \in [Services -> {0} \cup Versions], SetContainers(c)
    PROVE  /\ containers' \in Containers
           /\ containers'[at] = c
           /\ \A h \in Hosts : h # at => containers'[h] = containers[h]
  BY DEF TypeOK, SetContainers, Containers

LEMMA SetDirType ==
    ASSUME TypeOK, NEW v \in {Part, Nothing} \cup Versions, SetDir(v)
    PROVE  /\ dirs' \in [Hosts -> [Dirs -> {Part, Nothing} \cup Versions]]
           /\ dirs'[at][dir] = v
  BY DEF TypeOK, SetDir

LEMMA KeptType ==
    ASSUME TypeOK, NEW kept
    PROVE  Kept(kept) \in [Services -> {0} \cup Versions]
  BY DEF TypeOK, Kept

LEMMA NoContainerType == NoContainer \in [Services -> {0} \cup Versions]
  BY DEF NoContainer

(* What is started is of a version of the tree: by then the directory      *)
(* holds a whole one.                                                      *)
LEMMA StartedType ==
    ASSUME TypeOK, Progress, Sourced, NEW S
    PROVE  /\ Source \in Versions /\ Source >= since
           /\ Started(S) \in [Services -> {0} \cup Versions]
  <1>1. Source \in Versions /\ Source >= since
    <2>1. CASE at \in Locals
      BY <2>1 DEF TypeOK, Source, Versions
    <2>2. CASE at \notin Locals
      <3>1. dirs[at][dir] >= since /\ dirs[at][dir] \in {Part, Nothing} \cup Versions
        BY <2>2 DEF TypeOK, Progress
      <3> QED BY <2>2, <3>1 DEF TypeOK, Source, Versions, Part, Nothing
    <2> QED BY <2>1, <2>2
  <1> QED BY <1>1 DEF TypeOK, Started

LEMMA DownType ==
    ASSUME TypeOK, Down
    PROVE  /\ containers' \in Containers
           /\ \A h \in Hosts : h # at => containers'[h] = containers[h]
           /\ faulted' \in BOOLEAN /\ faults' \in Nat
           /\ faulted \/ faulted' => faulted'
           /\ ~faulted' => containers'[at] = NoContainer /\ ~faulted
  <1>1. CASE SetContainers(NoContainer) /\ NoFault
    BY <1>1, SetContainersType, NoContainerType DEF TypeOK, NoFault
  <1>2. CASE Fault /\ \E kept \in SUBSET Services : SetContainers(Kept(kept))
    <2>1. PICK kept \in SUBSET Services : SetContainers(Kept(kept))
      BY <1>2
    <2>2. /\ containers' \in Containers
          /\ \A h \in Hosts : h # at => containers'[h] = containers[h]
      BY <2>1, KeptType, SetContainersType
    <2> QED BY <1>2, <2>2 DEF TypeOK, Fault
  <1> QED BY <1>1, <1>2 DEF Down

(* NextTarget keeps the types and takes the next target from the list.     *)
LEMMA NextTargetType ==
    ASSUME TypeOK, NextTarget
    PROVE  /\ pc' \in {"idle", "check", "hung"} \cup Commands
           /\ todo' \subseteq todo /\ at' \in Hosts
           /\ result' \in {"none", "running", "ok", "failed", "hung"}
           /\ \/ todo = {} /\ todo' = {} /\ at' = at /\ pc' = "idle" /\ result' = "ok"
              \/ /\ at' \in todo /\ todo' = todo \ {at'}
                 /\ pc' \in {"stop", "cleanup"} /\ result' = result
                 /\ pc' = "stop" => at' \in Locals
  <1>1. \A h \in First(todo) : h \in todo /\ h \in Hosts
    BY DeployAssumption DEF First, TypeOK, Targets
  <1> QED BY <1>1 DEF TypeOK, NextTarget, Commands

LEMMA TypeInit == Init => TypeOK
  <1> SUFFICES ASSUME Init PROVE TypeOK
    OBVIOUS
  <1>1. configs \in [1..1 -> Topologies] /\ plan \in Topologies /\ plan.head \in Hosts
    BY DeployAssumption DEF Init
  <1>2. containers \in [Hosts -> [Services -> {0} \cup Versions]]
    BY NoContainerType DEF Init, Versions
  <1>3. configs \in [Versions -> Topologies] /\ tree \in Nat \ {0} /\ since \in Versions
    BY <1>1 DEF Init, Versions
  <1>4. dirs \in [Hosts -> [Dirs -> {Part, Nothing} \cup Versions]]
    BY DEF Init
  <1>5. before \in [Hosts -> [Services -> {0} \cup Versions]] /\ at \in Hosts
    BY <1>1, <1>2 DEF Init
  <1> QED BY <1>1, <1>2, <1>3, <1>4, <1>5 DEF Init, TypeOK

(* Every step of the script keeps the types, given where it stands.        *)
LEMMA TypeStep ==
    ASSUME TypeOK, Progress, [Next]_vars
    PROVE  TypeOK'
  <1> USE DEF Commands
  <1>1. CASE EditTree
    <2>1. Versions \subseteq Versions' /\ tree' \in Nat \ {0}
      BY <1>1 DEF EditTree, TypeOK, Versions
    <2>2. configs' \in [Versions' -> Topologies]
      BY <1>1 DEF EditTree, TypeOK, Versions
    <2>3. /\ dirs \in [Hosts -> [Dirs -> {Part, Nothing} \cup Versions']]
          /\ containers \in [Hosts -> [Services -> {0} \cup Versions']]
          /\ before \in [Hosts -> [Services -> {0} \cup Versions']]
          /\ since \in Versions'
      BY <2>1 DEF TypeOK
    <2> QED BY <1>1, <2>1, <2>2, <2>3 DEF EditTree, TypeOK, world, script
  <1>2. CASE Start
    <2>1. plan' \in Topologies
      BY <1>2 DEF Start, TypeOK, Versions
    <2>2. /\ Versions' = Versions /\ since' \in Versions
          /\ before' \in [Hosts -> [Services -> {0} \cup Versions]]
      BY <1>2 DEF Start, TypeOK, Versions, local
    <2>3. unchecked' = Targets(plan') \ Locals /\ todo' = Targets(plan')
      BY <1>2 DEF Start
    <2>4. runs' \in Nat /\ dir' \in Dirs
      BY <1>2 DEF Start, TypeOK
    <2>5. faulted' \in BOOLEAN
      BY <1>2, Zenon DEF Start
    <2> QED
      BY <1>2, <2>1, <2>2, <2>3, <2>4, <2>5 DEF Start, TypeOK, local, world
  <1>3. CASE VerifySsh
    <2>1. /\ pc' \in {"idle", "check", "hung"} \cup Commands
          /\ todo' \subseteq todo /\ at' \in Hosts
          /\ result' \in {"none", "running", "ok", "failed", "hung"}
      <3>1. CASE NextTarget
        BY <3>1, NextTargetType
      <3>2. CASE Break \/ Then("check")
        BY <3>2 DEF Break, Stop, Hang, Then, TypeOK
      <3> QED BY <1>3, <3>1, <3>2 DEF VerifySsh
    <2>2. faulted' \in BOOLEAN /\ faults' \in Nat
      <3>1. CASE Break
        BY <3>1 DEF Break, Fault, TypeOK
      <3>2. CASE NoFault
        BY <3>2 DEF NoFault, TypeOK
      <3> QED BY <1>3, <3>1, <3>2 DEF VerifySsh
    <2>4. unchecked' \subseteq unchecked
      BY <1>3 DEF VerifySsh
    <2>3. Versions' = Versions /\ UNCHANGED <<local, world, plan, dir, since, before, runs>>
      BY <1>3 DEF VerifySsh, local, Versions
    <2> QED BY <2>1, <2>2, <2>3, <2>4 DEF TypeOK, local, world
  <1> DEFINE Rest == UNCHANGED <<local, script>>
             Flow == /\ pc' \in {"idle", "check", "hung"} \cup Commands
                     /\ todo' \subseteq todo /\ at' \in Hosts
                     /\ result' \in {"none", "running", "ok", "failed", "hung"}
                     /\ faulted' \in BOOLEAN /\ faults' \in Nat
  <1>4. ASSUME UNCHANGED <<local, script>>, Flow,
               containers' \in Containers,
               dirs' \in [Hosts -> [Dirs -> {Part, Nothing} \cup Versions]]
        PROVE  TypeOK'
    BY <1>4 DEF TypeOK, local, script, Versions, Containers
  <1>5. ASSUME Break PROVE Flow
    BY <1>5 DEF Break, Fault, Stop, Hang, TypeOK
  <1>6. ASSUME NoFault, NEW c \in Commands, Then(c) PROVE Flow
    BY <1>6 DEF NoFault, Then, TypeOK
  <1>7. ASSUME Down, NEW c \in Commands, Then(c) PROVE Flow
    BY <1>7, DownType DEF Then, TypeOK
  <1>8. \A kept : SetContainers(Kept(kept)) => containers' \in Containers
    BY KeptType, SetContainersType
  <1>9. ASSUME Sourced, NEW S, SetContainers(Started(S)) PROVE containers' \in Containers
    BY <1>9, StartedType, SetContainersType
  <1>10. ASSUME NEW v \in {Part, Nothing, tree}, SetDir(v)
         PROVE  dirs' \in [Hosts -> [Dirs -> {Part, Nothing} \cup Versions]]
    BY <1>10, SetDirType DEF TypeOK, Versions
  <1>11. containers \in Containers /\ dirs \in [Hosts -> [Dirs -> {Part, Nothing} \cup Versions]]
    BY DEF TypeOK, Containers
  <1>12. CASE Cleanup
    <2>1. dirs' \in [Hosts -> [Dirs -> {Part, Nothing} \cup Versions]]
      <3>1. dirs[at][dir] \in {Part, Nothing} \cup Versions
        BY DEF TypeOK
      <3> QED BY <1>12, <3>1, SetDirType DEF Cleanup
    <2>2. containers' \in Containers
      BY <1>12, <1>8, <1>11, DownType DEF Cleanup
    <2>3. Flow
      <3> HIDE DEF Flow
      <3> QED BY <1>12, <1>5, <1>6, <1>7 DEF Cleanup
    <2> QED BY <1>4, <1>12, <2>1, <2>2, <2>3 DEF Cleanup
  <1>13. CASE Copy
    <2>1. Flow
      <3> HIDE DEF Flow
      <3> QED BY <1>13, <1>5, <1>6 DEF Copy
    <2>2. dirs' \in [Hosts -> [Dirs -> {Part, Nothing} \cup Versions]]
      BY <1>13, <1>10 DEF Copy
    <2>3. UNCHANGED <<local, script>> /\ containers' = containers
      BY <1>13 DEF Copy
    <2> QED BY <1>4, <1>11, <2>1, <2>2, <2>3
  <1>14. CASE StopServices
    <2>1. Flow
      <3> HIDE DEF Flow
      <3> QED BY <1>14, <1>5, <1>7 DEF StopServices
    <2>2. containers' \in Containers
      BY <1>14, <1>8, DownType DEF StopServices
    <2>3. UNCHANGED <<local, script>> /\ dirs' = dirs
      BY <1>14 DEF StopServices
    <2> QED BY <1>4, <1>11, <2>1, <2>2, <2>3
  <1>15. CASE CheckPorts
    <2>1. Flow
      <3>1. \A c \in Commands : NoFault /\ Then(c) => Flow
        BY <1>6
      <3>2. NoFault /\ Stop => Flow
        BY DEF NoFault, Stop, TypeOK
      <3>3. (IF at = plan.head THEN "postgres" ELSE "up") \in Commands
        OBVIOUS
      <3> HIDE DEF Flow
      <3> QED BY <1>15, <1>5, <3>1, <3>2, <3>3 DEF CheckPorts
    <2>2. UNCHANGED <<local, script>> /\ dirs' = dirs /\ containers' = containers
      BY <1>15 DEF CheckPorts, world
    <2> QED BY <1>4, <1>11, <2>1, <2>2
  <1>16. CASE StartPostgres
    <2>1. Flow
      <3> HIDE DEF Flow
      <3> QED BY <1>16, <1>5, <1>6 DEF StartPostgres
    <2>2. containers' \in Containers
      BY <1>16, <1>9 DEF StartPostgres, Sourced
    <2>3. UNCHANGED <<local, script>> /\ dirs' = dirs
      BY <1>16 DEF StartPostgres
    <2> QED BY <1>4, <1>11, <2>1, <2>2, <2>3
  <1>17. CASE WaitHealthy
    <2>1. Flow
      <3> HIDE DEF Flow
      <3> QED BY <1>17, <1>5, <1>6 DEF WaitHealthy
    <2>2. UNCHANGED <<local, script>> /\ dirs' = dirs /\ containers' = containers
      BY <1>17 DEF WaitHealthy, world
    <2> QED BY <1>4, <1>11, <2>1, <2>2
  <1>18. CASE StartRole
    <2>1. Flow
      <3>1. ASSUME NextTarget, NoFault PROVE Flow
        BY <3>1, NextTargetType DEF NoFault, TypeOK
      <3> HIDE DEF Flow
      <3> QED BY <1>18, <3>1, <1>5 DEF StartRole
    <2>2. containers' \in Containers
      BY <1>18, <1>9 DEF StartRole, Sourced
    <2>3. UNCHANGED <<local, script>> /\ dirs' = dirs
      BY <1>18 DEF StartRole
    <2> QED BY <1>4, <1>11, <2>1, <2>2, <2>3
  <1>19. CASE UNCHANGED vars
    BY <1>19 DEF vars, local, world, script, TypeOK, Versions
  <1>20. CASE Interrupt
    BY <1>20 DEF Interrupt, Stop, local, world, script, TypeOK, Versions
  <1> QED
    BY <1>1, <1>2, <1>3, <1>12, <1>13, <1>14, <1>15, <1>16, <1>17, <1>18, <1>19, <1>20
       DEF Next, Step

-----------------------------------------------------------------------------
Standing ==
    /\ Progress /\ HandledDeployed /\ HandledAlone
    /\ RerunRepairs /\ Untouched /\ LostHere

OnlyHere == \A h \in Hosts : h # at => containers'[h] = containers[h]

(* A run that gives up or hangs: only the target at hand was being changed.*)
LEMMA GiveUp ==
    ASSUME IInv, pc \notin {"idle", "hung"}, Stop \/ Hang, faulted', OnlyHere,
           UNCHANGED <<plan, dir, since, before>>,
           unchecked' \subseteq unchecked,
           pc = "check" => containers' = containers
    PROVE  Standing'
  <1> USE DEF IInv
  <1>1. /\ \/ pc' = "idle" /\ result' = "failed"
           \/ pc' = "hung" /\ result' = "hung" /\ faulted'
        /\ UNCHANGED <<todo, at>>
    BY DEF Stop, Hang
  <1>2. Progress'
    BY <1>1 DEF Progress, Turn, Commands, Sourced
  <1>3. HandledDeployed' /\ RerunRepairs'
    BY <1>1 DEF HandledDeployed, RerunRepairs
  <1>4. HandledAlone'
    BY DEF HandledAlone
  <1>5. Untouched'
    <2>1. CASE pc = "check"
      BY <1>1, <2>1 DEF Untouched
    <2>2. CASE pc # "check"
      <3>1. Turn
        BY <2>2 DEF TypeOK, Turn
      <3> QED BY <1>1, <3>1 DEF Progress, Untouched
    <2> QED BY <2>1, <2>2
  <1>6. LostHere'
    BY <1>1 DEF LostHere, Lost, OnlyHere, Role
  <1> QED BY <1>2, <1>3, <1>4, <1>5, <1>6 DEF Standing

(* A command that succeeds, with the next one on the same target.          *)
LEMMA GoOn ==
    ASSUME IInv, Turn, NEW c \in Commands, Then(c), OnlyHere,
           UNCHANGED script, faulted => faulted',
           Sourced' /\ at \notin Locals => dirs'[at][dir] >= since,
           c \in {"postgres", "wait"} => at = plan.head,
           c = "wait" \/ (c = "up" /\ at = plan.head) =>
               containers'[at]["postgres"] >= since,
           ~faulted' =>
               /\ c \in {"postgres", "wait", "up"} =>
                     \A s \in Services \ Role(at) : containers'[at][s] = 0
               /\ c = "ports" => \A s \in Services : containers'[at][s] = 0
    PROVE  Standing'
  <1> USE DEF IInv
  <1>1. pc' = c /\ UNCHANGED <<todo, at, result>> /\ pc # "idle" /\ pc' # "check"
    BY DEF Then, Turn, Commands
  <1>2. UNCHANGED <<plan, dir, unchecked, since, before>>
    BY DEF script
  <1>3. Turn' /\ Handled' = Handled /\ at \notin Handled /\ \A h : Role(h)' = Role(h)
    BY <1>1, <1>2 DEF Turn, Handled, Role
  <1>4. \A h \in Handled : h \in Hosts /\ h # at
    BY <1>3, DeployAssumption DEF Handled, TypeOK, Targets
  <1>5. Progress'
    BY <1>1, <1>2 DEF Progress, Turn, Commands
  <1>6. HandledDeployed'
    BY <1>1, <1>2, <1>3, <1>4 DEF HandledDeployed, OnlyHere
  <1>7. HandledAlone'
    BY <1>1, <1>2, <1>3, <1>4 DEF HandledAlone, OnlyHere
  <1>8. RerunRepairs' /\ Untouched'
    BY <1>1, <1>2 DEF RerunRepairs, Untouched, Progress
  <1>9. LostHere'
    BY <1>1, <1>2, <1>3 DEF LostHere, Lost, OnlyHere
  <1> QED BY <1>5, <1>6, <1>7, <1>8, <1>9 DEF Standing

(* The end of a turn, or of the check: the target behind runs its role.    *)
LEMMA GoToNext ==
    ASSUME IInv, NextTarget, OnlyHere, UNCHANGED script, unchecked = {},
           faulted' = faulted,
           \/ pc = "check" /\ containers' = containers
           \/ /\ Turn
              /\ \A s \in Role(at) : containers'[at][s] >= since
              /\ ~faulted => \A s \in Services \ Role(at) : containers'[at][s] = 0
    PROVE  Standing'
  <1> USE DEF IInv
  <1>1. \/ todo = {} /\ todo' = {} /\ at' = at /\ pc' = "idle" /\ result' = "ok"
        \/ /\ at' \in todo /\ todo' = todo \ {at'}
           /\ pc' \in {"stop", "cleanup"} /\ result' = result
           /\ pc' = "stop" => at' \in Locals
    BY NextTargetType
  <1>2. UNCHANGED <<plan, dir, unchecked, since, before>> /\ since \in Nat \ {0}
    BY DEF script, TypeOK, Versions
  <1>3. result = "running" /\ \A h : Role(h)' = Role(h)
    BY <1>2 DEF Progress, Turn, Commands, Role
  <1>4. Handled' \subseteq Handled \cup (IF Turn THEN {at} ELSE {})
    BY <1>1, <1>2 DEF Handled, Turn, Commands, TypeOK
  <1>5. \A h \in Handled : h \in Hosts /\ (pc = "check" \/ h # at)
    BY DeployAssumption DEF Handled, TypeOK, Targets, Turn, Commands
  <1>6. Progress'
    BY <1>1, <1>2, <1>3 DEF Progress, Turn, Commands, Sourced, TypeOK
  <1>7. HandledDeployed'
    <2> SUFFICES ASSUME NEW h \in Handled', NEW s \in Role(h)
                 PROVE  containers'[h][s] >= since
      BY <1>2, <1>3 DEF HandledDeployed
    <2>1. CASE h \in Handled
      BY <1>3, <1>5, <2>1 DEF HandledDeployed, OnlyHere
    <2>2. CASE Turn /\ h = at
      BY <2>2 DEF Turn, Commands
    <2> QED BY <1>4, <2>1, <2>2
  <1>8. HandledAlone'
    <2> SUFFICES ASSUME ~faulted, NEW h \in Handled', NEW s \in Services \ Role(h)
                 PROVE  containers'[h][s] = 0
      BY <1>1, <1>3 DEF HandledAlone
    <2>1. CASE h \in Handled
      BY <1>3, <1>5, <2>1 DEF HandledAlone, OnlyHere
    <2>2. CASE Turn /\ h = at
      BY <2>2 DEF Turn, Commands
    <2> QED BY <1>4, <2>1, <2>2
  <1>9. RerunRepairs' /\ Untouched'
    BY <1>1, <1>2, <1>3 DEF RerunRepairs, Untouched
  <1>10. LostHere'
    <2> SUFFICES ASSUME NEW h \in Hosts, Lost(h)' PROVE FALSE
      BY DEF LostHere
    <2>1. PICK s \in Role(h) : before[h][s] # 0 /\ containers'[h][s] = 0
      BY <1>2, <1>3 DEF Lost
    <2>2. CASE pc = "check"
      BY <2>1, <2>2 DEF Untouched, Turn, Commands
    <2>3. CASE Turn /\ h = at
      BY <1>2, <2>1, <2>3 DEF Turn, Commands
    <2>4. CASE Turn /\ h # at
      BY <2>1, <2>4 DEF LostHere, Lost, OnlyHere
    <2> QED BY <2>2, <2>3, <2>4
  <1> QED BY <1>6, <1>7, <1>8, <1>9, <1>10 DEF Standing

-----------------------------------------------------------------------------
LEMMA InvInit == Init => IInv
  <1> SUFFICES ASSUME Init PROVE IInv
    OBVIOUS
  <1>1. TypeOK
    BY TypeInit
  <1>2. Progress
    BY DEF Init, Progress, Turn, Commands, Sourced
  <1>3. HandledDeployed /\ RerunRepairs /\ Untouched
    BY DEF Init, HandledDeployed, RerunRepairs, Untouched
  <1>4. HandledAlone
    BY DEF Init, HandledAlone
  <1>5. LostHere
    BY DEF Init, LostHere, Lost
  <1> QED BY <1>1, <1>2, <1>3, <1>4, <1>5 DEF IInv

LEMMA InvStep ==
    ASSUME IInv, [Next]_vars
    PROVE  IInv'
  <1> TypeOK'
    BY TypeStep DEF IInv
  <1> SUFFICES Standing'
    BY DEF IInv, Standing
  <1> USE DEF IInv
  <1>1. CASE EditTree
    BY <1>1 DEF EditTree, world, script, Standing, Progress, Turn, Handled, Sourced,
       HandledDeployed, HandledAlone, RerunRepairs, Untouched, LostHere, Lost, Role
  <1>2. CASE Start
    <2>1. /\ pc' = "check" /\ result' = "running" /\ ~faulted'
          /\ todo' = Targets(plan') /\ before' = containers /\ UNCHANGED <<containers, at>>
      BY <1>2 DEF Start, world
    <2>2. Handled' = {}
      BY <2>1 DEF Handled
    <2>3. Progress'
      BY <2>1 DEF Progress, Turn, Commands, Sourced
    <2>4. HandledDeployed' /\ HandledAlone'
      BY <2>1, <2>2 DEF HandledDeployed, HandledAlone
    <2>5. RerunRepairs' /\ Untouched' /\ LostHere'
      BY <2>1 DEF RerunRepairs, Untouched, LostHere, Lost
    <2> QED BY <2>3, <2>4, <2>5 DEF Standing
  <1>3. CASE VerifySsh
    <2>1. pc = "check" /\ UNCHANGED <<local, world, plan, dir, since, before, runs>>
      BY <1>3 DEF VerifySsh
    <2>2. OnlyHere /\ UNCHANGED <<containers, plan, dir, since, before>>
      BY <2>1 DEF OnlyHere, world
    <2>3. CASE Break /\ UNCHANGED unchecked
      BY <2>1, <2>2, <2>3, GiveUp DEF Break, Fault
    <2>4. CASE unchecked = {} /\ NextTarget /\ NoFault /\ UNCHANGED unchecked
      BY <2>1, <2>2, <2>4, GoToNext DEF NoFault, script
    <2>5. CASE Then("check") /\ NoFault
      BY <2>1, <2>2, <2>5 DEF Then, NoFault, Standing, Progress, Turn, Commands, Handled,
         Sourced, HandledDeployed, HandledAlone, RerunRepairs, Untouched, LostHere, Lost, Role
    <2> QED BY <1>3, <2>3, <2>4, <2>5 DEF VerifySsh
  <1>4. ASSUME Turn, Break, OnlyHere, UNCHANGED script PROVE Standing'
    BY <1>4, GiveUp DEF Break, Fault, script, Turn, Commands
  <1>5. (\E kept \in SUBSET Services : SetContainers(Kept(kept))) => OnlyHere
    BY KeptType, SetContainersType DEF OnlyHere
  <1>6. containers' = containers => OnlyHere
    BY DEF OnlyHere
  <1>7. Sourced => \A S : SetContainers(Started(S)) =>
                              OnlyHere /\ containers'[at] = Started(S)
    BY StartedType, SetContainersType DEF OnlyHere
  <1>8. CASE Cleanup
    <2>1. Turn /\ UNCHANGED script
      BY <1>8 DEF Cleanup, Turn, Commands
    <2>2. CASE Break
      BY <1>4, <1>5, <1>8, <2>1, <2>2 DEF Cleanup, Break, Stop, Hang, Then
    <2>3. CASE Then("copy")
      <3>1. OnlyHere /\ (faulted => faulted')
        BY <1>6, <1>8, <2>3, DownType DEF Cleanup, OnlyHere, NoFault, Then, Break, Stop, Hang
      <3> QED BY <2>1, <2>3, <3>1, GoOn DEF Then, Commands, Sourced
    <2> QED BY <1>8, <2>2, <2>3 DEF Cleanup
  <1>9. CASE Copy
    <2>1. Turn /\ UNCHANGED script /\ OnlyHere
      BY <1>6, <1>9 DEF Copy, Turn, Commands
    <2>2. CASE Break
      BY <1>4, <2>1, <2>2
    <2>3. CASE SetDir(tree) /\ Then("stop") /\ NoFault
      <3>1. tree \in {Part, Nothing} \cup Versions /\ tree >= since
        BY DEF TypeOK, Versions
      <3>2. dirs'[at][dir] = tree
        BY <2>3, <3>1, SetDirType
      <3> QED BY <2>1, <2>3, <3>1, <3>2, GoOn DEF Commands, NoFault
    <2> QED BY <1>9, <2>2, <2>3 DEF Copy
  <1>10. CASE StopServices
    <2>1. Turn /\ Sourced /\ UNCHANGED script /\ dirs' = dirs
      BY <1>10 DEF StopServices, Turn, Commands, Sourced
    <2>2. CASE Break
      BY <1>4, <1>5, <1>10, <2>1, <2>2 DEF StopServices, Break, Stop, Hang, Then
    <2>3. CASE Down /\ Then("ports")
      <3>1. /\ OnlyHere
            /\ faulted => faulted'
            /\ ~faulted' => \A s \in Services : containers'[at][s] = 0
        BY <2>3, DownType DEF OnlyHere, NoContainer
      <3>2. at \notin Locals => dirs'[at][dir] >= since
        BY <2>1 DEF Progress
      <3> QED BY <2>1, <2>3, <3>1, <3>2, GoOn DEF Commands
    <2> QED BY <1>10, <2>2, <2>3 DEF StopServices
  <1>11. CASE CheckPorts
    <2>1. Turn /\ Sourced /\ UNCHANGED script /\ UNCHANGED world /\ pc = "ports" /\ OnlyHere
      BY <1>6, <1>11 DEF CheckPorts, Turn, Commands, Sourced, world
    <2>2. CASE Break
      BY <1>4, <2>1, <2>2
    <2>3. CASE (\E s \in Role(at) : containers[at][s] # 0) /\ Stop /\ NoFault
      <3>1. faulted
        BY <2>1, <2>3 DEF HandledAlone, Role, Services
      <3> QED BY <2>1, <2>3, <3>1, GiveUp DEF NoFault, script
    <2>4. CASE Then(IF at = plan.head THEN "postgres" ELSE "up") /\ NoFault
      <3>1. at \notin Locals => dirs'[at][dir] >= since
        BY <2>1 DEF Progress, world
      <3>2. ~faulted => \A s \in Services : containers'[at][s] = 0
        BY <2>1 DEF HandledAlone, world
      <3>3. CASE at = plan.head
        BY <2>1, <2>4, <3>1, <3>2, <3>3, GoOn DEF Commands, NoFault
      <3>4. CASE at # plan.head
        BY <2>1, <2>4, <3>1, <3>2, <3>4, GoOn DEF Commands, NoFault
      <3> QED BY <3>3, <3>4
    <2> QED BY <1>11, <2>2, <2>3, <2>4 DEF CheckPorts
  <1>12. CASE StartPostgres
    <2>1. Turn /\ Sourced /\ UNCHANGED script /\ dirs' = dirs /\ pc = "postgres"
          /\ at = plan.head /\ OnlyHere
      BY <1>7, <1>12 DEF StartPostgres, Turn, Commands, Sourced, Progress
    <2>2. CASE Break
      BY <1>4, <2>1, <2>2
    <2>3. CASE SetContainers(Started({"postgres"})) /\ Then("wait") /\ NoFault
      <3>1. containers'[at]["postgres"] >= since
            /\ (at \notin Locals => dirs'[at][dir] >= since)
        BY <1>7, <2>1, <2>3, StartedType DEF Started, Services, Progress
      <3>2. ~faulted => \A s \in Services \ Role(at) : containers'[at][s] = 0
        BY <2>1 DEF Role
      <3> QED BY <2>1, <2>3, <3>1, <3>2, GoOn DEF Commands, NoFault
    <2> QED BY <1>12, <2>2, <2>3 DEF StartPostgres
  <1>13. CASE WaitHealthy
    <2>1. Turn /\ Sourced /\ UNCHANGED script /\ UNCHANGED world /\ pc = "wait" /\ OnlyHere
      BY <1>6, <1>13 DEF WaitHealthy, Turn, Commands, Sourced, world
    <2>2. CASE Break
      BY <1>4, <2>1, <2>2
    <2>3. CASE Then("up") /\ NoFault
      <3>1. containers'[at]["postgres"] >= since
            /\ (at \notin Locals => dirs'[at][dir] >= since)
        BY <2>1 DEF world, Progress
      <3>2. ~faulted => \A s \in Services \ Role(at) : containers'[at][s] = 0
        BY <2>1 DEF HandledAlone, world
      <3> QED BY <2>1, <2>3, <3>1, <3>2, GoOn DEF Commands, NoFault
    <2> QED BY <1>13, <2>2, <2>3 DEF WaitHealthy
  <1>14. CASE StartRole
    <2>1. Turn /\ Sourced /\ UNCHANGED script /\ pc = "up" /\ OnlyHere /\ unchecked = {}
      BY <1>7, <1>14 DEF StartRole, Turn, Commands, Sourced, Progress
    <2>2. CASE Break
      BY <1>4, <2>1, <2>2
    <2>3. CASE SetContainers(Started(Role(at) \ {"postgres"})) /\ NextTarget /\ NoFault
      <3>1. containers'[at] = Started(Role(at) \ {"postgres"}) /\ Source >= since
        BY <1>7, <2>1, <2>3, StartedType
      <3>2. \A s \in Role(at) : containers'[at][s] >= since
        BY <2>1, <3>1 DEF Started, Role, Services, Progress
      <3>3. ~faulted => \A s \in Services \ Role(at) : containers'[at][s] = 0
        BY <2>1, <3>1 DEF Started, HandledAlone
      <3> QED BY <2>1, <2>3, <3>2, <3>3, GoToNext DEF NoFault
    <2> QED BY <1>14, <2>2, <2>3 DEF StartRole
  <1>15. CASE UNCHANGED vars
    BY <1>15 DEF vars, local, world, script, Standing, Progress, Turn, Handled, Sourced,
       HandledDeployed, HandledAlone, RerunRepairs, Untouched, LostHere, Lost, Role
  <1>16. CASE Interrupt
    <2>1. /\ pc = "hung" /\ pc' = "idle" /\ result' = "failed" /\ UNCHANGED <<todo, at>>
          /\ UNCHANGED <<containers, dirs, faulted, local, script>>
      BY <1>16 DEF Interrupt, Stop, world
    <2>2. faulted /\ result = "hung"
      BY <2>1 DEF Progress
    <2>3. Progress' /\ HandledDeployed' /\ RerunRepairs'
      BY <2>1, <2>2 DEF Progress, Turn, Commands, Sourced, HandledDeployed, RerunRepairs
    <2>4. HandledAlone' /\ Untouched' /\ LostHere'
      BY <2>1, <2>2 DEF HandledAlone, Untouched, LostHere, Lost, Role, script
    <2> QED BY <2>3, <2>4 DEF Standing
  <1> QED
    BY <1>1, <1>2, <1>3, <1>8, <1>9, <1>10, <1>11, <1>12, <1>13, <1>14, <1>15, <1>16
       DEF Next, Step

LEMMA Invariant == Spec => []IInv
  BY InvInit, InvStep, PTL DEF Spec

-----------------------------------------------------------------------------
(* Every variable keeps its type; in particular no container ever runs     *)
(* from an empty directory or from part of a tree.                         *)
THEOREM DeployTypeCorrect == Spec => []TypeOK
  <1>1. IInv => TypeOK
    BY DEF IInv
  <1> QED BY <1>1, Invariant, PTL

(* A run that ends well leaves every target with its role, from a tree no  *)
(* older than the run.                                                     *)
THEOREM TargetsDeployed == Spec => []RoleDeployed
  <1>1. IInv => RoleDeployed
    <2> SUFFICES ASSUME IInv, result = "ok" PROVE Handled = Targets(plan)
      BY DEF IInv, HandledDeployed, RoleDeployed
    <2> QED BY DEF IInv, Progress, Handled, Turn, Commands
  <1> QED BY <1>1, Invariant, PTL

(* A run without a failure ends the services of former roles as well.      *)
THEOREM FormerRolesEnd == Spec => []OldRoleStopped
  <1>1. IInv => OldRoleStopped
    <2> SUFFICES ASSUME IInv, result = "ok" PROVE Handled = Targets(plan)
      BY DEF IInv, HandledAlone, OldRoleStopped
    <2> QED BY DEF IInv, Progress, Handled, Turn, Commands
  <1> QED BY <1>1, Invariant, PTL

(* Whatever failed runs leave, a run whose commands succeed ends well.     *)
THEOREM RunsRepair == Spec => []RerunRepairs
  <1>1. IInv => RerunRepairs
    BY DEF IInv
  <1> QED BY <1>1, Invariant, PTL

(* No host is touched before the last target's SSH access is verified.     *)
THEOREM CheckedFirst == Spec => []NothingTouchedUnchecked
  <1>1. IInv => NothingTouchedUnchecked
    BY DEF IInv, Untouched, NothingTouchedUnchecked
  <1> QED BY <1>1, Invariant, PTL

(* At most one host is without services that ran there before the run.     *)
THEOREM OneHostAtATime == Spec => []OneHostDown
  <1>1. IInv => OneHostDown
    BY DEF IInv, LostHere, OneHostDown
  <1> QED BY <1>1, Invariant, PTL
=============================================================================
