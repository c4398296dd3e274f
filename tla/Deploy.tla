------------------------------- MODULE Deploy -------------------------------
(***************************************************************************)
(* deploy.py: one run after another installs a topology.  A run checks SSH *)
(* to every remote target and then, host after host in the order of their  *)
(* addresses, stops the old containers, replaces the application directory *)
(* and starts the services of the host's role.  The first command that     *)
(* fails ends the run, and an operator may start another, with another     *)
(* configuration, from an edited tree or into another directory.           *)
(*                                                                         *)
(* External: SSH, tar and Docker Compose.  A command that fails may have   *)
(* done part of its work; when it is over it changes nothing more.  It may *)
(* also never return: subprocess.run has no time-out here, and SSH, once   *)
(* connected, waits for a peer that is gone.                               *)
(***************************************************************************)
EXTENDS Integers

CONSTANTS
    Hosts,          \* addresses, in their order
    Locals,         \* the addresses of the machine deploy.py runs on
    Blind,          \* hosts with neither ss nor netstat
    Dirs,           \* the values of --remote-dir
    Topologies,     \* the topologies of configuration files
    OtherConfig,    \* may --config name a file that is not the tree's own?
    MaxRuns, MaxFaults, MaxEdits

Services == {"postgres", "head", "minion"}
Commands == {"cleanup", "copy", "stop", "ports", "postgres", "wait", "up"}

ASSUME DeployAssumption ==
    /\ Hosts \subseteq Nat /\ Locals \subseteq Hosts /\ Blind \subseteq Hosts
    /\ Topologies \subseteq [head: Hosts, minions: SUBSET Hosts]
    /\ OtherConfig \in BOOLEAN
    /\ MaxRuns \in Nat /\ MaxFaults \in Nat /\ MaxEdits \in Nat

(* Contents of an application directory: a version of the tree, or nothing *)
(* (not there, or empty), or part of a tree.                               *)
Nothing == 0
Part == -1

VARIABLES
    tree,           \* version of the local tree
    configs,        \* the topology in the config.yml of each version
    dirs,           \* what each directory of each host holds
    containers,     \* version each service runs on each host, 0: none
    pc,             \* "idle", "check", the command being run, or "hung"
    plan,           \* the validated topology
    dir,            \* --remote-dir
    unchecked,      \* targets whose SSH access is still to be verified
    todo,           \* targets whose turn is still to come
    at,             \* the target whose turn it is
    result,         \* of the last run
    since,          \* version of the tree when the run started
    before,         \* the containers when the run started
    faulted,        \* did a command fail in this run?
    runs, faults

local  == <<tree, configs>>
world  == <<dirs, containers>>
script == <<plan, dir, unchecked, since, before, runs>>
vars == <<local, world, script, pc, todo, at, result, faulted, faults>>

Versions == 1..tree
Targets(t) == {t.head} \cup t.minions
Role(h) == IF h = plan.head THEN Services ELSE {"minion"}
NoContainer == [s \in Services |-> 0]

Init ==
    /\ tree = 1 /\ configs \in [{1} -> Topologies]
    /\ dirs = [h \in Hosts |-> [d \in Dirs |-> Nothing]]
    /\ containers = [h \in Hosts |-> NoContainer]
    /\ pc = "idle" /\ result = "none"
    /\ plan = configs[1] /\ dir \in Dirs
    /\ unchecked = {} /\ todo = {} /\ at = plan.head
    /\ since = 1 /\ before = containers
    /\ faulted = FALSE /\ runs = 0 /\ faults = 0

-----------------------------------------------------------------------------
(* The operator. *)

EditTree ==
    /\ tree < 1 + MaxEdits
    /\ tree' = tree + 1
    /\ \E t \in Topologies :
          configs' = [v \in 1..tree' |-> IF v = tree' THEN t ELSE configs[v]]
    /\ UNCHANGED <<world, script, pc, todo, at, result, faulted, faults>>

(* main() to the SSH check: every argument is validated before.            *)
Start ==
    /\ pc = "idle" /\ runs < MaxRuns
    /\ plan' \in IF OtherConfig THEN Topologies ELSE {configs[tree]}
    /\ dir' \in Dirs
    /\ unchecked' = Targets(plan') \ Locals
    /\ todo' = Targets(plan')
    /\ pc' = "check" /\ result' = "running"
    /\ since' = tree /\ before' = containers
    /\ faulted' = FALSE /\ runs' = runs + 1
    /\ UNCHANGED <<local, world, at, faults>>

-----------------------------------------------------------------------------
(* Going on, and giving up. *)

Fault ==
    /\ faults < MaxFaults
    /\ faults' = faults + 1 /\ faulted' = TRUE

NoFault == UNCHANGED <<faults, faulted>>

Then(command) == pc' = command /\ UNCHANGED <<todo, at, result>>

First(S) == {h \in S : \A g \in S : h <= g}

(* The loop of main(): the next target, or the end.                        *)
NextTarget ==
    \/ /\ todo = {}
       /\ pc' = "idle" /\ result' = "ok"
       /\ UNCHANGED <<todo, at>>
    \/ /\ \E h \in First(todo) :
             /\ at' = h /\ todo' = todo \ {h}
             /\ pc' = IF h \in Locals THEN "stop" ELSE "cleanup"
       /\ UNCHANGED result

(* A mistake: the loop goes on with the next target after a failure.       *)
StopGoingOn == NextTarget

(* run() and ssh() raise: nothing catches it and the script ends.          *)
Stop == pc' = "idle" /\ result' = "failed" /\ UNCHANGED <<todo, at>>

(* The command never returns, and the script waits for it.                 *)
Hang == pc' = "hung" /\ result' = "hung" /\ UNCHANGED <<todo, at>>

Break == Fault /\ (Stop \/ Hang)

(* The operator's Ctrl-C, which nothing obliges the operator to.           *)
Interrupt ==
    /\ pc = "hung"
    /\ Stop
    /\ UNCHANGED <<local, world, script, faulted, faults>>

-----------------------------------------------------------------------------
(* The SSH check. *)

VerifySsh ==
    /\ pc = "check"
    /\ \/ /\ unchecked # {}
          /\ \E h \in First(unchecked) :
                \/ unchecked' = unchecked \ {h} /\ Then("check") /\ NoFault
                \/ Break /\ UNCHANGED unchecked
       \/ /\ unchecked = {}
          /\ NextTarget /\ NoFault
          /\ UNCHANGED unchecked
    /\ UNCHANGED <<local, world, plan, dir, since, before, runs>>

-----------------------------------------------------------------------------
(* The commands on the target at hand. *)

SetContainers(c) == containers' = [containers EXCEPT ![at] = c]
SetDir(v) == dirs' = [dirs EXCEPT ![at] = [@ EXCEPT ![dir] = v]]
Kept(kept) == [s \in Services |-> IF s \in kept THEN containers[at][s] ELSE 0]

(* A mistake: without --remove-orphans the services of a former role, in   *)
(* another file, keep running.                                             *)
DownOwn ==
    \/ SetContainers(Kept(Services \ Role(at))) /\ NoFault
    \/ Fault /\ \E kept \in SUBSET Services : SetContainers(Kept(kept))

(* docker compose down --remove-orphans || true: stops the services of all *)
(* roles, for they share the project's name; its failure is ignored.       *)
Down ==
    \/ SetContainers(NoContainer) /\ NoFault
    \/ Fault /\ \E kept \in SUBSET Services : SetContainers(Kept(kept))

(* remote_cleanup: down with the Compose files that are in the directory,  *)
(* then an empty directory.                                                *)
Cleanup ==
    /\ pc = "cleanup"
    /\ \/ /\ \/ dirs[at][dir] # Nothing /\ Down
             \/ dirs[at][dir] \in {Nothing, Part} /\ NoFault /\ UNCHANGED containers
          /\ SetDir(Nothing) /\ Then("copy")
       \/ /\ Break
          /\ \E kept \in SUBSET Services : SetContainers(Kept(kept))
          /\ \E v \in {dirs[at][dir], Part, Nothing} : SetDir(v)
    /\ UNCHANGED <<local, script>>

(* A mistake: the return codes of tar and of ssh are not looked at.        *)
CopyUnchecked ==
    /\ pc = "copy"
    /\ \/ SetDir(tree) /\ NoFault
       \/ Fault /\ \E v \in {Nothing, Part} : SetDir(v)
    /\ Then("stop")
    /\ UNCHANGED <<local, containers, script>>

(* copy_tree. *)
Copy ==
    /\ pc = "copy"
    /\ \/ SetDir(tree) /\ Then("stop") /\ NoFault
       \/ /\ Break
          /\ \E v \in {Nothing, Part} : SetDir(v)
    /\ UNCHANGED <<local, containers, script>>

(* A mistake: compose_command relies on remote_cleanup to stop services.   *)
StopServicesSkipped ==
    /\ pc = "stop"
    /\ Then("ports") /\ NoFault
    /\ UNCHANGED <<local, world, script>>

(* compose_command, from here to StartRole: what deploy_host sends over    *)
(* SSH and deploy_local_host runs in the tree itself.                      *)
StopServices ==
    /\ pc = "stop"
    /\ \/ Down /\ Then("ports")
       \/ /\ Break
          /\ \E kept \in SUBSET Services : SetContainers(Kept(kept))
    /\ UNCHANGED <<local, dirs, script>>

(* ensure_port_free: a service of the role that still runs has its port,   *)
(* and so may a process that is none of ours.  Without a tool that lists   *)
(* ports nothing is found.                                                 *)
CheckPorts ==
    /\ pc = "ports"
    /\ \/ /\ at \in Blind \/ \A s \in Role(at) : containers[at][s] = 0
          /\ Then(IF at = plan.head THEN "postgres" ELSE "up") /\ NoFault
       \/ /\ at \notin Blind /\ \E s \in Role(at) : containers[at][s] # 0
          /\ Stop /\ NoFault
       \/ Break
    /\ UNCHANGED <<local, world, script>>

Source == IF at \in Locals THEN tree ELSE dirs[at][dir]
Started(S) == [s \in Services |-> IF s \in S THEN Source ELSE containers[at][s]]

StartPostgres ==
    /\ pc = "postgres"
    /\ \/ SetContainers(Started({"postgres"})) /\ Then("wait") /\ NoFault
       \/ /\ Break
          /\ \E S \in SUBSET {"postgres"} : SetContainers(Started(S))
    /\ UNCHANGED <<local, dirs, script>>

(* A mistake: no deadline, and an unhealthy PostgreSQL is waited for.      *)
WaitHealthyForEver ==
    /\ pc = "wait"
    /\ \/ faulted /\ Then("wait") /\ NoFault
       \/ ~faulted /\ Then("up") /\ NoFault
       \/ Fault /\ Then("wait")
    /\ UNCHANGED <<local, world, script>>

(* wait_healthy: PostgreSQL becomes healthy, or has exited, or the         *)
(* deadline has passed.                                                    *)
WaitHealthy ==
    /\ pc = "wait"
    /\ \/ Then("up") /\ NoFault
       \/ Break
    /\ UNCHANGED <<local, world, script>>

(* docker compose up -d --build of the role, and the end of the turn.      *)
StartRole ==
    /\ pc = "up"
    /\ LET wanted == Role(at) \ {"postgres"} IN
       \/ SetContainers(Started(wanted)) /\ NextTarget /\ NoFault
       \/ /\ Break
          /\ \E S \in SUBSET wanted : SetContainers(Started(S))
    /\ UNCHANGED <<local, dirs, script>>

Step ==
    \/ VerifySsh \/ Cleanup \/ Copy \/ StopServices \/ CheckPorts
    \/ StartPostgres \/ WaitHealthy \/ StartRole

Next == EditTree \/ Start \/ Interrupt \/ Step

Spec == Init /\ [][Next]_vars

(* The operating system runs the script; a command that does not end is    *)
(* not a step that is awaited but one that hangs.                          *)
FairSpec == Spec /\ WF_vars(Step)

-----------------------------------------------------------------------------
(* Properties. *)

TypeOK ==
    /\ tree \in Nat \ {0} /\ configs \in [Versions -> Topologies]
    /\ dirs \in [Hosts -> [Dirs -> {Part, Nothing} \cup Versions]]
    /\ containers \in [Hosts -> [Services -> {0} \cup Versions]]
    /\ pc \in {"idle", "check", "hung"} \cup Commands
    /\ plan \in Topologies /\ dir \in Dirs
    /\ unchecked \subseteq Targets(plan) \ Locals
    /\ todo \subseteq Targets(plan) /\ at \in Hosts
    /\ result \in {"none", "running", "ok", "failed", "hung"}
    /\ since \in Versions
    /\ before \in [Hosts -> [Services -> {0} \cup Versions]]
    /\ faulted \in BOOLEAN /\ runs \in Nat /\ faults \in Nat

(* A run that ends well leaves every target running each service of its    *)
(* role, from a whole tree no older than the one the run started with,     *)
(* whatever earlier runs left there, and though a failing down is ignored. *)
RoleDeployed ==
    result = "ok" =>
        \A h \in Targets(plan) : \A s \in Role(h) : containers[h][s] >= since

(* "Other topology hosts run only a minion" (README.md:12): a run without  *)
(* any failure also ends the services of a target's former role, started   *)
(* from another directory or by another Compose file.  With the failure of *)
(* a down, which is ignored, an old head and its database may stay.        *)
OldRoleStopped ==
    result = "ok" /\ ~faulted =>
        \A h \in Targets(plan) : \A s \in Services \ Role(h) : containers[h][s] = 0

(* A run whose every command succeeds ends well: nothing an earlier failed *)
(* run left (part of a tree, an empty directory, some of the services, the *)
(* services of another role) makes a later one give up.                    *)
RerunRepairs == result = "failed" => faulted

(* A failed SSH check leaves every host as it was, and so does a run until *)
(* the last target is verified ("Checking SSH access before touching any   *)
(* host").                                                                 *)
NothingTouchedUnchecked == unchecked # {} => containers = before

(* However a run goes, services that ran before it and belong to the new   *)
(* topology are missing on one host at most: the run takes down a host     *)
(* only after the one before is up, and goes no further after a failure.   *)
Lost(h) == \E s \in Role(h) : before[h][s] # 0 /\ containers[h][s] = 0
OneHostDown == \A g, h \in Hosts : Lost(g) /\ Lost(h) => g = h

(* Only a command that never returns keeps a run from ending: the loop of  *)
(* wait_healthy does not, however long the database is unhealthy, nor does *)
(* the loop over the targets.                                              *)
RunEnds == pc \notin {"idle", "hung"} ~> pc \in {"idle", "hung"}

(* NOT a property of the code (README, known deviations).  "topology config*)
(* to validate and copy to each target" (deploy.py:412): after a good run  *)
(* the targets' services have the validated topology.  False with --config.*)
ConfigDeployed ==
    result = "ok" /\ pc = "idle" =>
        \A h \in Targets(plan) : \A s \in Role(h) :
            \E v \in since..containers[h][s] : configs[v] = plan
=============================================================================
