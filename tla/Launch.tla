------------------------------- MODULE Launch -------------------------------
(***************************************************************************)
(* Bringing one bridge-networked container up, and taking it down again:   *)
(* supervisor::launch with network::setup_host, the rollback stack of      *)
(* src/rollback.rs, and supervisor::teardown.                              *)
(*                                                                         *)
(* Every step may fail (a system call, iptables, a fault point, the init   *)
(* process dying); the stack then runs its undo actions last in first out, *)
(* and an undo that fails is logged and skipped.  The bridge and the base  *)
(* NAT rules are shared by all containers and are not part of a launch.    *)
(***************************************************************************)
EXTENDS Naturals, Sequences

CONSTANTS Leftovers,      \* what a crashed earlier run with this id may have left
          Publishes,      \* does the configuration publish ports?
          PublishBreaks,  \* may iptables fail after some rules were added?
          UndoFails,      \* may an undo primitive fail?
          CgroupWanted    \* does the configuration set resource limits?

Resource == {"cgroup", "lease", "veth", "rules"}

(* What an undo action or the teardown removes one at a time.              *)
Primitive == Resource \cup {"process"}

(* The names under which undo actions are registered.                      *)
Undos == {"cgroup", "container process", "ip lease", "veth pair",
          "iptables rules", "container network"}

ASSUME LaunchAssumption ==
  /\ Leftovers \subseteq {"cgroup", "lease", "veth"}
  /\ {Publishes, PublishBreaks, UndoFails, CgroupWanted} \subseteq BOOLEAN

VARIABLES
  pc,       \* the next step of launch, or where it ended
  host,     \* the container's resources that exist on the host
  before,   \* the ones that existed when launch began
  child,    \* init: "none", "alive", "dead"
  chan,     \* is the supervisor's end of the handshake channel open?
  stack,    \* Rollback.actions
  todo,     \* the primitives left of the undo action or teardown under way
  refused   \* resources whose latest removal failed

vars == <<pc, host, before, child, chan, stack, todo, refused>>

Init ==
  /\ pc = "cgroup"
  /\ host \in SUBSET Leftovers /\ before = host
  /\ child = "none" /\ chan = FALSE
  /\ stack = << >> /\ todo = << >> /\ refused = {}

-----------------------------------------------------------------------------
(* Steps of launch.                                                        *)

Advance(from, to) == pc = from /\ pc' = to

(* Variant: the channel outlives the failed launch.                        *)
FailKeepsChannel(from) == pc = from /\ pc' = "unwind" /\ UNCHANGED chan

(* The `?` of a failing step drops the Rollback and the channel.           *)
Fail(from) == pc = from /\ pc' = "unwind" /\ chan' = FALSE

Register(name) == stack' = Append(stack, name)

(* Cgroup::create removes an empty leftover first, and cleans up itself    *)
(* when applying the limits fails.                                         *)
CreateCgroup ==
  /\ Advance("cgroup", "clone")
  /\ host' = host \cup {"cgroup"}
  /\ Register("cgroup")
  /\ UNCHANGED <<before, child, chan, todo, refused>>

CreateCgroupFails ==
  /\ Fail("cgroup")
  /\ host' \in {host, host \ {"cgroup"}}
  /\ UNCHANGED <<before, child, stack, todo, refused>>

(* No cgroup v2 hierarchy, and no limits asked for: go on without one.     *)
RunWithoutCgroup ==
  /\ ~CgroupWanted
  /\ "cgroup" \notin host
  /\ Advance("cgroup", "clone")
  /\ UNCHANGED <<host, before, child, chan, stack, todo, refused>>

(* The memfd, the socket pair and the exec plan, then clone3.              *)
CloneChild ==
  /\ Advance("clone", "cloned")
  /\ child' = "alive" /\ chan' = TRUE
  /\ UNCHANGED <<host, before, stack, todo, refused>>

CloneFails == Fail("clone") /\ UNCHANGED <<host, before, child, stack, todo, refused>>

RegisterChild ==
  /\ Advance("cloned", "ready")
  /\ Register("container process")
  /\ UNCHANGED <<host, before, child, chan, todo, refused>>

(* The fault point between clone and the registration of the child.        *)
FaultAfterClone == Fail("cloned") /\ UNCHANGED <<host, before, child, stack, todo, refused>>

(* add_pid, then READY from the child.                                     *)
AwaitReady ==
  /\ Advance("ready", "lease")
  /\ child = "alive"
  /\ UNCHANGED <<host, before, child, chan, stack, todo, refused>>

AllocateLease ==
  /\ Advance("lease", "veth")
  /\ host' = host \cup {"lease"}
  /\ Register("ip lease")
  /\ UNCHANGED <<before, child, chan, todo, refused>>

(* A stale host end is deleted before the pair is created.                 *)
CreateVeth ==
  /\ Advance("veth", "attach")
  /\ host' = host \cup {"veth"}
  /\ Register("veth pair")
  /\ UNCHANGED <<before, child, chan, todo, refused>>

(* MTU, bridge port, up, move the peer to the child's namespace, base NAT. *)
AttachVeth ==
  /\ Advance("attach", "publish")
  /\ child = "alive"
  /\ UNCHANGED <<host, before, child, chan, stack, todo, refused>>

(* nat::publish for every mapping; the undo is registered only afterwards. *)
PublishPorts ==
  /\ Advance("publish", "network")
  /\ IF Publishes THEN host' = host \cup {"rules"} /\ Register("iptables rules")
                  ELSE UNCHANGED <<host, stack>>
  /\ UNCHANGED <<before, child, chan, todo, refused>>

PublishFails ==
  /\ Fail("publish")
  /\ host' \in {host} \cup (IF Publishes /\ PublishBreaks THEN {host \cup {"rules"}} ELSE {})
  /\ UNCHANGED <<before, child, stack, todo, refused>>

RegisterNetwork ==
  /\ Advance("network", "go")
  /\ Register("container network")
  /\ UNCHANGED <<host, before, child, chan, todo, refused>>

(* netstate.json, GO, STARTED.                                             *)
GoAndStarted ==
  /\ Advance("go", "save")
  /\ child = "alive"
  /\ UNCHANGED <<host, before, child, chan, stack, todo, refused>>

(* Running is saved; Rollback::commit.                                     *)
Commit ==
  /\ Advance("save", "running")
  /\ stack' = << >>
  /\ UNCHANGED <<host, before, child, chan, todo, refused>>

(* A step that changes nothing of its own when it fails.                   *)
StepFails ==
  /\ \E l \in {"ready", "lease", "veth", "attach", "go", "save"} : Fail(l)
  /\ UNCHANGED <<host, before, child, stack, todo, refused>>

-----------------------------------------------------------------------------
(* Removal: an undo action and the teardown are lists of primitives, run   *)
(* in order; a primitive that fails is logged and the list goes on.        *)

(* Variant: the veth is left to the kernel.                                *)
NetworkTeardownWithoutVeth == <<"rules", "lease">>

(* network::teardown takes the address back last.                          *)
NetworkTeardown == <<"rules", "veth", "lease">>

Primitives(name) ==
  CASE name = "container network" -> NetworkTeardown
    [] name = "iptables rules"    -> <<"rules">>
    [] name = "veth pair"         -> <<"veth">>
    [] name = "ip lease"          -> <<"lease">>
    [] name = "container process" -> <<"process">>
    [] name = "cgroup"            -> <<"cgroup">>

(* Rollback::unwind: pop, run, go on whatever came of it.                  *)
Unwind ==
  /\ pc = "unwind" /\ todo = << >> /\ stack # << >>
  /\ todo' = Primitives(stack[Len(stack)])
  /\ stack' = SubSeq(stack, 1, Len(stack) - 1)
  /\ UNCHANGED <<pc, host, before, child, chan, refused>>

Unwound ==
  /\ pc = "unwind" /\ todo = << >> /\ stack = << >>
  /\ pc' = "failed"
  /\ UNCHANGED <<host, before, child, chan, stack, todo, refused>>

(* supervisor::teardown, once the channel read EOF and init was reaped.    *)
Teardown ==
  /\ pc = "running" /\ child = "dead"
  /\ pc' = "teardown" /\ chan' = FALSE
  /\ todo' = <<"cgroup">> \o NetworkTeardown
  /\ UNCHANGED <<host, before, child, stack, refused>>

TornDown ==
  /\ pc = "teardown" /\ todo = << >>
  /\ pc' = "stopped"
  /\ UNCHANGED <<host, before, child, chan, stack, todo, refused>>

(* One primitive.  Killing the child, and removing a cgroup that is busy   *)
(* (cgroup.kill, then retry), end the child.                               *)
RemoveNext ==
  /\ todo # << >>
  /\ LET r == Head(todo)
     IN /\ host' = host \ {r} /\ refused' = refused \ {r}
        /\ child' = IF r = "process" \/ (r = "cgroup" /\ r \in host /\ child = "alive")
                    THEN "dead" ELSE child
  /\ todo' = Tail(todo)
  /\ UNCHANGED <<pc, before, chan, stack>>

(* Variant: the first failure ends the unwinding.                          *)
RemoveFailsAndStops ==
  /\ UndoFails
  /\ todo # << >> /\ Head(todo) \in host
  /\ refused' = refused \cup {Head(todo)}
  /\ todo' = << >> /\ stack' = << >>
  /\ UNCHANGED <<pc, host, before, child, chan>>

RemoveFails ==
  /\ UndoFails
  /\ todo # << >> /\ Head(todo) \in host
  /\ refused' = refused \cup {Head(todo)}
  /\ todo' = Tail(todo)
  /\ UNCHANGED <<pc, host, before, child, chan, stack>>

(* The child dies: of its own, or because the channel it waits on is gone. *)
(* That its end of the veth pair goes with its namespace is left out: it   *)
(* leaves less behind, never more.                                         *)
ChildDies ==
  /\ child = "alive"
  /\ child' = "dead"
  /\ UNCHANGED <<pc, host, before, chan, stack, todo, refused>>

LaunchStep ==
  \/ CreateCgroup \/ CreateCgroupFails \/ RunWithoutCgroup
  \/ CloneChild \/ CloneFails \/ RegisterChild \/ FaultAfterClone
  \/ AwaitReady \/ AllocateLease \/ CreateVeth \/ AttachVeth
  \/ PublishPorts \/ PublishFails \/ RegisterNetwork \/ GoAndStarted
  \/ Commit \/ StepFails

Removal == Unwind \/ Unwound \/ Teardown \/ TornDown \/ RemoveNext \/ RemoveFails

Next == LaunchStep \/ Removal \/ ChildDies

Spec == Init /\ [][Next]_vars

(* The supervisor keeps running; a child whose channel is closed sees EOF  *)
(* and exits.  A child that runs its workload need not exit.               *)
FairSpec ==
  /\ Spec
  /\ WF_vars(LaunchStep) /\ WF_vars(Removal)
  /\ WF_vars(~chan /\ ChildDies)

-----------------------------------------------------------------------------
(* Every variable stays in its domain.                                     *)
TypeOK ==
  /\ pc \in {"cgroup", "clone", "cloned", "ready", "lease", "veth", "attach", "publish",
             "network", "go", "save", "running", "unwind", "failed", "teardown", "stopped"}
  /\ host \subseteq Resource /\ before \subseteq Resource /\ refused \subseteq Resource
  /\ child \in {"none", "alive", "dead"} /\ chan \in BOOLEAN
  /\ stack \in Seq(Undos) /\ todo \in Seq(Primitive)

(* A failed launch leaves nothing behind that was not there before, except *)
(* what the kernel refused to remove when it was last asked (rollback.rs:  *)
(* one undo that fails never keeps the others from running).               *)
FailureLeavesNothing == pc = "failed" => host \subseteq before \cup refused

(* A container that ran and stopped leaves nothing at all behind, not even *)
(* what an earlier crash had left, except what could not be removed.       *)
StopLeavesNothing == pc = "stopped" => host \subseteq refused

(* A failed launch always ends with the child dead, also when the failure  *)
(* struck before the child was registered for undoing.                     *)
FailedChildDies == pc = "failed" ~> child # "alive"

=============================================================================
