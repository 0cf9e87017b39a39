------------------------------- MODULE Host -------------------------------
(***************************************************************************)
(* Several containers on one host: what their launches, their teardowns    *)
(* and gc do to the things they share, the bridges, the packet filter, the *)
(* lease file and the cgroup hierarchy (src/runtime/supervisor.rs,         *)
(* network.rs, nat.rs, cgroup.rs).  Nothing serialises them: the locks are *)
(* per container and per file.                                             *)
(*                                                                         *)
(* A process is a script, the system calls and commands it has still to    *)
(* make; one item is one step.  A launch that fails exchanges its script   *)
(* for its rollback stack.                                                 *)
(***************************************************************************)
EXTENDS Nat, FiniteSets, FiniteSetsExt

CONSTANTS
  Container,   \* containers, each with the supervisor that launches it
  Addr,        \* addresses of the subnet, positive numbers
  Port,        \* Port[c]: the host port that c publishes
  Bridge,      \* bridges that containers may ask for
  DEFAULT_BRIDGE,
  On,          \* On[c]: the bridge of c, from --bridge
  Needs,       \* Needs[c]: cgroup controllers that the limits of c require
  CloneIntoCgroup,  \* the kernel has clone3 with CLONE_INTO_CGROUP
  AllowMissing,\* MYRUN_ALLOW_MISSING_CONTROLLERS
  GcRaces,     \* gc may overlap with launches
  Scenarios    \* bounds: launches at a time, launches that fail, supervisors
               \* killed and runs of gc in one behaviour, and whether gc waits
               \* for the supervisors to be done; then whether the host has a
               \* cgroup2 hierarchy, and the controllers that it delegates

ASSUME HostAssumption ==
  /\ Addr \subseteq Nat \ {0}
  /\ IsFiniteSet(Container) /\ Container \cap {"gc", "base", "none"} = {}
  /\ IsFiniteSet(Bridge) /\ DEFAULT_BRIDGE \in Bridge /\ On \in [Container -> Bridge]
  /\ {GcRaces, AllowMissing, CloneIntoCgroup} \subseteq BOOLEAN
  /\ \A s \in Scenarios : {s.cgroup2, s.gcWaits} \subseteq BOOLEAN
  /\ \A s \in Scenarios : {s.launches, s.failures, s.crashes, s.gcs} \subseteq Nat

Process == Container \cup {"gc"}

VARIABLES
  phase,     \* what a process is doing
  script,    \* what it has still to do
  undo,      \* its rollback stack, as a script
  missing,   \* the last check found nothing: the next step creates
  status,    \* the status in state.json
  child,     \* the container's processes are alive
  ip,        \* the address its supervisor was given (0: none)
  seen,      \* the index of the bridge that a process has looked up
  live,      \* gc: the containers found live
  bridge,    \* index, address and state of each bridge; index 0: none
  veth,      \* host end of each container's pair
  master,    \* the bridge it is enslaved to
  lease,     \* ipam.json
  fw,        \* the packet filter
  forwarding,\* /proc/sys/net/ipv4/ip_forward
  cgBase,    \* the cgroup of all containers exists
  cg,        \* their cgroups: the controllers with limits, or None
  placed,    \* the container's processes, if alive, are in its cgroup
  cgroup2,   \* there is a cgroup2 hierarchy
  disturbed, \* history: the set-up of the shared rules was cut off, or two that
             \* overlapped added a jump twice, or a supervisor gc met at work was
             \* killed
  leftRules, \* history: containers whose launch or teardown ended with rules of
             \* theirs in the packet filter and nothing left that removes them,
             \* or whose address gc took while they still had rules
  scenario   \* what is left of the bounds

procVars == <<phase, script, undo, missing>>
recVars  == <<status, child, ip>>
netVars  == <<bridge, veth, master, lease>>
fwVars   == <<fw, forwarding>>
cgVars   == <<cgBase, cg, placed, cgroup2>>
hist     == <<disturbed, leftRules, scenario>>
vars     == <<procVars, recVars, seen, live, netVars, fwVars, cgVars, hist>>

None == {"none"}

-----------------------------------------------------------------------------
(* Scripts.                                                                *)

setup_host(c) ==
  <<<<"bridge", c>>, <<"address", c>>, <<"allocate", c>>, <<"leftover", c>>,
    <<"create_veth", c>>, <<"set_master", c>>, <<"move", c>>>>
  \o setup_bridge(On[c]) \o <<<<"publish", c>>>>

launch(c) ==
  <<<<"cgroup_base", c>>, <<"cgroup", c>>, <<"clone", c>>>> \o setup_host(c) \o <<<<"started", c>>>>

(* Variant: the address is given back before the rules for it are gone.    *)
NetTeardownLeaseFirst(c) == <<<<"release", c>>>> \o cleanup(c) \o <<<<"veth", c>>>>

NetTeardown(c) == cleanup(c) \o <<<<"veth", c>>, <<"release", c>>>>

teardown(c) == <<<<"kill", c>>, <<"rmdir", c>>>> \o NetTeardown(c)

-----------------------------------------------------------------------------
(* Taking a script one item further.                                       *)

At(p, op) == script[p] # <<>> /\ Head(script[p])[1] = op

Arg(p) == Head(script[p])[2]

Continue(p, s) ==
  /\ script' = [script EXCEPT ![p] = s]
  /\ missing' = [missing EXCEPT ![p] = FALSE]

Done(p) == Continue(p, Tail(script[p])) /\ UNCHANGED <<phase, undo>>

(* The item succeeded and its undo action is pushed.                       *)
DoneAndPush(p, u) ==
  /\ Continue(p, Tail(script[p]))
  /\ undo' = [undo EXCEPT ![p] = u \o @]
  /\ UNCHANGED phase

(* Looked up, and not there: the next step creates it.                     *)
NotThere(p) == missing' = [missing EXCEPT ![p] = TRUE] /\ UNCHANGED <<phase, script, undo>>

(* The chains are there, or some of them, and no tagged rule is: nothing   *)
(* shows that they are there.                                              *)
Untagged(f) == f.chains # {} /\ \A r \in BagToSet(f.rules) : r.tag # "base"

HasRules(c) == \E r \in BagToSet(fw.rules) : r.tag = c

(* A launch that fails runs its rollback stack.                            *)
Unwind(p) ==
  /\ phase[p] = "launch"
  /\ phase' = [phase EXCEPT ![p] = "unwind"]
  /\ Continue(p, undo[p])
  /\ undo' = [undo EXCEPT ![p] = <<>>]
  /\ disturbed' = (disturbed \/ Untagged(fw))
  /\ leftRules' = IF HasRules(p) /\ ~Contains(undo[p], cleanup(p)[1])
                    THEN leftRules \cup {p} ELSE leftRules

FailLaunch(p) == Unwind(p) /\ UNCHANGED scenario

(* Any call of a launch may fail for reasons of its own.                   *)
CallFails(c) ==
  /\ scenario.failures > 0 /\ Unwind(c)
  /\ scenario' = [scenario EXCEPT !.failures = @ - 1]
  /\ UNCHANGED <<recVars, seen, live, netVars, fwVars, cgVars>>

-----------------------------------------------------------------------------
(* Cgroup::create: the base is created if it is not there, which another   *)
(* launch may do first; then the controllers, the leaf and its limits.     *)
(* Without a cgroup2 hierarchy only a container that asks for no limits is *)
(* launched, and has no cgroup.                                            *)

CgroupBase(c) ==
  /\ At(c, "cgroup_base")
  /\ \/ cgroup2 /\ cgBase /\ ~missing[c] /\ Done(c) /\ UNCHANGED <<cgBase, hist>>
     \/ cgroup2 /\ ~cgBase /\ ~missing[c] /\ NotThere(c) /\ UNCHANGED <<cgBase, hist>>
     \/ cgroup2 /\ ~cgBase /\ missing[c] /\ cgBase' = TRUE /\ Done(c) /\ UNCHANGED hist
     \/ cgroup2 /\ cgBase /\ missing[c] /\ FailLaunch(c) /\ UNCHANGED cgBase
     \/ ~cgroup2 /\ Needs[c] = {} /\ Done(c) /\ UNCHANGED <<cgBase, hist>>
     \/ ~cgroup2 /\ Needs[c] # {} /\ FailLaunch(c) /\ UNCHANGED cgBase
  /\ UNCHANGED <<recVars, seen, live, netVars, fwVars, cg, placed, cgroup2>>

Enabled == {"memory", "cpu", "pids"} \cap scenario.delegated

(* Variant: it is enough that some controller is there.                    *)
MissingAll(c) == IF Enabled = {} THEN Needs[c] ELSE {}

Missing(c) == Needs[c] \ Enabled

(* The limits that can be written: those of the controllers there are.     *)
apply_limits(c) == Needs[c] \cap Enabled

(* Processes of the container keep its cgroup busy.                        *)
Inside(c) == child[c] /\ placed[c]

(* A leftover leaf is removed first, if it is empty.                       *)
CreateCgroup(c) ==
  /\ At(c, "cgroup")
  /\ \/ /\ cgroup2 /\ (Missing(c) = {} \/ AllowMissing)
        /\ cg[c] = None \/ ~Inside(c)
        /\ cg' = [cg EXCEPT ![c] = apply_limits(c)]
        /\ DoneAndPush(c, <<<<"rmdir", c>>>>) /\ UNCHANGED hist
     \/ /\ cgroup2 /\ Missing(c) # {} /\ ~AllowMissing
        /\ FailLaunch(c) /\ UNCHANGED cg
     \/ ~cgroup2 /\ Done(c) /\ UNCHANGED <<cg, hist>>
  /\ UNCHANGED <<recVars, seen, live, netVars, fwVars, cgBase, placed, cgroup2>>

(* clone_child with a descriptor of the cgroup: CLONE_INTO_CGROUP needs    *)
(* the cgroup to be there still; the legacy clone ignores it.              *)
CloneWithCgroup(c) ==
  /\ cgroup2
  /\ \/ /\ cg[c] # None \/ ~CloneIntoCgroup
        /\ child' = [child EXCEPT ![c] = TRUE] /\ placed' = [placed EXCEPT ![c] = CloneIntoCgroup]
        /\ DoneAndPush(c, <<<<"kill", c>>>>) /\ UNCHANGED hist
     \/ cg[c] = None /\ CloneIntoCgroup /\ FailLaunch(c) /\ UNCHANGED <<child, placed>>

(* The cgroup could not be opened: the child is moved into it after clone. *)
CloneThenMove(c) ==
  /\ cgroup2
  /\ \/ cg[c] = None /\ UNCHANGED hist
     \/ /\ scenario.failures > 0 /\ scenario' = [scenario EXCEPT !.failures = @ - 1]
        /\ UNCHANGED <<disturbed, leftRules>>
  /\ child' = [child EXCEPT ![c] = TRUE] /\ placed' = [placed EXCEPT ![c] = FALSE]
  /\ Continue(c, <<<<"add_pid", c>>>> \o Tail(script[c]))
  /\ undo' = [undo EXCEPT ![c] = <<<<"kill", c>>>> \o @] /\ UNCHANGED phase

CloneWithoutCgroup(c) ==
  /\ ~cgroup2
  /\ child' = [child EXCEPT ![c] = TRUE] /\ placed' = [placed EXCEPT ![c] = FALSE]
  /\ DoneAndPush(c, <<<<"kill", c>>>>) /\ UNCHANGED hist

Clone(c) ==
  /\ At(c, "clone")
  /\ CloneWithCgroup(c) \/ CloneThenMove(c) \/ CloneWithoutCgroup(c)
  /\ UNCHANGED <<status, ip, seen, live, netVars, fwVars, cgBase, cg, cgroup2>>

AddPid(c) ==
  /\ At(c, "add_pid")
  /\ \/ cg[c] # None /\ placed' = [placed EXCEPT ![c] = TRUE] /\ Done(c) /\ UNCHANGED hist
     \/ cg[c] = None /\ FailLaunch(c) /\ UNCHANGED placed
  /\ UNCHANGED <<recVars, seen, live, netVars, fwVars, cgBase, cg, cgroup2>>

-----------------------------------------------------------------------------
(* network::setup_host.                                                    *)

NoBridge == [index |-> 0, address |-> FALSE, up |-> FALSE]

create_bridge(index) == [NoBridge EXCEPT !.index = index]

add_address(b) == [b EXCEPT !.address = TRUE]

set_up(b) == [b EXCEPT !.up = TRUE]

(* ensure_bridge: look up, create if missing, look up again, address, up.  *)
LookUpBridge(c) ==
  LET index == bridge[On[c]].index IN
  /\ At(c, "bridge") /\ ~missing[c]
  /\ IF index # 0 THEN Done(c) /\ seen' = [seen EXCEPT ![c] = index]
                  ELSE NotThere(c) /\ UNCHANGED seen
  /\ UNCHANGED <<recVars, live, netVars, fwVars, cgVars, hist>>

(* The kernel gives out indices in turn.                                   *)
FreshIndex == 1 + Max({bridge[b].index : b \in Bridge} \cup {seen[p] : p \in Process})

CreateBridge(c) ==
  /\ At(c, "bridge") /\ missing[c]
  /\ \/ /\ bridge[On[c]].index = 0
        /\ bridge' = [bridge EXCEPT ![On[c]] = create_bridge(FreshIndex)]
        /\ Continue(c, <<<<"bridge_index", c>>>> \o Tail(script[c]))
        /\ UNCHANGED <<phase, undo, hist>>
     \/ bridge[On[c]].index # 0 /\ FailLaunch(c) /\ UNCHANGED bridge
  /\ UNCHANGED <<recVars, seen, live, veth, master, lease, fwVars, cgVars>>

BridgeIndex(c) ==
  LET index == bridge[On[c]].index IN
  /\ At(c, "bridge_index")
  /\ \/ index # 0 /\ seen' = [seen EXCEPT ![c] = index] /\ Done(c) /\ UNCHANGED hist
     \/ index = 0 /\ FailLaunch(c) /\ UNCHANGED seen
  /\ UNCHANGED <<recVars, live, netVars, fwVars, cgVars>>

BridgeAddress(c) ==
  /\ At(c, "address")
  /\ \/ /\ bridge[On[c]].index = seen[c]
        /\ bridge' = [bridge EXCEPT ![On[c]] = set_up(add_address(@))]
        /\ Done(c) /\ UNCHANGED hist
     \/ bridge[On[c]].index # seen[c] /\ FailLaunch(c) /\ UNCHANGED bridge
  /\ UNCHANGED <<recVars, seen, live, veth, master, lease, fwVars, cgVars>>

Free == Addr \ {lease[d] : d \in Container}

(* ipam::allocate, one step under its lock: the address the container has, *)
(* or the lowest free one.                                                 *)
Allocate(c) ==
  LET a == IF lease[c] # 0 THEN lease[c] ELSE Min(Free) IN
  /\ At(c, "allocate")
  /\ \/ /\ lease[c] # 0 \/ Free # {}
        /\ lease' = [lease EXCEPT ![c] = a] /\ ip' = [ip EXCEPT ![c] = a]
        /\ DoneAndPush(c, <<<<"release", c>>>>) /\ UNCHANGED hist
     \/ lease[c] = 0 /\ Free = {} /\ FailLaunch(c) /\ UNCHANGED <<lease, ip>>
  /\ UNCHANGED <<status, child, seen, live, bridge, veth, master, fwVars, cgVars>>

(* Requests to the kernel about links.                                     *)
list_links == {c \in Container : veth[c] # "none"}

create_veth(c) == veth' = [veth EXCEPT ![c] = "host"]

set_master(c, index) == master' = [master EXCEPT ![c] = index]

move_to_netns_pid(c) == veth' = [veth EXCEPT ![c] = "moved"]

delete_link(c) == veth' = [veth EXCEPT ![c] = "none"] /\ set_master(c, 0)

(* A pair left over from a crash with the same id is deleted.              *)
DeleteLeftover(c) ==
  /\ At(c, "leftover")
  /\ delete_link(c)
  /\ Done(c)
  /\ UNCHANGED <<recVars, seen, live, bridge, lease, fwVars, cgVars, hist>>

CreateVeth(c) ==
  /\ At(c, "create_veth")
  /\ create_veth(c)
  /\ DoneAndPush(c, <<<<"veth", c>>>>)
  /\ UNCHANGED <<recVars, seen, live, bridge, master, lease, fwVars, cgVars, hist>>

(* The host end is enslaved to the bridge whose index was looked up.       *)
SetMaster(c) ==
  /\ At(c, "set_master")
  /\ \/ /\ veth[c] = "host" /\ bridge[On[c]].index = seen[c]
        /\ set_master(c, seen[c])
        /\ Done(c) /\ UNCHANGED hist
     \/ (veth[c] # "host" \/ bridge[On[c]].index # seen[c]) /\ FailLaunch(c) /\ UNCHANGED master
  /\ UNCHANGED <<recVars, seen, live, bridge, veth, lease, fwVars, cgVars>>

(* The peer moves into the network namespace of the child.                 *)
MovePeer(c) ==
  /\ At(c, "move")
  /\ \/ /\ veth[c] = "host" /\ child[c]
        /\ move_to_netns_pid(c)
        /\ Done(c) /\ UNCHANGED hist
     \/ (veth[c] # "host" \/ ~child[c]) /\ FailLaunch(c) /\ UNCHANGED veth
  /\ UNCHANGED <<recVars, seen, live, bridge, master, lease, fwVars, cgVars>>

enable_ip_forwarding(c) ==
  /\ At(c, "forwarding")
  /\ forwarding' = TRUE /\ Done(c)
  /\ UNCHANGED <<recVars, seen, live, netVars, fw, cgVars, hist>>

(* A chain is created unless it is there; if another process creates it    *)
(* between the check and -N, the command fails.                            *)
EnsureChain(c) ==
  /\ At(c, "chain")
  /\ \/ Arg(c) \in fw.chains /\ ~missing[c] /\ Done(c) /\ UNCHANGED <<fw, hist>>
     \/ Arg(c) \notin fw.chains /\ ~missing[c] /\ NotThere(c) /\ UNCHANGED <<fw, hist>>
     \/ /\ Arg(c) \notin fw.chains /\ missing[c]
        /\ fw' = [fw EXCEPT !.chains = @ \cup {Arg(c)}] /\ Done(c) /\ UNCHANGED hist
     \/ Arg(c) \in fw.chains /\ missing[c] /\ FailLaunch(c) /\ UNCHANGED fw
  /\ UNCHANGED <<recVars, seen, live, netVars, forwarding, cgVars>>

(* append_unique and insert_unique: -C, then -A or -I.                     *)
append_unique(c) ==
  /\ At(c, "rule")
  /\ \/ rule_exists(fw, Arg(c)) /\ ~missing[c] /\ Done(c) /\ UNCHANGED <<fw, hist>>
     \/ ~rule_exists(fw, Arg(c)) /\ ~missing[c] /\ NotThere(c) /\ UNCHANGED <<fw, hist>>
     \/ /\ missing[c] /\ CanAdd(fw, Arg(c))
        /\ fw' = Add(fw, Arg(c)) /\ Done(c)
        /\ disturbed' = (disturbed \/ (rule_exists(fw, Arg(c)) /\ Arg(c) \in ToSet(Jumps)))
        /\ UNCHANGED <<leftRules, scenario>>
     \/ missing[c] /\ ~CanAdd(fw, Arg(c)) /\ FailLaunch(c) /\ UNCHANGED fw
  /\ UNCHANGED <<recVars, seen, live, netVars, forwarding, cgVars>>

(* The published port; its cleanup is pushed once all its rules are there. *)
Publish(c) ==
  /\ At(c, "publish")
  /\ Continue(c, publish(c, ip[c]) \o <<<<"published", c>>>> \o Tail(script[c]))
  /\ UNCHANGED <<phase, undo, recVars, seen, live, netVars, fwVars, cgVars, hist>>

Published(c) ==
  /\ At(c, "published")
  /\ DoneAndPush(c, NetTeardown(c) \o cleanup(c))
  /\ UNCHANGED <<recVars, seen, live, netVars, fwVars, cgVars, hist>>

(* STARTED has arrived: Running is saved and the rollback dropped.         *)
Started(c) ==
  /\ At(c, "started")
  /\ \/ /\ child[c]
        /\ status' = [status EXCEPT ![c] = "Running"]
        /\ phase' = [phase EXCEPT ![c] = "wait"] /\ Continue(c, <<>>)
        /\ undo' = [undo EXCEPT ![c] = <<>>] /\ UNCHANGED hist
     \/ ~child[c] /\ FailLaunch(c) /\ UNCHANGED status
  /\ UNCHANGED <<child, ip, seen, live, netVars, fwVars, cgVars>>

-----------------------------------------------------------------------------
(* Undoing: supervisor::teardown, the rollback actions, gc.                *)

(* When the last process of the container ends, its network namespace goes *)
(* and takes a pair whose peer is in it along.                             *)
Dies(c) ==
  /\ child' = [child EXCEPT ![c] = FALSE]
  /\ veth' = [veth EXCEPT ![c] = IF @ = "moved" THEN "none" ELSE @]
  /\ master' = [master EXCEPT ![c] = IF veth[c] = "moved" THEN 0 ELSE @]

Kill(p) ==
  /\ At(p, "kill") /\ Dies(Arg(p)) /\ Done(p)
  /\ UNCHANGED <<status, ip, seen, live, bridge, lease, fwVars, cgVars, hist>>

RemoveCgroup(p) ==
  /\ At(p, "rmdir") /\ ~Inside(Arg(p))
  /\ cg' = [cg EXCEPT ![Arg(p)] = None] /\ Done(p)
  /\ UNCHANGED <<recVars, seen, live, netVars, fwVars, cgBase, placed, cgroup2, hist>>

ListTagged(p) ==
  LET q == Arg(p) IN
  /\ At(p, "list")
  /\ IF q.tables = <<>>
       THEN Continue(p, Each("delete", q.found) \o Tail(script[p]))
       ELSE LET found == SetToSeq(tagged_rules(fw, Head(q.tables), q.tag)) IN
            Continue(p, <<<<"list", [q EXCEPT !.tables = Tail(@),
                                              !.found  = @ \o [i \in DOMAIN found |-> found[i][1]]]>>>>
                        \o Tail(script[p]))
  /\ UNCHANGED <<phase, undo, recVars, seen, live, netVars, fwVars, cgVars, hist>>

DeleteRule(p) ==
  /\ At(p, "delete") /\ fw' = Delete(fw, Arg(p)) /\ Done(p)
  /\ UNCHANGED <<recVars, seen, live, netVars, forwarding, cgVars, hist>>

FlushChain(p) ==
  /\ At(p, "flush") /\ fw' = Flush(fw, Arg(p)) /\ Done(p)
  /\ UNCHANGED <<recVars, seen, live, netVars, forwarding, cgVars, hist>>

DeleteChain(p) ==
  /\ At(p, "drop") /\ fw' = DropChain(fw, Arg(p)) /\ Done(p)
  /\ UNCHANGED <<recVars, seen, live, netVars, forwarding, cgVars, hist>>

DeleteVeth(p) ==
  /\ At(p, "veth")
  /\ delete_link(Arg(p))
  /\ Done(p)
  /\ UNCHANGED <<recVars, seen, live, bridge, lease, fwVars, cgVars, hist>>

Release(p) ==
  /\ At(p, "release") /\ lease' = [lease EXCEPT ![Arg(p)] = 0] /\ Done(p)
  /\ UNCHANGED <<recVars, seen, live, bridge, veth, master, fwVars, cgVars, hist>>

-----------------------------------------------------------------------------
(* gc: what it finds live decides what it collects, much later.            *)

Scan ==
  LET dead == {c \in Container : status[c] = "Running" /\ ~child[c]}
      tail == <<<<"gc_empty", 0>>, <<"ipam_gc", 0>>, <<"orphaned_veths", 0>>>> IN
  /\ At("gc", "scan")
  /\ live' = {c \in Container : status[c] = "Running" /\ child[c]}
  /\ status' = [c \in Container |-> IF c \in dead THEN "Stopped" ELSE status[c]]
  /\ Continue("gc", Each("teardown", SetToSeq(dead)) \o tail)
  /\ UNCHANGED <<phase, undo, child, ip, seen, netVars, fwVars, cgVars, hist>>

TeardownDead ==
  /\ At("gc", "teardown")
  /\ Continue("gc", teardown(Arg("gc")) \o Tail(script["gc"]))
  /\ UNCHANGED <<phase, undo, recVars, seen, live, netVars, fwVars, cgVars, hist>>

(* Cgroups without processes and without a live container.                 *)
gc_empty ==
  /\ At("gc", "gc_empty")
  /\ cg' = [c \in Container |-> IF c \in live \/ Inside(c) THEN cg[c] ELSE None]
  /\ Done("gc")
  /\ UNCHANGED <<recVars, seen, live, netVars, fwVars, cgBase, placed, cgroup2, hist>>

IpamGc ==
  /\ At("gc", "ipam_gc")
  /\ lease' = [c \in Container |-> IF c \in live THEN lease[c] ELSE 0]
  /\ leftRules' = leftRules \cup {c \in Container \ live : HasRules(c)}
  /\ Done("gc")
  /\ UNCHANGED <<recVars, seen, live, bridge, veth, master, fwVars, cgVars, disturbed, scenario>>

orphaned_veths ==
  LET orphans == SetToSeq({c \in list_links : c \notin live})
      shared  == IF live = {} THEN <<<<"bridge_used", 0>>, <<"bridge_links", 0>>, <<"base_rules", 0>>>>
                              ELSE <<>> IN
  /\ At("gc", "orphaned_veths")
  /\ Continue("gc", Each("veth", orphans) \o shared)
  /\ UNCHANGED <<phase, undo, recVars, seen, live, netVars, fwVars, cgVars, hist>>

(* remove_bridge_if_unused, for the default bridge only: look up, list the *)
(* links, delete.                                                          *)
BridgeUsed ==
  /\ At("gc", "bridge_used")
  /\ seen' = [seen EXCEPT !["gc"] = bridge[DEFAULT_BRIDGE].index]
  /\ Done("gc")
  /\ UNCHANGED <<recVars, live, netVars, fwVars, cgVars, hist>>

BridgeLinks ==
  /\ At("gc", "bridge_links")
  /\ IF seen["gc"] # 0 /\ list_links = {}
       THEN Continue("gc", <<<<"delete_bridge", 0>>>> \o Tail(script["gc"]))
       ELSE Continue("gc", Tail(script["gc"]))
  /\ UNCHANGED <<phase, undo, recVars, seen, live, netVars, fwVars, cgVars, hist>>

DeleteBridge ==
  /\ At("gc", "delete_bridge")
  /\ bridge' = [bridge EXCEPT ![DEFAULT_BRIDGE] = NoBridge]
  /\ master' = [c \in Container |-> IF On[c] = DEFAULT_BRIDGE THEN 0 ELSE master[c]]
  /\ Done("gc")
  /\ UNCHANGED <<recVars, seen, live, veth, lease, fwVars, cgVars, hist>>

(* The shared rules go if there are any.                                   *)
CountBaseRules ==
  LET base == tagged_rules(fw, "nat", "base") \cup tagged_rules(fw, "filter", "base") IN
  /\ At("gc", "base_rules")
  /\ Continue("gc", IF base = {} THEN <<>> ELSE teardown_base)
  /\ UNCHANGED <<phase, undo, recVars, seen, live, netVars, fwVars, cgVars, hist>>

-----------------------------------------------------------------------------
(* Beginnings and ends.                                                    *)

Launching(c) == phase[c] = "launch"

Start(c) ==
  /\ status[c] = "Created" /\ phase[c] = "idle"
  /\ GcRaces \/ phase["gc"] # "collect"
  /\ Cardinality({d \in Container : Launching(d)}) < scenario.launches
  /\ phase' = [phase EXCEPT ![c] = "launch", !["gc"] = IF @ = "done" THEN "idle" ELSE @]
  /\ script' = [script EXCEPT ![c] = launch(c)]
  /\ UNCHANGED <<undo, missing, recVars, seen, live, netVars, fwVars, cgVars, hist>>

AllAtRest == \A c \in Container : phase[c] \in {"idle", "ended"}

StartGc ==
  /\ phase["gc"] # "collect" /\ scenario.gcs > 0
  /\ GcRaces \/ ~\E c \in Container : Launching(c)
  /\ scenario.gcWaits => AllAtRest
  /\ phase' = [phase EXCEPT !["gc"] = "collect"]
  /\ script' = [script EXCEPT !["gc"] = <<<<"scan", 0>>>>]
  /\ scenario' = [scenario EXCEPT !.gcs = @ - 1]
  /\ UNCHANGED <<undo, missing, recVars, seen, live, netVars, fwVars, cgVars, disturbed, leftRules>>

(* The script is done.                                                     *)
Finish(p) ==
  /\ script[p] = <<>> /\ phase[p] \in {"unwind", "teardown", "collect"}
  /\ phase' = [phase EXCEPT ![p] = IF p = "gc" THEN "done" ELSE "ended"]
  /\ IF p = "gc" THEN UNCHANGED status ELSE status' = [status EXCEPT ![p] = "Stopped"]
  /\ UNCHANGED <<script, undo, missing, child, ip, seen, live, netVars, fwVars, cgVars, hist>>

(* The workload exits; its supervisor records it and tears down.           *)
Exit(c) ==
  /\ phase[c] = "wait" /\ child[c] /\ Dies(c)
  /\ UNCHANGED <<procVars, status, ip, seen, live, bridge, lease, fwVars, cgVars, hist>>

Reap(c) ==
  /\ phase[c] = "wait" /\ ~child[c]
  /\ status' = [status EXCEPT ![c] = "Stopped"]
  /\ phase' = [phase EXCEPT ![c] = "teardown"]
  /\ script' = [script EXCEPT ![c] = teardown(c)]
  /\ UNCHANGED <<undo, missing, child, ip, seen, live, netVars, fwVars, cgVars, hist>>

(* SIGKILL of a supervisor: its child dies with it, nothing is undone.  A  *)
(* record that still says Created can be started again.                    *)
Crash(c) ==
  /\ scenario.crashes > 0 /\ phase[c] \in {"launch", "unwind", "wait", "teardown"}
  /\ scenario' = [scenario EXCEPT !.crashes = @ - 1]
  /\ disturbed' = (disturbed \/ phase["gc"] # "idle" \/ (phase[c] = "launch" /\ Untagged(fw)))
  /\ leftRules' = IF HasRules(c) /\ status[c] # "Running" THEN leftRules \cup {c} ELSE leftRules
  /\ Dies(c)
  /\ phase' = [phase EXCEPT ![c] = IF status[c] = "Created" THEN "idle" ELSE "ended"]
  /\ Continue(c, <<>>)
  /\ undo' = [undo EXCEPT ![c] = <<>>]
  /\ UNCHANGED <<status, ip, seen, live, bridge, lease, fwVars, cgVars>>

-----------------------------------------------------------------------------
(* A host that has not seen myrun yet.                                     *)
Init ==
  /\ phase = [p \in Process |-> "idle"]
  /\ script = [p \in Process |-> <<>>] /\ undo = [p \in Process |-> <<>>]
  /\ missing = [p \in Process |-> FALSE]
  /\ status = [c \in Container |-> "Created"] /\ child = [c \in Container |-> FALSE]
  /\ ip = [c \in Container |-> 0]
  /\ seen = [p \in Process |-> 0] /\ live = {}
  /\ bridge = [b \in Bridge |-> NoBridge] /\ veth = [c \in Container |-> "none"]
  /\ master = [c \in Container |-> 0] /\ lease = [c \in Container |-> 0]
  /\ fw = Untouched /\ forwarding = FALSE
  /\ cgBase = FALSE /\ cg = [c \in Container |-> None]
  /\ placed = [c \in Container |-> FALSE]
  /\ disturbed = FALSE /\ leftRules = {} /\ scenario \in Scenarios /\ cgroup2 = scenario.cgroup2

LaunchStep(c) ==
  \/ CgroupBase(c) \/ CreateCgroup(c) \/ Clone(c) \/ AddPid(c)
  \/ LookUpBridge(c) \/ CreateBridge(c) \/ BridgeIndex(c) \/ BridgeAddress(c)
  \/ Allocate(c) \/ DeleteLeftover(c) \/ CreateVeth(c) \/ SetMaster(c) \/ MovePeer(c)
  \/ enable_ip_forwarding(c) \/ EnsureChain(c) \/ append_unique(c)
  \/ Publish(c) \/ Published(c) \/ Started(c)

UndoStep(p) ==
  \/ Kill(p) \/ RemoveCgroup(p) \/ ListTagged(p) \/ DeleteRule(p) \/ FlushChain(p)
  \/ DeleteChain(p) \/ DeleteVeth(p) \/ Release(p) \/ Finish(p)

GcStep ==
  \/ Scan \/ TeardownDead \/ gc_empty \/ IpamGc \/ orphaned_veths
  \/ BridgeUsed \/ BridgeLinks \/ DeleteBridge \/ CountBaseRules

Next ==
  \/ \E c \in Container : Start(c) \/ LaunchStep(c) \/ CallFails(c) \/ Exit(c) \/ Reap(c) \/ Crash(c)
  \/ \E p \in Process : UndoStep(p)
  \/ StartGc \/ GcStep

Spec == Init /\ [][Next]_vars

-----------------------------------------------------------------------------
(* Every variable stays in its domain.                                     *)
TypeOK ==
  /\ phase \in [Process -> {"idle", "launch", "unwind", "wait", "teardown", "ended", "collect", "done"}]
  /\ missing \in [Process -> BOOLEAN] /\ seen \in [Process -> Nat]
  /\ status \in [Container -> {"Created", "Running", "Stopped"}]
  /\ child \in [Container -> BOOLEAN] /\ ip \in [Container -> Addr \cup {0}]
  /\ live \subseteq Container /\ bridge \in [Bridge -> [index : Nat, address : BOOLEAN, up : BOOLEAN]]
  /\ veth \in [Container -> {"none", "host", "moved"}] /\ master \in [Container -> Nat]
  /\ lease \in [Container -> Addr \cup {0}]
  /\ fw.chains \subseteq Chain /\ IsABag(fw.rules) /\ forwarding \in BOOLEAN
  /\ cgBase \in BOOLEAN /\ cgroup2 \in BOOLEAN /\ placed \in [Container -> BOOLEAN]
  /\ DOMAIN cg = Container
  /\ \A c \in Container : cg[c] = None \/ cg[c] \subseteq Needs[c]

SharedRules(b) == ToSet(Jumps) \cup {Guard} \cup ToSet(BridgeRules(b))

Up(c) == phase[c] = "wait" /\ child[c]

(* A running container is on its bridge, has its lease, and every chain,   *)
(* jump, shared rule and rule of its own that its traffic passes is there, *)
(* whatever other launches, failures and teardowns went on meanwhile.      *)
RunningReachable ==
  \A c \in Container : Up(c) =>
    LET b == bridge[On[c]] IN
    /\ b.index # 0 /\ b.address /\ b.up /\ forwarding
    /\ veth[c] = "moved" /\ master[c] = b.index /\ lease[c] = ip[c]
    /\ fw.chains = Chain
    /\ SharedRules(On[c]) \cup ToSet(PublishRules(c, ip[c])) \subseteq BagToSet(fw.rules)

(* The first rule for the port that a running container publishes leads to *)
(* that container, and no rule of another leads to it: an address is given *)
(* away again only when the rules for it are gone.                         *)
PortLeadsHome ==
  \A c \in Container : Up(c) =>
    /\ \E i \in DOMAIN fw.dnat :
         /\ Port[fw.dnat[i].tag] = Port[c] /\ fw.dnat[i].about = ip[c]
         /\ \A j \in 1 .. i - 1 : Port[fw.dnat[j].tag] # Port[c]
    /\ \A r \in ToSet(fw.dnat) : r.about = ip[c] => r.tag = c

(* The same, as long as no launch or teardown ended short of the removal   *)
(* of its rules, killed or failed in the middle of publish, and gc freed   *)
(* no address of a container that was still being torn down.               *)
PortLeadsHomeUnlessLeft == leftRules = {} => PortLeadsHome

(* The processes of a running container are in its cgroup, and that has    *)
(* every limit asked for; only a container without limits may run without  *)
(* a cgroup, on a host that has no hierarchy.                              *)
LimitsHold ==
  \A c \in Container : Up(c) =>
    \/ ~cgroup2 /\ Needs[c] = {}
    \/ Inside(c) /\ cg[c] # None /\ (AllowMissing \/ cg[c] = Needs[c])

(* gc without a live container leaves nothing of myrun on the host: no     *)
(* rule, jump or chain, no interface, lease or cgroup, and no bridge other *)
(* than those that --bridge named.                                         *)
HostIsClean ==
  /\ fw = Untouched /\ bridge[DEFAULT_BRIDGE] = NoBridge
  /\ \A c \in Container : veth[c] = "none" /\ lease[c] = 0 /\ cg[c] = None

GcIsDone == phase["gc"] = "done" /\ live = {} /\ AllAtRest

GcLeavesHostClean == GcIsDone => HostIsClean

(* The same, unless a launch was cut off while it set up the shared        *)
(* chains, or two that overlapped added the same jump, or a supervisor was *)
(* killed during or after gc.                                              *)
GcLeavesHostCleanUndisturbed == ~disturbed => GcLeavesHostClean

(* gc removes the bridge itself once no containers remain, as              *)
(* docs/networking.md says of teardown; it knows only the default one.     *)
GcLeavesNoBridge == GcIsDone => \A b \in Bridge : bridge[b] = NoBridge
=============================================================================
