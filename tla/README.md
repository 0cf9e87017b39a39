# A TLA+ model of myrun

myrun is a daemonless Linux container runtime. Every `myrun` command is a
process of its own; what several of them share is on disk (`state.json`,
`ipam.json`, lock files) or in the kernel (processes, cgroups, interfaces,
iptables rules). There is no server that serialises them. This directory models
that concurrency, the way from a command line to a stored configuration, and the
set-up of a workload; checks them with TLC on small instances; and proves the
central parts with TLAPS. Paths below are relative to the repository root.

## 1. Inventory

| Component | State it keeps | Operations | Interacts with |
|---|---|---|---|
| state machine, `src/runtime/state.rs` | one `ContainerState` | `transition`, `record_exit` | everything below |
| store, `state.rs` | `containers/<id>/state.json`, `lock` | `create load save remove list reconcile resolve lock` | every command and supervisor, through files |
| file lock, `src/sys/mod.rs` | an open file with a `flock` | `acquire`, drop | inherited by `fork` |
| lifecycle verbs, `src/runtime/lifecycle.rs`, `src/main.rs` | none between commands | `start run kill stop pause unpause rm wait gc ls inspect stats logs` | store, cgroup, signals, shim |
| supervisor and shim, `src/runtime/supervisor.rs`, `shim.rs` | the record it launched with, the channel to init | `launch wait_for_exit teardown gc`, notify pipe | store (without the lock), init, network, cgroup |
| rollback, `src/rollback.rs` | stack of undo actions | `push commit unwind` | launch and `setup_host` |
| addresses, `src/runtime/ipam.rs` | `ipam.json`, `ipam.lock` | `allocate release gc` | launch, teardown, gc of all containers |
| network, `src/runtime/network.rs`, `nat.rs`, `src/sys/netlink.rs` | veth pairs, the bridge, the shared chains and rules, a container's own rules | `setup_host ensure_bridge ensure_chains setup_bridge publish cleanup teardown teardown_base remove_bridge_if_unused` | rollback, ipam, every other container |
| cgroups, `src/runtime/cgroup.rs` | the base with its controllers, one directory per container | `create apply_limits freeze thaw kill_all remove gc_empty` | launch, verbs, gc, every other container |
| init and channel, `src/runtime/init.rs`, `ipc.rs` | the workload's pid, a socket pair | READY/GO/STARTED/EXIT/ERROR, supervise | supervisor |
| filesystem setup, `src/runtime/filesystem.rs`, `src/sys/mount.rs` | mount table of the container, nodes in its tree | `setup`: propagation, bind, `/proc /sys /dev /tmp`, volumes, devices, masks, pivot, read-only | init, the host's mounts |
| security setup, `src/runtime/security.rs`, `src/sys/caps.rs`, `seccomp.rs` | capability sets, `no_new_privs`, user, filter | `apply switch_user`, `resolve_keep_set`, `build_filter install` | init and workload; what an earlier call gives up a later one misses |
| configuration and CLI, `src/config.rs`, `src/cli.rs`, `src/util/json.rs`, `toml.rs` | `config.json` | two passes over the arguments, merge with a file, `finalize_and_validate`, `precheck`, to and from JSON | store, and everything that reads the configuration |
| statistics, logging, errors, bindings | none shared | reporting | – |

What is hard here:

* **Interleaving without the lock.** The verbs take the container lock, the
  supervisor never does, `wait`, `ls`, `gc` and `start -a` do not either. All of
  them load, change and save the same file.
* **A lock file that is removed with what it guards**, and a lock that is
  inherited by a forked shim.
* **Crashes.** Any process may be killed between two steps; nothing but the next
  command finds out. Init dies with its supervisor (PDEATHSIG).
* **Bounded waits** (stop, the removal of a cgroup, the wait for the shim) that
  race a late answer.
* **Launches that fail half-way**, undone by actions that may fail themselves.
* **Shared resources of many containers**: the lease file, the bridge, the chains
  and the base cgroup are checked and then changed, by several commands at once
  and by `gc`, which decides early and removes late.
* **Order of giving things up.** Mounts must not propagate before they are made
  private, pivot comes before read-only, the filter after the last call it would
  forbid, capabilities after the last call that needs them; a call may fail anywhere.
* **Two sources of one setting.** A flag and a configuration file may both give it,
  flags may come before and after the root directory, and what was validated goes
  through JSON before it is used.

What makes each part correct: one init per container; a record that says
Stopped is right, and a running container has a record that says so; a command
that reports success has done what it says; the freezer agrees with the record;
no lease, rule, cgroup or process outlives its container; one address per
container; a published port leads to the container that runs; the workload has
what was asked for and no more, and the host sees none of its mounts; what is
stored is what was meant and valid; a name means one container; every command ends.

PROJECT.json lists the hazards one by one, each at its line.

## 2. Modules

| Module | Models |
|---|---|
| `ContainerState` | statuses, legal transitions and their effect on a record (pure) |
| `Lifecycle` | one container, the commands acting on it concurrently, their supervisors and inits, crashes |
| `Launch` | one launch step by step with every failure, the rollback stack, teardown one resource at a time |
| `Session` | abstract specification: what supervisor and init promise each other |
| `Handshake` | the sync channel, the supervisor on one end, init with the workload, orphans and signals on the other; implements `Session` |
| `Addressing` | masks, ranges, gateway, validation of the network configuration (pure) |
| `LeaseTable` | abstract specification: a table of leases changed one at a time |
| `Ipam` | the lease file, its lock and the processes using it; implements `LeaseTable` |
| `Nat` | the packet filter and the commands of `nat.rs` on it (operators) |
| `Host` | several containers on one host: launches, teardowns and gc on the bridge, the filter, the lease file and the cgroup hierarchy |
| `Mounts` | a mount table with propagation, flags, stacked and recursive mounts (operators) |
| `Seccomp` | the filter program of `seccomp.rs` and its execution, instruction by instruction |
| `Setup` | init from the go signal to `execve`, then the workload's calls through the filter |
| `Config` | arguments, file, validation and the JSON conversions (operators), and a reference for what a command line means |
| `Store` | the directory of containers; `create` and `rm` step by step |
| `MCLifecycle`, `MCIpam`, `MCHost`, `MCSetup`, `MCStore` | instances for TLC (`Launch` and `Handshake` need none) |
| `Ipam_proofs`, `Launch_proofs`, `Seccomp_proofs`, `Handshake_proofs`, `Lifecycle_proofs`, `Host_proofs`, `Store_proofs`, `Setup_proofs` | theorems |

`Lifecycle` extends `ContainerState`; `Ipam` extends `Addressing` and instantiates
`LeaseTable`, `Handshake` instantiates `Session`; `Host` extends `Nat`, `Setup` extends
`Seccomp` and `Mounts`, `Store` extends `Config`. `Launch` refines the steps that
`Lifecycle` takes as one (`LaunchNet`, `LaunchFail`, `TearRelease`), and `Handshake` those
in which supervisor and init talk to each other; `Host` puts several launches side by side,
and `Setup` takes the set-up apart that is one step of init in `Handshake`. They are
separate specifications, so that each can be checked exhaustively. The operators marked
"Variant" in the modules are plausible mistakes in the code and are used by no
specification; they show that the properties notice such mistakes.

### Lifecycle

A member of `Cli` (= `Sup`) is a terminal that runs one command at a time. `pc[p]`
names the next step of its command and `site[p]` the section it is in (`stop` and
`rm` take the lock several times); `mem[p]` is the record it loaded. Terminal `p`
owns at most one supervisor (`supPc[p]`, `smem[p]`, `verdict[p]` for the notify
pipe), and supervisor `p` at most one init, named `p` (`init[p]`). So "the pid in
the record" is a member of `Sup`, and pid together with start time identifies the
process, as in `init_is_alive`.

The granularity is that of the code: opening the lock file, `flock`, load, the
save of reconcile, the action, and the final save are separate steps; one
`write_atomic` is one step. Polling loops that see nothing new are stuttering.
Deadlines may pass at any time. `lockFile` and `fd[p]` hold inodes, because `rm`
unlinks the lock file. `KillStalls` lets the bounded waits expire before a
SIGKILL takes effect; `ShimCrash` and `CliCrash` let supervisors and commands die
at any step; `PidReuse` lets a reaped pid name a stranger.

Abstractions: `pid` also stands for `cgroup_path` and the network details, which
reach the file with the same save. The lease and the rules are one resource
"net", since they are created and removed together here; `Launch` takes them
apart. `ls`, `inspect` and `stats` do nothing to shared state that `wait` does
not do. `run` acts first, on a container that was just created. The failure of a
single save (disk full) and the fault point between the save of Running and the
commit are in `Launch`, not here.

### Launch

`pc` walks through `supervisor::launch` and `network::setup_host`; every step has
its failure. `stack` is the rollback stack by names, `Primitives` what each undo
action removes, `todo` what is left of the action under way, `refused` what could
not be removed when last asked. `before` remembers what a crashed run with the
same id had left. The bridge and the base rules are shared by all containers and
are not part of a launch's rollback.

### Handshake

`supPc` walks through the part of `launch` that talks to init and through
`wait_for_exit`, `initPc` through `init::run`, `supervise` and
`shutdown_remaining`. `stream[x]`, `got[x]` and `out[x]` are what is on its way to
side `x`, what it has read of a frame and what it has still to write; a read or
write moves any number of units, and a unit is a field of a frame (tag, length,
one number of the payload). `Open` says in which processes an end of the channel
is open, which decides when the other side reads an end of file: the workload
inherits descriptor 3 from init. Every step of either side may fail, and either
may be killed; the death of the supervisor dooms init (PDEATHSIG), the death of
init takes its pid namespace along. `wl` and `orphan` are the workload and what it
leaves to init. Signals reach init only when the record says Running, as `kill`
and `stop` see to. `MaySignal` says whether init may signal its workload at all: after
`security::apply` it may lack CAP_KILL while the workload has another user, and a forward
that fails is only logged (`init.rs:283`). `others` is the list that `shutdown_remaining`
takes before the grace period; its last SIGKILL goes to all of it, and `stale` records that
some of them had been reaped meanwhile. SIGCHLD is not one of the signals of the signalfd, so `Poll`
returns with a forwarded signal or when its time is up. Left out: the fault point
after the save of Running, which `Launch` has; that a workload may close
descriptor 3.

### Ipam

A process performs one job at a time: flock, load, decide and store, return; it
may be killed at each point. `allocate`, `release` and `gc` are functions of the
loaded file. `grant[i]` is the address container `i` was told to use and
`running` the containers that gc would find live. The jobs of one container do
not overlap (`Busy`): that is the container lock's business and its failures are
`Lifecycle`'s. Addresses are numbers below 2^Width, so that masks are arithmetic. A
configuration has a subnet, perhaps a requested address, and the default gateway or one of
its own; `Configs` has those that validation admits.

### Nat and Host

A process is a container's supervisor, or gc. `script[p]` lists the system calls
and iptables commands it has still to make, in the order of `launch`,
`setup_host`, `teardown` or `gc`; one item is one step, and a check followed by a
creation is two. `undo[p]` is the rollback stack, as a script: a launch that fails
goes on with it. `fw` is the packet filter (chains, jumps, the shared rules in
them, and each container's own rules with their tag), a bag, since two launches may add
the same rule. `On[c]` is the bridge of a container, the default one or that of
`--bridge`; `bridge[b]` has an index, so that a bridge deleted and made again is another one
and an index looked up earlier may be stale. `veth`, `master`, `lease`, `cgBase` and `cg` are
the remaining shared state; a limit is the name of its controller. `placed[c]` says that the
child is in its cgroup: `clone3` puts it there, the legacy clone that is used without
`CloneIntoCgroup` does not, and a cgroup that could not be opened makes `add_pid` an item of
its own. Without `cgroup2` a launch that asks for limits fails and any other goes on
without a cgroup.

gc scans the store, takes down the containers it found dead, one after the other,
and then collects, cgroups and leases first, the rules and the
bridge last. A killed supervisor takes its child with it and undoes nothing. The
history variables `disturbed` and `leftRules` say that a behaviour had one of the
incidents after which the code is known not to clean up completely (see the
further instances below), which of two launches that overlap are those that add a jump
twice, since gc deletes a jump once; the properties with "Undisturbed" and "UnlessLeft" in
their names except these. A container is in `leftRules` when its rules outlive its
lease: a supervisor was killed, a publish or its undoing broke off, or gc freed the address
of a container that is no longer recorded as running but whose supervisor has not yet
deleted its rules (`supervisor.rs:354`, `ipam.rs:262`).

Abstractions: rules that one function adds to one chain with one tag are one
rule; `ipam::allocate` and `release` are one step under their lock, as `Ipam`
justifies; `--no-nat` is not distinguished. Tags are compared as values, where the
code looks for the tag in the text of a rule (`nat.rs:388`); the two differ only for
ids given in a file of which one begins with the other. No container is called
"base", the tag of the shared rules.

### Mounts, Seccomp and Setup

`config` is a configuration as asked for; `script` the calls of `init::setup`,
`filesystem::setup`, `spawn_workload`, `security::apply` and `switch_user` for it,
in the order of the code. A call may be impossible because a capability is gone,
the filter forbids it or the path does not exist; it may be one that the kernel can
refuse and the code then does differently (`mknod` becomes a bind mount, a refused
sysfs a bind of the host's); and it may fail for reasons of its own, at most
`MaxFaults` times.

`mounts` is a sequence, later mounts on top; a recursive bind copies what is
mounted below the source, propagation decides whether the host sees a mount
(`leaked`), and a remount changes the flags of one mount. `made` is what was created
or written, by file system and path, so that a write through a bind mount is a
write to the host. `Seccomp` compiles the rules of a mode and architecture to
jumps with offsets of eight bits and runs the program on the number and architecture
of a call. Two devices stand for six and two links for the rest; capabilities
nothing tells apart are left out.

### Config and Store

Arguments are tokens: an option with its value in the same or in the next
argument, a positional word, `--`. `parse_run` is the two passes of `cli.rs`; the
tables `Ports`, `Sizes` and `Vars` say what the texts that occur mean. `Means` is
the reference for a whole command line and `Sane` the one for a configuration;
they are stated over options and settings, not over passes and early returns.
`from_json` and `to_json` are what a setting becomes on its way through a
file: an integer beyond the signed range is wrapped, an absent one takes its default.
Word widths are constants, so that the edges are within reach.

In `Store` a `create` is the steps Parse, CheckId, Scan, CheckName, MakeDir,
WriteConfig, SaveCreating and SaveCreated, and an `rm` ResolveId, ListIds, Match,
Decide, Load, Teardown, ReadDir, Unlink and Rmdir; each reads the store as it is at
that moment, and a command may be killed between any two. The lock of a container
and what a running container adds to `rm` are in `Lifecycle`.

`raced`, `undermined`, `changed` and `expected` are history. Two creates have raced when one
of them saved, or was killed, while the other had not yet saved; an id is contested when two
creates of that very id have raced. An id is undermined when `rm` has changed its directory
while a create of it was between its check and its last save, or while another `rm` was
about to write the record it had loaded. After these incidents the code promises nothing
about the ids they touch, and the properties except those ids only.

## 3. Runs

Passing runs:

| Run | Instance | Shows |
|---|---|---|
| `Lifecycle_ops` | 2 terminals, 3 commands of start, stop, kill, pause, unpause, wait; shim crashes, slow kills | `AtMostOneInit`, `StoppedMeansDead`, `RunningIsRecorded`, `FrozenIffPaused`, `ReturnedMeansDead` |
| `Lifecycle_all` | 1 terminal, any 4 commands, all crashes, pid reuse | `RemoveLeavesNothing` |
| `Lifecycle_autoremove` | 2 terminals, 3 commands of start, start -a, kill -9, rm -f, with `--rm` | `SupervisorsLeaveNothing` |
| `Lifecycle_live` | 2 terminals, 3 commands of start, stop, wait, shim crashes, fairness | `CommandsTerminate`, `DeadWaitReturns` |
| `Ipam_leases` | 2 processes, 3 containers, 2 subnets, `--ip`, default and explicit gateway, gc, crashes | `UniqueLeases`, `LeasesUsable`, `ExhaustionIsReal`, `LockDiscipline`, refinement of `LeaseTable` (`ImplementsTable`) |
| `Ipam_in_use` | the same with 1 subnet and without gc | `AddressesInUseDistinct`, `GrantIsLeased` |
| `Launch_rollback` | all leftovers, undo actions that fail, fairness | `FailureLeavesNothing`, `StopLeavesNothing`, `FailedChildDies` |
| `Handshake` | 2 orphans, 2 signals, 2 exit codes, kills and failures on both sides, fairness | `FailureIsExplained`, `NoSignalDiscarded`, `NoForeignSignal`, refinement of `Session` (`ImplementsSession`), `LaunchEnds`, `ExitIsRecorded`, `SignalsReachWorkload` |
| `Host_shared` | 2 containers; two launches at once and a gc, or one at a time with a failure, a kill, a missing controller or no cgroup2, and a gc | `RunningReachable`, `PortLeadsHomeUnlessLeft`, `LimitsHold`, `GcLeavesHostCleanUndisturbed` |
| `Setup_workload` | 10 configurations, a failing call anywhere, both architectures, both filters | `SetupSucceeds`, `MountsStayInside`, `FilesAsAsked`, `WorkloadConfined`, `FilterDecides` |
| `Store_create` | all command lines with up to two options in every place, alone; eight races of creates with rm, one command killed | `ParsedAsMeant`, `AcceptedIffSane`, `StoredAsValidated`, `NamesUniqueUnlessRaced`, `ResolveRight` |

`Lifecycle_rm_start` ends in a violation of `RunningIsRecorded`: `rm` drops the lock
between check and removal, and a `start` in between is removed while it runs. Its
entry under "findings" in PROJECT.json quotes the sentence it contradicts
(`lifecycle.rs:232`).

Further instances, not listed as runs: each of these configurations also ends in
a violation, of the property it names, and shows one more place where the code
does not do what a reader, or a sentence of the repository, expects.

| Configuration | Property | What happens |
|---|---|---|
| `Lifecycle_lost_exit.cfg` | `ExitStatusKept` | `wait` reconciles without the lock and erases the exit status the shim has saved (`state.rs:16` says the lock prevents this) |
| `Lifecycle_start_attached.cfg` | `RunningIsRecorded` | `start -a` takes no lock; the loser removes the winner's directory (`main.rs:334`) |
| `Lifecycle_lock_identity.cfg` | `LockExclusive` | `rm` unlinks the lock file; two commands hold locks on different inodes (`state.rs:452`) |
| `Lifecycle_pid_reuse.cfg` | `NoStraySignal` | `kill` signals a pid checked earlier; `process.rs:338` promises a pidfd |
| `Launch_publish.cfg` | `FailureLeavesNothing` | a publish that breaks off half-way is not undone (`network.rs:60`) |
| `Handshake_no_pid_ns.cfg` | `NoForeignSignal` | with `--no-pid-ns`, init signals every process of the host when the workload exits (`init.rs:290`) |
| `Ipam_gc.cfg` | `AddressesInUseDistinct` | `gc` frees the address of a container not yet recorded as running (`ipam.rs:262`) |
| `Ipam_two_subnets.cfg` | `AddressesInUseDistinct` | a second subnet voids leases in use (`ipam.rs:164`) |
| `Host_same_port.cfg` | `PortLeadsHome` | two containers publish one port; `docs/myrun-architecture.md:1255` says this fails at create time |
| `Host_gc_teardown.cfg` | `PortLeadsHome` | three containers: gc frees the address of one that has stopped while its supervisor has yet to delete its rules; a launch that follows is given the address, and the old port leads to it (`supervisor.rs:354`) |
| `Host_gc_launch.cfg` | `RunningReachable` | `gc` finds no live container and removes the rules and lease of one being launched (`supervisor.rs:375`) |
| `Host_gc_chains.cfg` | `GcLeavesHostClean`, `GcLeavesNoBridge` | chains without a tagged rule are not noticed by gc and stay (`docs/networking.md:185`, `docs/bugs.md:103`); and a bridge made for `--bridge` stays, since gc knows only the default one (`supervisor.rs:376`) |
| `Host_gc_jumps.cfg` | `GcLeavesHostClean` | two launches at once add the same jump twice; gc deletes it once, the chain it leads to is still referred to, and both stay (`nat.rs:145`, `nat.rs:447`) |
| `Host_legacy_clone.cfg` | `LimitsHold` | `clone3` is refused, the legacy clone ignores the cgroup, and `add_pid` is skipped because the cgroup could be opened (`process.rs:190`, `supervisor.rs:134`, where `supervisor.rs:166` says that the process is moved) |
| `Handshake_no_cap_kill.cfg` | `SignalsReachWorkload` | `--user 7 --cap-drop ALL`: init has no CAP_KILL, the forward fails and the signal is lost (`init.rs:283`) |
| `Ipam_reserved.cfg` | `ReservedNeverLeased` | `--ip` at an end of the subnet, or at the gateway of the others beside an explicit `--gateway`, is leased (`config.rs:947`; `docs/networking.md:82` says never) |
| `Setup_exceptions.cfg` | `MountsStayInside`, `ReadOnlyDeep`, `WorkloadConfined` | a file may turn the mount namespace off, and init then mounts on the host; the read-only remount is not recursive, so what is mounted below a read-only volume stays writable; `--user 0 --cap-drop ALL` keeps SETUID and SETGID (`config.rs:451`) |
| `Store_exceptions.cfg` | `NamesUnique`, `ResolveRight`, `AcceptedIffSane`, `NothingSlipsThrough` | two creates scan before either has saved (`state.rs:537`, `docs/myrun-architecture.md:966`); a name that is also a prefix of two ids, its own container's among them, is reported as ambiguous (`state.rs:485`); `--rootfs r ls -l` is refused, where `cli.rs:301` says that what follows the command name belongs to the command; and from a file a port 0 or above 65535, any protocol, a negative size and an MTU above 32 bits are accepted and changed (`config.rs:261-268`, `362-364`, `380-399`) |

Where a row names several properties, `tlc -continue` shows the violations one after the other.

The passing runs leave out exactly the ingredient that the violating instances
show to be harmful: `Lifecycle_ops` has no `rm`, `gc`, `start -a` and no killed
commands, `Lifecycle_all` has one terminal, `Ipam_in_use` no gc and one subnet,
`Launch_rollback` no half-done publish, `Handshake` has a pid namespace and an init that may
signal its workload, `Host_shared` has different ports, a kernel with CLONE_INTO_CGROUP,
the default bridge and a gc that does not overlap with launches
(`GcRaces = FALSE`), `Setup_workload` asks for a mount namespace, for no read-only
volume with mounts below it, no volume below a writable one or over `/etc` and not for
`--user 0 --cap-drop ALL`, `Store_create` has no
container whose name is a prefix of its own id, no word with a dash after
`--rootfs r`; a file may have a number that `from_json` does not look at, and `ParsedAsMeant`
and `AcceptedIffSane` except it (`Slips`) unless an option overrides it. `LeasesUsable` excepts
an end of the subnet that was asked for. `Lifecycle_live` has no `run`, whose shim takes no
lock: beside a `start` the container is launched twice, and a `wait` that met the launch
that failed goes on with the one that runs. Where an incident belongs to the
question, it is a history variable instead: `PortLeadsHomeUnlessLeft`,
`GcLeavesHostCleanUndisturbed` and `NamesUniqueUnlessRaced` hold in all
behaviours of their run and except only those it marks.
A volume over `/etc`, or below a writable volume, is left out because `FilesAsAsked` says
that the host's files keep their content (`HostFilesKept`): the resolver files
(`network.rs:201-223`) and the mount points made for a volume go through a writable bind
mount to its source on the host.
`RemoveLeavesNothing` excepts a supervisor
killed in mid-launch: cgroup and pid reach `state.json` only with the save of
Running (`supervisor.rs:210`), so a later `rm` does not know of the cgroup.

### Bounds

Two terminals are enough for every race of two commands with each other and with
one supervisor each; three commands allow a launch and two commands racing it.
`MaxOps` bounds the commands of a behaviour, and a terminal starts at most one
supervisor, so two launches of the same container can meet. Four commands from
one terminal cover start, crash, repair and removal in sequence. The order of
terminals never matters, so they are symmetric where no liveness is checked.

Addresses have four bits: a subnet of eight with five to lease and one of four
with a single one to lease, so that exhaustion, the gateway inside the range,
an explicit gateway, a requested address and a change of subnet all happen with three
containers. The requested address is the broadcast address of the larger subnet; the explicit
gateway makes the default one an address to lease.

`Launch` needs no bounds; its state is finite. `Handshake` bounds the signals that
are sent (`MaxSignals` = 2, two different ones, so that a batch of two is forwarded)
and has two orphans, so that one is reaped in the grace period while the other lives. An error text is
one unit longer than `MaxPayload`, so that it is cut.

`Host` has two containers; one has limits, the other none. `Scenarios` splits the bounds:
overlapping launches without incidents, then a gc (which waits until all are done, `gcWaits`),
and launches one at a time with one failure, one kill, a controller or the whole hierarchy missing, and one gc, so that every pair of incidents that the code treats as independent is met
without the product of all. Two addresses for two containers make an address that is freed
early go to the other one. An address that gc frees during a teardown needs a third container,
one that is live; `Host_gc_teardown.cfg` has three, and `PortsLeadHome` is for any number.

`Setup` has one fault per behaviour, since a call that fails ends the set-up or has a
fallback whose own failure ends it. Between them the ten requests take every branch of
the scripts; volumes are bind and tmpfs, file and directory, read-only and not,
over `/etc`, over `/tmp` and over each other. The calls sent through a filter are a
number below, at, between and above the listed ones, with and without the x32 bit, and
one of a foreign architecture.

`Store` has every option of `Config`, alone, in pairs, before and after the root
directory, with and without a file. `Word` = 32768, `Half32` = 262144 and `MinMemory` = 8
keep the 64-bit edges, the edge of the 32-bit MTU and the least memory limit
within small numbers (ports keep their 16 bits). Three
creates and one rm give the races of `resolve` with a name, a prefix and an id.

Deadlock checking is off for all specifications but `Ipam`: a bounded number of
commands, a launch, a session, a set-up and scripts that have ended come to rest.
`Ipam` never stops.

### Fairness

`Lifecycle!Fairness` is weak fairness of each command, each supervisor, the
delivery of a pending SIGKILL and the reaping of orphans: processes that can run
are scheduled, sleeps and deadlines end, blocked calls return when they can.
`flock` is only weakly fair. Nothing makes the workload exit, a command appear or
a process crash. `Launch!FairSpec` is the same for one supervisor, and a child
whose channel has been closed reads EOF and exits; a workload that runs need not
exit. `Handshake!Fairness` is weak fairness of supervisor and init and the delivery
of a SIGKILL that was sent; workload and orphans need not exit, nobody need be
signalled. `Host`, `Setup` and `Store` state safety only.

## 4. Proofs

`tlapm` checks the eight proof modules completely. Each theorem holds for every
value of the constants that satisfies the assumptions named with it; those of the
modules (`ASSUME` in `Addressing`, `Ipam`, `Seccomp`, `ContainerState`, `Lifecycle`,
`Handshake`, `Host`, `Config`, `Store`, `Setup`) say that the constants are of the right
kind, that the value for "nothing" is not one of the values it is told apart from, that
two creates draw different ids, and that a host mounts its root file system once.

**Lifecycle**, for any number of terminals and commands. `TypeCorrect` holds for
all commands and all crashes; besides the domains it needs `Known`: a step that
uses a record comes after one that has loaded it.

`OneInit`, `StoppedIsDead`, `RunningIsFound`, `FreezerAgrees`, `ReturnedIsDead` and
`LockIsExclusive` assume `Keeps`: the commands are start, stop, kill, pause, unpause
and wait, no command is killed, and the container is not `--rm`. Supervisors may
be killed anywhere, SIGKILL may be slow and pids may be reused. The assumption is
the boundary the violating instances draw: with `rm` or `start -a`
(`Lifecycle_rm_start`, `Lifecycle_start_attached`, `Lifecycle_lock_identity`) the
statements are false. All six follow from one inductive invariant. None of the
properties is inductive alone, since a supervisor writes the file without the lock
and saves what it loaded long before. The parts of the invariant:

* `Shape`, `Lock`, `Progress`: which section of which command a program counter
  belongs to, that the one lock file never changes and whoever is in a
  guarded section holds it, and how far a supervisor and its init are along.
* `Launching`, `OneLaunch`: a `start` holds the lock from its load until the shim has
  reported, so before a supervisor has reported no other command changes anything,
  and no two are under way together (`OneUnderWay`).
* `Records`, `Sync`: what is in memory or in the file about the latest init. After
  its launch an init that is dead stays dead (`EndedStays`), so a record
  that was right stays right (`SoundStays`), and the file is written only by the
  holder of the lock, by the launch it waits for, or by someone who has seen every
  init dead (`FileChanges`). That is why a late save of a supervisor does no harm.
* `Freezer`, `Populated`: freezer and record change together while init lives
  (`AgreeStep`), and a cgroup with a live init in it exists.

**Handshake**, for any numbers of orphans, signals and exit codes and any
length of texts. `IInv` adds to the types: who is where (`Control`), that go is only
sent after the network is ready, that no side writes a second frame before the
first is out (`OneFrame`), the state of the children (`Children`), and `Flow`: what
has been read, is on its way and is still to be written is, up to what a killed
init has lost, the sequence of frames that the state of both sides calls for.
Reads and writes that move part of a frame leave that sequence as it is.

* `FailuresAreExplained`: a launch that fails for want of the expected word finds init
  killed or not executable.
* `SignalsAreKept`: a signal to a running container finds init with its signals blocked.
* `SignalsStayInside`: init signals only what is in its container, and forwards nothing to a
  workload it has reaped; the SIGKILL that ends the grace period may name pids reaped in it,
  and then nothing is left for init to do but to report and end. It assumes `PidNs`, and
  `Handshake_no_pid_ns.cfg` shows why.
* `SessionIsImplemented`: the safety part of `Session` is implemented, the parts of the
  abstract state read off the concrete one.

**Seccomp**. `FilterIsCorrect`: for every list of numbers that passes the length check
of `build_filter` and every call, the program stays inside its own text and returns
what the list asks for. The invariant says where the program counter may be and
that every test passed on the way has failed; a jump lands where it should because
the offset fits in eight bits (`Fits`).

**Ipam**, for any sets of processes, containers, subnets and configurations.

* `TypeCorrect` is inductive once `usable_range` and `Lowest` are known to stay
  within addresses; that a nonempty set of naturals has a least element is
  `LowestIsMember`, from well-foundedness.
* `LeasesAreUnique` needs `IInv == TypeOK /\ LockDiscipline /\ UniqueLeases`:
  uniqueness alone is not inductive, because a process stores a file computed
  from what it loaded; `LockDiscipline` says that this is still the file.
* `ExhaustionIsTrue`: an `allocate` that is about to report exhaustion has looked
  at every usable address, and the lock keeps the file as it saw it.
* `LeasesAreUsable` assumes that configurations have passed validation
  (`Config \subseteq Configs(Addr, Addr)`: any requested address, any explicit gateway). A
  lease is in the subnet and not the gateway of its own container. The interesting case is a
  requested address: validation, not `allocate`, keeps it in the subnet and off the gateway,
  and nothing keeps it off the ends, so that an end is leased exactly to who asks for it
  (`Ipam_reserved.cfg`).
* `FileImplementsTable` shows that the initial file is the empty table and that
  every store is a `Grant`, a `Renumber` or a `Withdraw` of the table, every
  other step a stutter, under `IInv`.
* `GrantsAreLeased` and `AddressesAreDistinct` hold when `"gc" \notin Jobs` and
  there is one subnet. They rest on `UseInv`, which adds what a process is about
  to return and that the file is for that subnet. Both assumptions are needed:
  `Ipam_gc.cfg` and `Ipam_two_subnets.cfg` refute the statement without them.

**Launch**, for any leftovers and any pattern of failing removals.
`FailedLaunchIsClean` and `StoppedContainerIsClean` rest on `Owed`: while a launch
or its unwinding is under way, each resource that was not there before and was
not refused is either in the list of removals under way or has its undo action
on the stack; in a teardown it is in the list. The steps are: creating registers
(`CreatedAndRegistered`), popping an action queues what it removes
(`UndoRemoves`), a removal deletes or marks as refused (`OneRemoved`), and
teardown names every resource (`TeardownNamesAll`). They assume that publishing
does not break off half-way (`PublishBreaks = FALSE`), and `Launch_publish` shows
why.

**Host**, for any number of containers, addresses, failing calls, killed supervisors
and runs of gc. `HostAssumption` says that there are finitely many containers and that
their names are not those of the tags and processes they are told apart from, and that each
container is on one of finitely many bridges, which may all be different.

* `TypeCorrect` needs to know what a process can still have to do: `Kinds` says that a
  script fits the phase of its process. A launch creates and undoes nothing, a rollback and
  a teardown concern one container, and only gc has items about all. With it go `Filter`
  (the packet filter has finitely many rules, all of the known kinds) and `Typed`, the
  domains of the rest.
* `RunningIsLimited` assumes `CloneIntoCgroup`; `Host_legacy_clone.cfg` refutes it without. It
  rests on `Limited`: a cgroup is made with every limit, a child is cloned into one that
  exists or moved into it before anything else is done, one with a child in it is not
  removed, and without a hierarchy a launch that asks for limits does not get past its first
  item. It holds whatever overlaps.
* `RunningIsReachable` assumes `GcRaces = FALSE`, that no launch overlaps a gc;
  `Host_gc_launch.cfg` refutes it without. Its invariant adds three parts. `Provided`: each
  thing that a container needs is there already or is still an item of its script, and the
  items are in the order in which they need each other (`Ahead`): the bridge before its
  address, a chain before the rules in it. `Recorded`: a container that runs is recorded as
  running, so that a scan finds it. `Aware`: a gc at work meets no launch, has found every
  container that runs, and what it has left to do is `Safe` for those. Everything that one
  container provides is `Kept` by the steps of the others. The interesting cases are a check
  and a creation in two steps, which another launch separates, and a rollback, which must
  leave alone what is shared.
* `PortsLeadHome` states `PortLeadsHomeUnlessLeft`. It assumes `GcRaces = FALSE` and that no
  two containers publish one port; `Host_same_port.cfg` refutes it without the second. The
  invariant adds `Homing`. `Owned`: as long as nothing was left, each rule of a container is
  for the address it has leased, and no script, be it a teardown, a rollback or gc,
  releases that address without having deleted the rule before (`Covered`). `Publishing`: what
  a launch has still to publish is for its own address, and its rollback deletes the rules
  before it releases. `Apart`: no address is leased twice. `Orderly`: the list of DNAT rules
  has each of them once. A teardown that releases the lease first breaks `Owned`. The attempt
  to prove the property without the exception for gc failed at `IpamGc`, which may free an
  address between the end of a container and the deletion of its rules;
  `Host_gc_teardown.cfg` shows that this is a behaviour of the code.
* `GcCleansUp` states `GcLeavesHostCleanUndisturbed`, assuming `GcRaces = FALSE`. The property
  speaks of gc at its end only, so the invariant `Tidy` has to say at each point of its script
  what is gone by then. `Swept` does: a gc is about to scan, at the items of single containers,
  or past the cgroups, the leases, the veths or the bridge, and if it found nobody alive and
  nothing disturbed it, all that it is past is gone (`AtLeases`, `AtLinks`, `AtVeths`,
  `AtRules`). What is gone stays gone (`Waning`), since nobody launches meanwhile (`Calm`);
  supervisors that still roll back or tear down only remove, and a cgroup gc finds in use is
  one whose supervisor has its removal still in its script (`Doomed`, from `Boxed`; a host
  without a hierarchy has none, `Uncaged`). The bridge that is gone is the default one,
  whichever bridges the containers were on. At the end
  the script itself has to be complete: `Ends` says that each chain is dropped in it, after the
  rules in the chain and the jumps to it were deleted or flushed. That one deletion of a jump is
  enough needs `Once`, no jump is there twice, and that nothing else refers to a chain needs
  `Chained`. The guard in INPUT may be there many times, since every pair of launches that
  overlap may add it again, and it is in no chain of myrun's that could be flushed: `Guarded`
  counts, and says that the script has at least as many deletions of it as there are copies
  (`Guards`, `Holds`). gc removes the chains only if it finds a rule tagged as myrun's, so `Marked` says
  that chains without one are there only while a launch sets them up or gc itself is removing
  them; `Host_gc_chains.cfg` shows the launch that is cut off between the two, and the history
  variable `disturbed` stands for it.

**Store**, for any number of creates and rms, all command lines and files, and
whichever commands are killed.

* `NamesAreUnique` needs to know what a create that has not saved yet can still see.
  `NameTaken`: if a container has a name, any other create of that name that has not raced
  with its create is still going to find it: the id is in what the create has yet to look at
  (`Finds`), or it has not scanned. That is not inductive alone, because the store may lose
  or change a record behind the create; `Records` and `Loaded` say which create made what is
  in the store and in the memory of an `rm`, `OwnThere` and `LoadedThere` that it is still
  there when it is written again, and `IdTaken` that a second create of an id is not past
  its check while the id is taken. Each is stated for ids that no incident has touched
  (`Clean`).
* `TextsResolve` adds `Resolving`: while the store does not change, the loop of `resolve`
  has noted exactly the prefixes it has passed, and every container of the given name is
  still ahead of it. It assumes that in no state a container has a name that its own id
  begins with (`NamesApart`); `Store_exceptions.cfg` shows why.
* `StoredIsValidated` is about the conversions first: for a configuration that validation
  lets through, reading back what was written gives it again (`Valid`). Then it follows
  `config.json` and `state.json` through the steps: before its first save a create finds its
  own configuration there or competes with another of the same id (`ConfigReady`), and
  afterwards the two files agree unless an `rm` is at work (`ConfigThere`). It assumes that
  no size is 8 EiB or more (`SizesFit`): above, the signed integers of `util/json.rs` wrap.

**Setup**, for every host table, list of volumes, masked and read-only paths, capability
sets, user, filter mode and architecture, and whichever calls fail. The invariant is
`SetupInv == Base /\ Where`. `Base` says that the configuration is one that `finalize` made
(`Known`), that nothing has leaked from a namespace of its own (`Kept`), and that the filter
has run as far as `Seccomp_proofs` allows (`FilterPart`). `Where` says how far the script
is; for each place it gives the calls that are left, the state of the mount table, and what
has been given up. The scripts are concatenations of lists whose length depends on the
configuration, so `ScriptIs` first splits them at the calls that matter (propagation, pivot,
unmount, security, fork, exec); between two of these an invariant knows only of which kind
the calls are. The mount table goes from `Settling` over `Pivoted` to `Settled`: every new
mount is a new file system or comes from one of the sources of the configuration (`Proper`),
`pivot_root` carries that over with the host's tree below one directory (`PivotKeeps`), and
the unmount of that directory removes it (`UmountKeeps`).

* `MountsAreInside` assumes that every configuration asks for a mount namespace;
  `Setup_exceptions.cfg` shows why.
* `WorkloadIsConfined` assumes that a container whose user is 0 has SETUID and SETGID among the
  capabilities asked for (`RootAsks`); `Setup_exceptions.cfg` shows why.
* `FilterDecidesInSetup` carries `FilterIsCorrect` over to the filter that setup
  chose for the mode and architecture.

Only model-checked:

* `RemoveLeavesNothing` and `SupervisorsLeaveNothing` of `Lifecycle`: their commands are
  the ones `Keeps` leaves out, and they hold for one terminal or for a few commands.
* `SetupSucceeds`: that no call of a script is refused depends on what exists in the given
  tree, which the assumptions leave open. `FilesAsAsked`: which of several mounts on and
  below a path is on top depends on the whole list of volumes, an induction over it.
* `ParsedAsMeant` and `AcceptedIffSane`: what the two passes make of a
  command line of any length is an induction over the line.
* Every liveness property. Liveness under fairness and ENABLED are outside what the prover
  handles, as are induction over data and RECURSIVE operators; no module uses the latter.

## 5. Not modelled

* Text: the grammars of JSON and TOML, rtnetlink messages, iptables arguments, and the
  characters of arguments, sizes and ports. `Config` models what values become, not
  how they are spelled; the repository tests the spelling by fuzzing and round trips.
* The argument loops of the commands other than run and create, and options that are
  treated like one that is modelled (`--cpus`, `--label`, `--dns` and others).
* Statistics, logging, error texts, and the declarations of system calls.
* `clone3`, the descriptors moved after it, and the copy of the binary into a memfd:
  plumbing in a child that shares nothing yet.
* Disk-full and other I/O errors of single saves in `Lifecycle` (they are in `Launch`).
* Kernels without start times in `/proc/<pid>/stat`, where the liveness test falls
  back to the pid.

## 6. Plan

Done: `ContainerState`, `Lifecycle`, `Launch`, `Session`, `Handshake`, `Addressing`,
`LeaseTable`, `Ipam`, `Nat`, `Host`, `Mounts`, `Seccomp`, `Setup`, `Config`, `Store`;
proofs about `Lifecycle`, `Handshake`, `Seccomp`, `Ipam`, `Launch`, `Host`, `Store` and
`Setup`.

Left:

* `Setup`: the part of `FilesAsAsked` that is about writes to the host
   (`HostFilesKept`), from `Proper` and the kinds of calls in `Where`, for the
   configurations without a volume over `/etc` or below a writable one.
