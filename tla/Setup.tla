------------------------------- MODULE Setup -------------------------------
(***************************************************************************)
(* What init does between the go signal and the workload's first           *)
(* instruction: the root file system, the interfaces, the resolver files,  *)
(* capabilities, no_new_privs, the seccomp filter and the change of user   *)
(* (src/runtime/init.rs setup and spawn_workload, filesystem.rs,           *)
(* security.rs, src/sys/caps.rs); then the system calls of the workload,   *)
(* through the filter.                                                     *)
(*                                                                         *)
(* init is a script, the system calls it has still to make.  Every call    *)
(* needs the privileges that earlier calls may have given up, and any call *)
(* may fail.                                                               *)
(***************************************************************************)
EXTENDS Seccomp, Mounts, FiniteSets

CONSTANTS
  Requests,    \* configurations as the user asks for them
  HostTable,   \* mount table of the host, its root first
  Tree,        \* the nodes that exist before init runs
  Files,       \* those of them that are not directories
  MaxFaults    \* bound: calls that fail for reasons of their own

Root == <<"rootfs">>

Path == Seq(STRING)

MountRecord == [at : Path, fs : STRING, sub : Path, flags : SUBSET STRING]

VolumeRecord ==
  [source : Path, destination : Path, fstype : {"bind", "tmpfs"}, readonly : BOOLEAN]

Request ==
  [uts : BOOLEAN, mount_ns : BOOLEAN, netns : BOOLEAN, network : {"bridge", "host", "none"},
   privileged : BOOLEAN, read_only : BOOLEAN, mounts : Seq(VolumeRecord), cwd : Path,
   masked_paths : Seq(Path), readonly_paths : Seq(Path), user : SUBSET Nat,
   cap_add : SUBSET STRING, cap_drop : SUBSET STRING,
   seccomp : {"unconfined", "default", "strict"}, no_new_privs : BOOLEAN,
   arch : {"x86_64", "aarch64"}]

(* The host's root file system is mounted once, and no new file system has *)
(* its name.                                                               *)
ASSUME SetupAssumption ==
  /\ MaxFaults \in Nat /\ Files \subseteq Tree
  /\ HostTable \in Seq(MountRecord) /\ HostTable # <<>>
  /\ \A i \in DOMAIN HostTable :
       IF i = 1 THEN HostTable[i].at = <<>> /\ HostTable[i].fs = "host" /\ HostTable[i].sub = <<>>
       ELSE HostTable[i].fs # "host"
  /\ Node("host", Root) \in Tree \ Files
  /\ \A r \in Requests :
       /\ r \in Request
       /\ \A i \in DOMAIN r.mounts : Last(Root \o r.mounts[i].destination) # "host"
       /\ r.seccomp = "unconfined" \/ FilterOf(r.seccomp, r.arch) \in Filters

VARIABLES
  config,   \* the configuration init has read
  script,   \* the calls it has still to make
  stage,    \* "setup", "running", "failed" or "exited"
  mounts,   \* mount table of init's namespace, seen from its root
  private,  \* its mounts do not propagate
  leaked,   \* mount points that the host sees
  made,     \* nodes created or written
  net,      \* what is configured in the network namespace
  caps,     \* effective and permitted capabilities
  bounding, \* bounding set
  nnp,      \* no_new_privs
  uid,
  faults    \* calls that failed for reasons of their own

fsVars   == <<mounts, private, leaked, made>>
credVars == <<caps, bounding, nnp, uid>>
vars     == <<config, script, stage, fsVars, net, credVars, faults, bpfVars>>

-----------------------------------------------------------------------------
(* Capabilities.  CAP_TABLE, less the ones nothing here tells apart.       *)

DEFAULT_KEEP ==
  {"CHOWN", "DAC_OVERRIDE", "FOWNER", "FSETID", "KILL", "SETGID", "SETUID", "SETPCAP",
   "NET_BIND_SERVICE", "SYS_CHROOT", "MKNOD", "AUDIT_WRITE"}

CAP_TABLE == DEFAULT_KEEP \cup {"SYS_ADMIN", "NET_ADMIN", "NET_RAW", "SYS_PTRACE"}

resolve_keep_set(base, add, drop) ==
  (IF "ALL" \in drop THEN {} ELSE base \ drop)
  \cup (IF "ALL" \in add THEN CAP_TABLE ELSE add)

Given(user) == user # {}

cap_mask(c) ==
  IF c.privileged THEN CAP_TABLE
  ELSE resolve_keep_set(DEFAULT_KEEP, c.cap_add, c.cap_drop)
       \cup (IF Given(c.user) THEN {"SETUID", "SETGID"} ELSE {})

(* security::precheck, made by the command line and again by init.         *)
precheck(c) == c.privileged \/ c.no_new_privs \/ c.seccomp = "unconfined"

(* What finalize_and_validate does to the fields used here.                *)
finalize(r) ==
  [r EXCEPT !.seccomp = IF r.privileged THEN "unconfined" ELSE @,
            !.netns   = IF r.network = "host" THEN FALSE ELSE @]

-----------------------------------------------------------------------------
(* Calls.  `then' follows when the call succeeds; if it fails, `otherwise' *)
(* follows, unless the error is passed on.                                 *)

Call(op, arg) == [op |-> op, arg |-> arg, then |-> <<>>, hard |-> TRUE, otherwise |-> <<>>]

Quietly(c) == [c EXCEPT !.hard = FALSE]

OrElse(c, calls) == [c EXCEPT !.hard = FALSE, !.otherwise = calls]

Then(c, calls) == [c EXCEPT !.then = calls]

Each(seq, f(_)) == FlattenSeq([i \in DOMAIN seq |-> f(seq[i])])

MkdirP(p) == Call("mkdir", p)

NewFs(fs, p, flags) == Call("mount", [fs |-> fs, at |-> p, flags |-> flags])

Bind(p, q, rec) == Call("bind", [from |-> p, at |-> q, rec |-> rec])

RemountRo(p) == Call("remount", p)

-----------------------------------------------------------------------------
(* filesystem.rs.  Up to the pivot paths are the host's.                   *)

In(p) == Root \o p

Plain == {"nosuid", "noexec", "nodev"}

DEVICES == <<"null", "tty">>

DEV_SYMLINKS == <<"fd">>

HostHas(p) == Locate(HostTable, p) \in Tree

make_device(name) ==
  LET target == In(<<"dev", name>>)
      onHost == <<"dev", name>> IN
  <<OrElse(Call("mknod", target),
           IF HostHas(onHost) THEN <<Call("touch", target), Bind(onHost, target, FALSE)>>
                              ELSE <<>>)>>

symlink(name) == <<Quietly(Call("symlink", In(<<"dev", name>>)))>>

make_devices == Each(DEVICES, make_device) \o symlink("ptmx") \o Each(DEV_SYMLINKS, symlink)

IsDir(p) == Locate(HostTable, p) \notin Files

(* A new file system is named after its mount point.                       *)
mount_volume(v) ==
  LET target == In(v.destination) IN
  (IF v.fstype = "tmpfs"
     THEN <<MkdirP(target), NewFs(Last(target), target, {"nosuid", "nodev"})>>
     ELSE <<Call("stat", v.source)>>
          \o (IF IsDir(v.source) THEN <<MkdirP(target)>>
              ELSE <<MkdirP(Front(target)), Call("touch", target)>>)
          \o <<Bind(v.source, target, TRUE)>>)
  \o (IF v.readonly THEN <<RemountRo(target)>> ELSE <<>>)

mount_volumes(c) == Each(c.mounts, mount_volume)

mount_sys ==
  OrElse(NewFs("sysfs", In(<<"sys">>), Plain \cup {"ro"}),
         <<Bind(<<"sys">>, In(<<"sys">>), TRUE), RemountRo(In(<<"sys">>))>>)

mount_tmp == <<MkdirP(In(<<"tmp">>)), NewFs("tmpfs", In(<<"tmp">>), {"nosuid", "nodev"})>>

(* Variant: volumes before the standard mounts, which then cover them.     *)
mount_standard_volumes_first(c) ==
  mount_volumes(c)
  \o <<MkdirP(In(<<"proc">>)), NewFs("proc", In(<<"proc">>), Plain),
       MkdirP(In(<<"sys">>)), mount_sys,
       MkdirP(In(<<"dev">>)), NewFs("devices", In(<<"dev">>), {"nosuid"})>>
  \o mount_tmp \o make_devices

mount_standard(c) ==
  <<MkdirP(In(<<"proc">>)), NewFs("proc", In(<<"proc">>), Plain),
    MkdirP(In(<<"sys">>)), mount_sys,
    MkdirP(In(<<"dev">>)), NewFs("devices", In(<<"dev">>), {"nosuid"}),
    MkdirP(In(<<"dev", "pts">>)),
    Quietly(NewFs("pts", In(<<"dev", "pts">>), {"nosuid", "noexec"})),
    MkdirP(In(<<"dev", "shm">>)), NewFs("shm", In(<<"dev", "shm">>), Plain),
    MkdirP(In(<<"dev", "mqueue">>)),
    Quietly(NewFs("mqueue", In(<<"dev", "mqueue">>), Plain))>>
  \o mount_tmp \o make_devices \o mount_volumes(c)

mask_path(p) == <<Quietly(Call("mask", p))>>

readonly_path(p) == <<Then(Quietly(Call("self_bind", p)), <<Quietly(RemountRo(p))>>)>>

Seal(c) == IF c.read_only THEN <<RemountRo(Root)>> ELSE <<>>

pivot == <<Call("chdir", Root), Call("pivot_root", <<>>), Call("umount", <<>>), Call("chdir", <<>>)>>

Hide(c) ==
  IF c.privileged THEN <<>>
  ELSE Each(c.masked_paths, mask_path) \o Each(c.readonly_paths, readonly_path)

(* Variant: the mounts are made while they still propagate.                *)
fs_setup_shared(c) ==
  <<Bind(Root, Root, TRUE)>> \o mount_standard(c) \o Seal(c)
  \o <<Call("make_rprivate", <<>>)>> \o pivot \o Hide(c)

fs_setup(c) ==
  <<Call("make_rprivate", <<>>), Bind(Root, Root, TRUE)>>
  \o mount_standard(c) \o Seal(c) \o pivot \o Hide(c)

-----------------------------------------------------------------------------
(* network.rs, inside the namespace.                                       *)

configure_inside(c) ==
  IF ~c.netns THEN <<>>
  ELSE <<Call("link", "lo")>>
       \o (IF c.network = "bridge"
             THEN <<Call("link", "address"), Call("link", "eth0"), Call("link", "route")>>
             ELSE <<>>)

write_file(p) == <<Quietly(Call("write", p))>>

write_resolver_files(c) ==
  <<Then(Quietly(MkdirP(<<"etc">>)),
         write_file(<<"etc", "hosts">>)
         \o (IF c.network = "none" THEN <<>> ELSE write_file(<<"etc", "resolv.conf">>))
         \o write_file(<<"etc", "hostname">>))>>

-----------------------------------------------------------------------------
(* security.rs and init.rs.                                                *)

(* Variant: the filter comes before no_new_privs.                          *)
apply_filter_first(c) ==
  IF c.privileged THEN <<>>
  ELSE <<Call("ambient", <<>>), Call("bounding", <<>>), Call("capset", <<>>)>>
       \o (IF c.seccomp = "unconfined" THEN <<>> ELSE <<Call("seccomp", c.seccomp)>>)
       \o (IF c.no_new_privs THEN <<Call("no_new_privs", <<>>)>> ELSE <<>>)

(* Variant: the bounding set is left alone.                                *)
apply_bounding_kept(c) ==
  IF c.privileged THEN <<>>
  ELSE <<Call("ambient", <<>>), Call("capset", <<>>)>>
       \o (IF c.no_new_privs THEN <<Call("no_new_privs", <<>>)>> ELSE <<>>)
       \o (IF c.seccomp = "unconfined" THEN <<>> ELSE <<Call("seccomp", c.seccomp)>>)

apply(c) ==
  IF c.privileged THEN <<>>
  ELSE <<Call("ambient", <<>>), Call("bounding", <<>>), Call("capset", <<>>)>>
       \o (IF c.no_new_privs THEN <<Call("no_new_privs", <<>>)>> ELSE <<>>)
       \o (IF c.seccomp = "unconfined" THEN <<>> ELSE <<Call("seccomp", c.seccomp)>>)

switch_user(c) ==
  IF Given(c.user) THEN <<Call("setgroups", <<>>), Call("setgid", <<>>), Call("setuid", <<>>)>>
  ELSE <<>>

(* From the fork on the script is the child's.                             *)
spawn_workload(c) ==
  <<Call("resolve_exe", <<>>), Call("fork", <<>>)>> \o switch_user(c) \o <<Call("execve", <<>>)>>

setup(c) ==
  (IF c.uts THEN <<Call("sethostname", <<>>)>> ELSE <<>>)
  \o fs_setup(c) \o configure_inside(c) \o write_resolver_files(c)
  \o <<Call("chdir", c.cwd)>> \o apply(c)
-----------------------------------------------------------------------------
(* The kernel: what a call needs, and when it cannot succeed.              *)

Capability(op) ==
  CASE op \in {"mount", "bind", "remount", "mask", "self_bind", "make_rprivate",
               "pivot_root", "umount", "sethostname"} -> {"SYS_ADMIN"}
    [] op = "link"                    -> {"NET_ADMIN"}
    [] op = "bounding"                -> {"SETPCAP"}
    [] op = "mknod"                   -> {"MKNOD"}
    [] op \in {"setgroups", "setgid"} -> {"SETGID"}
    [] op = "setuid"                  -> {"SETUID"}
    [] OTHER                          -> {}

SystemCall(op) ==
  CASE op \in {"mount", "bind", "remount", "mask", "self_bind", "make_rprivate"} -> "mount"
    [] op = "umount" -> "umount2"
    [] OTHER         -> op

Filtered(op) ==
  \E e \in ToSet(denied_syscalls("strict")) :
     e[1] = SystemCall(op) /\ syscall_nr(e, config.arch) \in ToSet(filter.nrs)

Exists(n) == n.path = <<>> \/ n \in Tree \cup made

There(p) == Exists(Locate(mounts, p))

MissingDirs(p) == {q \in Prefixes(p) : ~There(q)}

CanCreate(p) == Writable(mounts, p) /\ MountOf(mounts, p).fs \notin {"proc", "sysfs", "hostsys"}

DevNull == <<"dev", "null">>

Linked == [lo |-> {}, address |-> {}, eth0 |-> {}, route |-> {"address", "eth0"}]

Impossible(c) ==
  \/ ~(Capability(c.op) \subseteq caps)
  \/ Filtered(c.op)
  \/ c.op = "mkdir" /\ MissingDirs(c.arg) # {} /\ ~CanCreate(c.arg)
  \/ c.op = "mount" /\ ~There(c.arg.at)
  \/ c.op = "bind" /\ ~(There(c.arg.from) /\ There(c.arg.at))
  \/ c.op = "remount" /\ ~(There(c.arg) /\ IsMountPoint(mounts, c.arg))
  \/ c.op = "mask" /\ Locate(mounts, c.arg) \in Files /\ ~There(DevNull)
  \/ c.op \in {"mknod", "symlink", "write"} /\ ~There(c.arg) /\ ~CanCreate(c.arg)
  \/ c.op \in {"touch", "write"} /\ ~Writable(mounts, c.arg)
  \/ c.op \in {"stat", "chdir"} /\ ~There(c.arg)
  \/ c.op = "pivot_root" /\ ~(private /\ IsMountPoint(mounts, Root))
  \/ c.op = "link" /\ ~(Linked[c.arg] \subseteq net)
  \/ c.op = "capset" /\ ~(cap_mask(config) \subseteq caps)
  \/ c.op = "seccomp" /\ ~nnp /\ "SYS_ADMIN" \notin caps

(* Device nodes and sysfs may be refused although init is root: in a user  *)
(* namespace, and without a network namespace of its own.                  *)
Refusable(c) == c.op = "mknod" \/ (c.op = "mount" /\ c.arg.fs = "sysfs" /\ ~config.netns)

-----------------------------------------------------------------------------
(* The effect of a call that succeeds.                                     *)

(* A new mount; the host sees it unless it stays in the namespace.         *)
Attach(table, p) ==
  /\ mounts' = table
  /\ leaked' = IF private /\ config.mount_ns THEN leaked ELSE leaked \cup {p}
  /\ UNCHANGED <<private, made>>

Make(nodes) == made' = made \cup nodes /\ UNCHANGED <<mounts, private, leaked>>

MaskOn(p) ==
  IF Locate(mounts, p) \in Files THEN bind(mounts, DevNull, p, FALSE)
  ELSE mount(mounts, "empty", p, Plain \cup {"ro"})

FsCall(c) ==
  \/ c.op = "make_rprivate" /\ private' = TRUE /\ UNCHANGED <<mounts, leaked, made>>
  \/ c.op = "mkdir" /\ Make({Locate(mounts, p) : p \in MissingDirs(c.arg)})
  \/ /\ c.op \in {"mknod", "touch", "symlink"}
     /\ Make(IF There(c.arg) THEN {} ELSE {Locate(mounts, c.arg)})
  \/ c.op = "write" /\ Make({Locate(mounts, c.arg)})
  \/ c.op = "mount" /\ Attach(mount(mounts, c.arg.fs, c.arg.at, c.arg.flags), c.arg.at)
  \/ c.op = "bind" /\ Attach(bind(mounts, c.arg.from, c.arg.at, c.arg.rec), c.arg.at)
  \/ c.op \in {"mask", "self_bind"} /\ ~There(c.arg) /\ UNCHANGED fsVars
  \/ c.op = "mask" /\ There(c.arg) /\ Attach(MaskOn(c.arg), c.arg)
  \/ c.op = "self_bind" /\ There(c.arg) /\ Attach(bind(mounts, c.arg, c.arg, TRUE), c.arg)
  \/ /\ c.op = "remount"
     /\ mounts' = remount_ro(mounts, c.arg)
     /\ UNCHANGED <<private, leaked, made>>
  \/ c.op = "pivot_root" /\ Attach(pivot_root(mounts, Root), <<>>)
  \/ c.op = "umount" /\ mounts' = umount_top(mounts) /\ UNCHANGED <<private, leaked, made>>

FsOps ==
  {"make_rprivate", "mkdir", "mknod", "touch", "symlink", "write", "mount", "bind", "mask",
   "self_bind", "remount", "pivot_root", "umount"}

(* Changing from root to another user clears the capabilities.             *)
CredCall(c) ==
  \/ c.op = "bounding" /\ bounding' = bounding \cap cap_mask(config) /\ UNCHANGED <<caps, nnp, uid>>
  \/ c.op = "capset" /\ caps' = cap_mask(config) /\ UNCHANGED <<bounding, nnp, uid>>
  \/ c.op = "no_new_privs" /\ nnp' = TRUE /\ UNCHANGED <<caps, bounding, uid>>
  \/ /\ c.op = "setuid"
     /\ \E u \in config.user : uid' = u
     /\ caps' = IF uid' = 0 THEN caps ELSE {}
     /\ UNCHANGED <<bounding, nnp>>

CredOps == {"bounding", "capset", "no_new_privs", "setuid"}

(* execve: root has the whole bounding set again, unless no new privileges *)
(* are allowed.                                                            *)
Exec ==
  /\ caps' = IF uid # 0 THEN {} ELSE IF nnp THEN bounding \cap caps ELSE bounding
  /\ stage' = "running"
  /\ UNCHANGED <<bounding, nnp, uid>>

Advance(calls) == script' = calls \o Tail(script)

Succeed ==
  LET c == Head(script) IN
  /\ script # <<>> /\ ~Impossible(c)
  /\ Advance(c.then)
  /\ IF c.op \in FsOps THEN FsCall(c) ELSE UNCHANGED fsVars
  /\ IF c.op \in CredOps THEN CredCall(c) /\ UNCHANGED stage
     ELSE IF c.op = "execve" THEN Exec
     ELSE stage' = (IF c.op = "fork" THEN "child" ELSE stage) /\ UNCHANGED credVars
  /\ net' = IF c.op = "link" THEN net \cup {c.arg} ELSE net
  /\ filter' = IF c.op = "seccomp" THEN FilterOf(c.arg, config.arch) ELSE filter
  /\ UNCHANGED <<config, faults, at, acc, data, verdict>>

(* A failure that is passed on ends init, or the child with an exit code.  *)
Fails(c) ==
  /\ IF c.hard
       THEN script' = <<>> /\ stage' = IF stage = "child" THEN "exited" ELSE "failed"
       ELSE Advance(c.otherwise) /\ UNCHANGED stage
  /\ UNCHANGED <<config, fsVars, net, credVars, bpfVars>>

Refuse ==
  /\ script # <<>> /\ (Impossible(Head(script)) \/ Refusable(Head(script)))
  /\ Fails(Head(script)) /\ UNCHANGED faults

CallFails ==
  /\ script # <<>> /\ ~Impossible(Head(script)) /\ Cardinality(faults) < MaxFaults
  /\ Fails(Head(script)) /\ faults' = faults \cup {<<Head(script).op, Head(script).arg>>}

(* The workload makes a system call.                                       *)
Workload ==
  /\ stage = "running"
  /\ Execute \/ \E call \in Calls : Enter(call)
  /\ UNCHANGED <<config, script, stage, fsVars, net, credVars, faults>>

Init ==
  /\ config \in {finalize(r) : r \in {q \in Requests : precheck(finalize(q))}}
  /\ script = setup(config) \o spawn_workload(config)
  /\ stage = "setup"
  /\ mounts = HostTable /\ private = FALSE /\ leaked = {} /\ made = {}
  /\ net = {}
  /\ caps = CAP_TABLE /\ bounding = CAP_TABLE /\ nnp = FALSE /\ uid = 0
  /\ faults = {}
  /\ filter = NoFilter /\ Resting

Next == Succeed \/ Refuse \/ CallFails \/ Workload

Spec == Init /\ [][Next]_vars

-----------------------------------------------------------------------------
(* Properties.                                                             *)

Running == stage = "running"

Failed(op, arg) == <<op, arg>> \in faults

(* Nothing that setup does takes away what a later step of it needs: init  *)
(* fails, and the child exits before its execve, only where a call failed  *)
(* for reasons of its own.                                                 *)
SetupSucceeds == stage \in {"failed", "exited"} => faults # {}

OnHost(n) == n.fs \in {m.fs : m \in ToSet(HostTable)}

(* No mount of the container is ever visible outside its namespace: before *)
(* the first one propagation has been turned off.                          *)
MountsStayInside == leaked = {}

(* Of the host's files only the root file system is written to.            *)
HostFilesKept == \A n \in made : OnHost(n) => n.fs = "host" /\ Under(n.path, Root)

Covered(i) ==
  \/ \E j \in DOMAIN config.mounts : j > i /\ Under(config.mounts[i].destination, config.mounts[j].destination)
  \/ ~config.privileged /\ \E p \in ToSet(config.masked_paths) : Under(config.mounts[i].destination, p)

VolumesInPlace ==
  \A i \in DOMAIN config.mounts :
     LET v == config.mounts[i] IN
     Covered(i) \/ /\ Writable(mounts, v.destination) = ~v.readonly
                   /\ Locate(mounts, v.destination) =
                        IF v.fstype = "tmpfs" THEN Node(Last(v.destination), <<>>)
                        ELSE Locate(HostTable, v.source)

Hidden(p) ==
  LET n == Locate(mounts, p) IN
  ~Exists(n) \/ n.fs = "empty" \/ n \in {Node("devices", <<"null">>), Node("hostdev", <<"null">>)}

PathsHidden ==
  /\ \A p \in ToSet(config.masked_paths) : Hidden(p) \/ Failed("mask", p)
  /\ \A p \in ToSet(config.readonly_paths) :
       ~There(p) \/ ~Writable(mounts, p) \/ Failed("self_bind", p) \/ Failed("remount", p)

(* What the workload finds of files is what was asked for.  Every volume   *)
(* is in its place with its access, unless a later volume or a masked path *)
(* lies over it; masked paths are hidden, read-only paths and root are     *)
(* read-only; and outside the container's root file system the host's      *)
(* files are as they were.                                                 *)
FilesAsAsked ==
  /\ HostFilesKept
  /\ Running => /\ VolumesInPlace
                /\ config.read_only => ~Writable(mounts, <<>>)
                /\ ~config.privileged => PathsHidden

(* The capabilities the user asked to keep.                                *)
Asked(c) == resolve_keep_set(DEFAULT_KEEP, c.cap_add, c.cap_drop)

CredentialsHeld ==
  /\ caps \subseteq Asked(config)
  /\ bounding \subseteq Asked(config) \cup {"SETUID", "SETGID"}
  /\ nnp = config.no_new_privs
  /\ filter = IF config.seccomp = "unconfined" THEN NoFilter ELSE FilterOf(config.seccomp, config.arch)
  /\ IF Given(config.user) THEN uid \in config.user /\ (uid # 0 => caps = {}) ELSE uid = 0

(* Nothing of the host's root file system is mounted but the container's   *)
(* root, the volumes, single devices and, where a sysfs of its own was     *)
(* refused, /sys.                                                          *)
Sources(c) ==
  {Root, <<"sys">>} \cup {<<"dev", DEVICES[i]>> : i \in DOMAIN DEVICES}
  \cup {c.mounts[i].source : i \in {j \in DOMAIN c.mounts : c.mounts[j].fstype = "bind"}}

HostDetached ==
  \A i \in DOMAIN mounts :
     mounts[i].fs = "host" => \E p \in Sources(config) : Under(mounts[i].sub, p)

(* The workload never runs with more than its configuration allows: the    *)
(* capabilities asked for and no way to others, no_new_privs, the filter   *)
(* of its mode and the user asked for, and the host's root is out of its   *)
(* reach.                                                                  *)
WorkloadConfined == Running => HostDetached /\ (~config.privileged => CredentialsHeld)

(* The paths that setup makes read-only are so all the way down, also      *)
(* where another file system is mounted beneath them.                      *)
ReadOnlyDeep ==
  Running =>
    \A r \in {<<"sys">>} \cup {v.destination : v \in {w \in ToSet(config.mounts) : w.readonly}} :
      \A m \in ToSet(mounts) : Under(m.at, r) => ~Writable(mounts, m.at)
=============================================================================
