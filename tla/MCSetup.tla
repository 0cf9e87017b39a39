------------------------------- MODULE MCSetup -------------------------------
(* Instances of Setup for TLC: a small host, and requests that between them *)
(* take every path through the set-up.                                      *)
EXTENDS Setup

MCTable ==
  <<Mount(<<>>, "host", <<>>, {}),
    Mount(<<"sys">>, "hostsys", <<>>, Plain), Mount(<<"sys", "fs">>, "hostcg", <<>>, Plain),
    Mount(<<"dev">>, "hostdev", <<>>, {"nosuid"}),
    Mount(<<"srv", "sub">>, "hostsub", <<>>, {})>>

MCFiles ==
  {Node("host", <<"hosts">>), Node("proc", <<"kcore">>), Node("hostdev", <<"null">>),
   Node("hostdev", <<"tty">>)}

MCTree ==
  MCFiles \cup
  {Node("host", p) : p \in {<<"rootfs">>, <<"rootfs", "proc">>, <<"srv">>, <<"srv", "in">>}} \cup
  {Node("proc", p) : p \in {<<"scsi">>, <<"sys">>}} \cup
  {Node(fs, <<"firmware">>) : fs \in {"sysfs", "hostsys"}}

Volume(src, dst, type, ro) ==
  [source |-> src, destination |-> dst, fstype |-> type, readonly |-> ro]

Srv      == Volume(<<"srv", "in">>, <<"data">>, "bind", FALSE)
SrvRo    == Volume(<<"srv", "in">>, <<"data">>, "bind", TRUE)
SrvDeep  == Volume(<<"srv">>, <<"data">>, "bind", TRUE)
OneFile  == Volume(<<"hosts">>, <<"tmp", "hosts">>, "bind", TRUE)
OwnTmp   == Volume(<<>>, <<"tmp">>, "tmpfs", FALSE)
ScratchRo == Volume(<<>>, <<"scratch">>, "tmpfs", TRUE)
RoEtc    == Volume(<<"srv", "in">>, <<"etc">>, "bind", TRUE)

Base ==
  [uts |-> TRUE, mount_ns |-> TRUE, netns |-> TRUE, network |-> "bridge", privileged |-> FALSE,
   read_only |-> FALSE, mounts |-> <<>>, cwd |-> <<>>,
   masked_paths |-> <<<<"proc", "kcore">>, <<"proc", "scsi">>, <<"sys", "firmware">>>>,
   readonly_paths |-> <<<<"proc", "sys">>, <<"proc", "bus">>>>,
   user |-> {}, cap_add |-> {}, cap_drop |-> {}, seccomp |-> "default", no_new_privs |-> TRUE,
   arch |-> "x86_64"]

MCRequests ==
  {Base, [Base EXCEPT !.arch = "aarch64", !.seccomp = "strict", !.network = "none"],
   [Base EXCEPT !.seccomp = "strict", !.read_only = TRUE, !.mounts = <<RoEtc>>],
   [Base EXCEPT !.privileged = TRUE, !.mounts = <<Srv, ScratchRo, OwnTmp, OneFile>>],
   [Base EXCEPT !.no_new_privs = FALSE],
   [Base EXCEPT !.no_new_privs = FALSE, !.seccomp = "unconfined", !.network = "host", !.uts = FALSE],
   [Base EXCEPT !.user = {7}, !.cap_drop = {"ALL"}, !.cap_add = {"NET_RAW"}],
   [Base EXCEPT !.user = {0}, !.cap_add = {"ALL"}],
   [Base EXCEPT !.cap_drop = {"MKNOD", "SETPCAP"}, !.mounts = <<SrvRo, OneFile>>, !.read_only = TRUE],
   [Base EXCEPT !.network = "host", !.cap_add = {"SYS_ADMIN"}, !.mounts = <<Srv, SrvRo>>]}

MCNative(n) == [arch |-> AUDIT_ARCH_NATIVE, nr |-> n]

MCCalls ==
  {MCNative(n) : n \in {0, 40, 97, 101, 165, 270, 442, 443, X32_BIT, X32_BIT + 165}}
  \cup {[arch |-> 2, nr |-> 40]}

MCFilters == {FilterOf(m, a) : m \in {"default", "strict"}, a \in {"x86_64", "aarch64"}}

(* What the further instance is about: no mount namespace, mounts below a  *)
(* read-only one, and a root user without capabilities.                    *)
MCExceptions ==
  {[Base EXCEPT !.mount_ns = FALSE], [Base EXCEPT !.mounts = <<SrvDeep>>],
   [Base EXCEPT !.user = {0}, !.cap_drop = {"ALL"}]}
=============================================================================
