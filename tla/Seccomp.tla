------------------------------ MODULE Seccomp ------------------------------
(***************************************************************************)
(* The filter program of src/sys/seccomp.rs and the kernel running it: one *)
(* instruction per step, for every system call of a filtered process.      *)
(***************************************************************************)
EXTENDS Integers, Sequences

(* SYSCALLS: name and number on x86_64 and on aarch64, -1 where the call   *)
(* does not exist; in the order of DEFAULT_DENY and then of STRICT_EXTRA.  *)
DEFAULT_DENY ==
  <<
    <<"mount", 165, 40>>, <<"umount2", 166, 39>>, <<"pivot_root", 155, 41>>,
    <<"chroot", 161, 51>>, <<"swapon", 167, 224>>, <<"swapoff", 168, 225>>,
    <<"reboot", 169, 142>>, <<"sethostname", 170, 161>>, <<"setdomainname", 171, 162>>,
    <<"init_module", 175, 105>>, <<"finit_module", 313, 273>>,
    <<"delete_module", 176, 106>>, <<"kexec_load", 246, 104>>,
    <<"kexec_file_load", 320, 294>>, <<"open_by_handle_at", 304, 265>>,
    <<"name_to_handle_at", 303, 264>>, <<"add_key", 248, 217>>, <<"request_key", 249, 218>>,
    <<"keyctl", 250, 219>>, <<"setns", 308, 268>>, <<"unshare", 272, 97>>,
    <<"bpf", 321, 280>>, <<"perf_event_open", 298, 241>>, <<"clock_settime", 227, 112>>,
    <<"clock_adjtime", 305, 266>>, <<"settimeofday", 164, 170>>, <<"adjtimex", 159, 171>>,
    <<"acct", 163, 89>>, <<"quotactl", 179, 60>>, <<"ioperm", 173, -1>>,
    <<"iopl", 172, -1>>, <<"uselib", 134, -1>>, <<"nfsservctl", 180, -1>>,
    <<"fsopen", 430, 430>>, <<"fsconfig", 431, 431>>, <<"fsmount", 432, 432>>,
    <<"move_mount", 429, 429>>, <<"open_tree", 428, 428>>, <<"mount_setattr", 442, 442>>
  >>

STRICT_EXTRA ==
  <<<<"ptrace", 101, 117>>, <<"process_vm_readv", 310, 270>>,
    <<"process_vm_writev", 311, 271>>, <<"syslog", 103, 116>>>>

denied_syscalls(mode) ==
  CASE mode = "unconfined" -> <<>>
    [] mode = "default"    -> DEFAULT_DENY
    [] mode = "strict"     -> DEFAULT_DENY \o STRICT_EXTRA

syscall_nr(entry, arch) == IF arch = "x86_64" THEN entry[2] ELSE entry[3]

(* The numbers the filter denies: calls unknown to the architecture are    *)
(* left out.                                                               *)
Numbers(mode, arch) ==
  SelectSeq([i \in DOMAIN denied_syscalls(mode) |-> syscall_nr(denied_syscalls(mode)[i], arch)],
            LAMBDA nr : nr >= 0)

-----------------------------------------------------------------------------
AUDIT_ARCH_NATIVE == 1

X32_BIT == 1073741824

stmt(op, k) == [op |-> op, k |-> k, jt |-> 0, jf |-> 0]

(* Offsets are bytes, counted from the instruction that follows.           *)
jump(op, k, jt, jf) == [op |-> op, k |-> k, jt |-> jt % 256, jf |-> jf % 256]

MaxFilter == 250

first_check(f) == IF f.guard THEN 4 ELSE 3

allow_idx(f) == first_check(f) + Len(f.nrs)

deny_idx(f) == allow_idx(f) + 1

kill_idx(f) == allow_idx(f) + 2

(* Variant: the offset of a check is one short.                            *)
check_off_by_one(f, i) == jump("jeq", f.nrs[i - first_check(f) + 1], deny_idx(f) - i - 2, 0)

(* The check at index i jumps to the denial if the number is its own.      *)
check(f, i) == jump("jeq", f.nrs[i - first_check(f) + 1], deny_idx(f) - i - 1, 0)

(* build_filter: f lists the denied numbers, says whether there is an x32  *)
(* guard (on x86_64) and what denial means.  Indices start at 0.           *)
Fits(f) == kill_idx(f) <= MaxFilter

build_filter(f) ==
  [i \in 0..kill_idx(f) |->
     CASE i = 0 -> stmt("ld_arch", 0)
       [] i = 1 -> jump("jeq", AUDIT_ARCH_NATIVE, 0, kill_idx(f) - 2)
       [] i = 2 -> stmt("ld_nr", 0)
       [] i = 3 /\ f.guard -> jump("jge", X32_BIT, kill_idx(f) - 4, 0)
       [] i \in first_check(f)..(allow_idx(f) - 1) -> check(f, i)
       [] i = allow_idx(f) -> stmt("ret", "allow")
       [] i = deny_idx(f)  -> stmt("ret", f.deny)
       [] i = kill_idx(f)  -> stmt("ret", "kill")]

FilterOf(mode, arch) ==
  [nrs   |-> Numbers(mode, arch),
   guard |-> arch = "x86_64",
   deny  |-> IF mode = "strict" THEN "kill" ELSE "EPERM"]

-----------------------------------------------------------------------------
(* The kernel.  A process without a filter may make any call.              *)
VARIABLES
  filter,   \* the filter of the process, or NoFilter
  at,       \* the next instruction, Idle between calls
  acc,      \* the accumulator
  data,     \* architecture and number of the call
  verdict   \* what the filter has returned for it, Pending before

bpfVars == <<filter, at, acc, data, verdict>>

NoFilter == [nrs |-> <<>>, guard |-> FALSE, deny |-> "none"]

Idle == -1

NoCall == [arch |-> AUDIT_ARCH_NATIVE, nr |-> 0]

Resting == at = Idle /\ acc = 0 /\ data = NoCall /\ verdict = "pending"

(* A system call enters the filter.                                        *)
Enter(call) ==
  /\ filter # NoFilter /\ at = Idle /\ verdict = "pending"
  /\ at' = 0 /\ acc' = 0 /\ data' = call
  /\ UNCHANGED <<filter, verdict>>

Instruction == build_filter(filter)[at]

Execute ==
  LET ins  == Instruction
      next(taken) == at + 1 + (IF taken THEN ins.jt ELSE ins.jf) IN
  /\ at # Idle
  /\ CASE ins.op = "ld_arch" -> acc' = data.arch /\ at' = at + 1 /\ UNCHANGED verdict
       [] ins.op = "ld_nr"   -> acc' = data.nr /\ at' = at + 1 /\ UNCHANGED verdict
       [] ins.op = "jeq"     -> at' = next(acc = ins.k) /\ UNCHANGED <<acc, verdict>>
       [] ins.op = "jge"     -> at' = next(acc >= ins.k) /\ UNCHANGED <<acc, verdict>>
       [] ins.op = "ret"     -> verdict' = ins.k /\ at' = Idle /\ UNCHANGED acc
  /\ UNCHANGED <<filter, data>>

-----------------------------------------------------------------------------
(* A process with a given filter, which makes one of the given calls.      *)
CONSTANTS Filters, Calls

ASSUME SeccompAssumption ==
  /\ \A f \in Filters : /\ f.nrs \in Seq(Nat) /\ f.guard \in BOOLEAN
                         /\ f.deny \in {"EPERM", "kill"} /\ Fits(f)
  /\ Calls \subseteq [arch : Int, nr : Nat]

BpfInit == filter \in Filters /\ Resting

BpfNext == Execute \/ \E c \in Calls : Enter(c)

BpfSpec == BpfInit /\ [][BpfNext]_bpfVars

(* What the filter is for: a foreign architecture or an x32 number kills,  *)
(* a number of the list is denied, anything else is allowed.               *)
Expected(f, call) ==
  IF call.arch # AUDIT_ARCH_NATIVE \/ (f.guard /\ call.nr >= X32_BIT) THEN "kill"
  ELSE IF \E i \in DOMAIN f.nrs : f.nrs[i] = call.nr THEN f.deny ELSE "allow"

(* Whatever the filter returns is what the lists ask for, and no jump      *)
(* leaves the program.                                                     *)
FilterDecides ==
  /\ verdict # "pending" => verdict = Expected(filter, data)
  /\ at # Idle => at \in 0..kill_idx(filter)
=============================================================================
