----------------------------- MODULE Lifecycle -----------------------------
(***************************************************************************)
(* One container, the `myrun` commands that act on it concurrently, and    *)
(* the supervisors and init processes they bring to life.                  *)
(*                                                                         *)
(* A member of Cli is a terminal that runs one command at a time.  The     *)
(* commands are the verbs of src/runtime/lifecycle.rs and src/main.rs,     *)
(* stepped at every file, lock, signal and cgroup operation.  A launching  *)
(* command p owns supervisor p: the forked shim (start, run -d) or the     *)
(* command itself (start -a), and supervisor p owns init p.                *)
(*                                                                         *)
(* Only what two processes can see is state: state.json, the lock file and *)
(* who holds its flock, the init processes, the cgroup and the network     *)
(* resources; and, private to each process, the record it loaded earlier.  *)
(***************************************************************************)
EXTENDS ContainerState, Naturals, FiniteSets

CONSTANTS Ops,          \* the commands this instance may issue
          MaxOps,       \* bound: commands issued in one behaviour
          AutoRemove,   \* config.auto_remove (--rm)
          HasCgroup,    \* is a cgroup v2 hierarchy available?
          ShimCrash,    \* may a supervisor be killed by SIGKILL?
          CliCrash,     \* may a command be killed by SIGKILL?
          KillStalls,   \* may a SIGKILLed process outlive the bounded waits?
          PidReuse      \* may the kernel hand a reaped pid to a stranger?

Cli == Sup

AllOps == {"start", "startA", "run", "term", "kill9", "stop",
           "pause", "unpause", "rm", "rmf", "wait", "gc"}

ASSUME BoundAssumption ==
  /\ IsFiniteSet(Sup)
  /\ Ops \subseteq AllOps /\ None \notin AllOps \cup {"ok", "err"}
  /\ MaxOps \in Nat
  /\ {AutoRemove, HasCgroup, ShimCrash, CliCrash, KillStalls, PidReuse} \subseteq BOOLEAN

VARIABLES
  file,      \* state.json: a State, or None when it does not exist
  lockFile,  \* inode of <dir>/lock, 0 when it does not exist
  fd,        \* fd[p]: inode p has open for flock, 0 for none
  holders,   \* the commands whose flock() returned and was not released
  init,      \* init[s]: "none", "alive", "zombie" or "gone" (reaped)
  initExit,  \* what waitpid or the exit frame says about init s
  doomed,    \* inits with a SIGKILL pending
  frozen,    \* cgroup.freeze is 1
  res,       \* host resources: "cgroup", and "net" (lease and NAT rules)
  stray,     \* a signal reached a process that is not the container's
  pc, op, site, mem, out, ops,   \* the commands
  supPc, smem, verdict           \* the supervisors and their notify pipe

fsVars  == <<file, lockFile>>
lockVars == <<fd, holders>>
kernVars == <<init, initExit, doomed, frozen, res, stray>>
cliVars == <<pc, op, site, mem, out, ops>>
supVars == <<supPc, smem, verdict>>
vars == <<fsVars, lockVars, kernVars, cliVars, supVars>>

-----------------------------------------------------------------------------
(* State predicates.                                                       *)

Alive == {s \in Sup : init[s] = "alive"}

(* ContainerState::init_is_alive: a zombie, a reaped pid and a reused pid  *)
(* (told apart by its start time) all count as dead.                       *)
init_is_alive(st) == st.pid \in Alive

(* A supervisor that has been started and has neither exited nor died.     *)
SupRunning(s) == supPc[s] \notin {"off", "done", "dead"}

(* The shim is forked while `start` holds the flock and never closes the   *)
(* inherited descriptor: when `start` dies without LOCK_UN, the lock lives *)
(* as long as the shim.                                                    *)
Locked(p) == p \in holders /\ (pc[p] = "crashed" => SupRunning(p))

CgroupExists == "cgroup" \in res

-----------------------------------------------------------------------------
(* Lock handling: FileLock::acquire is open(O_CREAT), then flock(LOCK_EX). *)

FreshInode == CHOOSE i \in 1 .. Cardinality(Cli) + 1 : \A q \in Cli : fd[q] # i

Goto(p, l) == pc' = [pc EXCEPT ![p] = l]

Unlock(p) == /\ fd' = [fd EXCEPT ![p] = 0]
             /\ holders' = holders \ {p}

(* The command returns: its FileLock, if it has one, is dropped.           *)
Finish(p, r) == /\ Goto(p, "idle")
                /\ out' = [out EXCEPT ![p] = r]
                /\ Unlock(p)

(* Go and take the container lock, for the section named by t.             *)
LockFor(p, t) == /\ Goto(p, "open")
                 /\ site' = [site EXCEPT ![p] = t]

Save(st) == file' = st

RemoveDir == file' = None /\ lockFile' = 0

Remember(p, st) == mem' = [mem EXCEPT ![p] = st]

(* Store::lock: mkdir_p brings back a removed directory, the open creates  *)
(* the lock file when it is missing.                                       *)
LockOpen(p) ==
  /\ pc[p] = "open"
  /\ lockFile' = IF lockFile = 0 THEN FreshInode ELSE lockFile
  /\ fd' = [fd EXCEPT ![p] = lockFile']
  /\ Goto(p, "flock")
  /\ UNCHANGED <<file, holders, kernVars, op, site, mem, out, ops, supVars>>

(* Variant: flock(LOCK_EX) does not wait for another holder.               *)
LockAcquireShared(p) ==
  /\ pc[p] = "flock"
  /\ holders' = holders \cup {p}
  /\ Goto(p, IF site[p] = "del" THEN "tearKill" ELSE "load")
  /\ UNCHANGED <<fsVars, fd, kernVars, op, site, mem, out, ops, supVars>>

LockAcquire(p) ==
  /\ pc[p] = "flock"
  /\ \A q \in Cli \ {p} : Locked(q) => fd[q] # fd[p]
  /\ holders' = holders \cup {p}
  /\ Goto(p, IF site[p] = "del" THEN "tearKill" ELSE "load")
  /\ UNCHANGED <<fsVars, fd, kernVars, op, site, mem, out, ops, supVars>>

-----------------------------------------------------------------------------
(* Issuing a command.                                                      *)

Begin(p, o) ==
  /\ pc[p] = "idle" /\ ops < MaxOps
  /\ o \in {"start", "startA", "run"} => supPc[p] = "off"
  /\ o = "run" => ops = 0      \* run acts on the container it has just created
  /\ ops' = ops + 1
  /\ op' = [op EXCEPT ![p] = o]
  /\ out' = [out EXCEPT ![p] = None]
  /\ Remember(p, None)
  /\ site' = [site EXCEPT ![p] = IF o = "stop" THEN "stop" ELSE "main"]
  /\ Goto(p, IF o \in {"wait", "gc", "startA"} THEN "load"
             ELSE IF o = "run" THEN "fork" ELSE "open")
  /\ UNCHANGED <<fsVars, lockVars, kernVars, supVars>>

(* Variant: wait polls the bare record, without reconciling it.            *)
LoadUnreconciled(p) ==
  /\ pc[p] = "load" /\ file # None
  /\ Remember(p, file)
  /\ Goto(p, IF site[p] \in {"kill", "fin"} \/ op[p] \in {"startA", "wait"} THEN "act"
             ELSE "reconcile")
  /\ UNCHANGED <<fsVars, lockVars, kernVars, op, site, out, ops, supVars>>

(* Store::load.  Every verb but gc (which lists what exists) fails when    *)
(* there is no state.json.  `start -a` loads without reconciling, and the  *)
(* later sections of stop re-load without reconciling.                     *)
Load(p) ==
  /\ pc[p] = "load"
  /\ IF file = None /\ op[p] # "gc"
     THEN Finish(p, "err") /\ UNCHANGED mem
     ELSE /\ Remember(p, file)
          /\ Goto(p, IF file = None THEN "collect"
                     ELSE IF site[p] \in {"kill", "fin"} \/ op[p] = "startA" THEN "act"
                     ELSE "reconcile")
          /\ UNCHANGED <<out, lockVars>>
  /\ UNCHANGED <<fsVars, kernVars, op, site, ops, supVars>>

(* Store::reconcile: a live record whose init is gone becomes Stopped and  *)
(* is saved.  wait, list and gc get here without the lock.                 *)
Reconcile(p) ==
  LET corrected == is_live(mem[p].status) /\ ~init_is_alive(mem[p])
  IN
  /\ pc[p] = "reconcile"
  /\ IF corrected
     THEN Remember(p, mark_stopped(mem[p])) /\ Save(mark_stopped(mem[p]))
     ELSE UNCHANGED <<mem, file>>
  /\ Goto(p, IF op[p] # "gc" THEN "act"
             ELSE IF corrected THEN "tearKill" ELSE "collect")
  /\ UNCHANGED <<lockFile, lockVars, kernVars, op, site, out, ops, supVars>>

(* The last step of start, kill, pause and unpause.                        *)
SaveMem(p) ==
  /\ pc[p] = "save"
  /\ Save(mem[p])
  /\ Finish(p, "ok")
  /\ UNCHANGED <<lockFile, kernVars, op, site, mem, ops, supVars>>

Refuse(p) == Finish(p, "err") /\ UNCHANGED <<fsVars, kernVars, op, site, mem, ops, supVars>>

Acting(p, o, t) == pc[p] = "act" /\ op[p] = o /\ site[p] = t

-----------------------------------------------------------------------------
(* start, start -a and run -d: getting a supervisor.                       *)

ForkShim(p) ==
  /\ supPc' = [supPc EXCEPT ![p] = "load"]
  /\ Goto(p, "notify")
  /\ UNCHANGED <<fsVars, lockVars, kernVars, op, site, mem, out, ops, smem, verdict>>

StartAct(p) ==
  /\ Acting(p, "start", "main")
  /\ IF mem[p].status = "Created" THEN ForkShim(p) ELSE Refuse(p)

RunFork(p) == pc[p] = "fork" /\ ForkShim(p)

StartAttachedAct(p) ==
  /\ Acting(p, "startA", "main")
  /\ IF mem[p].status # "Created" THEN Refuse(p)
     ELSE /\ supPc' = [supPc EXCEPT ![p] = "launch"]
          /\ smem' = [smem EXCEPT ![p] = mem[p]]
          /\ Goto(p, "attached")
          /\ UNCHANGED <<fsVars, lockVars, kernVars, op, site, mem, out, ops, verdict>>

(* shim::spawn reads the verdict; EOF without a byte counts as a failure.  *)
Notified(p) ==
  /\ pc[p] = "notify"
  /\ \/ verdict[p] = "ok" /\ op[p] = "start" /\ Goto(p, "reload") /\ UNCHANGED <<out, lockVars>>
     \/ verdict[p] = "ok" /\ op[p] = "run" /\ Finish(p, "ok")
     \/ verdict[p] = "err" /\ op[p] = "start" /\ Finish(p, "err")
     \/ verdict[p] = "err" /\ op[p] = "run" /\ Goto(p, "remove") /\ UNCHANGED <<out, lockVars>>
  /\ UNCHANGED <<fsVars, kernVars, op, site, mem, ops, supVars>>

(* Variant: start saves the record it loaded before the fork.              *)
StartWithoutReload(p) ==
  /\ pc[p] = "reload"
  /\ Remember(p, [mem[p] EXCEPT !.shim = p])
  /\ Goto(p, "save")
  /\ UNCHANGED <<fsVars, lockVars, kernVars, op, site, out, ops, supVars>>

StartReload(p) ==
  /\ pc[p] = "reload"
  /\ IF file = None THEN Finish(p, "err") /\ UNCHANGED mem
     ELSE /\ Remember(p, [file EXCEPT !.shim = p])
          /\ Goto(p, "save")
          /\ UNCHANGED <<out, lockVars>>
  /\ UNCHANGED <<fsVars, kernVars, op, site, ops, supVars>>

AttachedDone(p) ==
  /\ pc[p] = "attached" /\ supPc[p] = "done"
  /\ Finish(p, IF verdict[p] = "err" THEN "err" ELSE "ok")
  /\ UNCHANGED <<fsVars, kernVars, op, site, mem, ops, supVars>>

-----------------------------------------------------------------------------
(* Signals.                                                                *)

(* kill(2) on the recorded pid.  A zombie accepts the signal; a reaped pid *)
(* is ESRCH, unless it has been reused.  SIGTERM has no effect of its own: *)
(* the workload may exit at any time.                                      *)
Reachable(pid) == pid # None /\ init[pid] \in {"alive", "zombie"}

Strays(pid) == PidReuse /\ pid # None /\ init[pid] = "gone"

(* cgroup.kill: SIGKILL to everything in the container's cgroup.           *)
KillAll == doomed' = doomed \cup Alive

SendKill(pid) == doomed' = doomed \cup ({pid} \cap Alive)

(* kill and stop thaw a paused container before they signal it.            *)
Thawed(st) == IF st.status = "Paused" THEN transition(st, "Running") ELSE st

(* Variant: the record is corrected, the cgroup is left frozen.            *)
ThawForgotten(st) == frozen' = (frozen /\ st.status \in Status)

ThawFor(st) == frozen' = (frozen /\ st.status # "Paused")

KillAct(p) ==
  /\ pc[p] = "act" /\ op[p] \in {"term", "kill9"}
  /\ IF ~is_live(mem[p].status) THEN Refuse(p)
     ELSE /\ ThawFor(mem[p])
          /\ \/ /\ op[p] = "kill9" /\ CgroupExists
                /\ KillAll
                /\ Remember(p, Thawed(mem[p])) /\ Goto(p, "save")
                /\ UNCHANGED <<out, lockVars, stray>>
             \/ /\ ~(op[p] = "kill9" /\ CgroupExists)
                /\ Reachable(mem[p].pid) \/ Strays(mem[p].pid)
                /\ IF op[p] = "kill9" THEN SendKill(mem[p].pid) ELSE UNCHANGED doomed
                /\ stray' = (stray \/ Strays(mem[p].pid))
                /\ Remember(p, Thawed(mem[p])) /\ Goto(p, "save")
                /\ UNCHANGED <<out, lockVars>>
             \/ /\ ~(op[p] = "kill9" /\ CgroupExists)
                /\ ~Reachable(mem[p].pid)
                /\ Finish(p, "err")
                /\ UNCHANGED <<mem, doomed, stray>>
          /\ UNCHANGED <<fsVars, init, initExit, res, op, site, ops, supVars>>

PauseAct(p) ==
  /\ Acting(p, "pause", "main")
  /\ IF mem[p].status # "Running" \/ ~CgroupExists THEN Refuse(p)
     ELSE /\ frozen' = TRUE
          /\ Remember(p, transition(mem[p], "Paused"))
          /\ Goto(p, "save")
          /\ UNCHANGED <<fsVars, lockVars, init, initExit, doomed, res, stray,
                         op, site, out, ops, supVars>>

UnpauseAct(p) ==
  /\ Acting(p, "unpause", "main")
  /\ IF mem[p].status # "Paused" \/ ~CgroupExists THEN Refuse(p)
     ELSE /\ frozen' = FALSE
          /\ Remember(p, transition(mem[p], "Running"))
          /\ Goto(p, "save")
          /\ UNCHANGED <<fsVars, lockVars, init, initExit, doomed, res, stray,
                         op, site, out, ops, supVars>>

-----------------------------------------------------------------------------
(* stop, and the stop inside rm -f.                                        *)

(* `rm -f` goes on to delete when its stop succeeds; both give up on Err.  *)
StopReturns(p) ==
  IF op[p] = "rmf"
  THEN Goto(p, "delReload") /\ Unlock(p) /\ UNCHANGED out
  ELSE Finish(p, "ok")

StopAct(p) ==
  /\ pc[p] = "act" /\ site[p] = "stop"
  /\ IF ~is_live(mem[p].status)
     THEN StopReturns(p) /\ UNCHANGED <<file, frozen, mem>>
     ELSE LET st == transition(Thawed(mem[p]), "Stopping")
          IN /\ ThawFor(mem[p])
             /\ Remember(p, st) /\ Save(st)
             /\ Goto(p, "sigterm")
             /\ UNCHANGED <<out, lockVars>>
  /\ UNCHANGED <<lockFile, init, initExit, doomed, res, stray, op, site, ops, supVars>>

SigTerm(p) ==
  /\ pc[p] = "sigterm"
  /\ stray' \in {stray, stray \/ Strays(mem[p].pid)}
  /\ Unlock(p)
  /\ Goto(p, "poll")
  /\ UNCHANGED <<fsVars, init, initExit, doomed, frozen, res, op, site, mem, out, ops, supVars>>

GiveUp(p) == Finish(p, "err") /\ UNCHANGED <<fsVars, kernVars, op, site, mem, ops, supVars>>

(* The polling loops re-load without the lock.  An iteration that sees     *)
(* nothing new is a stuttering step; leaving by the deadline is possible   *)
(* at any time.                                                            *)
PollDead(p) ==
  /\ pc[p] = "poll"
  /\ IF file = None THEN GiveUp(p)
     ELSE /\ ~init_is_alive(file)
          /\ LockFor(p, "fin")
          /\ UNCHANGED <<fsVars, lockVars, kernVars, op, mem, out, ops, supVars>>

(* Variant: the graceful wait never gives up.                              *)
PollWithoutDeadline(p) ==
  /\ pc[p] = "poll" /\ file # None /\ ~init_is_alive(file)
  /\ LockFor(p, "kill")
  /\ UNCHANGED <<fsVars, lockVars, kernVars, op, mem, out, ops, supVars>>

PollDeadline(p) ==
  /\ pc[p] = "poll"
  /\ LockFor(p, "kill")
  /\ UNCHANGED <<fsVars, lockVars, kernVars, op, mem, out, ops, supVars>>

StopKill(p) ==
  /\ pc[p] = "act" /\ site[p] = "kill"
  /\ \/ mem[p].pid # None /\ CgroupExists /\ KillAll /\ UNCHANGED stray
     \/ /\ ~(mem[p].pid # None /\ CgroupExists)
        /\ SendKill(mem[p].pid)
        /\ stray' \in {stray, stray \/ Strays(mem[p].pid)}
  /\ Unlock(p)
  /\ Goto(p, "pollKill")
  /\ UNCHANGED <<fsVars, init, initExit, frozen, res, op, site, mem, out, ops, supVars>>

PollKilled(p) ==
  /\ pc[p] = "pollKill"
  /\ IF file = None THEN GiveUp(p)
     ELSE /\ ~init_is_alive(file) \/ KillStalls
          /\ LockFor(p, "fin")
          /\ UNCHANGED <<fsVars, lockVars, kernVars, op, mem, out, ops, supVars>>

(* Variant: no look at init before the container is declared stopped.      *)
FinalizeUnchecked(p) ==
  /\ pc[p] = "act" /\ site[p] = "fin"
  /\ Goto(p, "tearKill")
  /\ UNCHANGED <<fsVars, lockVars, kernVars, op, site, mem, out, ops, supVars>>

(* finalize_stopped under the lock: still alive is an Err; a live shim is  *)
(* left to record the exit; otherwise tear down here.                      *)
FinalizeAct(p) ==
  /\ pc[p] = "act" /\ site[p] = "fin"
  /\ IF init_is_alive(mem[p]) THEN GiveUp(p)
     ELSE /\ IF mem[p].shim # None /\ SupRunning(mem[p].shim)
             THEN Unlock(p) /\ Goto(p, "finWait")
             ELSE UNCHANGED lockVars /\ Goto(p, "tearKill")
          /\ UNCHANGED <<fsVars, kernVars, op, site, mem, out, ops, supVars>>

(* Waiting for the shim's record: only an exit *code* ends the wait early. *)
FinWaitSeen(p) ==
  /\ pc[p] = "finWait"
  /\ IF file = None THEN GiveUp(p)
     ELSE /\ file.status = "Stopped" /\ file.exit = "code"
          /\ Remember(p, file)
          /\ StopReturns(p)
          /\ UNCHANGED <<fsVars, kernVars, op, site, ops, supVars>>

FinWaitExpired(p) ==
  /\ pc[p] = "finWait"
  /\ file # None
  /\ Remember(p, file)
  /\ Goto(p, "tearKill")
  /\ UNCHANGED <<fsVars, lockVars, kernVars, op, site, out, ops, supVars>>

-----------------------------------------------------------------------------
(* supervisor::teardown, run with record st by a command or a supervisor.  *)

TearKill(st) ==
  doomed' = doomed \cup (IF st.pid # None /\ CgroupExists THEN Alive ELSE {st.pid} \cap Alive)

(* The lease and the NAT rules go by container id.  The cgroup goes only   *)
(* if the record names one, and rmdir waits for its processes to die.      *)
TearRelease(st) ==
  LET cg == st.pid # None /\ CgroupExists
  IN /\ cg => Alive = {} \/ KillStalls
     /\ LET gone == cg /\ Alive = {}
        IN /\ res' = res \ ({"net"} \cup IF gone THEN {"cgroup"} ELSE {})
           /\ frozen' = (frozen /\ ~gone)

Torn(st) == IF is_live(st.status) THEN mark_stopped(st) ELSE st

CliTearKill(p) ==
  /\ pc[p] = "tearKill"
  /\ TearKill(mem[p])
  /\ Goto(p, "tearRelease")
  /\ UNCHANGED <<fsVars, lockVars, init, initExit, frozen, res, stray,
                 op, site, mem, out, ops, supVars>>

CliTearRelease(p) ==
  /\ pc[p] = "tearRelease"
  /\ TearRelease(mem[p])
  /\ Goto(p, "tearSave")
  /\ UNCHANGED <<fsVars, lockVars, init, initExit, doomed, stray,
                 op, site, mem, out, ops, supVars>>

CliTearSave(p) ==
  /\ pc[p] = "tearSave"
  /\ Remember(p, Torn(mem[p])) /\ Save(Torn(mem[p]))
  /\ IF op[p] = "gc" THEN Goto(p, "collect") /\ UNCHANGED <<out, lockVars>>
     ELSE IF site[p] = "del" THEN Goto(p, "remove") /\ Unlock(p) /\ UNCHANGED out
     ELSE StopReturns(p)
  /\ UNCHANGED <<lockFile, kernVars, op, site, ops, supVars>>

-----------------------------------------------------------------------------
(* rm and rm -f, wait, gc.                                                 *)

(* Variant: a container that is not live is removed without a teardown.    *)
DeleteWithoutTeardown(p) ==
  /\ pc[p] = "act" /\ op[p] \in {"rm", "rmf"} /\ site[p] = "main"
  /\ IF is_live(mem[p].status) /\ op[p] = "rm" THEN Refuse(p)
     ELSE /\ Unlock(p)
          /\ IF is_live(mem[p].status) THEN LockFor(p, "stop")
                                       ELSE Goto(p, "remove") /\ UNCHANGED site
          /\ UNCHANGED <<fsVars, kernVars, op, mem, out, ops, supVars>>

(* The first lock is dropped before the decision is acted on.              *)
DeleteAct(p) ==
  /\ pc[p] = "act" /\ op[p] \in {"rm", "rmf"} /\ site[p] = "main"
  /\ IF is_live(mem[p].status) /\ op[p] = "rm" THEN Refuse(p)
     ELSE /\ Unlock(p)
          /\ LockFor(p, IF is_live(mem[p].status) THEN "stop" ELSE "del")
          /\ UNCHANGED <<fsVars, kernVars, op, mem, out, ops, supVars>>

DeleteReload(p) ==
  /\ pc[p] = "delReload"
  /\ IF file = None THEN GiveUp(p)
     ELSE /\ Remember(p, file)
          /\ LockFor(p, "del")
          /\ UNCHANGED <<fsVars, lockVars, kernVars, op, out, ops, supVars>>

(* Store::remove, after rm's teardown or after a failed run -d.            *)
Remove(p) ==
  /\ pc[p] = "remove"
  /\ RemoveDir
  /\ Finish(p, IF op[p] = "run" THEN "err" ELSE "ok")
  /\ UNCHANGED <<kernVars, op, site, mem, ops, supVars>>

WaitAct(p) ==
  /\ Acting(p, "wait", "main")
  /\ IF is_live(mem[p].status)
     THEN Goto(p, "load") /\ UNCHANGED <<out, lockVars>>
     ELSE Finish(p, "ok")
  /\ UNCHANGED <<fsVars, kernVars, op, site, mem, ops, supVars>>

WaitTimeout(p) ==
  /\ Acting(p, "wait", "main")
  /\ is_live(mem[p].status)
  /\ Refuse(p)

(* cgroup::gc_empty skips a cgroup that still has processes.               *)
gc_empty == IF Alive = {} THEN {"cgroup"} ELSE {}

(* gc collects everything that belongs to an id it did not find live: an   *)
(* empty cgroup, the lease, and (nothing live at all) the NAT rules.       *)
GcCollect(p) ==
  LET live == mem[p] # None /\ is_live(mem[p].status)
  IN
  /\ pc[p] = "collect"
  /\ IF live THEN UNCHANGED <<res, frozen>>
     ELSE /\ res' = res \ ({"net"} \cup gc_empty)
          /\ frozen' = (frozen /\ gc_empty = {})
  /\ Finish(p, "ok")
  /\ UNCHANGED <<fsVars, init, initExit, doomed, stray, op, site, mem, ops, supVars>>

-----------------------------------------------------------------------------
(* The supervisor: supervisor::launch and shim::run or main::run_attached. *)

Attached(s) == op[s] = "startA"

SupGoto(s, l) == supPc' = [supPc EXCEPT ![s] = l]

SupRemember(s, st) == smem' = [smem EXCEPT ![s] = st]

Notify(s, v) == verdict' = [verdict EXCEPT ![s] = v]

SupLoad(s) ==
  /\ supPc[s] = "load"
  /\ IF file = None
     THEN SupGoto(s, "done") /\ Notify(s, "err") /\ UNCHANGED smem
     ELSE SupRemember(s, file) /\ SupGoto(s, "launch") /\ UNCHANGED verdict
  /\ UNCHANGED <<fsVars, lockVars, kernVars, cliVars>>

(* Cgroup::create clears an empty leftover; a populated one is an error.   *)
LaunchCgroup(s) ==
  /\ supPc[s] = "launch"
  /\ smem[s].status = "Created"
  /\ ~(CgroupExists /\ Alive # {})
  /\ res' = res \cup (IF HasCgroup THEN {"cgroup"} ELSE {})
  /\ frozen' = FALSE
  /\ SupGoto(s, "clone")
  /\ UNCHANGED <<fsVars, lockVars, init, initExit, doomed, stray, cliVars, smem, verdict>>

LaunchClone(s) ==
  /\ supPc[s] = "clone"
  /\ HasCgroup => CgroupExists
  /\ init' = [init EXCEPT ![s] = "alive"]
  /\ SupRemember(s, [smem[s] EXCEPT !.pid = s])
  /\ SupGoto(s, "net")
  /\ UNCHANGED <<fsVars, lockVars, initExit, doomed, frozen, res, stray, cliVars, verdict>>

(* READY, setup_host, netstate.json, GO, STARTED: init must be there.      *)
LaunchNet(s) ==
  /\ supPc[s] = "net" /\ init[s] = "alive"
  /\ res' = res \cup {"net"}
  /\ SupGoto(s, "started")
  /\ UNCHANGED <<fsVars, lockVars, init, initExit, doomed, frozen, stray, cliVars, smem, verdict>>

LaunchRunning(s) ==
  LET st == transition(smem[s], "Running")
  IN
  /\ supPc[s] = "started"
  /\ SupRemember(s, st) /\ Save(st)
  /\ SupGoto(s, IF Attached(s) THEN "wait" ELSE "shimSave")
  /\ UNCHANGED <<lockFile, lockVars, kernVars, cliVars, verdict>>

(* Variant: the network is not registered with the rollback.               *)
LaunchFailKeepsNetwork(s) ==
  /\ supPc[s] \in {"launch", "clone", "net", "started"}
  /\ init' = [init EXCEPT ![s] = IF supPc[s] \in {"net", "started"} THEN "gone" ELSE @]
  /\ LET others == Alive \ {s}
         undo == supPc[s] # "launch"
     IN /\ doomed' = (doomed \ {s}) \cup IF undo /\ CgroupExists THEN others ELSE {}
        /\ res' = res \ IF undo /\ others = {} THEN {"cgroup"} ELSE {}
        /\ frozen' = (frozen /\ "cgroup" \in res')
  /\ SupGoto(s, "failed")
  /\ UNCHANGED <<fsVars, lockVars, initExit, stray, cliVars, smem, verdict>>

(* Any step of launch may fail; Rollback undoes what was registered, last  *)
(* in first out: network, process (killed and reaped), cgroup.             *)
LaunchFail(s) ==
  /\ supPc[s] \in {"launch", "clone", "net", "started"}
  /\ init' = [init EXCEPT ![s] = IF supPc[s] \in {"net", "started"} THEN "gone" ELSE @]
  /\ LET others == Alive \ {s}
         undo == supPc[s] # "launch"
     IN /\ doomed' = (doomed \ {s}) \cup IF undo /\ CgroupExists THEN others ELSE {}
        /\ res' = res \ ((IF supPc[s] = "started" THEN {"net"} ELSE {})
                         \cup IF undo /\ others = {} THEN {"cgroup"} ELSE {})
        /\ frozen' = (frozen /\ "cgroup" \in res')
  /\ SupGoto(s, "failed")
  /\ UNCHANGED <<fsVars, lockVars, initExit, stray, cliVars, smem, verdict>>

(* The shim records Stopped and reports; the foreground command removes    *)
(* the state directory.                                                    *)
LaunchFailed(s) ==
  /\ supPc[s] = "failed"
  /\ IF Attached(s) THEN RemoveDir /\ UNCHANGED smem
     ELSE /\ SupRemember(s, mark_stopped(smem[s]))
          /\ Save(mark_stopped(smem[s]))
          /\ UNCHANGED lockFile
  /\ Notify(s, "err")
  /\ SupGoto(s, "done")
  /\ UNCHANGED <<lockVars, kernVars, cliVars>>

ShimSave(s) ==
  LET st == [smem[s] EXCEPT !.shim = s]
  IN
  /\ supPc[s] = "shimSave"
  /\ SupRemember(s, st) /\ Save(st)
  /\ Notify(s, "ok")
  /\ SupGoto(s, "wait")
  /\ UNCHANGED <<lockFile, lockVars, kernVars, cliVars>>

(* wait_for_exit: EOF on the channel, waitpid, record_exit, transition.    *)
SupReap(s) ==
  /\ supPc[s] = "wait" /\ init[s] = "zombie"
  /\ init' = [init EXCEPT ![s] = "gone"]
  /\ SupRemember(s, transition(record_exit(smem[s], initExit[s]), "Stopped"))
  /\ SupGoto(s, "saveExit")
  /\ UNCHANGED <<fsVars, lockVars, initExit, doomed, frozen, res, stray, cliVars, verdict>>

SupSaveExit(s) ==
  /\ supPc[s] = "saveExit"
  /\ Save(smem[s])
  /\ SupGoto(s, "tearKill")
  /\ UNCHANGED <<lockFile, lockVars, kernVars, cliVars, smem, verdict>>

SupTearKill(s) ==
  /\ supPc[s] = "tearKill"
  /\ TearKill(smem[s])
  /\ SupGoto(s, "tearRelease")
  /\ UNCHANGED <<fsVars, lockVars, init, initExit, frozen, res, stray, cliVars, smem, verdict>>

SupTearRelease(s) ==
  /\ supPc[s] = "tearRelease"
  /\ TearRelease(smem[s])
  /\ SupGoto(s, "tearSave")
  /\ UNCHANGED <<fsVars, lockVars, init, initExit, doomed, stray, cliVars, smem, verdict>>

SupTearSave(s) ==
  /\ supPc[s] = "tearSave"
  /\ Save(smem[s])
  /\ SupGoto(s, IF AutoRemove THEN "remove" ELSE "done")
  /\ UNCHANGED <<lockFile, lockVars, kernVars, cliVars, smem, verdict>>

SupRemove(s) ==
  /\ supPc[s] = "remove"
  /\ RemoveDir
  /\ SupGoto(s, "done")
  /\ UNCHANGED <<lockVars, kernVars, cliVars, smem, verdict>>

-----------------------------------------------------------------------------
(* Crashes and the kernel.                                                 *)

(* SIGKILL of a supervisor: PDEATHSIG kills its init, the notify pipe      *)
(* reads EOF, and an attached command is the supervisor itself.            *)
SupCrash(s) ==
  /\ ShimCrash /\ SupRunning(s)
  /\ SupGoto(s, "dead")
  /\ doomed' = doomed \cup ({s} \cap Alive)
  /\ verdict' = [verdict EXCEPT ![s] = IF @ = None THEN "err" ELSE @]
  /\ IF pc[s] = "attached" THEN Finish(s, "err") ELSE UNCHANGED <<pc, out, lockVars>>
  /\ UNCHANGED <<fsVars, init, initExit, frozen, res, stray, op, site, mem, ops, smem>>

(* SIGKILL of a command.  Its flock goes with it, unless the shim it has   *)
(* forked holds a duplicate of the descriptor.                             *)
CliKilled(p) ==
  /\ CliCrash
  /\ pc[p] \notin {"idle", "crashed", "attached"}
  /\ Goto(p, "crashed")
  /\ IF op[p] = "start" /\ SupRunning(p) THEN UNCHANGED lockVars ELSE Unlock(p)
  /\ UNCHANGED <<fsVars, kernVars, op, site, mem, out, ops, supVars>>

(* The workload exits or dies of a signal of its own, unless frozen.       *)
InitExit(s) ==
  /\ init[s] = "alive" /\ ~frozen
  /\ init' = [init EXCEPT ![s] = "zombie"]
  /\ \E e \in ExitStatus : initExit' = [initExit EXCEPT ![s] = e]
  /\ doomed' = doomed \ {s}
  /\ UNCHANGED <<fsVars, lockVars, frozen, res, stray, cliVars, supVars>>

(* SIGKILL takes effect, also in a frozen cgroup.                          *)
InitKilled(s) ==
  /\ init[s] = "alive" /\ s \in doomed
  /\ init' = [init EXCEPT ![s] = "zombie"]
  /\ initExit' = [initExit EXCEPT ![s] = "sig"]
  /\ doomed' = doomed \ {s}
  /\ UNCHANGED <<fsVars, lockVars, frozen, res, stray, cliVars, supVars>>

(* A dead supervisor's init is reaped by the host's own init.              *)
InitReaped(s) ==
  /\ init[s] = "zombie" /\ supPc[s] = "dead"
  /\ init' = [init EXCEPT ![s] = "gone"]
  /\ UNCHANGED <<fsVars, lockVars, initExit, doomed, frozen, res, stray, cliVars, supVars>>

-----------------------------------------------------------------------------
Init ==
  /\ file = CreatedState
  /\ lockFile = 0
  /\ fd = [p \in Cli |-> 0] /\ holders = {}
  /\ init = [s \in Sup |-> "none"] /\ initExit = [s \in Sup |-> None]
  /\ doomed = {} /\ frozen = FALSE /\ res = {} /\ stray = FALSE
  /\ pc = [p \in Cli |-> "idle"] /\ op = [p \in Cli |-> None]
  /\ site = [p \in Cli |-> "main"] /\ mem = [p \in Cli |-> None]
  /\ out = [p \in Cli |-> None] /\ ops = 0
  /\ supPc = [s \in Sup |-> "off"] /\ smem = [s \in Sup |-> None]
  /\ verdict = [s \in Sup |-> None]

CliStep(p) ==
  \/ LockOpen(p) \/ LockAcquire(p) \/ Load(p) \/ Reconcile(p) \/ SaveMem(p)
  \/ StartAct(p) \/ RunFork(p) \/ StartAttachedAct(p) \/ Notified(p)
  \/ StartReload(p) \/ AttachedDone(p)
  \/ KillAct(p) \/ PauseAct(p) \/ UnpauseAct(p)
  \/ StopAct(p) \/ SigTerm(p) \/ PollDead(p) \/ PollDeadline(p) \/ StopKill(p)
  \/ PollKilled(p) \/ FinalizeAct(p) \/ FinWaitSeen(p) \/ FinWaitExpired(p)
  \/ CliTearKill(p) \/ CliTearRelease(p) \/ CliTearSave(p)
  \/ DeleteAct(p) \/ DeleteReload(p) \/ Remove(p)
  \/ WaitAct(p) \/ WaitTimeout(p) \/ GcCollect(p)

SupStep(s) ==
  \/ SupLoad(s) \/ LaunchCgroup(s) \/ LaunchClone(s) \/ LaunchNet(s)
  \/ LaunchRunning(s) \/ LaunchFail(s) \/ LaunchFailed(s) \/ ShimSave(s)
  \/ SupReap(s) \/ SupSaveExit(s) \/ SupTearKill(s) \/ SupTearRelease(s)
  \/ SupTearSave(s) \/ SupRemove(s)

Next ==
  \/ \E p \in Cli : CliStep(p) \/ CliKilled(p) \/ \E o \in Ops : Begin(p, o)
  \/ \E s \in Sup : SupStep(s) \/ SupCrash(s)
                    \/ InitExit(s) \/ InitKilled(s) \/ InitReaped(s)

Spec == Init /\ [][Next]_vars

(* Commands and supervisors keep running, deadlines pass, a SIGKILL is     *)
(* delivered.  Nothing makes the workload exit or a new command appear.    *)
Fairness ==
  /\ \A p \in Cli : WF_vars(CliStep(p))
  /\ \A s \in Sup : WF_vars(SupStep(s)) /\ WF_vars(InitKilled(s)) /\ WF_vars(InitReaped(s))

FairSpec == Spec /\ Fairness
-----------------------------------------------------------------------------
CliPc == {"idle", "open", "flock", "load", "reconcile", "act", "save", "fork",
          "notify", "reload", "attached", "sigterm", "poll", "pollKill",
          "finWait", "tearKill", "tearRelease", "tearSave", "delReload",
          "remove", "collect", "crashed"}

SupPc == {"off", "load", "launch", "clone", "net", "started", "shimSave", "wait",
          "saveExit", "tearKill", "tearRelease", "tearSave", "remove", "failed",
          "done", "dead"}

(* Every variable stays in its domain.                                     *)
TypeOK ==
  /\ file \in State \cup {None}
  /\ lockFile \in Nat /\ fd \in [Cli -> Nat] /\ holders \subseteq Cli
  /\ init \in [Sup -> {"none", "alive", "zombie", "gone"}]
  /\ initExit \in [Sup -> ExitStatus \cup {None}]
  /\ doomed \subseteq Sup /\ frozen \in BOOLEAN /\ stray \in BOOLEAN
  /\ res \subseteq {"cgroup", "net"}
  /\ pc \in [Cli -> CliPc] /\ op \in [Cli -> AllOps \cup {None}]
  /\ site \in [Cli -> {"main", "stop", "kill", "fin", "del"}]
  /\ mem \in [Cli -> State \cup {None}]
  /\ out \in [Cli -> {"ok", "err", None}] /\ ops \in 0 .. MaxOps
  /\ supPc \in [Sup -> SupPc] /\ smem \in [Sup -> State \cup {None}]
  /\ verdict \in [Sup -> {"ok", "err", None}]

(* The supervisor of s was killed before launch saved Running: PDEATHSIG   *)
(* is killing its init, and state.json still says Created.                 *)
DiedLaunching(s) == supPc[s] = "dead" /\ smem[s].status = "Created"

(* However many commands race, one launch gets as far as cloning an init:  *)
(* start holds the lock across the fork, so the Created check and the      *)
(* launch are one step to the others.  Only after a supervisor was killed  *)
(* mid-launch may start be tried again.                                    *)
AtMostOneInit ==
  Cardinality({s \in Sup : init[s] # "none" /\ ~DiedLaunching(s)}) <= 1

(* A state file that says Stopped is never wrong about it: whoever wrote   *)
(* it (shim, reconcile, teardown, failed launch) did so after init died.   *)
StoppedMeansDead ==
  file # None /\ file.status = "Stopped" => \A s \in Alive : DiedLaunching(s)

(* From the moment launch saved Running until init dies, state.json exists,*)
(* says so, and names that init: no other writer's stale record hides a    *)
(* running container from ls, stop and gc.                                 *)
RunningIsRecorded ==
  \A s \in Alive : supPc[s] \in {"shimSave", "wait"} =>
    file # None /\ is_live(file.status) /\ file.pid = s

(* The cgroup's freezer and the recorded status agree whenever no command  *)
(* is in the middle of changing them, across pause, unpause, kill, stop.   *)
FrozenIffPaused ==
  Alive # {} /\ holders = {} /\ file # None => (frozen <=> file.status = "Paused")

(* A stop, wait or rm that returned success had a dead init behind it,     *)
(* also when the shim was killed or the SIGKILL was slow to take effect.   *)
ReturnedMeansDead ==
  \A p \in Cli : pc[p] = "idle" /\ op[p] \in {"stop", "wait", "rm", "rmf"} /\ out[p] = "ok"
                 => mem[p].pid \notin Alive

(* A successful rm leaves neither a process nor a cgroup, lease or rule,   *)
(* also when commands or the supervisor were killed before it.  Excepted   *)
(* is a supervisor killed before any record named what it had created.     *)
RemoveLeavesNothing ==
  \A p \in Cli : /\ pc[p] = "idle" /\ op[p] \in {"rm", "rmf"} /\ out[p] = "ok"
                 /\ mem[p].pid = None => \A s \in Sup : supPc[s] # "dead"
                 => Alive = {} /\ res = {}

(* Once every supervisor has come to its end without being killed, no      *)
(* cgroup, lease or rule is left, whether its launch succeeded, failed or  *)
(* raced another, and whichever commands tore down under it.               *)
SupervisorsLeaveNothing == (\A s \in Sup : supPc[s] \in {"off", "done"}) => res = {}

(* At most one command is inside a section guarded by the container lock.  *)
LockExclusive == Cardinality({p \in Cli : Locked(p)}) <= 1

(* No signal reaches a process that merely inherited init's pid.           *)
NoStraySignal == ~stray

(* An exit status, once in state.json, stays there.                        *)
ExitStatusKept == [][file # None /\ file.exit # None => file'.exit = file.exit]_file

(* Every command but a wait or an attached run comes to an end.            *)
CommandsTerminate ==
  \A p \in Cli : (pc[p] # "idle" /\ op[p] \notin {"wait", "startA"})
                   ~> pc[p] \in {"idle", "crashed"}

(* A wait on a container whose recorded init has died returns, whatever    *)
(* the other writers of state.json do meanwhile.                           *)
DeadWaitReturns ==
  \A p \in Cli :
    (op[p] = "wait" /\ pc[p] # "idle" /\ file # None /\ file.pid # None /\ ~init_is_alive(file))
      ~> pc[p] = "idle"
=============================================================================
