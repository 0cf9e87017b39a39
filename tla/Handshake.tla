----------------------------- MODULE Handshake -----------------------------
(***************************************************************************)
(* The supervisor and the container's init on the two ends of the sync     *)
(* channel: src/runtime/ipc.rs, the handshake in supervisor::launch and    *)
(* supervisor::wait_for_exit on one side, src/runtime/init.rs on the       *)
(* other, with the workload, the processes it leaves to init, the signals  *)
(* that init forwards, failures and SIGKILL on both sides.                 *)
(*                                                                         *)
(* The channel is a byte stream.  Its unit here is a field: tag, length,   *)
(* one number of a payload.  A read or write moves any number of units, so *)
(* frames are split and joined between any two fields.                     *)
(***************************************************************************)
EXTENDS Integers, Sequences

CONSTANTS
  Orphan,       \* processes the workload starts and leaves to init
  Signals,      \* signals that init forwards (a subset of FORWARDED)
  MaxSignals,   \* bound: how many signals are sent to init
  Codes,        \* the exit codes a workload may have
  Message,      \* length of an error text
  MaxPayload,   \* MAX_PAYLOAD
  PidNs,        \* does the container have a pid namespace of its own?
  MaySignal,    \* may init signal the workload: it kept CAP_KILL, or they
                \* have the same user?
  None

ASSUME HandshakeAssumption ==
  /\ MaxSignals \in Nat /\ Message \in Nat /\ MaxPayload \in Nat
  /\ Codes \subseteq Nat /\ PidNs \in BOOLEAN /\ MaySignal \in BOOLEAN /\ None \notin Int

Side == {"sup", "init"}

Other(side) == IF side = "sup" THEN "init" ELSE "sup"

TAG_READY == 82
TAG_GO == 71
TAG_STARTED == 83
TAG_ERROR == 69
TAG_EXIT == 88

Tags == {TAG_READY, TAG_GO, TAG_STARTED, TAG_ERROR, TAG_EXIT}

Exited(c) == [code |-> c, signal |-> None]

Killed == [code |-> None, signal |-> 9]

ExitStatus == {Exited(c) : c \in Codes} \cup {Killed}

(* Why a launch fails.                                                     *)
Reasons == {"own", "write", "message", "unexpected", "eof"}

ASSUME NoneIsNoValue == None \notin ExitStatus /\ None \notin Reasons

(* 128 + signal, where there is no code.                                   *)
exit_code(e) == IF e.code # None THEN e.code ELSE 128 + e.signal

VARIABLES
  \* the channel
  stream,     \* stream[x]: units on their way to side x
  got,        \* got[x]: the part of a frame that x has read
  out,        \* out[x]: the rest of the frame that x is writing
  \* the supervisor
  supPc, netReady,
  supChild,   \* it still has the child's end of the channel open
  supErr,     \* why the launch failed
  fromInit,   \* the exit that init has reported
  status,     \* of state.json: "Created", "Running" or "Stopped"
  recorded,   \* the exit in state.json
  \* init and its children
  initPc, initExit, doomed, blocked, pending,
  wl, wlExit, orphan, others,
  \* what the properties look at
  sent, discarded, delivered, foreign, stale

chanVars == <<stream, got, out>>
supVars == <<supPc, netReady, supChild, supErr, fromInit, status, recorded>>
initVars == <<initPc, initExit, doomed, blocked>>
procVars == <<wl, wlExit, orphan, others>>
sigVars == <<pending, sent, discarded, delivered, foreign, stale>>
vars == <<chanVars, supVars, initVars, procVars, sigVars>>

InitAlive == initPc \notin {"off", "dead", "reaped"}

Launching == {"clone", "drop", "ready", "network", "go", "started", "save"}

(* The supervisor's end is open until launch has failed or it has died.    *)
SupOpen == supPc \in Launching \cup {"wait", "reap"}

(* Init's end is open in init, in whatever it has forked (descriptor 3 is  *)
(* inherited), and in the supervisor until it drops its copy.              *)
InitOpen == InitAlive \/ wl = "alive" \/ (\E o \in Orphan : orphan[o] = "alive") \/ supChild

Open(side) == IF side = "sup" THEN SupOpen ELSE InitOpen

-----------------------------------------------------------------------------
(* src/runtime/ipc.rs                                                      *)

Frame(tag, payload) == <<tag, Len(payload)>> \o payload

send(side, tag, payload) == out' = [out EXCEPT ![side] = Frame(tag, payload)]

(* A payload that is too short says nothing.                               *)
parse_exit(p) ==
  IF Len(p) < 2 THEN None ELSE [code   |-> IF p[1] >= 0 THEN p[1] ELSE None,
                                signal |-> IF p[2] > 0 THEN p[2] ELSE None]

(* write_all: the kernel takes a part of the frame.                        *)
write_all(side) ==
  /\ out[side] # <<>> /\ Open(Other(side))
  /\ \E k \in 1..Len(out[side]) :
       /\ stream' = [stream EXCEPT ![Other(side)] = @ \o SubSeq(out[side], 1, k)]
       /\ out' = [out EXCEPT ![side] = SubSeq(@, k + 1, Len(@))]
  /\ UNCHANGED got

Broken(side) == out[side] # <<>> /\ ~Open(Other(side))

(* How many more units the frame under way needs: its head, then what the  *)
(* head says.                                                              *)
Missing(f) == IF Len(f) < 2 THEN 2 - Len(f) ELSE 2 + f[2] - Len(f)

Complete(f) == Len(f) >= 2 /\ Missing(f) = 0

(* read_exact: at most what is missing, possibly less.                     *)
read_exact(side) ==
  /\ ~Complete(got[side]) /\ stream[side] # <<>>
  /\ \E k \in 1..Len(stream[side]) :
       /\ k <= Missing(got[side])
       /\ got' = [got EXCEPT ![side] = @ \o SubSeq(stream[side], 1, k)]
       /\ stream' = [stream EXCEPT ![side] = SubSeq(@, k + 1, Len(@))]
  /\ UNCHANGED out

(* End of file, between frames or inside one: the other end is closed in   *)
(* every process and nothing is left to read.                              *)
Eof(side) == stream[side] = <<>> /\ ~Complete(got[side]) /\ ~Open(Other(side))

recv(side) == Complete(got[side]) /\ got' = [got EXCEPT ![side] = <<>>]

Tag(side) == got[side][1]

Payload(side) == SubSeq(got[side], 3, Len(got[side]))

-----------------------------------------------------------------------------
(* The supervisor: launch, then wait_for_exit.                             *)

SupMoves(l) == supPc' = l /\ UNCHANGED <<netReady, supChild, supErr, fromInit, status, recorded>>

(* An error returned from launch closes the channel; the rollback stack    *)
(* kills the child only once that has been registered.                     *)
FailLaunch(why) ==
  /\ supPc' = IF supPc \in {"clone", "drop"} THEN "failed" ELSE "unwind"
  /\ supErr' = why /\ supChild' = FALSE
  /\ out' = [out EXCEPT !["sup"] = <<>>]
  /\ UNCHANGED <<netReady, fromInit, status, recorded>>

Clone ==
  /\ supPc = "clone"
  /\ \/ SupMoves("drop") /\ initPc' = "exec" /\ UNCHANGED out
     \/ FailLaunch("own") /\ UNCHANGED initPc
  /\ UNCHANGED <<stream, got, initExit, doomed, blocked, procVars, sigVars>>

(* Variant: the supervisor keeps its copy of the child's end.              *)
DropChildEndForgotten ==
  supPc = "drop" /\ SupMoves("ready") /\ UNCHANGED <<chanVars, initVars, procVars, sigVars>>

DropChildEnd ==
  /\ supPc = "drop"
  /\ \/ /\ supPc' = "ready" /\ supChild' = FALSE
        /\ UNCHANGED <<out, netReady, supErr, fromInit, status, recorded>>
     \/ FailLaunch("own")
  /\ UNCHANGED <<stream, got, initVars, procVars, sigVars>>

SupRead ==
  /\ supPc \in {"ready", "started", "wait"} /\ read_exact("sup")
  /\ UNCHANGED <<supVars, initVars, procVars, sigVars>>

expect(want, next) ==
  /\ \/ recv("sup") /\ Tag("sup") = want /\ SupMoves(next) /\ UNCHANGED out
     \/ /\ recv("sup") /\ Tag("sup") # want
        /\ FailLaunch(IF Tag("sup") = TAG_ERROR THEN "message" ELSE "unexpected")
     \/ Eof("sup") /\ FailLaunch("eof") /\ UNCHANGED got
  /\ UNCHANGED <<stream, initVars, procVars, sigVars>>

AwaitReady == supPc = "ready" /\ expect(TAG_READY, "network")

(* setup_host and write_netstate, then the go signal is on its way.        *)
SetupHost ==
  /\ supPc = "network"
  /\ \/ /\ netReady' = TRUE /\ supPc' = "go" /\ send("sup", TAG_GO, <<>>)
        /\ UNCHANGED <<supChild, supErr, fromInit, status, recorded>>
     \/ FailLaunch("own")
  /\ UNCHANGED <<stream, got, initVars, procVars, sigVars>>

Go ==
  /\ supPc = "go"
  /\ \/ out["sup"] = <<>> /\ SupMoves("started") /\ UNCHANGED out
     \/ Broken("sup") /\ FailLaunch("write")
  /\ UNCHANGED <<stream, got, initVars, procVars, sigVars>>

AwaitStarted == supPc = "started" /\ expect(TAG_STARTED, "save")

SaveRunning ==
  /\ supPc = "save"
  /\ \/ /\ supPc' = "wait" /\ status' = "Running"
        /\ UNCHANGED <<out, netReady, supChild, supErr, fromInit, recorded>>
     \/ FailLaunch("own")
  /\ UNCHANGED <<stream, got, initVars, procVars, sigVars>>

(* The rollback action "container process": SIGKILL, then waitpid.         *)
UnwindKill ==
  /\ supPc = "unwind" /\ InitAlive /\ ~doomed
  /\ doomed' = TRUE
  /\ UNCHANGED <<chanVars, supVars, initPc, initExit, blocked, procVars, sigVars>>

UnwindReap ==
  /\ supPc = "unwind" /\ initPc = "dead"
  /\ SupMoves("failed") /\ initPc' = "reaped"
  /\ UNCHANGED <<chanVars, initExit, doomed, blocked, procVars, sigVars>>

(* wait_for_exit: an exit frame is remembered, any other is passed over,   *)
(* an end of file or a broken frame ends the loop.                         *)
AwaitExit ==
  /\ supPc = "wait"
  /\ \/ /\ recv("sup")
        /\ fromInit' = IF Tag("sup") = TAG_EXIT /\ parse_exit(Payload("sup")) # None
                       THEN parse_exit(Payload("sup")) ELSE fromInit
        /\ UNCHANGED <<supPc, netReady, supChild, supErr, status, recorded>>
     \/ Eof("sup") /\ SupMoves("reap") /\ UNCHANGED got
  /\ UNCHANGED <<stream, out, initVars, procVars, sigVars>>

Recorded(e) ==
  /\ supPc = "reap" /\ initPc = "dead"
  /\ recorded' = e /\ status' = "Stopped" /\ supPc' = "recorded" /\ initPc' = "reaped"
  /\ UNCHANGED <<chanVars, netReady, supChild, supErr, fromInit,
                 initExit, doomed, blocked, procVars, sigVars>>

(* waitpid, then the exit init reported or else its own; record and save.  *)
RecordExit == Recorded(IF fromInit # None THEN fromInit ELSE initExit)

(* SIGKILL of the supervisor; PDEATHSIG sends one to init.                 *)
SupCrash ==
  /\ supPc \in Launching \cup {"wait", "reap", "unwind"}
  /\ supPc' = "dead" /\ supChild' = FALSE
  /\ out' = [out EXCEPT !["sup"] = <<>>]
  /\ doomed' = InitAlive
  /\ UNCHANGED <<stream, got, netReady, supErr, fromInit, status, recorded,
                 initPc, initExit, blocked, procVars, sigVars>>

SupWrite == write_all("sup") /\ UNCHANGED <<supVars, initVars, procVars, sigVars>>

-----------------------------------------------------------------------------
(* Init: src/runtime/init.rs                                               *)

InitMoves(l) ==
  /\ initPc' = l
  /\ UNCHANGED <<chanVars, supVars, initExit, doomed, blocked, procVars, sigVars>>

(* Init goes on to write a frame; the variables of its children are left   *)
(* to the caller.                                                          *)
InitSends(l, tag, payload) ==
  /\ initPc' = l /\ send("init", tag, payload)
  /\ UNCHANGED <<stream, got, supVars, initExit, doomed, blocked, sigVars>>

(* Init ends.  With a pid namespace the kernel kills all others in it;     *)
(* without one they live on, and zombies go to another parent.             *)
Ends(e) ==
  LET gone(x) == x = "zombie" \/ (PidNs /\ x = "alive") IN
  /\ initPc' = "dead" /\ initExit' = e /\ doomed' = FALSE
  /\ wl' = IF gone(wl) THEN "reaped" ELSE wl
  /\ wlExit' = IF PidNs /\ wl = "alive" THEN Killed ELSE wlExit
  /\ orphan' = [o \in Orphan |-> IF gone(orphan[o]) THEN "gone" ELSE orphan[o]]
  /\ out' = [out EXCEPT !["init"] = <<>>]
  /\ UNCHANGED <<stream, got, supVars, blocked, others, sigVars>>

(* Variant: init exits without a word.                                     *)
InitFailsSilently == InitMoves("failing")

ErrorText == [i \in 1..(IF Message < MaxPayload THEN Message ELSE MaxPayload) |-> 0]

(* run has returned an error: it is reported, cut at MAX_PAYLOAD, before   *)
(* init exits.                                                             *)
InitFails == InitSends("failing", TAG_ERROR, ErrorText) /\ UNCHANGED procVars

(* The clone becomes myrun __init, or exits with 127.                      *)
ExecInit == initPc = "exec" /\ (InitMoves("config") \/ Ends(Exited(127)))

ReadConfig ==
  /\ initPc = "config"
  /\ \/ InitSends("ready", TAG_READY, <<>>) /\ UNCHANGED procVars
     \/ InitFails

(* The frame has been written, or the supervisor is no longer there; the   *)
(* fault point before_go_signal follows.                                   *)
ReadySent ==
  /\ initPc = "ready"
  /\ \/ out["init"] = <<>> /\ InitMoves("awaitGo")
     \/ (out["init"] = <<>> \/ Broken("init")) /\ InitFails

InitRead ==
  /\ initPc = "awaitGo" /\ read_exact("init")
  /\ UNCHANGED <<supVars, initVars, procVars, sigVars>>

(* Variant: init does not wait.                                            *)
AwaitGoSkipped == initPc = "awaitGo" /\ InitMoves("setup")

AwaitGo ==
  /\ initPc = "awaitGo"
  /\ \/ /\ recv("init") /\ Tag("init") = TAG_GO /\ initPc' = "setup"
        /\ UNCHANGED <<stream, out, supVars, initExit, doomed, blocked, procVars, sigVars>>
     \/ Eof("init") /\ InitFails

(* Hostname, mounts, network, capabilities, seccomp.                       *)
Setup == initPc = "setup" /\ (InitMoves("block") \/ InitFails)

(* Variant: signals are blocked after the workload has been reported.      *)
BlockSignalsLate ==
  /\ \/ initPc = "block" /\ initPc' = "spawn" /\ UNCHANGED blocked
     \/ initPc = "poll" /\ ~blocked /\ blocked' = TRUE /\ UNCHANGED initPc
  /\ UNCHANGED <<chanVars, supVars, initExit, doomed, procVars, sigVars>>

BlockSignals ==
  /\ initPc = "block"
  /\ \/ /\ initPc' = "spawn" /\ blocked' = TRUE
        /\ UNCHANGED <<chanVars, supVars, initExit, doomed, procVars, sigVars>>
     \/ InitFails

(* resolve_exe and fork; the started frame follows.                        *)
spawn_workload ==
  /\ initPc = "spawn"
  /\ \/ /\ InitSends("started", TAG_STARTED, <<>>)
        /\ wl' = "alive" /\ UNCHANGED <<wlExit, orphan, others>>
     \/ InitFails

StartedSent ==
  /\ initPc = "started"
  /\ \/ out["init"] = <<>> /\ InitMoves("reap")
     \/ Broken("init") /\ InitFails

Zombies == {o \in Orphan : orphan[o] = "zombie"}

(* One waitpid(-1, WNOHANG) that finds a zombie.                           *)
ReapOne ==
  /\ initPc \in {"reap", "grace", "reapLast"}
  /\ \/ wl = "zombie" /\ wl' = "reaped" /\ UNCHANGED orphan
     \/ \E o \in Zombies : orphan' = [orphan EXCEPT ![o] = "gone"] /\ UNCHANGED wl
  /\ UNCHANGED <<chanVars, supVars, initVars, wlExit, others, sigVars>>

(* Variant: the loop goes on after the workload has been reaped until all  *)
(* of its orphans have ended too.                                          *)
SuperviseReapedAll ==
  /\ initPc = "reap" /\ wl # "zombie" /\ Zombies = {}
  /\ InitMoves(IF wl = "reaped" /\ \A o \in Orphan : orphan[o] # "alive" THEN "list" ELSE "poll")

(* supervise: nothing is left to reap; with the workload's status in hand  *)
(* the loop is over.                                                       *)
SuperviseReaped ==
  /\ initPc = "reap" /\ wl # "zombie" /\ Zombies = {}
  /\ InitMoves(IF wl = "reaped" THEN "list" ELSE "poll")

(* Variant: poll without a time limit; SIGCHLD does not wake it.           *)
PollForever == initPc = "poll" /\ pending # {} /\ InitMoves("drain")

(* poll returns with a signal or after 200 ms.                             *)
Poll == initPc = "poll" /\ InitMoves(IF pending # {} THEN "drain" ELSE "reap")

(* One signal is read from the signalfd and forwarded to the workload's    *)
(* pid; rest are the signals that stay pending.  If kill fails, the signal *)
(* is gone.                                                                *)
ForwardAndKeep(g, rest) ==
  /\ initPc = "drain" /\ g \in pending
  /\ pending' = rest
  /\ delivered' = IF MaySignal THEN delivered \cup {g} ELSE delivered
  /\ foreign' = (foreign \/ wl = "reaped")
  /\ UNCHANGED <<chanVars, supVars, initVars, procVars, sent, discarded, stale>>

(* Variant: only the first signal of a batch is forwarded.                 *)
ForwardFirst(g) == ForwardAndKeep(g, {})

Forward(g) == ForwardAndKeep(g, pending \ {g})

Drained == initPc = "drain" /\ pending = {} /\ InitMoves("reap")

(* shutdown_remaining: every pid of /proc but 1.  Without a pid namespace  *)
(* /proc shows the processes of the host, this init among them.            *)
Listed == {o \in Orphan : orphan[o] \in {"alive", "zombie"}}

NobodyLeft == PidNs /\ Listed = {}

ExitPayload(e) == <<IF e.code = None THEN -1 ELSE e.code, IF e.signal = None THEN 0 ELSE e.signal>>

send_exit == InitSends("sendExit", TAG_EXIT, ExitPayload(wlExit))

(* SIGTERM to everybody, if there is anybody.                              *)
ListRemaining ==
  /\ initPc = "list"
  /\ \/ NobodyLeft /\ send_exit /\ UNCHANGED procVars
     \/ /\ ~NobodyLeft /\ initPc' = "grace"
        /\ others' = Listed /\ foreign' = (foreign \/ ~PidNs)
        /\ UNCHANGED <<chanVars, supVars, initExit, doomed, blocked, wl, wlExit, orphan,
                       pending, sent, discarded, delivered, stale>>

(* The grace period ends when nobody is left or after twenty rounds.       *)
GraceOver ==
  /\ initPc = "grace"
  /\ \/ NobodyLeft /\ send_exit /\ UNCHANGED procVars
     \/ ~NobodyLeft /\ InitMoves("killRest")

(* SIGKILL to all that were listed at first, also to those that have been  *)
(* reaped in the grace period; without a pid namespace init is on its own  *)
(* list.                                                                   *)
KillRest ==
  /\ initPc = "killRest"
  /\ IF PidNs
     THEN /\ orphan' = [o \in Orphan |-> IF o \in others /\ orphan[o] = "alive" /\ MaySignal
                                        THEN "zombie" ELSE orphan[o]]
          /\ stale' = (stale \/ \E o \in others : orphan[o] = "gone")
          /\ initPc' = "reapLast"
          /\ UNCHANGED <<chanVars, supVars, initExit, doomed, blocked, wl, wlExit, others,
                         pending, sent, discarded, delivered, foreign>>
     ELSE Ends(Killed)

ReapedLast == initPc = "reapLast" /\ Zombies = {} /\ send_exit /\ UNCHANGED procVars

(* main: the last frame has been written or cannot be.                     *)
InitExits ==
  /\ out["init"] = <<>> \/ Broken("init")
  /\ \/ initPc = "failing" /\ Ends(Exited(1))
     \/ initPc = "sendExit" /\ Ends(Exited(exit_code(wlExit)))

InitWrite == write_all("init") /\ UNCHANGED <<supVars, initVars, procVars, sigVars>>

(* SIGKILL, from the supervisor, from myrun or from the kernel.            *)
InitKilled == InitAlive /\ Ends(Killed)

-----------------------------------------------------------------------------
(* The workload, what it leaves behind, and myrun kill.                    *)

WorkloadExits(e) ==
  /\ wl = "alive"
  /\ wl' = (IF InitAlive THEN "zombie" ELSE "reaped") /\ wlExit' = e
  /\ UNCHANGED <<chanVars, supVars, initVars, orphan, others, sigVars>>

OrphanStarts(o) ==
  /\ wl = "alive" /\ orphan[o] = "no"
  /\ orphan' = [orphan EXCEPT ![o] = "alive"]
  /\ UNCHANGED <<chanVars, supVars, initVars, wl, wlExit, others, sigVars>>

OrphanExits(o) ==
  /\ orphan[o] = "alive"
  /\ orphan' = [orphan EXCEPT ![o] = IF InitAlive THEN "zombie" ELSE "gone"]
  /\ UNCHANGED <<chanVars, supVars, initVars, wl, wlExit, others, sigVars>>

(* kill and stop signal the init of a container recorded as running.  A    *)
(* signal that init has not blocked is discarded.                          *)
SignalInit(g) ==
  /\ status = "Running" /\ InitAlive /\ sent < MaxSignals
  /\ sent' = sent + 1
  /\ IF blocked
     THEN pending' = pending \cup {g} /\ delivered' = delivered \ {g} /\ UNCHANGED discarded
     ELSE discarded' = TRUE /\ UNCHANGED <<pending, delivered>>
  /\ UNCHANGED <<chanVars, supVars, initVars, procVars, foreign, stale>>

-----------------------------------------------------------------------------
Init ==
  /\ stream = [x \in Side |-> <<>>] /\ got = [x \in Side |-> <<>>] /\ out = [x \in Side |-> <<>>]
  /\ supPc = "clone" /\ netReady = FALSE /\ supChild = TRUE /\ supErr = None
  /\ fromInit = None /\ status = "Created" /\ recorded = None
  /\ initPc = "off" /\ initExit = None /\ doomed = FALSE /\ blocked = FALSE
  /\ wl = "no" /\ wlExit = None /\ orphan = [o \in Orphan |-> "no"] /\ others = {}
  /\ pending = {} /\ sent = 0 /\ discarded = FALSE /\ delivered = {}
  /\ foreign = FALSE /\ stale = FALSE

SupStep ==
  \/ SupWrite \/ SupRead
  \/ Clone \/ DropChildEnd \/ AwaitReady \/ SetupHost \/ Go \/ AwaitStarted \/ SaveRunning
  \/ UnwindKill \/ UnwindReap \/ AwaitExit \/ RecordExit

InitStep ==
  \/ InitWrite \/ InitRead
  \/ ExecInit \/ ReadConfig \/ ReadySent \/ AwaitGo \/ Setup \/ BlockSignals
  \/ spawn_workload \/ StartedSent
  \/ ReapOne \/ SuperviseReaped \/ Poll \/ (\E g \in Signals : Forward(g)) \/ Drained
  \/ ListRemaining \/ GraceOver \/ KillRest \/ ReapedLast \/ InitExits

Next ==
  \/ SupStep \/ SupCrash
  \/ InitStep \/ InitKilled
  \/ \E e \in ExitStatus : WorkloadExits(e)
  \/ \E o \in Orphan : OrphanStarts(o) \/ OrphanExits(o)
  \/ \E g \in Signals : SignalInit(g)

Spec == Init /\ [][Next]_vars

(* Both processes keep running, and a SIGKILL that was sent is delivered.  *)
(* Nothing makes the workload or its orphans exit.                         *)
Fairness == WF_vars(SupStep) /\ WF_vars(InitStep) /\ WF_vars(doomed /\ InitKilled)

FairSpec == Spec /\ Fairness

-----------------------------------------------------------------------------
SupPc == Launching \cup {"wait", "reap", "recorded", "unwind", "failed", "dead"}

InitPc == {"off", "exec", "config", "ready", "awaitGo", "setup", "block", "spawn", "started",
           "reap", "poll", "drain", "list", "grace", "killRest", "reapLast", "sendExit",
           "failing", "dead", "reaped"}

(* Every variable stays in its domain.                                     *)
TypeOK ==
  /\ stream \in [Side -> Seq(Int)] /\ got \in [Side -> Seq(Int)] /\ out \in [Side -> Seq(Int)]
  /\ supPc \in SupPc /\ netReady \in BOOLEAN /\ supChild \in BOOLEAN
  /\ supErr \in Reasons \cup {None}
  /\ fromInit \in ExitStatus \cup {None} /\ status \in {"Created", "Running", "Stopped"}
  /\ recorded \in ExitStatus \cup {None}
  /\ initPc \in InitPc /\ doomed \in BOOLEAN /\ blocked \in BOOLEAN
  /\ wl \in {"no", "alive", "zombie", "reaped"} /\ wlExit \in ExitStatus \cup {None}
  /\ orphan \in [Orphan -> {"no", "alive", "zombie", "gone"}] /\ others \subseteq Orphan
  /\ pending \subseteq Signals /\ sent \in 0..MaxSignals
  /\ discarded \in BOOLEAN /\ delivered \subseteq Signals
  /\ foreign \in BOOLEAN /\ stale \in BOOLEAN

(* Launch says that init exited without a word, or sent the wrong one,     *)
(* only if init was killed or never ran: every error of init arrives, save *)
(* one between READY and GO that makes the supervisor's write fail first.  *)
FailureIsExplained ==
  supErr \in {"eof", "unexpected"} => initExit \in {Killed, Exited(127)}

(* A signal of myrun kill or stop never meets an init that has not blocked *)
(* it, so none is lost between the record and the supervision loop.        *)
NoSignalDiscarded == ~discarded

(* Init signals only processes of its container: no process of the host,   *)
(* and nothing is forwarded to the pid of a workload it has reaped.  Only  *)
(* the last SIGKILL may go to pids that were reaped in the grace period,   *)
(* and then the workload is over and init does no more than report and end,*)
(* with which the kernel kills whoever is left.                            *)
NoForeignSignal ==
  /\ ~foreign
  /\ stale => /\ PidNs /\ wl = "reaped"
              /\ initPc \in {"reapLast", "sendExit", "dead", "reaped"}

(* The workload and the verdict as a session has them.                     *)
WorkloadSeen == IF wl = "no" THEN "none" ELSE IF wl = "alive" THEN "running" ELSE "ended"

Verdict ==
  IF status = "Running" THEN "running" ELSE IF status = "Stopped" THEN "ended"
  ELSE IF supPc \in Launching THEN "starting" ELSE "failed"

(* The abstract specification.                                             *)
S == INSTANCE Session WITH
       Exit <- ExitStatus, host <- netReady, workload <- WorkloadSeen, exit <- wlExit, verdict <- Verdict

(* The handshake implements a session.                                     *)
ImplementsSession == S!Spec

(* A launch ends: supervisor and init never wait for each other for ever.  *)
LaunchEnds == <>(supPc \notin Launching)

(* Once the workload has exited, the supervisor records an exit, or gives  *)
(* the launch up, unless it is killed.                                     *)
ExitIsRecorded == wl \in {"zombie", "reaped"} ~> supPc \in {"recorded", "failed", "dead"}

(* A signal init has received reaches a workload that is there to get it,  *)
(* also one of a kind that was forwarded before, if init may signal it.    *)
SignalsReachWorkload ==
  \A g \in Signals : g \in pending ~> g \in delivered \/ wl # "alive"
=============================================================================
