-------------------------- MODULE Handshake_proofs --------------------------
(***************************************************************************)
(* Proofs about Handshake, for every set of orphans and signals, every     *)
(* length of an error message and every way in which the kernel cuts the   *)
(* frames: type correctness, that a failed launch is explained, that no    *)
(* signal is discarded or misdirected, and that the protocol implements a  *)
(* Session.                                                                *)
(***************************************************************************)
EXTENDS Handshake, SequenceTheorems, TLAPS

-----------------------------------------------------------------------------
(* Sequences of units.                                                     *)

LEMMA Assoc ==
  ASSUME NEW s \in Seq(Int), NEW t \in Seq(Int), NEW u \in Seq(Int)
  PROVE  (s \o t) \o u = s \o (t \o u)
<1> DEFINE l == (s \o t) \o u
           r == s \o (t \o u)
<1>1. /\ l \in Seq(Int) /\ r \in Seq(Int)
      /\ Len(l) = (Len(s) + Len(t)) + Len(u) /\ Len(r) = Len(s) + (Len(t) + Len(u))
      /\ Len(s) \in Nat /\ Len(t) \in Nat /\ Len(u) \in Nat
  BY ConcatProperties, LenProperties
<1>2. \A i \in 1..Len(l) : l[i] = r[i]
  OBVIOUS
<1>3. l \in Seq(Int) /\ r \in Seq(Int) /\ Len(l) = Len(r)
  BY <1>1
<1> HIDE DEF l, r
<1>4. l = r
  BY <1>2, <1>3, SeqEqual
<1> QED
  BY <1>4 DEF l, r

(* What read and write do: they cut a sequence in two.                     *)
LEMMA Cut ==
  ASSUME NEW s \in Seq(Int), NEW k \in 1..Len(s)
  PROVE  /\ SubSeq(s, 1, k) \in Seq(Int) /\ SubSeq(s, k + 1, Len(s)) \in Seq(Int)
         /\ Len(SubSeq(s, 1, k)) = k
         /\ SubSeq(s, 1, k) \o SubSeq(s, k + 1, Len(s)) = s
<1>1. Len(s) \in Nat /\ \A i \in 1..Len(s) : s[i] \in Int
  BY LenProperties, ElementOfSeq
<1>2. SubSeq(s, 1, k) \in Seq(Int) /\ Len(SubSeq(s, 1, k)) = k
  BY <1>1, SubSeqProperties
<1>3. SubSeq(s, k + 1, Len(s)) \in Seq(Int)
  BY <1>1, SubSeqProperties
<1>4. SubSeq(s, 1, k) \o SubSeq(s, k + 1, Len(s)) = SubSeq(s, 1, Len(s))
  BY <1>1, ConcatAdjacentSubSeq
<1>5. SubSeq(s, 1, Len(s)) = s
  BY SubSeqFull
<1> QED
  BY <1>2, <1>3, <1>4, <1>5

(* A frame is as long as its head says.                                    *)
IsFrame(f) == f \in Seq(Int) /\ Len(f) >= 2 /\ Len(f) = 2 + f[2]

LEMMA FrameHasHead ==
  ASSUME NEW f, IsFrame(f)
  PROVE  f # <<>>
  BY EmptySeq DEF IsFrame

LEMMA FrameIsFrame ==
  ASSUME NEW tag \in Int, NEW p \in Seq(Int)
  PROVE  IsFrame(Frame(tag, p)) /\ Frame(tag, p)[1] = tag /\ SubSeq(Frame(tag, p), 3, Len(Frame(tag, p))) = p
<1> DEFINE f == Frame(tag, p)
           n == Len(p)
<1>1. n \in Nat /\ <<tag, n>> \in Seq(Int) /\ Len(<<tag, n>>) = 2
  BY LenProperties
<1>2. f \in Seq(Int) /\ Len(f) = 2 + n
  BY <1>1, ConcatProperties DEF Frame
<1>3. \A i \in 1..(2 + n) : f[i] = IF i <= 2 THEN <<tag, n>>[i] ELSE p[i - 2]
  BY <1>1, ConcatProperties DEF Frame
<1> HIDE DEF f
<1>4. f[1] = tag /\ f[2] = n
  BY <1>1, <1>3
<1>5. SubSeq(f, 3, Len(f)) = p
  <2>1. \A i \in 3..Len(f) : f[i] \in Int
    BY <1>1, <1>2, ElementOfSeq
  <2>2. /\ SubSeq(f, 3, Len(f)) \in Seq(Int)
        /\ Len(SubSeq(f, 3, Len(f))) = n
        /\ \A i \in 1..n : SubSeq(f, 3, Len(f))[i] = f[3 + i - 1]
    BY <1>1, <1>2, <2>1, SubSeqProperties
  <2>3. \A i \in 1..n : f[3 + i - 1] = p[i]
    BY <1>1, <1>3
  <2> HIDE DEF n
  <2> QED
    BY <2>2, <2>3, SeqEqual DEF n
<1> QED
  BY <1>1, <1>2, <1>4, <1>5 DEF IsFrame, f

(* Reading the head of a frame tells how long it is: whoever has read as   *)
(* much as the head says has read one frame, no more and no less.          *)
LEMMA ReadsOneFrame ==
  ASSUME NEW a \in Seq(Int), NEW b \in Seq(Int), NEW g \in Seq(Int), NEW rest \in Seq(Int),
         IsFrame(a), Complete(g), g \o rest = a \o b
  PROVE  g = a /\ rest = b
<1>1. Len(g) \in Nat /\ Len(rest) \in Nat /\ Len(a) \in Nat /\ Len(b) \in Nat
  BY LenProperties
<1>2. Len(g) >= 2 /\ Len(a) >= 2 /\ Len(a) = 2 + a[2]
  BY DEF Complete, IsFrame
<1>3. \A i \in 1..(Len(g) + Len(rest)) : (g \o rest)[i] = IF i <= Len(g) THEN g[i] ELSE rest[i - Len(g)]
  BY ConcatProperties
<1>4. \A i \in 1..(Len(a) + Len(b)) : (a \o b)[i] = IF i <= Len(a) THEN a[i] ELSE b[i - Len(a)]
  BY ConcatProperties
<1>5. g[2] = a[2]
  BY <1>1, <1>2, <1>3, <1>4
<1>6. Len(g) = Len(a)
  <2>1. g[2] \in Int
    BY <1>1, <1>2, ElementOfSeq
  <2> QED
    BY <1>1, <1>2, <1>5, <2>1 DEF Complete, Missing
<1>7. \A i \in 1..Len(g) : g[i] = a[i]
  BY <1>1, <1>3, <1>4, <1>6
<1>8. g = a
  BY <1>6, <1>7, SeqEqual
<1> QED
  BY <1>8, ConcatSimplifications

(* Where nothing is due, nothing has been read.                            *)
LEMMA ReadsNothing ==
  ASSUME NEW g \in Seq(Int), NEW rest \in Seq(Int), g \o rest = <<>>
  PROVE  g = <<>> /\ rest = <<>> /\ ~Complete(g)
<1>1. g = <<>> /\ rest = <<>>
  BY ConcatSimplifications
<1> QED
  BY <1>1 DEF Complete

(* A whole frame that has arrived, with nothing after it, is complete.     *)
LEMMA WholeIsComplete ==
  ASSUME NEW a \in Seq(Int), NEW b \in Seq(Int), NEW g \in Seq(Int),
         IsFrame(a), Len(g) <= Len(a), g = a \o b
  PROVE  Complete(g)
<1>1. Len(a) \in Nat /\ Len(b) \in Nat /\ Len(a \o b) = Len(a) + Len(b)
  BY LenProperties, ConcatProperties
<1>2. b = <<>>
  BY <1>1, EmptySeq
<1>3. g = a
  BY <1>2, ConcatEmptySeq
<1>4. a[2] \in Int
  BY <1>1, ElementOfSeq DEF IsFrame
<1> QED
  BY <1>1, <1>3, <1>4 DEF IsFrame, Complete, Missing

-----------------------------------------------------------------------------
(* The inductive invariant.                                                *)

(* Init's progress: before READY, between READY and STARTED, and after.    *)
Early == {"off", "exec", "config"}

Announced == {"ready", "awaitGo", "setup", "block", "spawn"}

Supervising == {"started", "reap", "poll", "drain", "list", "grace", "killRest", "reapLast"}

READY == Frame(TAG_READY, <<>>)

STARTED == Frame(TAG_STARTED, <<>>)

ERROR == Frame(TAG_ERROR, ErrorText)

EXIT == Frame(TAG_EXIT, ExitPayload(wlExit))

(* What the supervisor may still get to read.                              *)
ToSup == got["sup"] \o (stream["sup"] \o out["init"])

(* Where supervisor and init can be together, and what is recorded there.  *)
Control ==
  /\ supPc \in Launching \cup {"unwind", "failed"} => status = "Created"
  /\ supPc \in {"wait", "reap"} => status = "Running"
  /\ supPc = "recorded" => status = "Stopped"
  /\ supPc = "dead" => status # "Stopped"
  /\ supPc \in Launching => fromInit = None
  /\ supPc = "clone" => initPc = "off"
  /\ supPc \notin {"clone", "failed", "dead"} => initPc # "off"
  /\ initPc = "reaped" => supPc \in {"failed", "recorded"}
  /\ supPc \in {"clone", "drop", "ready", "network"} => ~netReady

(* GO follows the network, and init goes on only after GO.                 *)
GoFollowsNetwork ==
  /\ got["init"] # <<>> \/ stream["init"] # <<>> \/ out["sup"] # <<>> => netReady
  /\ initPc \in {"setup", "block", "spawn", "sendExit"} \cup Supervising => netReady

(* Init writes one frame at a time.                                        *)
OneFrame == initPc \notin {"ready", "started", "failing", "sendExit"} => out["init"] = <<>>

(* The workload exists from the fork on, and then init's signals are       *)
(* blocked; when init is through with supervising, it has been reaped.     *)
Children ==
  /\ initPc \in Early \cup Announced => wl = "no"
  /\ initPc \in Supervising \cup {"sendExit"} => wl # "no"
  /\ initPc \in {"poll", "drain"} => wl # "reaped"
  /\ initPc \in {"list", "grace", "killRest", "reapLast", "sendExit"} => wl = "reaped"
  /\ initPc = "spawn" \/ wl # "no" => blocked
  /\ wl \in {"zombie", "reaped"} => wlExit \in ExitStatus

(* What the supervisor has not read yet is the frames a and b, by how far  *)
(* both sides have come: before READY has been read, ...                   *)
DueBeforeReady(a, b) ==
  \/ initPc \in Early /\ a = <<>> /\ b = <<>>
  \/ initPc \in Announced /\ a = READY /\ b = <<>>
  \/ initPc \in {"failing", "dead"} /\ ((a = ERROR /\ b = <<>>) \/ (a = READY /\ b = ERROR))
  \/ /\ initPc = "dead" /\ b = <<>>
     /\ (initExit = Killed /\ a \in {<<>>, READY}) \/ (initExit = Exited(127) /\ a = <<>>)

(* ... before STARTED has been read, ...                                   *)
DueBeforeStarted(a, b) ==
  \/ initPc \in Announced /\ a = <<>> /\ b = <<>>
  \/ initPc \in Supervising /\ a = STARTED /\ b = <<>>
  \/ initPc \in {"sendExit", "dead"} /\ a = STARTED /\ wl = "reaped" /\ b = EXIT
  \/ initPc \in {"failing", "dead"} /\ a = ERROR /\ b = <<>>
  \/ initPc = "dead" /\ initExit = Killed /\ b = <<>> /\ (a = <<>> \/ (a = STARTED /\ wl # "no"))

(* ... and afterwards, when only an exit is to come.                       *)
DueAfterStarted(a, b) ==
  /\ wl # "no" /\ b = <<>>
  /\ \/ initPc \in Supervising /\ a = <<>> /\ fromInit = None
     \/ initPc \in {"sendExit", "dead"} /\ wl = "reaped" /\ a = EXIT /\ fromInit = None
     \/ initPc \in {"sendExit", "dead"} /\ wl = "reaped" /\ a = <<>> /\ fromInit = wlExit
     \/ initPc = "dead" /\ initExit = Killed /\ a = <<>> /\ fromInit = None
  /\ supPc = "reap" => /\ initPc = "dead" /\ wl # "alive"
                       /\ initExit = Killed \/ (wl = "reaped" /\ fromInit = wlExit)

Due(a, b) ==
  /\ supPc \in {"clone", "drop", "ready"} => DueBeforeReady(a, b)
  /\ supPc \in {"network", "go", "started"} => DueBeforeStarted(a, b)
  /\ supPc \in {"save", "wait", "reap"} => DueAfterStarted(a, b)

(* The frames a and b are on their way, except for what was lost with an   *)
(* init that was killed; what has been read belongs to the first of them.  *)
Carries(a, b, lost) ==
  /\ a \o b = ToSup \o lost
  /\ (initPc = "dead" /\ initExit = Killed) \/ lost = <<>>
  /\ Len(got["sup"]) <= Len(a)

Flow ==
  SupOpen => \E a, b, lost \in Seq(Int) : Carries(a, b, lost) /\ Due(a, b)

(* A launch that fails for want of a word from init finds init dead, and a *)
(* signal to a running container finds init ready for it.                  *)
Explained == supErr \in {"eof", "unexpected"} =>
               initPc \in {"dead", "reaped"} /\ initExit \in {Killed, Exited(127)}

IInv == TypeOK /\ Control /\ GoFollowsNetwork /\ OneFrame /\ Children /\ Flow

-----------------------------------------------------------------------------
LEMMA StatusType ==
  /\ \A e \in ExitStatus : e # None /\ exit_code(e) \in Nat
  /\ Killed \in ExitStatus /\ \A c \in Int : Exited(c) # Killed
  /\ \A e \in ExitStatus : ExitPayload(e) \in Seq(Int) /\ parse_exit(ExitPayload(e)) = e
<1>1. ASSUME NEW e \in ExitStatus
      PROVE  /\ e # None /\ exit_code(e) \in Nat
             /\ ExitPayload(e) \in Seq(Int) /\ parse_exit(ExitPayload(e)) = e
  <2>1. e # None
    BY NoneIsNoValue
  <2>2. CASE e = Killed
    <3>1. ExitPayload(e) = <<-1, 9>>
      BY <2>2, HandshakeAssumption DEF ExitPayload, Killed
    <3>2. parse_exit(<<-1, 9>>) = [code |-> None, signal |-> 9]
      BY DEF parse_exit
    <3>3. exit_code(e) = 128 + 9
      BY <2>2, HandshakeAssumption DEF exit_code, Killed
    <3>4. <<-1, 9>> \in Seq(Int)
      OBVIOUS
    <3>5. parse_exit(ExitPayload(e)) = e
      BY <2>2, <3>1, <3>2 DEF Killed
    <3> QED
      BY <2>1, <3>1, <3>3, <3>4, <3>5
  <2>3. ASSUME NEW c \in Codes, e = Exited(c) PROVE
             /\ exit_code(e) \in Nat
             /\ ExitPayload(e) \in Seq(Int) /\ parse_exit(ExitPayload(e)) = e
    <3>0. c \in Nat /\ c # None
      BY HandshakeAssumption
    <3>1. ExitPayload(e) = <<c, 0>>
      BY <2>3, <3>0, HandshakeAssumption DEF ExitPayload, Exited
    <3>2. parse_exit(<<c, 0>>) = [code |-> c, signal |-> None]
      BY <3>0 DEF parse_exit
    <3>3. exit_code(e) = c
      BY <2>3, <3>0 DEF exit_code, Exited
    <3>4. <<c, 0>> \in Seq(Int)
      BY <3>0
    <3>5. parse_exit(ExitPayload(e)) = e
      BY <2>3, <3>1, <3>2 DEF Exited
    <3> QED
      BY <3>0, <3>1, <3>3, <3>4, <3>5
  <2> QED
    BY <2>1, <2>2, <2>3 DEF ExitStatus
<1>2. \A c \in Int : Exited(c) # Killed
  BY HandshakeAssumption DEF Exited, Killed
<1> QED
  BY <1>1, <1>2 DEF ExitStatus

LEMMA FramesAreFrames ==
  /\ IsFrame(READY) /\ READY[1] = TAG_READY
  /\ IsFrame(STARTED) /\ STARTED[1] = TAG_STARTED
  /\ IsFrame(ERROR) /\ ERROR[1] = TAG_ERROR
  /\ wlExit \in ExitStatus =>
       /\ IsFrame(EXIT) /\ EXIT[1] = TAG_EXIT
       /\ parse_exit(SubSeq(EXIT, 3, Len(EXIT))) = wlExit
<1>1. <<>> \in Seq(Int)
  BY EmptySeq
<1>2. ErrorText \in Seq(Int)
  <2>1. (IF Message < MaxPayload THEN Message ELSE MaxPayload) \in Nat
    BY HandshakeAssumption
  <2> QED
    BY <2>1 DEF ErrorText
<1>3. {TAG_READY, TAG_STARTED, TAG_ERROR, TAG_EXIT} \subseteq Int
  BY DEF TAG_READY, TAG_STARTED, TAG_ERROR, TAG_EXIT
<1>4. ASSUME wlExit \in ExitStatus
      PROVE  /\ IsFrame(EXIT) /\ EXIT[1] = TAG_EXIT
             /\ parse_exit(SubSeq(EXIT, 3, Len(EXIT))) = wlExit
  BY <1>3, <1>4, StatusType, FrameIsFrame DEF EXIT
<1> QED
  BY <1>1, <1>2, <1>3, <1>4, FrameIsFrame DEF READY, STARTED, ERROR

-----------------------------------------------------------------------------
(* The channel: reading and writing move units along, and change nothing   *)
(* of what is due.                                                         *)

LEMMA ChanType ==
  ASSUME TypeOK
  PROVE  /\ got["sup"] \in Seq(Int) /\ stream["sup"] \in Seq(Int) /\ out["init"] \in Seq(Int)
         /\ got["init"] \in Seq(Int) /\ stream["init"] \in Seq(Int) /\ out["sup"] \in Seq(Int)
  BY DEF TypeOK, Side

LEMMA WriteSteps ==
  ASSUME TypeOK, NEW x \in Side, write_all(x)
  PROVE  /\ got' = got
         /\ stream' \in [Side -> Seq(Int)] /\ out' \in [Side -> Seq(Int)]
         /\ \A y \in Side \ {x} : out'[y] = out[y] /\ stream'[Other(y)] = stream[Other(y)]
         /\ stream'[Other(x)] \o out'[x] = stream[Other(x)] \o out[x]
         /\ out[x] # <<>>
<1> DEFINE y == Other(x)
<1>0. y \in Side /\ y # x /\ Other(y) = x /\ Side = {x, y}
  BY DEF Side, Other
<1>1. out[x] \in Seq(Int) /\ stream[y] \in Seq(Int) /\ stream \in [Side -> Seq(Int)] /\ out \in [Side -> Seq(Int)]
  BY <1>0 DEF TypeOK
<1>2. PICK k \in 1..Len(out[x]) :
        /\ stream' = [stream EXCEPT ![y] = @ \o SubSeq(out[x], 1, k)]
        /\ out' = [out EXCEPT ![x] = SubSeq(@, k + 1, Len(@))]
  BY DEF write_all
<1> DEFINE u == SubSeq(out[x], 1, k)
           v == SubSeq(out[x], k + 1, Len(out[x]))
<1>3. u \in Seq(Int) /\ v \in Seq(Int) /\ u \o v = out[x]
  BY <1>1, Cut
<1>4. stream' = [stream EXCEPT ![y] = stream[y] \o u] /\ out' = [out EXCEPT ![x] = v]
  BY <1>2
<1> HIDE DEF u, v, y
<1>5. stream[y] \o u \in Seq(Int)
  BY <1>1, <1>3, ConcatProperties
<1>6. stream' \in [Side -> Seq(Int)] /\ out' \in [Side -> Seq(Int)]
  BY <1>0, <1>1, <1>3, <1>4, <1>5
<1>7. stream'[y] = stream[y] \o u /\ out'[x] = v /\ out'[y] = out[y] /\ stream'[x] = stream[x]
  BY <1>0, <1>1, <1>4
<1>8. (stream[y] \o u) \o v = stream[y] \o out[x]
  <2>1. (stream[y] \o u) \o v = stream[y] \o (u \o v)
    BY <1>1, <1>3, Assoc, Zenon
  <2> QED
    BY <1>3, <2>1, Zenon
<1>9. got' = got /\ out[x] # <<>>
  BY DEF write_all
<1> QED
  BY <1>0, <1>6, <1>7, <1>8, <1>9 DEF y

LEMMA ReadSteps ==
  ASSUME TypeOK, NEW x \in Side, read_exact(x)
  PROVE  /\ out' = out
         /\ stream' \in [Side -> Seq(Int)] /\ got' \in [Side -> Seq(Int)]
         /\ \A y \in Side \ {x} : got'[y] = got[y] /\ stream'[y] = stream[y]
         /\ got'[x] \o stream'[x] = got[x] \o stream[x]
         /\ Len(got'[x]) <= Len(got[x]) + Missing(got[x])
         /\ stream[x] # <<>>
<1>1. got[x] \in Seq(Int) /\ stream[x] \in Seq(Int) /\ stream \in [Side -> Seq(Int)] /\ got \in [Side -> Seq(Int)]
  BY DEF TypeOK
<1>2. PICK k \in 1..Len(stream[x]) :
        /\ k <= Missing(got[x])
        /\ got' = [got EXCEPT ![x] = @ \o SubSeq(stream[x], 1, k)]
        /\ stream' = [stream EXCEPT ![x] = SubSeq(@, k + 1, Len(@))]
  BY DEF read_exact
<1> DEFINE u == SubSeq(stream[x], 1, k)
           v == SubSeq(stream[x], k + 1, Len(stream[x]))
<1>3. u \in Seq(Int) /\ v \in Seq(Int) /\ u \o v = stream[x] /\ Len(u) = k
  BY <1>1, Cut
<1>4. got' = [got EXCEPT ![x] = got[x] \o u] /\ stream' = [stream EXCEPT ![x] = v]
  BY <1>2
<1> HIDE DEF u, v
<1>5. got[x] \o u \in Seq(Int) /\ Len(got[x] \o u) = Len(got[x]) + k
  BY <1>1, <1>3, ConcatProperties
<1>6. stream' \in [Side -> Seq(Int)] /\ got' \in [Side -> Seq(Int)]
  BY <1>1, <1>3, <1>4, <1>5
<1>7. /\ got'[x] = got[x] \o u /\ stream'[x] = v
      /\ \A y \in Side \ {x} : got'[y] = got[y] /\ stream'[y] = stream[y]
  BY <1>1, <1>4
<1>8. (got[x] \o u) \o v = got[x] \o stream[x]
  <2>1. (got[x] \o u) \o v = got[x] \o (u \o v)
    BY <1>1, <1>3, Assoc, Zenon
  <2> QED
    BY <1>3, <2>1, Zenon
<1>9. Len(got'[x]) <= Len(got[x]) + Missing(got[x])
  <2>1. Len(got[x]) \in Nat /\ k \in Nat /\ Missing(got[x]) \in Int
    <3>1. Len(got[x]) \in Nat /\ Len(stream[x]) \in Nat
      BY <1>1, LenProperties
    <3>2. Len(got[x]) >= 2 => got[x][2] \in Int
      BY <1>1, <3>1, ElementOfSeq
    <3>3. k \in Nat
      BY <3>1
    <3> QED
      BY <3>1, <3>2, <3>3 DEF Missing
  <2> QED
    BY <1>2, <1>5, <1>7, <2>1
<1>10. out' = out /\ stream[x] # <<>>
  BY DEF read_exact
<1> QED
  BY <1>6, <1>7, <1>8, <1>9, <1>10

(* A complete frame that the supervisor has read is the first one due.     *)
LEMMA Consume ==
  ASSUME TypeOK, NEW a \in Seq(Int), NEW b \in Seq(Int), NEW lost \in Seq(Int),
         Carries(a, b, lost), (a = <<>> /\ b = <<>>) \/ IsFrame(a), Complete(got["sup"])
  PROVE  got["sup"] = a /\ IsFrame(a) /\ b = (stream["sup"] \o out["init"]) \o lost
<1> DEFINE g == got["sup"]
           r == stream["sup"] \o out["init"]
<1>1. g \in Seq(Int) /\ r \in Seq(Int) /\ r \o lost \in Seq(Int)
  BY ChanType, ConcatProperties
<1>2. a \o b = g \o (r \o lost)
  <2>1. a \o b = (g \o r) \o lost
    BY DEF Carries, ToSup
  <2> HIDE DEF g, r
  <2> QED
    BY <1>1, <2>1, Assoc
<1> HIDE DEF g, r
<1>3. ~(a = <<>> /\ b = <<>>)
  <2> SUFFICES ASSUME a = <<>>, b = <<>> PROVE FALSE
    OBVIOUS
  <2>1. g \o (r \o lost) = <<>>
    BY <1>2, EmptySeq, ConcatEmptySeq
  <2> QED
    BY <1>1, <2>1, ReadsNothing DEF g
<1>4. g = a /\ r \o lost = b
  BY <1>1, <1>2, <1>3, ReadsOneFrame DEF g
<1> QED
  BY <1>3, <1>4 DEF g, r

(* An end of file finds nothing due, unless init was killed.               *)
LEMMA AtEof ==
  ASSUME TypeOK, NEW a \in Seq(Int), NEW b \in Seq(Int),
         Carries(a, b, <<>>), (a = <<>> /\ b = <<>>) \/ IsFrame(a),
         stream["sup"] = <<>>, out["init"] = <<>>, ~Complete(got["sup"])
  PROVE  a = <<>>
<1>1. got["sup"] \in Seq(Int) /\ <<>> \in Seq(Int)
  BY ChanType, EmptySeq
<1>2. a \o b = got["sup"]
  BY <1>1, ConcatEmptySeq DEF Carries, ToSup
<1>3. Len(got["sup"]) <= Len(a)
  BY DEF Carries
<1> QED
  BY <1>1, <1>2, <1>3, WholeIsComplete

(* The frames that can be due are frames.                                  *)
LEMMA DueAreFrames ==
  ASSUME Children, SupOpen, NEW a, NEW b, Due(a, b)
  PROVE  (a = <<>> /\ b = <<>>) \/ IsFrame(a)
  BY FramesAreFrames DEF Children, SupOpen, Launching, Due, DueBeforeReady, DueBeforeStarted, DueAfterStarted

(* A step that leaves what is due and what has been read as they are.      *)
LEMMA FlowStays ==
  ASSUME Flow, SupOpen' => SupOpen, ToSup' = ToSup, got'["sup"] = got["sup"],
         initPc = "dead" /\ initExit = Killed => initPc' = "dead" /\ initExit' = Killed,
         \A a, b \in Seq(Int) : Due(a, b) => Due(a, b)'
  PROVE  Flow'
<1> SUFFICES ASSUME SupOpen' PROVE Flow'
  BY DEF Flow
<1>1. PICK a, b, lost \in Seq(Int) : Carries(a, b, lost) /\ Due(a, b)
  BY DEF Flow
<1>2. Carries(a, b, lost)' /\ Due(a, b)'
  BY <1>1 DEF Carries
<1> QED
  BY <1>2 DEF Flow

(* A step that closes the supervisor's end.                                *)
LEMMA FlowEnds ==
  ASSUME ~SupOpen'
  PROVE  Flow'
  BY DEF Flow

LEMMA NextControl == IInv /\ [Next]_vars => Control'
<1> SUFFICES ASSUME TypeOK, Control, GoFollowsNetwork, Flow, [Next]_vars PROVE Control'
  BY DEF IInv
<1> USE DEF Control, Launching, Early, Announced, Supervising, SupOpen, InitAlive,
            SupMoves, FailLaunch, InitMoves, InitSends, InitFails, send_exit, Ends, expect, Recorded,
            chanVars, supVars, initVars, procVars, sigVars
<1>1. CASE SupWrite
  BY <1>1 DEF SupWrite
<1>2. CASE SupRead
  BY <1>2 DEF SupRead
<1>3. CASE Clone
  BY <1>3 DEF Clone
<1>4. CASE DropChildEnd
  BY <1>4 DEF DropChildEnd
<1>5. CASE AwaitReady
  BY <1>5 DEF AwaitReady, expect, recv
<1>6. CASE SetupHost
  BY <1>6 DEF SetupHost
<1>7. CASE Go
  BY <1>7 DEF Go
<1>8. CASE AwaitStarted
  BY <1>8 DEF AwaitStarted, expect, recv
<1>9. CASE SaveRunning
  BY <1>9 DEF SaveRunning
<1>10. CASE UnwindKill
  BY <1>10 DEF UnwindKill
<1>11. CASE UnwindReap
  BY <1>11 DEF UnwindReap
<1>12. CASE AwaitExit
  BY <1>12 DEF AwaitExit
<1>13. CASE RecordExit
  BY <1>13 DEF RecordExit, Recorded
<1>14. CASE SupCrash
  BY <1>14 DEF SupCrash
<1>15. CASE InitWrite
  BY <1>15 DEF InitWrite
<1>16. CASE InitRead
  BY <1>16 DEF InitRead
<1>17. CASE ExecInit
  BY <1>17 DEF ExecInit
<1>18. CASE ReadConfig
  BY <1>18 DEF ReadConfig
<1>19. CASE ReadySent
  BY <1>19 DEF ReadySent
<1>20. CASE AwaitGo
  BY <1>20 DEF AwaitGo, recv
<1>21. CASE Setup
  BY <1>21 DEF Setup
<1>22. CASE BlockSignals
  BY <1>22 DEF BlockSignals
<1>23. CASE spawn_workload
  BY <1>23 DEF spawn_workload
<1>24. CASE StartedSent
  BY <1>24 DEF StartedSent
<1>25. CASE ReapOne
  BY <1>25 DEF ReapOne, Zombies
<1>26. CASE SuperviseReaped
  BY <1>26 DEF SuperviseReaped
<1>27. CASE Poll
  BY <1>27 DEF Poll
<1>28. CASE Drained
  BY <1>28 DEF Drained
<1>29. CASE ListRemaining
  BY <1>29 DEF ListRemaining, send_exit, Listed
<1>30. CASE GraceOver
  BY <1>30 DEF GraceOver, send_exit
<1>31. CASE KillRest
  BY <1>31 DEF KillRest
<1>32. CASE ReapedLast
  BY <1>32 DEF ReapedLast, send_exit
<1>33. CASE InitExits
  BY <1>33 DEF InitExits
<1>34. CASE InitKilled
  BY <1>34 DEF InitKilled
<1>35. ASSUME NEW e \in ExitStatus, WorkloadExits(e) PROVE Control'
  BY <1>35 DEF WorkloadExits
<1>36. ASSUME NEW o \in Orphan, OrphanStarts(o) PROVE Control'
  BY <1>36 DEF OrphanStarts
<1>37. ASSUME NEW o \in Orphan, OrphanExits(o) PROVE Control'
  BY <1>37 DEF OrphanExits
<1>38. ASSUME NEW g \in Signals, Forward(g) PROVE Control'
  BY <1>38 DEF Forward, ForwardAndKeep
<1>39. ASSUME NEW g \in Signals, SignalInit(g) PROVE Control'
  BY <1>39 DEF SignalInit
<1>40. CASE UNCHANGED vars
  BY <1>40 DEF vars
<1> QED
  BY <1>1, <1>2, <1>3, <1>4, <1>5, <1>6, <1>7, <1>8, <1>9, <1>10, <1>11, <1>12, <1>13, <1>14, <1>15, <1>16, <1>17, <1>18, <1>19, <1>20, <1>21, <1>22, <1>23, <1>24, <1>25, <1>26, <1>27, <1>28, <1>29, <1>30, <1>31, <1>32, <1>33, <1>34, <1>35, <1>36, <1>37, <1>38, <1>39, <1>40 DEF Next, SupStep, InitStep

LEMMA NextGo == IInv /\ [Next]_vars => GoFollowsNetwork'
<1> SUFFICES ASSUME TypeOK, Control, GoFollowsNetwork, [Next]_vars PROVE GoFollowsNetwork'
  BY DEF IInv
<1> USE DEF GoFollowsNetwork, Supervising, send,
            SupMoves, FailLaunch, InitMoves, InitSends, InitFails, send_exit, Ends, expect, recv, Recorded,
            chanVars, supVars, initVars, procVars, sigVars
<1>0. stream \in [Side -> Seq(Int)] /\ got \in [Side -> Seq(Int)] /\ out \in [Side -> Seq(Int)] /\ Side = {"sup", "init"}
  BY DEF TypeOK, Side
<1>1. CASE SupWrite
  BY <1>1, <1>0, WriteSteps DEF SupWrite, Other
<1>2. CASE SupRead
  BY <1>2, <1>0, ReadSteps DEF SupRead
<1>3. CASE Clone
  BY <1>3, <1>0 DEF Clone
<1>4. CASE DropChildEnd
  BY <1>4, <1>0 DEF DropChildEnd
<1>5. CASE AwaitReady
  BY <1>5, <1>0 DEF AwaitReady, expect, recv
<1>6. CASE SetupHost
  BY <1>6, <1>0 DEF SetupHost
<1>7. CASE Go
  BY <1>7, <1>0 DEF Go
<1>8. CASE AwaitStarted
  BY <1>8, <1>0 DEF AwaitStarted, expect, recv
<1>9. CASE SaveRunning
  BY <1>9, <1>0 DEF SaveRunning
<1>10. CASE UnwindKill
  BY <1>10, <1>0 DEF UnwindKill
<1>11. CASE UnwindReap
  BY <1>11, <1>0 DEF UnwindReap
<1>12. CASE AwaitExit
  BY <1>12, <1>0 DEF AwaitExit
<1>13. CASE RecordExit
  BY <1>13, <1>0 DEF RecordExit, Recorded
<1>14. CASE SupCrash
  BY <1>14, <1>0 DEF SupCrash
<1>15. CASE InitWrite
  BY <1>15, <1>0, WriteSteps DEF InitWrite, Other
<1>16. CASE InitRead
  BY <1>16, <1>0, ReadSteps DEF InitRead
<1>17. CASE ExecInit
  BY <1>17, <1>0 DEF ExecInit
<1>18. CASE ReadConfig
  BY <1>18, <1>0 DEF ReadConfig
<1>19. CASE ReadySent
  BY <1>19, <1>0 DEF ReadySent
<1>20. CASE AwaitGo
  BY <1>20, <1>0 DEF AwaitGo, Complete
<1>21. CASE Setup
  BY <1>21, <1>0 DEF Setup
<1>22. CASE BlockSignals
  BY <1>22, <1>0 DEF BlockSignals
<1>23. CASE spawn_workload
  BY <1>23, <1>0 DEF spawn_workload
<1>24. CASE StartedSent
  BY <1>24, <1>0 DEF StartedSent
<1>25. CASE ReapOne
  BY <1>25, <1>0 DEF ReapOne, Zombies
<1>26. CASE SuperviseReaped
  BY <1>26, <1>0 DEF SuperviseReaped
<1>27. CASE Poll
  BY <1>27, <1>0 DEF Poll
<1>28. CASE Drained
  BY <1>28, <1>0 DEF Drained
<1>29. CASE ListRemaining
  BY <1>29, <1>0 DEF ListRemaining, send_exit, Listed
<1>30. CASE GraceOver
  BY <1>30, <1>0 DEF GraceOver, send_exit
<1>31. CASE KillRest
  BY <1>31, <1>0 DEF KillRest
<1>32. CASE ReapedLast
  BY <1>32, <1>0 DEF ReapedLast, send_exit
<1>33. CASE InitExits
  BY <1>33, <1>0 DEF InitExits
<1>34. CASE InitKilled
  BY <1>34, <1>0 DEF InitKilled
<1>35. ASSUME NEW e \in ExitStatus, WorkloadExits(e) PROVE GoFollowsNetwork'
  BY <1>35, <1>0 DEF WorkloadExits
<1>36. ASSUME NEW o \in Orphan, OrphanStarts(o) PROVE GoFollowsNetwork'
  BY <1>36, <1>0 DEF OrphanStarts
<1>37. ASSUME NEW o \in Orphan, OrphanExits(o) PROVE GoFollowsNetwork'
  BY <1>37, <1>0 DEF OrphanExits
<1>38. ASSUME NEW g \in Signals, Forward(g) PROVE GoFollowsNetwork'
  BY <1>38, <1>0 DEF Forward, ForwardAndKeep
<1>39. ASSUME NEW g \in Signals, SignalInit(g) PROVE GoFollowsNetwork'
  BY <1>39, <1>0 DEF SignalInit
<1>40. CASE UNCHANGED vars
  BY <1>40 DEF vars
<1> QED
  BY <1>1, <1>2, <1>3, <1>4, <1>5, <1>6, <1>7, <1>8, <1>9, <1>10, <1>11, <1>12, <1>13, <1>14, <1>15, <1>16, <1>17, <1>18, <1>19, <1>20, <1>21, <1>22, <1>23, <1>24, <1>25, <1>26, <1>27, <1>28, <1>29, <1>30, <1>31, <1>32, <1>33, <1>34, <1>35, <1>36, <1>37, <1>38, <1>39, <1>40 DEF Next, SupStep, InitStep

LEMMA NextOneFrame == IInv /\ [Next]_vars => OneFrame'
<1> SUFFICES ASSUME TypeOK, Control, OneFrame, [Next]_vars PROVE OneFrame'
  BY DEF IInv
<1> USE DEF OneFrame, send,
            SupMoves, FailLaunch, InitMoves, InitSends, InitFails, send_exit, Ends, expect, recv, Recorded,
            chanVars, supVars, initVars, procVars, sigVars
<1>0. stream \in [Side -> Seq(Int)] /\ out \in [Side -> Seq(Int)] /\ Side = {"sup", "init"}
  BY DEF TypeOK, Side
<1>1. CASE SupWrite
  BY <1>1, <1>0, WriteSteps DEF SupWrite, Other
<1>2. CASE SupRead
  BY <1>2, <1>0, ReadSteps DEF SupRead
<1>3. CASE Clone
  BY <1>3, <1>0 DEF Clone, Control
<1>4. CASE DropChildEnd
  BY <1>4, <1>0 DEF DropChildEnd
<1>5. CASE AwaitReady
  BY <1>5, <1>0 DEF AwaitReady, expect, recv
<1>6. CASE SetupHost
  BY <1>6, <1>0 DEF SetupHost
<1>7. CASE Go
  BY <1>7, <1>0 DEF Go
<1>8. CASE AwaitStarted
  BY <1>8, <1>0 DEF AwaitStarted, expect, recv
<1>9. CASE SaveRunning
  BY <1>9, <1>0 DEF SaveRunning
<1>10. CASE UnwindKill
  BY <1>10, <1>0 DEF UnwindKill
<1>11. CASE UnwindReap
  BY <1>11, <1>0 DEF UnwindReap
<1>12. CASE AwaitExit
  BY <1>12, <1>0 DEF AwaitExit
<1>13. CASE RecordExit
  BY <1>13, <1>0 DEF RecordExit, Recorded
<1>14. CASE SupCrash
  BY <1>14, <1>0 DEF SupCrash
<1>15. CASE InitWrite
  BY <1>15, <1>0, WriteSteps DEF InitWrite, Other
<1>16. CASE InitRead
  BY <1>16, <1>0, ReadSteps DEF InitRead
<1>17. CASE ExecInit
  BY <1>17, <1>0 DEF ExecInit
<1>18. CASE ReadConfig
  BY <1>18, <1>0 DEF ReadConfig
<1>19. CASE ReadySent
  BY <1>19, <1>0 DEF ReadySent
<1>20. CASE AwaitGo
  BY <1>20, <1>0 DEF AwaitGo, recv
<1>21. CASE Setup
  BY <1>21, <1>0 DEF Setup
<1>22. CASE BlockSignals
  BY <1>22, <1>0 DEF BlockSignals
<1>23. CASE spawn_workload
  BY <1>23, <1>0 DEF spawn_workload
<1>24. CASE StartedSent
  BY <1>24, <1>0 DEF StartedSent
<1>25. CASE ReapOne
  BY <1>25, <1>0 DEF ReapOne, Zombies
<1>26. CASE SuperviseReaped
  BY <1>26, <1>0 DEF SuperviseReaped
<1>27. CASE Poll
  BY <1>27, <1>0 DEF Poll
<1>28. CASE Drained
  BY <1>28, <1>0 DEF Drained
<1>29. CASE ListRemaining
  BY <1>29, <1>0 DEF ListRemaining, send_exit, Listed
<1>30. CASE GraceOver
  BY <1>30, <1>0 DEF GraceOver, send_exit
<1>31. CASE KillRest
  BY <1>31, <1>0 DEF KillRest
<1>32. CASE ReapedLast
  BY <1>32, <1>0 DEF ReapedLast, send_exit
<1>33. CASE InitExits
  BY <1>33, <1>0 DEF InitExits
<1>34. CASE InitKilled
  BY <1>34, <1>0 DEF InitKilled
<1>35. ASSUME NEW e \in ExitStatus, WorkloadExits(e) PROVE OneFrame'
  BY <1>35, <1>0 DEF WorkloadExits
<1>36. ASSUME NEW o \in Orphan, OrphanStarts(o) PROVE OneFrame'
  BY <1>36, <1>0 DEF OrphanStarts
<1>37. ASSUME NEW o \in Orphan, OrphanExits(o) PROVE OneFrame'
  BY <1>37, <1>0 DEF OrphanExits
<1>38. ASSUME NEW g \in Signals, Forward(g) PROVE OneFrame'
  BY <1>38, <1>0 DEF Forward, ForwardAndKeep
<1>39. ASSUME NEW g \in Signals, SignalInit(g) PROVE OneFrame'
  BY <1>39, <1>0 DEF SignalInit
<1>40. CASE UNCHANGED vars
  BY <1>40 DEF vars
<1> QED
  BY <1>1, <1>2, <1>3, <1>4, <1>5, <1>6, <1>7, <1>8, <1>9, <1>10, <1>11, <1>12, <1>13, <1>14, <1>15, <1>16, <1>17, <1>18, <1>19, <1>20, <1>21, <1>22, <1>23, <1>24, <1>25, <1>26, <1>27, <1>28, <1>29, <1>30, <1>31, <1>32, <1>33, <1>34, <1>35, <1>36, <1>37, <1>38, <1>39, <1>40 DEF Next, SupStep, InitStep

LEMMA NextChildren == IInv /\ [Next]_vars => Children'
<1> SUFFICES ASSUME TypeOK, Control, Children, [Next]_vars PROVE Children'
  BY DEF IInv
<1> USE StatusType DEF Children, Early, Announced, Supervising, InitAlive, TypeOK,
            SupMoves, FailLaunch, InitMoves, InitSends, InitFails, send_exit, Ends, expect, recv, Recorded,
            chanVars, supVars, initVars, procVars, sigVars
<1>1. CASE SupWrite
  BY <1>1 DEF SupWrite
<1>2. CASE SupRead
  BY <1>2 DEF SupRead
<1>3. CASE Clone
  BY <1>3 DEF Clone, Control
<1>4. CASE DropChildEnd
  BY <1>4 DEF DropChildEnd
<1>5. CASE AwaitReady
  BY <1>5 DEF AwaitReady, expect, recv
<1>6. CASE SetupHost
  BY <1>6 DEF SetupHost
<1>7. CASE Go
  BY <1>7 DEF Go
<1>8. CASE AwaitStarted
  BY <1>8 DEF AwaitStarted, expect, recv
<1>9. CASE SaveRunning
  BY <1>9 DEF SaveRunning
<1>10. CASE UnwindKill
  BY <1>10 DEF UnwindKill
<1>11. CASE UnwindReap
  BY <1>11 DEF UnwindReap
<1>12. CASE AwaitExit
  BY <1>12 DEF AwaitExit
<1>13. CASE RecordExit
  BY <1>13 DEF RecordExit, Recorded
<1>14. CASE SupCrash
  BY <1>14 DEF SupCrash
<1>15. CASE InitWrite
  BY <1>15 DEF InitWrite
<1>16. CASE InitRead
  BY <1>16 DEF InitRead
<1>17. CASE ExecInit
  BY <1>17 DEF ExecInit
<1>18. CASE ReadConfig
  BY <1>18 DEF ReadConfig
<1>19. CASE ReadySent
  BY <1>19 DEF ReadySent
<1>20. CASE AwaitGo
  BY <1>20 DEF AwaitGo, recv
<1>21. CASE Setup
  BY <1>21 DEF Setup
<1>22. CASE BlockSignals
  BY <1>22 DEF BlockSignals
<1>23. CASE spawn_workload
  BY <1>23 DEF spawn_workload
<1>24. CASE StartedSent
  BY <1>24 DEF StartedSent
<1>25. CASE ReapOne
  BY <1>25 DEF ReapOne, Zombies
<1>26. CASE SuperviseReaped
  BY <1>26 DEF SuperviseReaped
<1>27. CASE Poll
  BY <1>27 DEF Poll
<1>28. CASE Drained
  BY <1>28 DEF Drained
<1>29. CASE ListRemaining
  BY <1>29 DEF ListRemaining, send_exit, Listed
<1>30. CASE GraceOver
  BY <1>30 DEF GraceOver, send_exit
<1>31. CASE KillRest
  BY <1>31 DEF KillRest
<1>32. CASE ReapedLast
  BY <1>32 DEF ReapedLast, send_exit
<1>33. CASE InitExits
  BY <1>33 DEF InitExits
<1>34. CASE InitKilled
  BY <1>34 DEF InitKilled
<1>35. ASSUME NEW e \in ExitStatus, WorkloadExits(e) PROVE Children'
  BY <1>35 DEF WorkloadExits
<1>36. ASSUME NEW o \in Orphan, OrphanStarts(o) PROVE Children'
  BY <1>36 DEF OrphanStarts
<1>37. ASSUME NEW o \in Orphan, OrphanExits(o) PROVE Children'
  BY <1>37 DEF OrphanExits
<1>38. ASSUME NEW g \in Signals, Forward(g) PROVE Children'
  BY <1>38 DEF Forward, ForwardAndKeep
<1>39. ASSUME NEW g \in Signals, SignalInit(g) PROVE Children'
  BY <1>39 DEF SignalInit
<1>40. CASE UNCHANGED vars
  BY <1>40 DEF vars
<1> QED
  BY <1>1, <1>2, <1>3, <1>4, <1>5, <1>6, <1>7, <1>8, <1>9, <1>10, <1>11, <1>12, <1>13, <1>14, <1>15, <1>16, <1>17, <1>18, <1>19, <1>20, <1>21, <1>22, <1>23, <1>24, <1>25, <1>26, <1>27, <1>28, <1>29, <1>30, <1>31, <1>32, <1>33, <1>34, <1>35, <1>36, <1>37, <1>38, <1>39, <1>40 DEF Next, SupStep, InitStep

-----------------------------------------------------------------------------
(* What is due, when a frame is sent, a frame is consumed, or init ends.   *)

LEMMA SendAppends ==
  ASSUME TypeOK, NEW f \in Seq(Int), NEW c, c = ToSup \o <<>>, out["init"] = <<>>,
         out' = [out EXCEPT !["init"] = f], stream' = stream, got' = got
  PROVE  c \o f = ToSup' \o <<>>
<1> DEFINE g == got["sup"]
           w == stream["sup"]
<1>1. g \in Seq(Int) /\ w \in Seq(Int)
  BY ChanType
<1>2. c = (g \o (w \o <<>>)) \o <<>>
  BY DEF ToSup
<1>3. ToSup' = g \o (w \o f)
  BY DEF ToSup, TypeOK, Side
<1> HIDE DEF g, w
<1>4. w \o <<>> = w /\ (g \o w) \o <<>> = g \o w /\ (g \o (w \o f)) \o <<>> = g \o (w \o f)
  BY <1>1, ConcatEmptySeq, ConcatProperties
<1>5. (g \o w) \o f = g \o (w \o f)
  BY <1>1, Assoc, Zenon
<1> QED
  BY <1>2, <1>3, <1>4, <1>5, Zenon

LEMMA FlowSends ==
  ASSUME TypeOK, Flow, NEW f, IsFrame(f), initPc # "dead", out["init"] = <<>>,
         out' = [out EXCEPT !["init"] = f], stream' = stream, got' = got, SupOpen' => SupOpen,
         \A a, b \in Seq(Int) : Due(a, b) =>
           \/ a = <<>> /\ b = <<>> /\ Due(f, <<>>)'
           \/ b = <<>> /\ Due(a, f)'
  PROVE  Flow'
<1> SUFFICES ASSUME SupOpen' PROVE Flow'
  BY DEF Flow
<1>1. PICK a, b, lost \in Seq(Int) : Carries(a, b, lost) /\ Due(a, b)
  BY DEF Flow
<1>2. f \in Seq(Int) /\ <<>> \in Seq(Int)
  BY EmptySeq DEF IsFrame
<1>3. lost = <<>> /\ a \o b = ToSup \o <<>> /\ Len(got["sup"]) <= Len(a)
  BY <1>1 DEF Carries
<1>4. (a \o b) \o f = ToSup' \o <<>>
  BY <1>2, <1>3, SendAppends
<1>5. CASE a = <<>> /\ b = <<>> /\ Due(f, <<>>)'
  <2>1. (a \o b) \o f = f \o <<>>
    BY <1>2, <1>5, ConcatEmptySeq
  <2>2. Len(got'["sup"]) <= Len(f)
    BY <1>2, <1>3, <1>5, EmptySeq, ChanType, LenProperties DEF IsFrame
  <2>3. Carries(f, <<>>, <<>>)'
    BY <1>4, <2>1, <2>2 DEF Carries
  <2> QED
    BY <1>2, <1>5, <2>3 DEF Flow
<1>6. CASE b = <<>> /\ Due(a, f)'
  <2>1. (a \o b) \o f = a \o f
    BY <1>6, ConcatEmptySeq
  <2>2. Carries(a, f, <<>>)'
    BY <1>3, <1>4, <2>1 DEF Carries
  <2> QED
    BY <1>2, <1>6, <2>2 DEF Flow
<1> QED
  BY <1>1, <1>5, <1>6

LEMMA FlowConsumes ==
  ASSUME TypeOK, Children, SupOpen, Flow, recv("sup"), out' = out, stream' = stream,
         initPc' = initPc, initExit' = initExit,
         \A a, b \in Seq(Int) : IsFrame(a) /\ got["sup"] = a /\ Due(a, b) => Due(b, <<>>)'
  PROVE  Flow'
<1>1. PICK a, b, lost \in Seq(Int) : Carries(a, b, lost) /\ Due(a, b)
  BY DEF Flow
<1>2. got["sup"] = a /\ IsFrame(a) /\ b = (stream["sup"] \o out["init"]) \o lost
  BY <1>1, Consume, DueAreFrames DEF recv
<1>3. got'["sup"] = <<>> /\ <<>> \in Seq(Int) /\ stream["sup"] \o out["init"] \in Seq(Int)
  BY ChanType, EmptySeq, ConcatProperties DEF recv, TypeOK, Side
<1>4. ToSup' = stream["sup"] \o out["init"]
  BY <1>3, ConcatEmptySeq DEF ToSup
<1>5. Carries(b, <<>>, lost)'
  <2>1. b \o <<>> = b
    BY ConcatEmptySeq
  <2>2. Len(got'["sup"]) <= Len(b)
    BY <1>3, EmptySeq, LenProperties
  <2> QED
    BY <1>1, <1>2, <1>4, <2>1, <2>2 DEF Carries
<1> QED
  BY <1>1, <1>2, <1>3, <1>5 DEF Flow

LEMMA EndLoses ==
  ASSUME TypeOK, NEW e, Ends(e), NEW c, c = ToSup \o <<>>
  PROVE  c = ToSup' \o out["init"]
<1> DEFINE g == got["sup"]
           w == stream["sup"]
           t == out["init"]
<1>1. g \in Seq(Int) /\ w \in Seq(Int) /\ t \in Seq(Int)
  BY ChanType
<1>2. c = (g \o (w \o t)) \o <<>>
  BY DEF ToSup
<1>3. ToSup' = g \o (w \o <<>>)
  BY DEF Ends, ToSup, TypeOK, Side
<1> HIDE DEF g, w, t
<1>4. w \o <<>> = w /\ (g \o (w \o t)) \o <<>> = g \o (w \o t)
  BY <1>1, ConcatEmptySeq, ConcatProperties
<1>5. (g \o w) \o t = g \o (w \o t)
  BY <1>1, Assoc, Zenon
<1> QED
  BY <1>2, <1>3, <1>4, <1>5, Zenon DEF t

LEMMA FlowInitEnds ==
  ASSUME TypeOK, Flow, InitAlive, NEW e, Ends(e), e = Killed \/ out["init"] = <<>> \/ ~SupOpen,
         \A a, b \in Seq(Int) : Due(a, b) => Due(a, b)'
  PROVE  Flow'
<1> SUFFICES ASSUME SupOpen PROVE Flow'
  BY DEF Flow, Ends, supVars, SupOpen
<1>1. PICK a, b, lost \in Seq(Int) : Carries(a, b, lost) /\ Due(a, b)
  BY DEF Flow
<1>2. PICK tail \in Seq(Int) : tail = out["init"]
  BY ChanType
<1>3. lost = <<>> /\ a \o b = ToSup \o <<>> /\ Len(got["sup"]) <= Len(a)
  BY <1>1 DEF Carries, InitAlive
<1>4. a \o b = ToSup' \o tail
  BY <1>2, <1>3, EndLoses
<1>5. got'["sup"] = got["sup"] /\ initPc' = "dead" /\ initExit' = e
  BY DEF Ends
<1>6. Carries(a, b, tail)'
  BY <1>2, <1>3, <1>4, <1>5 DEF Carries
<1> QED
  BY <1>1, <1>6 DEF Flow

(* What arrives after STARTED can only be the workload's exit.             *)
LEMMA ExitArrives ==
  ASSUME IInv, supPc = "wait", Complete(got["sup"])
  PROVE  /\ got["sup"] = EXIT /\ Tag("sup") = TAG_EXIT /\ wl = "reaped" /\ wlExit \in ExitStatus
         /\ parse_exit(Payload("sup")) = wlExit
<1>1. SupOpen /\ TypeOK /\ Children /\ Flow
  BY DEF SupOpen, IInv
<1>2. PICK a, b, lost \in Seq(Int) : Carries(a, b, lost) /\ Due(a, b)
  BY <1>1 DEF Flow
<1>3. got["sup"] = a /\ IsFrame(a)
  BY <1>1, <1>2, Consume, DueAreFrames
<1>4. a # <<>>
  BY <1>3, EmptySeq DEF IsFrame
<1>5. a = EXIT /\ wl = "reaped"
  BY <1>2, <1>4 DEF Due, DueAfterStarted
<1>6. wlExit \in ExitStatus
  BY <1>1, <1>5 DEF Children
<1> QED
  BY <1>3, <1>5, <1>6, FramesAreFrames DEF Tag, Payload

(* Whoever finds the end of file finds init dead, and if it was not killed *)
(* everything it had to say has been read.                                 *)
LEMMA EofFindsInitDead ==
  ASSUME IInv, SupOpen, supPc # "clone", Eof("sup")
  PROVE  /\ initPc = "dead" /\ wl # "alive"
         /\ \E a, b, lost \in Seq(Int) : /\ Carries(a, b, lost) /\ Due(a, b)
                                         /\ initExit = Killed \/ a = <<>>
<1>1. initPc = "dead" /\ wl # "alive"
  BY DEF IInv, Control, SupOpen, Launching, Eof, Open, Other, InitOpen, InitAlive
<1>2. out["init"] = <<>> /\ stream["sup"] = <<>> /\ ~Complete(got["sup"])
  BY <1>1 DEF IInv, OneFrame, Eof
<1>3. PICK a, b, lost \in Seq(Int) : Carries(a, b, lost) /\ Due(a, b)
  BY DEF IInv, Flow
<1>4. initExit # Killed => a = <<>>
  <2> SUFFICES ASSUME initExit # Killed PROVE a = <<>>
    OBVIOUS
  <2>1. lost = <<>>
    BY <1>3 DEF Carries
  <2> QED
    BY <1>2, <1>3, <2>1, AtEof, DueAreFrames DEF IInv
<1> QED
  BY <1>1, <1>3, <1>4

(* When the supervisor comes to record an exit, it has the workload's, or  *)
(* init was killed.                                                        *)
LEMMA ReapKnows ==
  ASSUME IInv, supPc = "reap"
  PROVE  /\ wl \in {"zombie", "reaped"} /\ wlExit \in ExitStatus
         /\ fromInit \in {None, wlExit}
         /\ initExit = Killed \/ fromInit = wlExit
<1>1. PICK a, b, lost \in Seq(Int) : Carries(a, b, lost) /\ Due(a, b)
  BY DEF IInv, Flow, SupOpen
<1>2. wl \in {"no", "alive", "zombie", "reaped"}
  BY DEF IInv, TypeOK
<1> QED
  BY <1>1, <1>2 DEF IInv, Children, Due, DueAfterStarted

-----------------------------------------------------------------------------
(* Every step keeps the invariant.                                         *)

(* The three parts of the type invariant: the channel, the supervisor, and *)
(* init with its children and signals.                                     *)
ChanTyped == stream \in [Side -> Seq(Int)] /\ got \in [Side -> Seq(Int)] /\ out \in [Side -> Seq(Int)]

SupTyped ==
  /\ supPc \in SupPc /\ netReady \in BOOLEAN /\ supChild \in BOOLEAN
  /\ supErr \in Reasons \cup {None}
  /\ fromInit \in ExitStatus \cup {None} /\ status \in {"Created", "Running", "Stopped"}
  /\ recorded \in ExitStatus \cup {None}

InitTyped ==
  /\ initPc \in InitPc /\ doomed \in BOOLEAN /\ blocked \in BOOLEAN
  /\ wl \in {"no", "alive", "zombie", "reaped"} /\ wlExit \in ExitStatus \cup {None}
  /\ orphan \in [Orphan -> {"no", "alive", "zombie", "gone"}] /\ others \subseteq Orphan
  /\ pending \subseteq Signals /\ sent \in 0..MaxSignals
  /\ discarded \in BOOLEAN /\ delivered \subseteq Signals
  /\ foreign \in BOOLEAN /\ stale \in BOOLEAN

LEMMA TypeParts == TypeOK <=> ChanTyped /\ SupTyped /\ InitTyped
  BY DEF TypeOK, ChanTyped, SupTyped, InitTyped

LEMMA NextChanTyped == IInv /\ [Next]_vars => ChanTyped'
<1> SUFFICES ASSUME IInv, [Next]_vars PROVE ChanTyped'
  OBVIOUS
<1> DEFINE Units == Seq(Int)
           Typed == stream \in [Side -> Units] /\ got \in [Side -> Units] /\ out \in [Side -> Units]
<1>0. TypeOK /\ Control /\ Children
  BY DEF IInv
<1>s. Side = {"sup", "init"} /\ <<>> \in Units
  BY EmptySeq DEF Side
<1>f. /\ Frame(TAG_READY, <<>>) \in Units /\ Frame(TAG_STARTED, <<>>) \in Units
      /\ Frame(TAG_ERROR, ErrorText) \in Units
      /\ wl = "reaped" => Frame(TAG_EXIT, ExitPayload(wlExit)) \in Units
  BY <1>0, FramesAreFrames DEF IsFrame, READY, STARTED, ERROR, EXIT, Children
<1>g. Frame(TAG_GO, <<>>) \in Units
  <2>1. TAG_GO \in Int
    BY DEF TAG_GO
  <2> QED
    BY <1>s, <2>1, FrameIsFrame DEF IsFrame
<1>t. Typed
  BY <1>0 DEF TypeOK
<1>w. ASSUME NEW x \in Side, write_all(x) PROVE Typed'
  BY <1>0, <1>t, <1>w, WriteSteps
<1>r. ASSUME NEW x \in Side, read_exact(x) PROVE Typed'
  BY <1>0, <1>t, <1>r, ReadSteps
<1> SUFFICES Typed'
  BY DEF ChanTyped
<1> HIDE DEF Units
<1> USE DEF SupMoves, FailLaunch, InitMoves, InitSends, InitFails, send_exit, send, Ends, expect, recv, Recorded,
            chanVars, supVars, initVars, procVars, sigVars
<1>1. CASE SupWrite
  BY <1>1, <1>s, <1>w DEF SupWrite
<1>2. CASE SupRead
  BY <1>2, <1>s, <1>r DEF SupRead
<1>3. CASE Clone
  BY <1>3, <1>s, <1>t DEF Clone
<1>4. CASE DropChildEnd
  BY <1>4, <1>s, <1>t DEF DropChildEnd
<1>5. CASE AwaitReady
  BY <1>5, <1>s, <1>t DEF AwaitReady, expect, recv
<1>6. CASE SetupHost
  BY <1>6, <1>s, <1>t, <1>g DEF SetupHost
<1>7. CASE Go
  BY <1>7, <1>s, <1>t DEF Go
<1>8. CASE AwaitStarted
  BY <1>8, <1>s, <1>t DEF AwaitStarted, expect, recv
<1>9. CASE SaveRunning
  BY <1>9, <1>s, <1>t DEF SaveRunning
<1>10. CASE UnwindKill
  BY <1>10, <1>s, <1>t DEF UnwindKill
<1>11. CASE UnwindReap
  BY <1>11, <1>s, <1>t DEF UnwindReap
<1>12. CASE AwaitExit
  BY <1>12, <1>s, <1>t DEF AwaitExit
<1>13. CASE RecordExit
  BY <1>13, <1>s, <1>t DEF RecordExit, Recorded
<1>14. CASE SupCrash
  BY <1>14, <1>s, <1>t DEF SupCrash
<1>15. CASE InitWrite
  BY <1>15, <1>s, <1>w DEF InitWrite
<1>16. CASE InitRead
  BY <1>16, <1>s, <1>r DEF InitRead
<1>17. CASE ExecInit
  BY <1>17, <1>s, <1>t DEF ExecInit
<1>18. CASE ReadConfig
  BY <1>18, <1>s, <1>t, <1>f DEF ReadConfig
<1>19. CASE ReadySent
  BY <1>19, <1>s, <1>t, <1>f DEF ReadySent
<1>20. CASE AwaitGo
  BY <1>20, <1>s, <1>t, <1>f DEF AwaitGo
<1>21. CASE Setup
  BY <1>21, <1>s, <1>t, <1>f DEF Setup
<1>22. CASE BlockSignals
  BY <1>22, <1>s, <1>t, <1>f DEF BlockSignals
<1>23. CASE spawn_workload
  BY <1>23, <1>s, <1>t, <1>f DEF spawn_workload
<1>24. CASE StartedSent
  BY <1>24, <1>s, <1>t, <1>f DEF StartedSent
<1>25. CASE ReapOne
  BY <1>25, <1>s, <1>t DEF ReapOne, Zombies
<1>26. CASE SuperviseReaped
  BY <1>26, <1>s, <1>t DEF SuperviseReaped
<1>27. CASE Poll
  BY <1>27, <1>s, <1>t DEF Poll
<1>28. CASE Drained
  BY <1>28, <1>s, <1>t DEF Drained
<1>29. CASE ListRemaining
  BY <1>29, <1>0, <1>s, <1>t, <1>f DEF ListRemaining, Children
<1>30. CASE GraceOver
  BY <1>30, <1>0, <1>s, <1>t, <1>f DEF GraceOver, Children
<1>31. CASE KillRest
  BY <1>31, <1>s, <1>t DEF KillRest
<1>32. CASE ReapedLast
  BY <1>32, <1>0, <1>s, <1>t, <1>f DEF ReapedLast, Children
<1>33. CASE InitExits
  BY <1>33, <1>s, <1>t DEF InitExits
<1>34. CASE InitKilled
  BY <1>34, <1>s, <1>t DEF InitKilled
<1>35. ASSUME NEW e \in ExitStatus, WorkloadExits(e) PROVE Typed'
  BY <1>35, <1>s, <1>t DEF WorkloadExits
<1>36. ASSUME NEW o \in Orphan, OrphanStarts(o) PROVE Typed'
  BY <1>36, <1>s, <1>t DEF OrphanStarts
<1>37. ASSUME NEW o \in Orphan, OrphanExits(o) PROVE Typed'
  BY <1>37, <1>s, <1>t DEF OrphanExits
<1>38. ASSUME NEW g \in Signals, Forward(g) PROVE Typed'
  BY <1>38, <1>s, <1>t DEF Forward, ForwardAndKeep
<1>39. ASSUME NEW g \in Signals, SignalInit(g) PROVE Typed'
  BY <1>39, <1>s, <1>t DEF SignalInit
<1>40. CASE UNCHANGED vars
  BY <1>40, <1>t DEF vars
<1> QED
  BY <1>1, <1>2, <1>3, <1>4, <1>5, <1>6, <1>7, <1>8, <1>9, <1>10, <1>11, <1>12, <1>13, <1>14, <1>15, <1>16, <1>17, <1>18, <1>19, <1>20, <1>21, <1>22, <1>23, <1>24, <1>25, <1>26, <1>27, <1>28, <1>29, <1>30, <1>31, <1>32, <1>33, <1>34, <1>35, <1>36, <1>37, <1>38, <1>39, <1>40 DEF Next, SupStep, InitStep

LEMMA NextSupTyped == IInv /\ [Next]_vars => SupTyped'
<1> SUFFICES ASSUME IInv, [Next]_vars PROVE SupTyped'
  OBVIOUS
<1>0. SupTyped
  BY TypeParts DEF IInv
<1>k. Killed \in ExitStatus
  BY StatusType
<1> USE DEF SupTyped, Reasons, SupPc, Launching,
            SupMoves, FailLaunch, InitMoves, InitSends, InitFails, send_exit, Ends, expect, recv, Recorded,
            chanVars, supVars, initVars, procVars, sigVars
<1>1. CASE SupWrite
  BY <1>1, <1>0 DEF SupWrite
<1>2. CASE SupRead
  BY <1>2, <1>0 DEF SupRead
<1>3. CASE Clone
  BY <1>3, <1>0 DEF Clone
<1>4. CASE DropChildEnd
  BY <1>4, <1>0 DEF DropChildEnd
<1>5. CASE AwaitReady
  BY <1>5, <1>0 DEF AwaitReady, expect, recv
<1>6. CASE SetupHost
  BY <1>6, <1>0 DEF SetupHost
<1>7. CASE Go
  BY <1>7, <1>0 DEF Go
<1>8. CASE AwaitStarted
  BY <1>8, <1>0 DEF AwaitStarted, expect, recv
<1>9. CASE SaveRunning
  BY <1>9, <1>0 DEF SaveRunning
<1>10. CASE UnwindKill
  BY <1>10, <1>0 DEF UnwindKill
<1>11. CASE UnwindReap
  BY <1>11, <1>0 DEF UnwindReap
<1>12. CASE AwaitExit
  <2>1. Complete(got["sup"]) => parse_exit(Payload("sup")) \in ExitStatus
    BY <1>12, ExitArrives DEF AwaitExit
  <2> QED
    BY <1>12, <1>0, <2>1 DEF AwaitExit
<1>13. CASE RecordExit
  <2>1. recorded' \in ExitStatus
    BY <1>13, <1>k, ReapKnows, StatusType DEF RecordExit
  <2> QED
    BY <1>13, <1>0, <2>1 DEF RecordExit
<1>14. CASE SupCrash
  BY <1>14, <1>0 DEF SupCrash
<1>15. CASE InitWrite
  BY <1>15, <1>0 DEF InitWrite
<1>16. CASE InitRead
  BY <1>16, <1>0 DEF InitRead
<1>17. CASE ExecInit
  BY <1>17, <1>0 DEF ExecInit
<1>18. CASE ReadConfig
  BY <1>18, <1>0 DEF ReadConfig
<1>19. CASE ReadySent
  BY <1>19, <1>0 DEF ReadySent
<1>20. CASE AwaitGo
  BY <1>20, <1>0 DEF AwaitGo, recv
<1>21. CASE Setup
  BY <1>21, <1>0 DEF Setup
<1>22. CASE BlockSignals
  BY <1>22, <1>0 DEF BlockSignals
<1>23. CASE spawn_workload
  BY <1>23, <1>0 DEF spawn_workload
<1>24. CASE StartedSent
  BY <1>24, <1>0 DEF StartedSent
<1>25. CASE ReapOne
  BY <1>25, <1>0 DEF ReapOne, Zombies
<1>26. CASE SuperviseReaped
  BY <1>26, <1>0 DEF SuperviseReaped
<1>27. CASE Poll
  BY <1>27, <1>0 DEF Poll
<1>28. CASE Drained
  BY <1>28, <1>0 DEF Drained
<1>29. CASE ListRemaining
  BY <1>29, <1>0 DEF ListRemaining, send_exit, Listed
<1>30. CASE GraceOver
  BY <1>30, <1>0 DEF GraceOver, send_exit
<1>31. CASE KillRest
  BY <1>31, <1>0 DEF KillRest
<1>32. CASE ReapedLast
  BY <1>32, <1>0 DEF ReapedLast, send_exit
<1>33. CASE InitExits
  BY <1>33, <1>0 DEF InitExits
<1>34. CASE InitKilled
  BY <1>34, <1>0 DEF InitKilled
<1>35. ASSUME NEW e \in ExitStatus, WorkloadExits(e) PROVE SupTyped'
  BY <1>35, <1>0 DEF WorkloadExits
<1>36. ASSUME NEW o \in Orphan, OrphanStarts(o) PROVE SupTyped'
  BY <1>36, <1>0 DEF OrphanStarts
<1>37. ASSUME NEW o \in Orphan, OrphanExits(o) PROVE SupTyped'
  BY <1>37, <1>0 DEF OrphanExits
<1>38. ASSUME NEW g \in Signals, Forward(g) PROVE SupTyped'
  BY <1>38, <1>0 DEF Forward, ForwardAndKeep
<1>39. ASSUME NEW g \in Signals, SignalInit(g) PROVE SupTyped'
  BY <1>39, <1>0 DEF SignalInit
<1>40. CASE UNCHANGED vars
  BY <1>40, <1>0 DEF vars
<1> QED
  BY <1>1, <1>2, <1>3, <1>4, <1>5, <1>6, <1>7, <1>8, <1>9, <1>10, <1>11, <1>12, <1>13, <1>14, <1>15, <1>16, <1>17, <1>18, <1>19, <1>20, <1>21, <1>22, <1>23, <1>24, <1>25, <1>26, <1>27, <1>28, <1>29, <1>30, <1>31, <1>32, <1>33, <1>34, <1>35, <1>36, <1>37, <1>38, <1>39, <1>40 DEF Next, SupStep, InitStep

LEMMA NextInitTyped == IInv /\ [Next]_vars => InitTyped'
<1> SUFFICES ASSUME IInv, [Next]_vars PROVE InitTyped'
  OBVIOUS
<1>0. InitTyped
  BY TypeParts DEF IInv
<1>k. Killed \in ExitStatus
  BY StatusType
<1> USE DEF InitTyped, InitPc,
            SupMoves, FailLaunch, InitMoves, InitSends, InitFails, send_exit, Ends, expect, recv, Recorded,
            chanVars, supVars, initVars, procVars, sigVars
<1>1. CASE SupWrite
  BY <1>1, <1>0 DEF SupWrite
<1>2. CASE SupRead
  BY <1>2, <1>0 DEF SupRead
<1>3. CASE Clone
  BY <1>3, <1>0 DEF Clone
<1>4. CASE DropChildEnd
  BY <1>4, <1>0 DEF DropChildEnd
<1>5. CASE AwaitReady
  BY <1>5, <1>0 DEF AwaitReady, expect, recv
<1>6. CASE SetupHost
  BY <1>6, <1>0 DEF SetupHost
<1>7. CASE Go
  BY <1>7, <1>0 DEF Go
<1>8. CASE AwaitStarted
  BY <1>8, <1>0 DEF AwaitStarted, expect, recv
<1>9. CASE SaveRunning
  BY <1>9, <1>0 DEF SaveRunning
<1>10. CASE UnwindKill
  BY <1>10, <1>0 DEF UnwindKill
<1>11. CASE UnwindReap
  BY <1>11, <1>0 DEF UnwindReap
<1>12. CASE AwaitExit
  BY <1>12, <1>0 DEF AwaitExit
<1>13. CASE RecordExit
  BY <1>13, <1>0 DEF RecordExit, Recorded
<1>14. CASE SupCrash
  BY <1>14, <1>0 DEF SupCrash, InitAlive
<1>15. CASE InitWrite
  BY <1>15, <1>0 DEF InitWrite
<1>16. CASE InitRead
  BY <1>16, <1>0 DEF InitRead
<1>17. CASE ExecInit
  <2>1. CASE InitMoves("config")
    BY <2>1, <1>0
  <2>2. CASE Ends(Exited(127))
    BY <2>2, <1>0, <1>k
  <2> QED
    BY <1>17, <2>1, <2>2 DEF ExecInit
<1>18. CASE ReadConfig
  BY <1>18, <1>0 DEF ReadConfig
<1>19. CASE ReadySent
  BY <1>19, <1>0 DEF ReadySent
<1>20. CASE AwaitGo
  BY <1>20, <1>0 DEF AwaitGo, recv
<1>21. CASE Setup
  BY <1>21, <1>0 DEF Setup
<1>22. CASE BlockSignals
  BY <1>22, <1>0 DEF BlockSignals
<1>23. CASE spawn_workload
  BY <1>23, <1>0 DEF spawn_workload
<1>24. CASE StartedSent
  BY <1>24, <1>0 DEF StartedSent
<1>25. CASE ReapOne
  BY <1>25, <1>0 DEF ReapOne, Zombies
<1>26. CASE SuperviseReaped
  BY <1>26, <1>0 DEF SuperviseReaped
<1>27. CASE Poll
  BY <1>27, <1>0 DEF Poll
<1>28. CASE Drained
  BY <1>28, <1>0 DEF Drained
<1>29. CASE ListRemaining
  BY <1>29, <1>0 DEF ListRemaining, send_exit, Listed
<1>30. CASE GraceOver
  BY <1>30, <1>0 DEF GraceOver, send_exit
<1>31. CASE KillRest
  BY <1>31, <1>0, <1>k DEF KillRest
<1>32. CASE ReapedLast
  BY <1>32, <1>0 DEF ReapedLast, send_exit
<1>33. CASE InitExits
  BY <1>33, <1>0, <1>k DEF InitExits
<1>34. CASE InitKilled
  BY <1>34, <1>0, <1>k DEF InitKilled
<1>35. ASSUME NEW e \in ExitStatus, WorkloadExits(e) PROVE InitTyped'
  BY <1>35, <1>0 DEF WorkloadExits
<1>36. ASSUME NEW o \in Orphan, OrphanStarts(o) PROVE InitTyped'
  BY <1>36, <1>0 DEF OrphanStarts
<1>37. ASSUME NEW o \in Orphan, OrphanExits(o) PROVE InitTyped'
  BY <1>37, <1>0 DEF OrphanExits
<1>38. ASSUME NEW g \in Signals, Forward(g) PROVE InitTyped'
  BY <1>38, <1>0 DEF Forward, ForwardAndKeep
<1>39. ASSUME NEW g \in Signals, SignalInit(g) PROVE InitTyped'
  <2>1. sent \in 0..MaxSignals /\ sent < MaxSignals /\ MaxSignals \in Nat
    BY <1>39, <1>0, HandshakeAssumption DEF SignalInit
  <2>2. sent + 1 \in 0..MaxSignals
    BY <2>1
  <2> QED
    BY <1>39, <1>0, <2>2 DEF SignalInit
<1>40. CASE UNCHANGED vars
  BY <1>40, <1>0 DEF vars
<1> QED
  BY <1>1, <1>2, <1>3, <1>4, <1>5, <1>6, <1>7, <1>8, <1>9, <1>10, <1>11, <1>12, <1>13, <1>14, <1>15, <1>16, <1>17, <1>18, <1>19, <1>20, <1>21, <1>22, <1>23, <1>24, <1>25, <1>26, <1>27, <1>28, <1>29, <1>30, <1>31, <1>32, <1>33, <1>34, <1>35, <1>36, <1>37, <1>38, <1>39, <1>40 DEF Next, SupStep, InitStep

(* A step that does not touch what the supervisor is sent.                 *)
LEMMA FlowKeeps ==
  ASSUME Flow, SupOpen,
         got'["sup"] = got["sup"], stream'["sup"] = stream["sup"], out'["init"] = out["init"],
         initPc = "dead" /\ initExit = Killed => initPc' = "dead" /\ initExit' = Killed,
         \A a, b \in Seq(Int) : Due(a, b) => Due(a, b)'
  PROVE  Flow'
<1>1. ToSup' = ToSup
  BY DEF ToSup
<1> QED
  BY <1>1, FlowStays

(* Init sends: its error, ...                                              *)
LEMMA FlowError ==
  ASSUME IInv, InitFails, SupOpen', out["init"] = <<>>,
         initPc \in {"config", "ready", "awaitGo", "setup", "block", "spawn"}
  PROVE  Flow'
<1> USE DEF InitFails, InitSends, supVars
<1>1. TypeOK /\ Flow /\ IsFrame(ERROR)
  BY FramesAreFrames DEF IInv
<1>2. out' = [out EXCEPT !["init"] = ERROR] /\ stream' = stream /\ got' = got
  BY DEF send, ERROR
<1>3. supPc' = supPc /\ initPc' = "failing" /\ SupOpen
  BY DEF SupOpen
<1>4. \A a, b \in Seq(Int) : Due(a, b) =>
        \/ a = <<>> /\ b = <<>> /\ Due(ERROR, <<>>)'
        \/ b = <<>> /\ Due(a, ERROR)'
  <2> SUFFICES ASSUME NEW a \in Seq(Int), NEW b \in Seq(Int), Due(a, b)
               PROVE  \/ a = <<>> /\ b = <<>> /\ Due(ERROR, <<>>)'
                      \/ b = <<>> /\ Due(a, ERROR)'
    OBVIOUS
  <2>1. CASE supPc \in {"clone", "drop", "ready"}
    BY <1>3, <2>1 DEF Due, DueBeforeReady, Early, Announced
  <2>2. CASE supPc \in {"network", "go", "started"}
    BY <1>3, <2>2 DEF Due, DueBeforeStarted, Announced, Supervising
  <2>3. supPc \notin {"save", "wait", "reap"}
    BY DEF Due, DueAfterStarted, Supervising
  <2> QED
    BY <1>3, <2>1, <2>2, <2>3 DEF SupOpen, Launching
<1>5. initPc # "dead"
  OBVIOUS
<1> QED
  BY <1>1, <1>2, <1>3, <1>4, <1>5, FlowSends

(* ... READY, ...                                                          *)
LEMMA FlowReady ==
  ASSUME IInv, SupOpen', initPc = "config", InitSends("ready", TAG_READY, <<>>)
  PROVE  Flow'
<1> USE DEF InitSends, supVars
<1>1. TypeOK /\ Flow /\ IsFrame(READY) /\ out["init"] = <<>>
  BY FramesAreFrames DEF IInv, OneFrame
<1>2. out' = [out EXCEPT !["init"] = READY] /\ stream' = stream /\ got' = got
  BY DEF send, READY
<1>3. supPc' = supPc /\ initPc' = "ready" /\ SupOpen
  BY DEF SupOpen
<1>4. \A a, b \in Seq(Int) : Due(a, b) =>
        \/ a = <<>> /\ b = <<>> /\ Due(READY, <<>>)'
        \/ b = <<>> /\ Due(a, READY)'
  <2> SUFFICES ASSUME NEW a \in Seq(Int), NEW b \in Seq(Int), Due(a, b)
               PROVE  a = <<>> /\ b = <<>> /\ Due(READY, <<>>)'
    OBVIOUS
  <2>1. supPc \notin {"network", "go", "started", "save", "wait", "reap"}
    BY DEF Due, DueBeforeStarted, DueAfterStarted, Announced, Supervising
  <2>2. supPc \in {"clone", "drop", "ready"}
    BY <1>3, <2>1 DEF SupOpen, Launching
  <2> QED
    BY <1>3, <2>2 DEF Due, DueBeforeReady, Early, Announced
<1>5. initPc # "dead"
  OBVIOUS
<1> QED
  BY <1>1, <1>2, <1>3, <1>4, <1>5, FlowSends

(* ... STARTED, for which the supervisor has sent GO, ...                  *)
LEMMA FlowStarted ==
  ASSUME IInv, SupOpen', initPc = "spawn", InitSends("started", TAG_STARTED, <<>>), wl' = "alive"
  PROVE  Flow'
<1> USE DEF InitSends, supVars
<1>1. TypeOK /\ Flow /\ IsFrame(STARTED) /\ out["init"] = <<>>
  BY FramesAreFrames DEF IInv, OneFrame
<1>2. out' = [out EXCEPT !["init"] = STARTED] /\ stream' = stream /\ got' = got
  BY DEF send, STARTED
<1>3. supPc' = supPc /\ initPc' = "started" /\ SupOpen
  BY DEF SupOpen
<1>4. supPc \notin {"clone", "drop", "ready"}
  BY DEF IInv, Control, GoFollowsNetwork
<1>5. \A a, b \in Seq(Int) : Due(a, b) =>
        \/ a = <<>> /\ b = <<>> /\ Due(STARTED, <<>>)'
        \/ b = <<>> /\ Due(a, STARTED)'
  <2> SUFFICES ASSUME NEW a \in Seq(Int), NEW b \in Seq(Int), Due(a, b)
               PROVE  a = <<>> /\ b = <<>> /\ Due(STARTED, <<>>)'
    OBVIOUS
  <2>1. supPc \notin {"save", "wait", "reap"}
    BY DEF Due, DueAfterStarted, Supervising
  <2>2. supPc \in {"network", "go", "started"}
    BY <1>3, <1>4, <2>1 DEF SupOpen, Launching
  <2> QED
    BY <1>3, <2>2 DEF Due, DueBeforeStarted, Announced, Supervising
<1>6. initPc # "dead"
  OBVIOUS
<1> QED
  BY <1>1, <1>2, <1>3, <1>5, <1>6, FlowSends

(* ... and the workload's exit.                                            *)
LEMMA FlowExit ==
  ASSUME IInv, SupOpen', initPc \in {"list", "grace", "reapLast"}, send_exit, UNCHANGED procVars
  PROVE  Flow'
<1> USE DEF send_exit, InitSends, supVars
<1>1. TypeOK /\ Flow /\ out["init"] = <<>> /\ wl = "reaped" /\ wl' = wl /\ wlExit' = wlExit
  BY DEF IInv, OneFrame, Children, procVars
<1>2. IsFrame(EXIT)
  BY <1>1, FramesAreFrames DEF IInv, Children
<1>3. out' = [out EXCEPT !["init"] = EXIT] /\ stream' = stream /\ got' = got
  BY DEF send, EXIT
<1>4. supPc' = supPc /\ initPc' = "sendExit" /\ SupOpen /\ fromInit' = fromInit
  BY DEF SupOpen
<1>5. supPc \notin {"clone", "drop", "ready"}
  BY DEF IInv, Control, GoFollowsNetwork, Supervising
<1>6. PICK f : f = EXIT /\ f = EXIT'
  BY <1>1 DEF EXIT
<1>7. \A a, b \in Seq(Int) : Due(a, b) =>
        \/ a = <<>> /\ b = <<>> /\ Due(f, <<>>)'
        \/ b = <<>> /\ Due(a, f)'
  <2> SUFFICES ASSUME NEW a \in Seq(Int), NEW b \in Seq(Int), Due(a, b)
               PROVE  \/ a = <<>> /\ b = <<>> /\ Due(f, <<>>)'
                      \/ b = <<>> /\ Due(a, f)'
    OBVIOUS
  <2>1. CASE supPc \in {"network", "go", "started"}
    <3>1. a = STARTED /\ b = <<>>
      BY <2>1 DEF Due, DueBeforeStarted, Announced
    <3> QED
      BY <1>1, <1>4, <1>6, <2>1, <3>1 DEF Due, DueBeforeStarted
  <2>2. CASE supPc \in {"save", "wait", "reap"}
    <3>1. a = <<>> /\ b = <<>> /\ fromInit = None /\ supPc # "reap"
      BY <2>2 DEF Due, DueAfterStarted
    <3> QED
      BY <1>1, <1>4, <1>6, <2>2, <3>1 DEF Due, DueAfterStarted
  <2> QED
    BY <1>4, <1>5, <2>1, <2>2 DEF SupOpen, Launching
<1>8. initPc # "dead"
  OBVIOUS
<1> QED
  BY <1>1, <1>2, <1>3, <1>4, <1>6, <1>7, <1>8, FlowSends

(* A step on which neither side leaves its stage and nothing is said.      *)
Quiet ==
  /\ supPc' \in {"clone", "drop", "ready"} => supPc \in {"clone", "drop", "ready"}
  /\ supPc' \in {"network", "go", "started"} => supPc \in {"network", "go", "started"}
  /\ supPc' \in {"save", "wait", "reap"} => supPc \in {"save", "wait", "reap"}
  /\ supPc' = "reap" => supPc = "reap"
  /\ initPc \in Early => initPc' \in Early
  /\ initPc \in Announced => initPc' \in Announced
  /\ initPc \in Supervising => initPc' \in Supervising
  /\ initPc \in {"sendExit", "failing", "dead"} => initPc' = initPc
  /\ initExit' = initExit /\ fromInit' = fromInit
  /\ wl # "no" => wl' # "no"
  /\ wl # "alive" => wl' # "alive" \/ initPc \notin {"sendExit", "dead"}
  /\ wl = "reaped" => wl' = "reaped" /\ wlExit' = wlExit

LEMMA DueKeeps ==
  ASSUME Quiet, NEW a, NEW b, Due(a, b)
  PROVE  Due(a, b)'
<1>1. wl = "reaped" => EXIT' = EXIT
  BY DEF Quiet, EXIT
<1>2. CASE supPc' \in {"clone", "drop", "ready"}
  BY <1>2 DEF Quiet, Due, DueBeforeReady
<1>3. CASE supPc' \in {"network", "go", "started"}
  BY <1>1, <1>3 DEF Quiet, Due, DueBeforeStarted
<1>4. CASE supPc' \in {"save", "wait", "reap"}
  BY <1>1, <1>4 DEF Quiet, Due, DueAfterStarted
<1> QED
  BY <1>2, <1>3, <1>4 DEF Due

LEMMA FlowQuiet ==
  ASSUME Flow, SupOpen, Quiet,
         got'["sup"] = got["sup"], stream'["sup"] = stream["sup"], out'["init"] = out["init"]
  PROVE  Flow'
<1>1. \A a, b \in Seq(Int) : Due(a, b) => Due(a, b)'
  BY DueKeeps
<1>2. initPc = "dead" /\ initExit = Killed => initPc' = "dead" /\ initExit' = Killed
  BY DEF Quiet
<1> QED
  BY <1>1, <1>2, FlowKeeps

LEMMA MissingType ==
  ASSUME NEW g \in Seq(Int)
  PROVE  /\ Len(g) < 2 => Missing(g) = 2 - Len(g)
         /\ Len(g) >= 2 => g[2] \in Int /\ Missing(g) = (2 + g[2]) - Len(g)
<1>1. Len(g) \in Nat
  BY LenProperties
<1>2. Len(g) >= 2 => g[2] \in Int
  BY <1>1, ElementOfSeq
<1> QED
  BY <1>1, <1>2 DEF Missing

(* A read never goes beyond the frame under way: only the head is read     *)
(* before it is known how long the frame is.                               *)
LEMMA HeadTells ==
  ASSUME NEW a \in Seq(Int), NEW b \in Seq(Int), NEW g \in Seq(Int), NEW r \in Seq(Int), NEW n \in Nat,
         a \o b = g \o r, (a = <<>> /\ b = <<>>) \/ IsFrame(a),
         r # <<>>, Len(g) <= Len(a), n <= Len(g) + Missing(g)
  PROVE  n <= Len(a)
<1>1. Len(a) \in Nat /\ Len(g) \in Nat /\ Len(b) \in Nat /\ Len(r) \in Nat
  BY LenProperties
<1>2. IsFrame(a)
  <2> SUFFICES ASSUME a = <<>>, b = <<>> PROVE FALSE
    OBVIOUS
  <2>1. g \o r = <<>>
    BY EmptySeq, ConcatEmptySeq
  <2> QED
    BY <2>1, ConcatSimplifications
<1>3. CASE Len(g) < 2
  <2>1. Missing(g) = 2 - Len(g) /\ Len(a) >= 2
    BY <1>2, <1>3, MissingType DEF IsFrame
  <2> QED
    BY <1>1, <2>1
<1>4. CASE Len(g) >= 2
  <2>1. \A i \in 1..(Len(g) + Len(r)) : (g \o r)[i] = IF i <= Len(g) THEN g[i] ELSE r[i - Len(g)]
    BY ConcatProperties
  <2>2. \A i \in 1..(Len(a) + Len(b)) : (a \o b)[i] = IF i <= Len(a) THEN a[i] ELSE b[i - Len(a)]
    BY ConcatProperties
  <2>3. g[2] = a[2]
    BY <1>1, <1>2, <1>4, <2>1, <2>2 DEF IsFrame
  <2>4. PICK k \in Nat, x \in Int : k = Len(g) /\ x = g[2] /\ x = a[2]
    BY <1>1, <1>4, <2>3, MissingType
  <2>5. Missing(g) = (2 + x) - k
    BY <1>4, <2>4, MissingType
  <2>6. Len(a) = 2 + x
    BY <1>2, <2>4 DEF IsFrame
  <2>7. n <= k + ((2 + x) - k)
    BY <2>4, <2>5
  <2> QED
    BY <2>6, <2>7
<1> QED
  BY <1>1, <1>3, <1>4

LEMMA ReadKeeps ==
  ASSUME TypeOK, read_exact("sup")
  PROVE  ToSup' = ToSup
<1>1. PICK g \in Seq(Int), w \in Seq(Int), t \in Seq(Int), g2 \in Seq(Int), w2 \in Seq(Int) :
        /\ g = got["sup"] /\ w = stream["sup"] /\ t = out["init"]
        /\ g2 = got'["sup"] /\ w2 = stream'["sup"] /\ t = out'["init"]
        /\ g2 \o w2 = g \o w
  BY ChanType, ReadSteps DEF Side
<1>2. g2 \o w2 = g \o w
  BY <1>1
<1>3. (g2 \o w2) \o t = g2 \o (w2 \o t)
  BY Assoc, Zenon
<1>4. (g \o w) \o t = g \o (w \o t)
  BY Assoc, Zenon
<1>5. g2 \o (w2 \o t) = g \o (w \o t)
  BY <1>2, <1>3, <1>4, Zenon
<1> QED
  BY <1>1, <1>5 DEF ToSup

LEMMA Rest ==
  ASSUME TypeOK, NEW a \in Seq(Int), NEW b \in Seq(Int), NEW lost \in Seq(Int), Carries(a, b, lost)
  PROVE  a \o b = got["sup"] \o ((stream["sup"] \o out["init"]) \o lost)
<1> DEFINE g == got["sup"]
           r == stream["sup"] \o out["init"]
<1>1. g \in Seq(Int) /\ r \in Seq(Int)
  BY ChanType, ConcatProperties
<1>2. a \o b = (g \o r) \o lost
  BY DEF Carries, ToSup
<1> HIDE DEF g, r
<1>3. a \o b = g \o (r \o lost)
  BY <1>1, <1>2, Assoc
<1> QED
  BY <1>3 DEF g, r

LEMMA StaysInFrame ==
  ASSUME TypeOK, NEW a \in Seq(Int), NEW b \in Seq(Int), NEW lost \in Seq(Int), NEW n \in Nat,
         Carries(a, b, lost), (a = <<>> /\ b = <<>>) \/ IsFrame(a),
         stream["sup"] # <<>>, n <= Len(got["sup"]) + Missing(got["sup"])
  PROVE  n <= Len(a)
<1> DEFINE g == got["sup"]
           r == stream["sup"] \o out["init"]
<1>1. g \in Seq(Int) /\ r \in Seq(Int) /\ r \o lost \in Seq(Int)
  BY ChanType, ConcatProperties
<1>2. Len(g) <= Len(a) /\ n <= Len(g) + Missing(g)
  BY DEF Carries
<1>3. r # <<>>
  BY ChanType, ConcatSimplifications
<1>4. a \o b = g \o (r \o lost)
  BY Rest
<1> HIDE DEF g, r
<1>5. r \o lost # <<>>
  BY <1>1, <1>3, ConcatSimplifications
<1> QED
  BY <1>1, <1>2, <1>4, <1>5, HeadTells

(* The supervisor reads a part of the first frame.                         *)
LEMMA FlowReads ==
  ASSUME IInv, SupRead
  PROVE  Flow'
<1> USE DEF SupRead, supVars, initVars, procVars
<1>1. TypeOK /\ Children /\ SupOpen /\ Quiet /\ initPc' = initPc /\ initExit' = initExit
  BY DEF IInv, SupOpen, Launching, Quiet
<1>2. PICK a, b, lost \in Seq(Int) : Carries(a, b, lost) /\ Due(a, b)
  BY <1>1 DEF IInv, Flow
<1>3. /\ out' = out /\ got'["sup"] \in Seq(Int) /\ stream'["sup"] \in Seq(Int)
      /\ got'["sup"] \o stream'["sup"] = got["sup"] \o stream["sup"]
      /\ Len(got'["sup"]) <= Len(got["sup"]) + Missing(got["sup"])
      /\ stream["sup"] # <<>>
  BY <1>1, ReadSteps DEF Side
<1>4. ToSup' = ToSup
  BY <1>1, ReadKeeps
<1>5. Len(got'["sup"]) <= Len(a)
  <2>1. PICK n \in Nat : n = Len(got'["sup"])
    BY <1>3, LenProperties
  <2>2. (a = <<>> /\ b = <<>>) \/ IsFrame(a)
    BY <1>1, <1>2, DueAreFrames
  <2>3. n <= Len(got["sup"]) + Missing(got["sup"])
    BY <1>3, <2>1
  <2>4. n <= Len(a)
    BY <1>1, <1>2, <1>3, <2>2, <2>3, StaysInFrame
  <2> QED
    BY <2>1, <2>4
<1>6. Carries(a, b, lost)' /\ Due(a, b)'
  BY <1>1, <1>2, <1>4, <1>5, DueKeeps DEF Carries
<1> QED
  BY <1>6 DEF Flow

(* READY, STARTED and EXIT are read.                                       *)
LEMMA FlowReadyRead ==
  ASSUME IInv, AwaitReady, SupOpen'
  PROVE  Flow'
<1> USE DEF AwaitReady, expect, SupMoves, FailLaunch, initVars, procVars
<1>1. /\ recv("sup") /\ Tag("sup") = TAG_READY /\ supPc' = "network"
      /\ out' = out /\ stream' = stream /\ initPc' = initPc /\ initExit' = initExit
      /\ supPc = "ready" /\ wl' = wl /\ wlExit' = wlExit
  BY DEF SupOpen, Launching
<1>2. SupOpen /\ TypeOK /\ Children /\ Flow
  BY <1>1 DEF SupOpen, Launching, IInv
<1>3. \A a, b \in Seq(Int) : IsFrame(a) /\ got["sup"] = a /\ Due(a, b) => Due(b, <<>>)'
  <2> SUFFICES ASSUME NEW a \in Seq(Int), NEW b \in Seq(Int), IsFrame(a), got["sup"] = a, Due(a, b)
               PROVE  Due(b, <<>>)'
    OBVIOUS
  <2>1. DueBeforeReady(a, b) /\ a # <<>> /\ a # ERROR
    <3>1. a # <<>>
      BY EmptySeq DEF IsFrame
    <3>2. a[1] = TAG_READY /\ ERROR[1] = TAG_ERROR
      BY <1>1, FramesAreFrames DEF Tag
    <3>3. a # ERROR
      BY <3>2 DEF TAG_READY, TAG_ERROR
    <3> QED
      BY <1>1, <3>1, <3>3 DEF Due
  <2>2. DueBeforeStarted(b, <<>>)'
    BY <1>1, <2>1 DEF DueBeforeReady, DueBeforeStarted
  <2> QED
    BY <1>1, <2>2 DEF Due
<1> QED
  BY <1>1, <1>2, <1>3, FlowConsumes

LEMMA FlowStartedRead ==
  ASSUME IInv, AwaitStarted, SupOpen'
  PROVE  Flow'
<1> USE DEF AwaitStarted, expect, SupMoves, FailLaunch, initVars, procVars
<1>1. /\ recv("sup") /\ Tag("sup") = TAG_STARTED /\ supPc' = "save" /\ fromInit' = fromInit
      /\ out' = out /\ stream' = stream /\ initPc' = initPc /\ initExit' = initExit
      /\ supPc = "started" /\ wl' = wl /\ wlExit' = wlExit
  BY DEF SupOpen, Launching
<1>2. SupOpen /\ TypeOK /\ Children /\ Flow /\ fromInit = None
  BY <1>1 DEF SupOpen, Launching, IInv, Control
<1>3. \A a, b \in Seq(Int) : IsFrame(a) /\ got["sup"] = a /\ Due(a, b) => Due(b, <<>>)'
  <2> SUFFICES ASSUME NEW a \in Seq(Int), NEW b \in Seq(Int), IsFrame(a), got["sup"] = a, Due(a, b)
               PROVE  Due(b, <<>>)'
    OBVIOUS
  <2>1. DueBeforeStarted(a, b) /\ a # <<>> /\ a # ERROR
    <3>1. a # <<>>
      BY EmptySeq DEF IsFrame
    <3>2. a[1] = TAG_STARTED /\ ERROR[1] = TAG_ERROR
      BY <1>1, FramesAreFrames DEF Tag
    <3>3. a # ERROR
      BY <3>2 DEF TAG_STARTED, TAG_ERROR
    <3> QED
      BY <1>1, <3>1, <3>3 DEF Due
  <2>2. EXIT' = EXIT
    BY <1>1 DEF EXIT
  <2>3. wl # "no"
    BY <1>2, <2>1 DEF DueBeforeStarted, Children
  <2>4. DueAfterStarted(b, <<>>)'
    BY <1>1, <1>2, <2>1, <2>2, <2>3 DEF DueBeforeStarted, DueAfterStarted
  <2> QED
    BY <1>1, <2>4 DEF Due
<1> QED
  BY <1>1, <1>2, <1>3, FlowConsumes

LEMMA FlowExitRead ==
  ASSUME IInv, AwaitExit
  PROVE  Flow'
<1> USE DEF AwaitExit, initVars, procVars
<1>1. supPc = "wait" /\ SupOpen /\ TypeOK /\ Children /\ Flow
  BY DEF SupOpen, IInv
<1>2. initPc' = initPc /\ initExit' = initExit /\ wl' = wl /\ wlExit' = wlExit /\ stream' = stream /\ out' = out
  OBVIOUS
<1>e. EXIT' = EXIT
  BY <1>2 DEF EXIT
<1>3. CASE recv("sup")
  <2>1. /\ Tag("sup") = TAG_EXIT /\ parse_exit(Payload("sup")) = wlExit /\ wlExit # None
        /\ wl = "reaped" /\ got["sup"] = EXIT
    BY <1>1, <1>3, ExitArrives, StatusType DEF recv
  <2>2. fromInit' = wlExit /\ supPc' = "wait"
    BY <1>1, <1>3, <2>1 DEF recv, Eof
  <2>3. \A a, b \in Seq(Int) : IsFrame(a) /\ got["sup"] = a /\ Due(a, b) => Due(b, <<>>)'
    <3> SUFFICES ASSUME NEW a \in Seq(Int), NEW b \in Seq(Int), IsFrame(a), got["sup"] = a, Due(a, b)
                 PROVE  Due(b, <<>>)'
      OBVIOUS
    <3>1. DueAfterStarted(a, b) /\ a # <<>>
      BY <1>1, EmptySeq DEF Due, IsFrame
    <3>2. DueAfterStarted(b, <<>>)'
      BY <1>1, <1>2, <2>1, <2>2, <3>1 DEF DueAfterStarted
    <3> QED
      BY <2>2, <3>2 DEF Due
  <2> QED
    BY <1>1, <1>2, <1>3, <2>3, FlowConsumes
<1>4. CASE Eof("sup") /\ SupMoves("reap") /\ UNCHANGED got
  <2>1. initPc = "dead" /\ wl # "alive"
    BY <1>1, <1>4, EofFindsInitDead
  <2>2. PICK a, b, lost \in Seq(Int) : Carries(a, b, lost) /\ Due(a, b) /\ (initExit = Killed \/ a = <<>>)
    BY <1>1, <1>4, EofFindsInitDead
  <2>3. supPc' = "reap" /\ fromInit' = fromInit /\ got' = got
    BY <1>4 DEF SupMoves
  <2>4. DueAfterStarted(a, b)
    BY <1>1, <2>2 DEF Due
  <2>5. DueAfterStarted(a, b)'
    <3>1. initExit = Killed \/ (wl = "reaped" /\ fromInit = wlExit)
      <4>1. wl = "reaped" => EXIT # <<>>
        BY <1>1, FramesAreFrames, EmptySeq DEF Children, IsFrame
      <4> QED
        BY <2>1, <2>2, <2>4, <4>1 DEF DueAfterStarted, Supervising
    <3> QED
      BY <1>2, <1>e, <2>1, <2>3, <2>4, <3>1 DEF DueAfterStarted
  <2>6. Carries(a, b, lost)' /\ Due(a, b)'
    BY <1>2, <2>2, <2>3, <2>5 DEF Carries, ToSup, Due
  <2> QED
    BY <2>6 DEF Flow
<1> QED
  BY <1>3, <1>4

(* Init ends: it is killed, ...                                            *)
LEMMA FlowKilled ==
  ASSUME IInv, InitAlive, Ends(Killed)
  PROVE  Flow'
<1> USE DEF Ends, supVars
<1>1. TypeOK /\ Flow /\ supPc' = supPc /\ fromInit' = fromInit /\ initPc' = "dead" /\ initExit' = Killed
  BY DEF IInv
<1>2. /\ wl # "no" => wl' # "no"
      /\ wl = "reaped" => wl' = "reaped" /\ wlExit' = wlExit
  OBVIOUS
<1>3. wl = "reaped" => EXIT' = EXIT
  BY <1>2 DEF EXIT
<1>4. \A a, b \in Seq(Int) : Due(a, b) => Due(a, b)'
  <2> SUFFICES ASSUME NEW a \in Seq(Int), NEW b \in Seq(Int), Due(a, b)
               PROVE  Due(a, b)'
    OBVIOUS
  <2>1. CASE supPc \in {"clone", "drop", "ready"}
    BY <1>1, <2>1 DEF Due, DueBeforeReady, InitAlive
  <2>2. CASE supPc \in {"network", "go", "started"}
    BY <1>1, <1>2, <1>3, <2>2 DEF Due, DueBeforeStarted, InitAlive, IInv, Children
  <2>3. CASE supPc \in {"save", "wait", "reap"}
    BY <1>1, <1>2, <1>3, <2>3 DEF Due, DueAfterStarted, InitAlive
  <2> QED
    BY <1>1, <2>1, <2>2, <2>3 DEF Due
<1> QED
  BY <1>1, <1>4, FlowInitEnds

(* ... cannot be executed, ...                                             *)
LEMMA FlowExecFails ==
  ASSUME IInv, initPc = "exec", Ends(Exited(127))
  PROVE  Flow'
<1> USE DEF Ends, supVars
<1>1. TypeOK /\ Flow /\ supPc' = supPc /\ initPc' = "dead" /\ initExit' = Exited(127) /\ InitAlive
  BY DEF IInv, InitAlive
<1>2. out["init"] = <<>>
  BY DEF IInv, OneFrame
<1>3. \A a, b \in Seq(Int) : Due(a, b) => Due(a, b)'
  BY <1>1 DEF Due, DueBeforeReady, DueBeforeStarted, DueAfterStarted, Early, Announced, Supervising
<1> QED
  BY <1>1, <1>2, <1>3, FlowInitEnds

(* ... or exits by itself, having sent its error or the workload's exit.   *)
LEMMA FlowInitExits ==
  ASSUME IInv, InitExits
  PROVE  Flow'
<1>1. PICK e : Ends(e) /\ initPc \in {"failing", "sendExit"}
  BY DEF InitExits
<1> USE DEF Ends, supVars
<1>2. TypeOK /\ Flow /\ supPc' = supPc /\ fromInit' = fromInit /\ initPc' = "dead" /\ InitAlive
  BY <1>1 DEF IInv, InitAlive
<1>3. /\ wl # "no" => wl' # "no"
      /\ wl = "reaped" => wl' = "reaped" /\ wlExit' = wlExit
  BY <1>1
<1>4. wl = "reaped" => EXIT' = EXIT
  BY <1>3 DEF EXIT
<1>5. out["init"] = <<>> \/ ~SupOpen
  BY DEF InitExits, Broken, Open, Other
<1>6. \A a, b \in Seq(Int) : Due(a, b) => Due(a, b)'
  <2> SUFFICES ASSUME NEW a \in Seq(Int), NEW b \in Seq(Int), Due(a, b)
               PROVE  Due(a, b)'
    OBVIOUS
  <2>1. CASE supPc \in {"clone", "drop", "ready"}
    BY <1>1, <1>2, <2>1 DEF Due, DueBeforeReady, Early, Announced
  <2>2. CASE supPc \in {"network", "go", "started"}
    BY <1>1, <1>2, <1>3, <1>4, <2>2 DEF Due, DueBeforeStarted, Announced, Supervising
  <2>3. CASE supPc \in {"save", "wait", "reap"}
    BY <1>1, <1>2, <1>3, <1>4, <2>3 DEF Due, DueAfterStarted, Supervising
  <2> QED
    BY <1>2, <2>1, <2>2, <2>3 DEF Due
<1> QED
  BY <1>1, <1>2, <1>5, <1>6, FlowInitEnds

LEMMA NextFlow == IInv /\ [Next]_vars => Flow'
<1> SUFFICES ASSUME IInv, [Next]_vars, SupOpen' PROVE Flow'
  BY FlowEnds
<1>t. ChanTyped /\ InitTyped /\ Flow
  BY TypeParts DEF IInv
<1>c. Control /\ Children /\ OneFrame
  BY DEF IInv
<1> USE DEF SupMoves, FailLaunch, InitMoves, chanVars, supVars, initVars, procVars, sigVars
<1>1. CASE SupWrite
  <2>1. /\ SupOpen /\ Quiet
        /\ got'["sup"] = got["sup"] /\ stream'["sup"] = stream["sup"] /\ out'["init"] = out["init"]
    BY <1>1, <1>t, WriteSteps DEF IInv, SupWrite, Quiet, SupOpen, Side, Other
  <2> QED
    BY <1>t, <2>1, FlowQuiet
<1>2. CASE SupRead
  BY <1>2, FlowReads
<1>3. CASE Clone
  <2>1. /\ SupOpen /\ Quiet
        /\ got'["sup"] = got["sup"] /\ stream'["sup"] = stream["sup"] /\ out'["init"] = out["init"]
    BY <1>3, <1>t, <1>c DEF Clone, Control, Quiet, Early, Announced, Supervising, SupOpen, Launching, ChanTyped, Side
  <2> QED
    BY <1>t, <2>1, FlowQuiet
<1>4. CASE DropChildEnd
  <2>1. /\ SupOpen /\ Quiet
        /\ got'["sup"] = got["sup"] /\ stream'["sup"] = stream["sup"] /\ out'["init"] = out["init"]
    BY <1>4, <1>t, <1>c DEF DropChildEnd, Quiet, Early, Announced, Supervising, SupOpen, Launching, ChanTyped, Side
  <2> QED
    BY <1>t, <2>1, FlowQuiet
<1>5. CASE AwaitReady
  BY <1>5, FlowReadyRead
<1>6. CASE SetupHost
  <2>1. /\ SupOpen /\ Quiet
        /\ got'["sup"] = got["sup"] /\ stream'["sup"] = stream["sup"] /\ out'["init"] = out["init"]
    BY <1>6, <1>t, <1>c DEF SetupHost, send, Quiet, Early, Announced, Supervising, SupOpen, Launching, ChanTyped, Side
  <2> QED
    BY <1>t, <2>1, FlowQuiet
<1>7. CASE Go
  <2>1. /\ SupOpen /\ Quiet
        /\ got'["sup"] = got["sup"] /\ stream'["sup"] = stream["sup"] /\ out'["init"] = out["init"]
    BY <1>7, <1>t, <1>c DEF Go, Quiet, Early, Announced, Supervising, SupOpen, Launching, ChanTyped, Side
  <2> QED
    BY <1>t, <2>1, FlowQuiet
<1>8. CASE AwaitStarted
  BY <1>8, FlowStartedRead
<1>9. CASE SaveRunning
  <2>1. /\ SupOpen /\ Quiet
        /\ got'["sup"] = got["sup"] /\ stream'["sup"] = stream["sup"] /\ out'["init"] = out["init"]
    BY <1>9, <1>t, <1>c DEF SaveRunning, Quiet, Early, Announced, Supervising, SupOpen, Launching, ChanTyped, Side
  <2> QED
    BY <1>t, <2>1, FlowQuiet
<1>10. CASE UnwindKill
  BY <1>10 DEF UnwindKill, SupOpen, Launching
<1>11. CASE UnwindReap
  BY <1>11 DEF UnwindReap, SupOpen, Launching
<1>12. CASE AwaitExit
  BY <1>12, FlowExitRead
<1>13. CASE RecordExit
  BY <1>13 DEF RecordExit, Recorded, SupOpen, Launching
<1>14. CASE SupCrash
  BY <1>14 DEF SupCrash, SupOpen, Launching
<1>15. CASE InitWrite
  <2>1. SupOpen /\ Quiet /\ got' = got
    BY <1>15 DEF InitWrite, write_all, Quiet, SupOpen
  <2>2. ToSup' = ToSup
    BY <1>15, <2>1, WriteSteps DEF IInv, InitWrite, ToSup, Side, Other
  <2>3. \A a, b \in Seq(Int) : Due(a, b) => Due(a, b)'
    BY <2>1, DueKeeps
  <2> QED
    BY <1>t, <2>1, <2>2, <2>3, FlowStays DEF Quiet
<1>16. CASE InitRead
  <2>1. /\ SupOpen /\ Quiet
        /\ got'["sup"] = got["sup"] /\ stream'["sup"] = stream["sup"] /\ out'["init"] = out["init"]
    BY <1>16, <1>t, ReadSteps DEF IInv, InitRead, Quiet, SupOpen, Side
  <2> QED
    BY <1>t, <2>1, FlowQuiet
<1>17. CASE ExecInit
  <2>1. CASE InitMoves("config")
    <3>1. /\ SupOpen /\ Quiet
          /\ got'["sup"] = got["sup"] /\ stream'["sup"] = stream["sup"] /\ out'["init"] = out["init"]
      BY <2>1, <1>17, <1>t, <1>c DEF ExecInit, Quiet, Early, Announced, Supervising, SupOpen, Launching, ChanTyped, Side
    <3> QED
      BY <1>t, <3>1, FlowQuiet
  <2>2. CASE Ends(Exited(127))
    BY <2>2, <1>17, FlowExecFails DEF ExecInit
  <2> QED
    BY <1>17, <2>1, <2>2 DEF ExecInit
<1>18. CASE ReadConfig
  <2>1. CASE InitSends("ready", TAG_READY, <<>>)
    BY <2>1, <1>18, FlowReady DEF ReadConfig
  <2>2. CASE InitFails
    BY <2>2, <1>18, <1>c, FlowError DEF ReadConfig, OneFrame, Broken, Eof, Open, Other, SupOpen, InitFails, InitSends
  <2> QED
    BY <1>18, <2>1, <2>2 DEF ReadConfig
<1>19. CASE ReadySent
  <2>1. CASE InitMoves("awaitGo")
    <3>1. /\ SupOpen /\ Quiet
          /\ got'["sup"] = got["sup"] /\ stream'["sup"] = stream["sup"] /\ out'["init"] = out["init"]
      BY <2>1, <1>19, <1>t, <1>c DEF ReadySent, Quiet, Early, Announced, Supervising, SupOpen, Launching, ChanTyped, Side
    <3> QED
      BY <1>t, <3>1, FlowQuiet
  <2>2. CASE InitFails
    BY <2>2, <1>19, <1>c, FlowError DEF ReadySent, OneFrame, Broken, Eof, Open, Other, SupOpen, InitFails, InitSends
  <2> QED
    BY <1>19, <2>1, <2>2 DEF ReadySent
<1>20. CASE AwaitGo
  <2>1. CASE initPc' = "setup"
    <3>1. /\ SupOpen /\ Quiet
          /\ got'["sup"] = got["sup"] /\ stream'["sup"] = stream["sup"] /\ out'["init"] = out["init"]
      BY <2>1, <1>20, <1>t, <1>c DEF AwaitGo, recv, InitFails, InitSends, Quiet, Early, Announced, Supervising, SupOpen, Launching, ChanTyped, Side
    <3> QED
      BY <1>t, <3>1, FlowQuiet
  <2>2. CASE InitFails
    BY <2>2, <1>20, <1>c, FlowError DEF AwaitGo, OneFrame, Broken, Eof, Open, Other, SupOpen, InitFails, InitSends
  <2> QED
    BY <1>20, <2>1, <2>2 DEF AwaitGo
<1>21. CASE Setup
  <2>1. CASE InitMoves("block")
    <3>1. /\ SupOpen /\ Quiet
          /\ got'["sup"] = got["sup"] /\ stream'["sup"] = stream["sup"] /\ out'["init"] = out["init"]
      BY <2>1, <1>21, <1>t, <1>c DEF Setup, Quiet, Early, Announced, Supervising, SupOpen, Launching, ChanTyped, Side
    <3> QED
      BY <1>t, <3>1, FlowQuiet
  <2>2. CASE InitFails
    BY <2>2, <1>21, <1>c, FlowError DEF Setup, OneFrame, Broken, Eof, Open, Other, SupOpen, InitFails, InitSends
  <2> QED
    BY <1>21, <2>1, <2>2 DEF Setup
<1>22. CASE BlockSignals
  <2>1. CASE initPc' = "spawn"
    <3>1. /\ SupOpen /\ Quiet
          /\ got'["sup"] = got["sup"] /\ stream'["sup"] = stream["sup"] /\ out'["init"] = out["init"]
      BY <2>1, <1>22, <1>t, <1>c DEF BlockSignals, InitFails, InitSends, Quiet, Early, Announced, Supervising, SupOpen, Launching, ChanTyped, Side
    <3> QED
      BY <1>t, <3>1, FlowQuiet
  <2>2. CASE InitFails
    BY <2>2, <1>22, <1>c, FlowError DEF BlockSignals, OneFrame, Broken, Eof, Open, Other, SupOpen, InitFails, InitSends
  <2> QED
    BY <1>22, <2>1, <2>2 DEF BlockSignals
<1>23. CASE spawn_workload
  <2>1. CASE InitSends("started", TAG_STARTED, <<>>) /\ wl' = "alive"
    BY <2>1, <1>23, FlowStarted DEF spawn_workload
  <2>2. CASE InitFails
    BY <2>2, <1>23, <1>c, FlowError DEF spawn_workload, OneFrame, Broken, Eof, Open, Other, SupOpen, InitFails, InitSends
  <2> QED
    BY <1>23, <2>1, <2>2 DEF spawn_workload
<1>24. CASE StartedSent
  <2>1. CASE InitMoves("reap")
    <3>1. /\ SupOpen /\ Quiet
          /\ got'["sup"] = got["sup"] /\ stream'["sup"] = stream["sup"] /\ out'["init"] = out["init"]
      BY <2>1, <1>24, <1>t, <1>c DEF StartedSent, Quiet, Early, Announced, Supervising, SupOpen, Launching, ChanTyped, Side
    <3> QED
      BY <1>t, <3>1, FlowQuiet
  <2>2. CASE Broken("init") /\ InitFails
    BY <2>2 DEF Broken, Open, Other, SupOpen, InitFails, InitSends
  <2> QED
    BY <1>24, <2>1, <2>2 DEF StartedSent
<1>25. CASE ReapOne
  <2>1. /\ SupOpen /\ Quiet
        /\ got'["sup"] = got["sup"] /\ stream'["sup"] = stream["sup"] /\ out'["init"] = out["init"]
    BY <1>25, <1>t, <1>c DEF ReapOne, Quiet, Early, Announced, Supervising, SupOpen, Launching, ChanTyped, Side
  <2> QED
    BY <1>t, <2>1, FlowQuiet
<1>26. CASE SuperviseReaped
  <2>1. /\ SupOpen /\ Quiet
        /\ got'["sup"] = got["sup"] /\ stream'["sup"] = stream["sup"] /\ out'["init"] = out["init"]
    BY <1>26, <1>t, <1>c DEF SuperviseReaped, Quiet, Early, Announced, Supervising, SupOpen, Launching, ChanTyped, Side
  <2> QED
    BY <1>t, <2>1, FlowQuiet
<1>27. CASE Poll
  <2>1. /\ SupOpen /\ Quiet
        /\ got'["sup"] = got["sup"] /\ stream'["sup"] = stream["sup"] /\ out'["init"] = out["init"]
    BY <1>27, <1>t, <1>c DEF Poll, Quiet, Early, Announced, Supervising, SupOpen, Launching, ChanTyped, Side
  <2> QED
    BY <1>t, <2>1, FlowQuiet
<1>28. CASE Drained
  <2>1. /\ SupOpen /\ Quiet
        /\ got'["sup"] = got["sup"] /\ stream'["sup"] = stream["sup"] /\ out'["init"] = out["init"]
    BY <1>28, <1>t, <1>c DEF Drained, Quiet, Early, Announced, Supervising, SupOpen, Launching, ChanTyped, Side
  <2> QED
    BY <1>t, <2>1, FlowQuiet
<1>29. CASE ListRemaining
  <2>1. CASE send_exit /\ UNCHANGED procVars
    BY <2>1, <1>29, FlowExit DEF ListRemaining
  <2>2. CASE initPc' = "grace"
    <3>1. /\ SupOpen /\ Quiet
          /\ got'["sup"] = got["sup"] /\ stream'["sup"] = stream["sup"] /\ out'["init"] = out["init"]
      BY <2>2, <1>29, <1>t, <1>c DEF ListRemaining, send_exit, InitSends, Quiet, Early, Announced, Supervising, SupOpen, Launching, ChanTyped, Side
    <3> QED
      BY <1>t, <3>1, FlowQuiet
  <2> QED
    BY <1>29, <2>1, <2>2 DEF ListRemaining
<1>30. CASE GraceOver
  <2>1. CASE send_exit /\ UNCHANGED procVars
    BY <2>1, <1>30, FlowExit DEF GraceOver
  <2>2. CASE InitMoves("killRest")
    <3>1. /\ SupOpen /\ Quiet
          /\ got'["sup"] = got["sup"] /\ stream'["sup"] = stream["sup"] /\ out'["init"] = out["init"]
      BY <2>2, <1>30, <1>t, <1>c DEF GraceOver, Quiet, Early, Announced, Supervising, SupOpen, Launching, ChanTyped, Side
    <3> QED
      BY <1>t, <3>1, FlowQuiet
  <2> QED
    BY <1>30, <2>1, <2>2 DEF GraceOver
<1>31. CASE KillRest
  <2>1. CASE PidNs
    <3>1. /\ SupOpen /\ Quiet
          /\ got'["sup"] = got["sup"] /\ stream'["sup"] = stream["sup"] /\ out'["init"] = out["init"]
      BY <2>1, <1>31, <1>t, <1>c DEF KillRest, Quiet, Early, Announced, Supervising, SupOpen, Launching, ChanTyped, Side
    <3> QED
      BY <1>t, <3>1, FlowQuiet
  <2>2. CASE ~PidNs /\ Ends(Killed)
    BY <2>2, <1>31, FlowKilled DEF KillRest, InitAlive
  <2> QED
    BY <1>31, <2>1, <2>2 DEF KillRest
<1>32. CASE ReapedLast
  BY <1>32, FlowExit DEF ReapedLast
<1>33. CASE InitExits
  BY <1>33, FlowInitExits
<1>34. CASE InitKilled
  BY <1>34, FlowKilled DEF InitKilled
<1>35. ASSUME NEW e \in ExitStatus, WorkloadExits(e) PROVE Flow'
  <2>1. /\ SupOpen /\ Quiet
        /\ got'["sup"] = got["sup"] /\ stream'["sup"] = stream["sup"] /\ out'["init"] = out["init"]
    BY <1>35, <1>t, <1>c DEF WorkloadExits, Quiet, Early, Announced, Supervising, SupOpen, Launching, ChanTyped, Side
  <2> QED
    BY <1>t, <2>1, FlowQuiet
<1>36. ASSUME NEW o \in Orphan, OrphanStarts(o) PROVE Flow'
  <2>1. /\ SupOpen /\ Quiet
        /\ got'["sup"] = got["sup"] /\ stream'["sup"] = stream["sup"] /\ out'["init"] = out["init"]
    BY <1>36, <1>t, <1>c DEF OrphanStarts, Quiet, Early, Announced, Supervising, SupOpen, Launching, ChanTyped, Side
  <2> QED
    BY <1>t, <2>1, FlowQuiet
<1>37. ASSUME NEW o \in Orphan, OrphanExits(o) PROVE Flow'
  <2>1. /\ SupOpen /\ Quiet
        /\ got'["sup"] = got["sup"] /\ stream'["sup"] = stream["sup"] /\ out'["init"] = out["init"]
    BY <1>37, <1>t, <1>c DEF OrphanExits, Quiet, Early, Announced, Supervising, SupOpen, Launching, ChanTyped, Side
  <2> QED
    BY <1>t, <2>1, FlowQuiet
<1>38. ASSUME NEW g \in Signals, Forward(g) PROVE Flow'
  <2>1. /\ SupOpen /\ Quiet
        /\ got'["sup"] = got["sup"] /\ stream'["sup"] = stream["sup"] /\ out'["init"] = out["init"]
    BY <1>38, <1>t, <1>c DEF Forward, ForwardAndKeep, Quiet, Early, Announced, Supervising, SupOpen, Launching, ChanTyped, Side
  <2> QED
    BY <1>t, <2>1, FlowQuiet
<1>39. ASSUME NEW g \in Signals, SignalInit(g) PROVE Flow'
  <2>1. /\ SupOpen /\ Quiet
        /\ got'["sup"] = got["sup"] /\ stream'["sup"] = stream["sup"] /\ out'["init"] = out["init"]
    BY <1>39, <1>t, <1>c DEF SignalInit, Quiet, Early, Announced, Supervising, SupOpen, Launching, ChanTyped, Side
  <2> QED
    BY <1>t, <2>1, FlowQuiet
<1>40. CASE UNCHANGED vars
  <2>1. /\ SupOpen /\ Quiet
        /\ got'["sup"] = got["sup"] /\ stream'["sup"] = stream["sup"] /\ out'["init"] = out["init"]
    BY <1>40 DEF vars, Quiet, SupOpen
  <2> QED
    BY <1>t, <2>1, FlowQuiet
<1> QED
  BY <1>1, <1>2, <1>3, <1>4, <1>5, <1>6, <1>7, <1>8, <1>9, <1>10, <1>11, <1>12, <1>13, <1>14, <1>15, <1>16, <1>17, <1>18, <1>19, <1>20, <1>21, <1>22, <1>23, <1>24, <1>25, <1>26, <1>27, <1>28, <1>29, <1>30, <1>31, <1>32, <1>33, <1>34, <1>35, <1>36, <1>37, <1>38, <1>39, <1>40 DEF Next, SupStep, InitStep


LEMMA NextType == IInv /\ [Next]_vars => TypeOK'
<1> SUFFICES ASSUME IInv, [Next]_vars PROVE TypeOK'
  OBVIOUS
<1>1. ChanTyped' /\ SupTyped' /\ InitTyped'
  BY NextChanTyped, NextSupTyped, NextInitTyped
<1> QED
  BY <1>1 DEF TypeOK, ChanTyped, SupTyped, InitTyped

LEMMA InitInv == Init => IInv
<1> SUFFICES ASSUME Init PROVE IInv
  OBVIOUS
<1>0. <<>> \in Seq(Int) /\ <<>> \o <<>> = <<>> /\ Len(<<>>) = 0
  BY EmptySeq, ConcatEmptySeq
<1>1. ChanTyped
  BY <1>0 DEF Init, ChanTyped
<1>2. SupTyped
  BY DEF Init, SupTyped, SupPc, Launching
<1>3. InitTyped
  <2>1. 0 \in 0..MaxSignals
    BY HandshakeAssumption
  <2> QED
    BY <2>1 DEF Init, InitTyped, InitPc
<1>4. Control /\ GoFollowsNetwork /\ OneFrame /\ Children
  BY DEF Init, Control, Launching, GoFollowsNetwork, Supervising, OneFrame, Children, Early, Announced, Side
<1>5. Flow
  <2>1. got["sup"] = <<>> /\ ToSup = <<>>
    BY <1>0 DEF Init, ToSup, Side
  <2>2. Carries(<<>>, <<>>, <<>>)
    BY <1>0, <2>1 DEF Carries
  <2>3. Due(<<>>, <<>>)
    BY DEF Init, Due, DueBeforeReady, Early
  <2> QED
    BY <1>0, <2>2, <2>3 DEF Flow
<1> QED
  BY <1>1, <1>2, <1>3, <1>4, <1>5, TypeParts DEF IInv

LEMMA NextInv == IInv /\ [Next]_vars => IInv'
  BY NextType, NextControl, NextGo, NextOneFrame, NextChildren, NextFlow DEF IInv

(* The inductive invariant holds in every interleaving of supervisor, init *)
(* and workload, wherever one of them is killed.                           *)
THEOREM InvHolds == Spec => []IInv
  BY InitInv, NextInv, PTL DEF Spec

(* Type correctness.                                                       *)
THEOREM TypeCorrect == Spec => []TypeOK
<1>1. IInv => TypeOK
  BY DEF IInv
<1> QED
  BY <1>1, InvHolds, PTL

-----------------------------------------------------------------------------
(* A failed launch is explained.                                           *)

(* While it launches, the supervisor reads the word it waits for or an     *)
(* error, ...                                                              *)
LEMMA WordIsExpected ==
  ASSUME IInv, Complete(got["sup"])
  PROVE  /\ supPc = "ready" => Tag("sup") \in {TAG_READY, TAG_ERROR}
         /\ supPc = "started" => Tag("sup") \in {TAG_STARTED, TAG_ERROR}
<1> SUFFICES ASSUME supPc \in {"ready", "started"}
             PROVE  /\ supPc = "ready" => Tag("sup") \in {TAG_READY, TAG_ERROR}
                    /\ supPc = "started" => Tag("sup") \in {TAG_STARTED, TAG_ERROR}
  OBVIOUS
<1>1. SupOpen /\ TypeOK /\ Children /\ Flow
  BY DEF SupOpen, Launching, IInv
<1>2. PICK a, b, lost \in Seq(Int) : Carries(a, b, lost) /\ Due(a, b)
  BY <1>1 DEF Flow
<1>3. got["sup"] = a /\ IsFrame(a)
  BY <1>1, <1>2, Consume, DueAreFrames
<1>4. a # <<>>
  BY <1>3, EmptySeq DEF IsFrame
<1>5. supPc = "ready" => a \in {READY, ERROR}
  BY <1>2, <1>4 DEF Due, DueBeforeReady
<1>6. supPc = "started" => a \in {STARTED, ERROR}
  BY <1>2, <1>4 DEF Due, DueBeforeStarted
<1> QED
  BY <1>3, <1>5, <1>6, FramesAreFrames DEF Tag

(* ... and it finds the end of file only after a SIGKILL or a failed exec. *)
LEMMA EofIsExplained ==
  ASSUME IInv, supPc \in {"ready", "started"}, Eof("sup")
  PROVE  initPc = "dead" /\ initExit \in {Killed, Exited(127)}
<1>1. SupOpen /\ supPc # "clone"
  BY DEF SupOpen, Launching
<1>2. initPc = "dead"
  BY <1>1, EofFindsInitDead
<1>3. PICK a, b, lost \in Seq(Int) : Due(a, b) /\ (initExit = Killed \/ a = <<>>)
  BY <1>1, EofFindsInitDead
<1>4. READY # <<>> /\ STARTED # <<>> /\ ERROR # <<>>
  <2>1. IsFrame(READY) /\ IsFrame(STARTED) /\ IsFrame(ERROR)
    BY FramesAreFrames
  <2> QED
    BY <2>1, FrameHasHead
<1> QED
  BY <1>2, <1>3, <1>4 DEF Due, DueBeforeReady, DueBeforeStarted, Early, Announced, Supervising

LEMMA NextExplained == IInv /\ Explained /\ [Next]_vars => Explained'
<1> SUFFICES ASSUME IInv, Explained, [Next]_vars PROVE Explained'
  OBVIOUS
<1>0. Control
  BY DEF IInv
<1> USE DEF Explained, SupMoves, FailLaunch, InitMoves, InitSends, InitFails, send_exit, Ends, recv, Recorded,
            chanVars, supVars, initVars, procVars, sigVars, InitAlive

<1>1. CASE SupWrite
  BY <1>1 DEF SupWrite
<1>2. CASE SupRead
  BY <1>2 DEF SupRead
<1>3. CASE Clone
  BY <1>3, <1>0 DEF Clone, Control
<1>4. CASE DropChildEnd
  BY <1>4 DEF DropChildEnd
<1>5. CASE AwaitReady
  BY <1>5, WordIsExpected, EofIsExplained DEF AwaitReady, expect
<1>6. CASE SetupHost
  BY <1>6 DEF SetupHost
<1>7. CASE Go
  BY <1>7 DEF Go
<1>8. CASE AwaitStarted
  BY <1>8, WordIsExpected, EofIsExplained DEF AwaitStarted, expect
<1>9. CASE SaveRunning
  BY <1>9 DEF SaveRunning
<1>10. CASE UnwindKill
  BY <1>10 DEF UnwindKill
<1>11. CASE UnwindReap
  BY <1>11 DEF UnwindReap
<1>12. CASE AwaitExit
  BY <1>12 DEF AwaitExit
<1>13. CASE RecordExit
  BY <1>13 DEF RecordExit, Recorded
<1>14. CASE SupCrash
  BY <1>14 DEF SupCrash
<1>15. CASE InitWrite
  BY <1>15 DEF InitWrite
<1>16. CASE InitRead
  BY <1>16 DEF InitRead
<1>17. CASE ExecInit
  BY <1>17 DEF ExecInit
<1>18. CASE ReadConfig
  BY <1>18 DEF ReadConfig
<1>19. CASE ReadySent
  BY <1>19 DEF ReadySent
<1>20. CASE AwaitGo
  BY <1>20 DEF AwaitGo, recv
<1>21. CASE Setup
  BY <1>21 DEF Setup
<1>22. CASE BlockSignals
  BY <1>22 DEF BlockSignals
<1>23. CASE spawn_workload
  BY <1>23 DEF spawn_workload
<1>24. CASE StartedSent
  BY <1>24 DEF StartedSent
<1>25. CASE ReapOne
  BY <1>25 DEF ReapOne, Zombies
<1>26. CASE SuperviseReaped
  BY <1>26 DEF SuperviseReaped
<1>27. CASE Poll
  BY <1>27 DEF Poll
<1>28. CASE Drained
  BY <1>28 DEF Drained
<1>29. CASE ListRemaining
  BY <1>29 DEF ListRemaining, send_exit, Listed
<1>30. CASE GraceOver
  BY <1>30 DEF GraceOver, send_exit
<1>31. CASE KillRest
  BY <1>31 DEF KillRest
<1>32. CASE ReapedLast
  BY <1>32 DEF ReapedLast, send_exit
<1>33. CASE InitExits
  BY <1>33 DEF InitExits
<1>34. CASE InitKilled
  BY <1>34 DEF InitKilled
<1>35. ASSUME NEW e \in ExitStatus, WorkloadExits(e) PROVE Explained'
  BY <1>35 DEF WorkloadExits
<1>36. ASSUME NEW o \in Orphan, OrphanStarts(o) PROVE Explained'
  BY <1>36 DEF OrphanStarts
<1>37. ASSUME NEW o \in Orphan, OrphanExits(o) PROVE Explained'
  BY <1>37 DEF OrphanExits
<1>38. ASSUME NEW g \in Signals, Forward(g) PROVE Explained'
  BY <1>38 DEF Forward, ForwardAndKeep
<1>39. ASSUME NEW g \in Signals, SignalInit(g) PROVE Explained'
  BY <1>39 DEF SignalInit
<1>40. CASE UNCHANGED vars
  BY <1>40 DEF vars
<1> QED
  BY <1>1, <1>2, <1>3, <1>4, <1>5, <1>6, <1>7, <1>8, <1>9, <1>10, <1>11, <1>12, <1>13, <1>14, <1>15, <1>16, <1>17, <1>18, <1>19, <1>20, <1>21, <1>22, <1>23, <1>24, <1>25, <1>26, <1>27, <1>28, <1>29, <1>30, <1>31, <1>32, <1>33, <1>34, <1>35, <1>36, <1>37, <1>38, <1>39, <1>40 DEF Next, SupStep, InitStep


(* Launch says that init exited without a word, or sent the wrong one,     *)
(* only if init was killed or could not be executed (supervisor::launch,   *)
(* ipc::expect).                                                           *)
THEOREM FailuresAreExplained == Spec => []FailureIsExplained
<1>1. Init => Explained
  BY NoneIsNoValue DEF Init, Explained, Reasons
<1>2. Explained => FailureIsExplained
  BY DEF Explained, FailureIsExplained
<1> QED
  BY <1>1, <1>2, InvHolds, NextExplained, PTL DEF Spec

-----------------------------------------------------------------------------
(* Signals.                                                                *)

(* A container is recorded as running only when its workload has been      *)
(* forked, and by then init's signals are blocked.                         *)
Listening == (status = "Running" => wl # "no") /\ ~discarded

LEMMA NextListening == IInv /\ Listening /\ [Next]_vars => Listening'
<1> SUFFICES ASSUME IInv, Listening, [Next]_vars PROVE Listening'
  OBVIOUS
<1>0. Children
  BY DEF IInv
<1>w. supPc = "save" => wl # "no"
  <2> SUFFICES ASSUME supPc = "save" PROVE wl # "no"
    OBVIOUS
  <2>1. SupOpen
    BY DEF SupOpen, Launching
  <2> QED
    BY <2>1 DEF IInv, Flow, Due, DueAfterStarted
<1> USE DEF Listening, SupMoves, FailLaunch, InitMoves, InitSends, InitFails, send_exit, Ends, recv, Recorded,
            chanVars, supVars, initVars, procVars, sigVars

<1>1. CASE SupWrite
  BY <1>1 DEF SupWrite
<1>2. CASE SupRead
  BY <1>2 DEF SupRead
<1>3. CASE Clone
  BY <1>3 DEF Clone
<1>4. CASE DropChildEnd
  BY <1>4 DEF DropChildEnd
<1>5. CASE AwaitReady
  BY <1>5 DEF AwaitReady, expect, recv
<1>6. CASE SetupHost
  BY <1>6 DEF SetupHost
<1>7. CASE Go
  BY <1>7 DEF Go
<1>8. CASE AwaitStarted
  BY <1>8 DEF AwaitStarted, expect, recv
<1>9. CASE SaveRunning
  BY <1>9, <1>w DEF SaveRunning
<1>10. CASE UnwindKill
  BY <1>10 DEF UnwindKill
<1>11. CASE UnwindReap
  BY <1>11 DEF UnwindReap
<1>12. CASE AwaitExit
  BY <1>12 DEF AwaitExit
<1>13. CASE RecordExit
  BY <1>13 DEF RecordExit, Recorded
<1>14. CASE SupCrash
  BY <1>14 DEF SupCrash
<1>15. CASE InitWrite
  BY <1>15 DEF InitWrite
<1>16. CASE InitRead
  BY <1>16 DEF InitRead
<1>17. CASE ExecInit
  BY <1>17 DEF ExecInit
<1>18. CASE ReadConfig
  BY <1>18 DEF ReadConfig
<1>19. CASE ReadySent
  BY <1>19 DEF ReadySent
<1>20. CASE AwaitGo
  BY <1>20 DEF AwaitGo, recv
<1>21. CASE Setup
  BY <1>21 DEF Setup
<1>22. CASE BlockSignals
  BY <1>22 DEF BlockSignals
<1>23. CASE spawn_workload
  BY <1>23 DEF spawn_workload
<1>24. CASE StartedSent
  BY <1>24 DEF StartedSent
<1>25. CASE ReapOne
  BY <1>25 DEF ReapOne, Zombies
<1>26. CASE SuperviseReaped
  BY <1>26 DEF SuperviseReaped
<1>27. CASE Poll
  BY <1>27 DEF Poll
<1>28. CASE Drained
  BY <1>28 DEF Drained
<1>29. CASE ListRemaining
  BY <1>29 DEF ListRemaining, send_exit, Listed
<1>30. CASE GraceOver
  BY <1>30 DEF GraceOver, send_exit
<1>31. CASE KillRest
  BY <1>31 DEF KillRest
<1>32. CASE ReapedLast
  BY <1>32 DEF ReapedLast, send_exit
<1>33. CASE InitExits
  BY <1>33 DEF InitExits
<1>34. CASE InitKilled
  BY <1>34 DEF InitKilled
<1>35. ASSUME NEW e \in ExitStatus, WorkloadExits(e) PROVE Listening'
  BY <1>35 DEF WorkloadExits
<1>36. ASSUME NEW o \in Orphan, OrphanStarts(o) PROVE Listening'
  BY <1>36 DEF OrphanStarts
<1>37. ASSUME NEW o \in Orphan, OrphanExits(o) PROVE Listening'
  BY <1>37 DEF OrphanExits
<1>38. ASSUME NEW g \in Signals, Forward(g) PROVE Listening'
  BY <1>38 DEF Forward, ForwardAndKeep
<1>39. ASSUME NEW g \in Signals, SignalInit(g) PROVE Listening'
  BY <1>39, <1>0 DEF SignalInit, Children
<1>40. CASE UNCHANGED vars
  BY <1>40 DEF vars
<1> QED
  BY <1>1, <1>2, <1>3, <1>4, <1>5, <1>6, <1>7, <1>8, <1>9, <1>10, <1>11, <1>12, <1>13, <1>14, <1>15, <1>16, <1>17, <1>18, <1>19, <1>20, <1>21, <1>22, <1>23, <1>24, <1>25, <1>26, <1>27, <1>28, <1>29, <1>30, <1>31, <1>32, <1>33, <1>34, <1>35, <1>36, <1>37, <1>38, <1>39, <1>40 DEF Next, SupStep, InitStep


(* No signal of myrun kill or stop finds an init that has not blocked it.  *)
THEOREM SignalsAreKept == Spec => []NoSignalDiscarded
<1>1. Init => Listening
  BY DEF Init, Listening
<1>2. Listening => NoSignalDiscarded
  BY DEF Listening, NoSignalDiscarded
<1> QED
  BY <1>1, <1>2, InvHolds, NextListening, PTL DEF Spec

LEMMA NextInside == PidNs /\ IInv /\ NoForeignSignal /\ [Next]_vars => NoForeignSignal'
<1> SUFFICES ASSUME PidNs, IInv, NoForeignSignal, [Next]_vars PROVE NoForeignSignal'
  OBVIOUS
<1>0. Children /\ Control
  BY DEF IInv
<1> USE DEF NoForeignSignal, SupMoves, FailLaunch, InitMoves, InitSends, InitFails, send_exit, Ends, recv, Recorded,
            chanVars, supVars, initVars, procVars, sigVars

<1>1. CASE SupWrite
  BY <1>1 DEF SupWrite
<1>2. CASE SupRead
  BY <1>2 DEF SupRead
<1>3. CASE Clone
  BY <1>3, <1>0 DEF Clone, Control
<1>4. CASE DropChildEnd
  BY <1>4 DEF DropChildEnd
<1>5. CASE AwaitReady
  BY <1>5 DEF AwaitReady, expect, recv
<1>6. CASE SetupHost
  BY <1>6 DEF SetupHost
<1>7. CASE Go
  BY <1>7 DEF Go
<1>8. CASE AwaitStarted
  BY <1>8 DEF AwaitStarted, expect, recv
<1>9. CASE SaveRunning
  BY <1>9 DEF SaveRunning
<1>10. CASE UnwindKill
  BY <1>10 DEF UnwindKill
<1>11. CASE UnwindReap
  BY <1>11 DEF UnwindReap
<1>12. CASE AwaitExit
  BY <1>12 DEF AwaitExit
<1>13. CASE RecordExit
  BY <1>13 DEF RecordExit, Recorded
<1>14. CASE SupCrash
  BY <1>14 DEF SupCrash
<1>15. CASE InitWrite
  BY <1>15 DEF InitWrite
<1>16. CASE InitRead
  BY <1>16 DEF InitRead
<1>17. CASE ExecInit
  BY <1>17 DEF ExecInit
<1>18. CASE ReadConfig
  BY <1>18 DEF ReadConfig
<1>19. CASE ReadySent
  BY <1>19 DEF ReadySent
<1>20. CASE AwaitGo
  BY <1>20 DEF AwaitGo, recv
<1>21. CASE Setup
  BY <1>21 DEF Setup
<1>22. CASE BlockSignals
  BY <1>22 DEF BlockSignals
<1>23. CASE spawn_workload
  BY <1>23 DEF spawn_workload
<1>24. CASE StartedSent
  BY <1>24 DEF StartedSent
<1>25. CASE ReapOne
  BY <1>25 DEF ReapOne, Zombies
<1>26. CASE SuperviseReaped
  BY <1>26 DEF SuperviseReaped
<1>27. CASE Poll
  BY <1>27 DEF Poll
<1>28. CASE Drained
  BY <1>28 DEF Drained
<1>29. CASE ListRemaining
  <2>1. ~foreign /\ ~stale
    BY <1>29 DEF ListRemaining
  <2>2. ~foreign' /\ stale' = stale
    <3>1. CASE send_exit
      BY <2>1, <3>1
    <3>2. CASE foreign' = (foreign \/ ~PidNs) /\ UNCHANGED stale
      BY <2>1, <3>2
    <3> QED
      BY <1>29, <3>1, <3>2 DEF ListRemaining
  <2> QED
    BY <2>1, <2>2
<1>30. CASE GraceOver
  BY <1>30 DEF GraceOver, send_exit
<1>31. CASE KillRest
  BY <1>31, <1>0 DEF KillRest, Children
<1>32. CASE ReapedLast
  BY <1>32 DEF ReapedLast, send_exit
<1>33. CASE InitExits
  BY <1>33 DEF InitExits
<1>34. CASE InitKilled
  BY <1>34 DEF InitKilled
<1>35. ASSUME NEW e \in ExitStatus, WorkloadExits(e) PROVE NoForeignSignal'
  BY <1>35 DEF WorkloadExits
<1>36. ASSUME NEW o \in Orphan, OrphanStarts(o) PROVE NoForeignSignal'
  BY <1>36 DEF OrphanStarts
<1>37. ASSUME NEW o \in Orphan, OrphanExits(o) PROVE NoForeignSignal'
  BY <1>37 DEF OrphanExits
<1>38. ASSUME NEW g \in Signals, Forward(g) PROVE NoForeignSignal'
  BY <1>38, <1>0 DEF Forward, ForwardAndKeep, Children
<1>39. ASSUME NEW g \in Signals, SignalInit(g) PROVE NoForeignSignal'
  BY <1>39 DEF SignalInit
<1>40. CASE UNCHANGED vars
  BY <1>40 DEF vars
<1> QED
  BY <1>1, <1>2, <1>3, <1>4, <1>5, <1>6, <1>7, <1>8, <1>9, <1>10, <1>11, <1>12, <1>13, <1>14, <1>15, <1>16, <1>17, <1>18, <1>19, <1>20, <1>21, <1>22, <1>23, <1>24, <1>25, <1>26, <1>27, <1>28, <1>29, <1>30, <1>31, <1>32, <1>33, <1>34, <1>35, <1>36, <1>37, <1>38, <1>39, <1>40 DEF Next, SupStep, InitStep


(* In a pid namespace of its own, init signals no process of the host and  *)
(* forwards nothing to a workload it has reaped (init::supervise); pids    *)
(* reaped in the grace period are signalled only by the last SIGKILL of    *)
(* init::shutdown_remaining, after the workload and right before init ends.*)
THEOREM SignalsStayInside ==
  ASSUME PidNs
  PROVE  Spec => []NoForeignSignal
<1>1. Init => NoForeignSignal
  BY DEF Init, NoForeignSignal
<1>2. IInv /\ NoForeignSignal /\ [Next]_vars => NoForeignSignal'
  BY NextInside
<1> QED
  BY <1>1, <1>2, InvHolds, PTL DEF Spec

-----------------------------------------------------------------------------
(* The protocol implements a session, step by step.                        *)

SessionStep == S!Next \/ UNCHANGED S!vars

(* Before the container is called running, giving up or dying is a failure *)
(* of the session; ...                                                     *)
LEMMA GivesUp ==
  ASSUME Control, supPc \in Launching, supPc' \notin Launching, status' = status,
         netReady' = netReady, wl' = wl, wlExit' = wlExit, recorded' = recorded
  PROVE  SessionStep
<1>1. Verdict = "starting" /\ Verdict' = "failed"
  BY DEF Control, Verdict
<1>2. WorkloadSeen' = WorkloadSeen
  BY DEF WorkloadSeen
<1> QED
  BY <1>1, <1>2 DEF SessionStep, S!Next, S!DeclareFailed

(* ... a step of which the session sees nothing; ...                       *)
LEMMA Unseen ==
  ASSUME status' = status, netReady' = netReady, wlExit' = wlExit, recorded' = recorded,
         supPc' \in Launching <=> supPc \in Launching,
         wl' = wl \/ (wl = "zombie" /\ wl' = "reaped")
  PROVE  SessionStep
<1>1. Verdict' = Verdict /\ WorkloadSeen' = WorkloadSeen
  BY DEF Verdict, WorkloadSeen
<1> QED
  BY <1>1 DEF SessionStep, S!vars

(* ... and the end of init is the end of a workload that it takes along.   *)
LEMMA EndIsSeen ==
  ASSUME NEW e, Ends(e)
  PROVE  SessionStep
<1> USE DEF Ends, supVars
<1>1. CASE PidNs /\ wl = "alive"
  <2>1. WorkloadSeen = "running" /\ WorkloadSeen' = "ended" /\ wlExit' = Killed
    BY <1>1 DEF WorkloadSeen
  <2>2. Verdict' = Verdict /\ netReady' = netReady /\ recorded' = recorded
    BY DEF Verdict
  <2>3. \E x \in ExitStatus : S!End(x)
    BY <2>1, <2>2, StatusType DEF S!End
  <2> QED
    BY <2>3 DEF SessionStep, S!Next
<1>2. CASE ~(PidNs /\ wl = "alive")
  BY <1>2, Unseen
<1> QED
  BY <1>1, <1>2

LEMMA NextSession == IInv /\ [Next]_vars => SessionStep
<1> SUFFICES ASSUME IInv, [Next]_vars PROVE SessionStep
  OBVIOUS
<1>0. Control
  BY DEF IInv
<1> USE DEF SupMoves, FailLaunch, InitMoves, InitSends, InitFails, send_exit, recv,
            chanVars, supVars, initVars, procVars, sigVars

<1>1. CASE SupWrite
  BY <1>1, Unseen DEF SupWrite
<1>2. CASE SupRead
  BY <1>2, Unseen DEF SupRead
<1>3. CASE Clone
  <2>1. CASE supPc' \in Launching
    BY <1>3, <2>1, Unseen DEF Clone, Launching
  <2>2. CASE supPc' \notin Launching
    BY <1>3, <2>2, <1>0, GivesUp DEF Clone, Launching
  <2> QED
    BY <1>3, <2>1, <2>2 DEF Clone, Launching
<1>4. CASE DropChildEnd
  <2>1. CASE supPc' \in Launching
    BY <1>4, <2>1, Unseen DEF DropChildEnd, Launching
  <2>2. CASE supPc' \notin Launching
    BY <1>4, <2>2, <1>0, GivesUp DEF DropChildEnd, Launching
  <2> QED
    BY <1>4, <2>1, <2>2 DEF DropChildEnd, Launching
<1>5. CASE AwaitReady
  <2>1. CASE supPc' \in Launching
    BY <1>5, <2>1, Unseen DEF AwaitReady, expect, Launching
  <2>2. CASE supPc' \notin Launching
    BY <1>5, <2>2, <1>0, GivesUp DEF AwaitReady, expect, Launching
  <2> QED
    BY <1>5, <2>1, <2>2 DEF AwaitReady, expect, Launching
<1>6. CASE SetupHost
  <2>1. CASE netReady' = TRUE /\ supPc' = "go" /\ UNCHANGED <<status, recorded, wl, wlExit>>
    <3>1. Verdict = "starting" /\ Verdict' = "starting" /\ WorkloadSeen' = WorkloadSeen
      BY <1>6, <2>1, <1>0 DEF SetupHost, Verdict, WorkloadSeen, Control, Launching
    <3> QED
      BY <2>1, <3>1 DEF SessionStep, S!Next, S!HostReady
  <2>2. CASE supPc' \notin Launching
    BY <1>6, <2>2, <1>0, GivesUp DEF SetupHost, Launching
  <2> QED
    BY <1>6, <2>1, <2>2 DEF SetupHost, Launching
<1>7. CASE Go
  <2>1. CASE supPc' \in Launching
    BY <1>7, <2>1, Unseen DEF Go, Launching
  <2>2. CASE supPc' \notin Launching
    BY <1>7, <2>2, <1>0, GivesUp DEF Go, Launching
  <2> QED
    BY <1>7, <2>1, <2>2 DEF Go, Launching
<1>8. CASE AwaitStarted
  <2>1. CASE supPc' \in Launching
    BY <1>8, <2>1, Unseen DEF AwaitStarted, expect, Launching
  <2>2. CASE supPc' \notin Launching
    BY <1>8, <2>2, <1>0, GivesUp DEF AwaitStarted, expect, Launching
  <2> QED
    BY <1>8, <2>1, <2>2 DEF AwaitStarted, expect, Launching
<1>9. CASE SaveRunning
  <2>1. CASE status' = "Running" /\ UNCHANGED <<netReady, recorded, wl, wlExit>>
    <3>1. wl # "no"
      BY <1>9 DEF SaveRunning, IInv, Flow, SupOpen, Launching, Due, DueAfterStarted
    <3>2. Verdict = "starting" /\ Verdict' = "running" /\ WorkloadSeen' = WorkloadSeen /\ WorkloadSeen # "none"
      BY <1>9, <2>1, <3>1, <1>0 DEF SaveRunning, Verdict, WorkloadSeen, Control, Launching
    <3> QED
      BY <2>1, <3>2 DEF SessionStep, S!Next, S!DeclareRunning
  <2>2. CASE supPc' \notin Launching /\ UNCHANGED status
    BY <1>9, <2>2, <1>0, GivesUp DEF SaveRunning, Launching
  <2> QED
    BY <1>9, <2>1, <2>2 DEF SaveRunning, Launching
<1>10. CASE UnwindKill
  BY <1>10, Unseen DEF UnwindKill
<1>11. CASE UnwindReap
  BY <1>11, Unseen DEF UnwindReap, Launching
<1>12. CASE AwaitExit
  BY <1>12, Unseen DEF AwaitExit, Launching
<1>13. CASE RecordExit
  <2>1. supPc = "reap" /\ status' = "Stopped" /\ UNCHANGED <<netReady, wl, wlExit>>
    BY <1>13 DEF RecordExit, Recorded
  <2>2. /\ wl \in {"zombie", "reaped"} /\ fromInit \in {None, wlExit} /\ wlExit # None
        /\ initExit = Killed \/ fromInit = wlExit
    BY <2>1, ReapKnows, StatusType
  <2>3. recorded' \in {wlExit, Killed}
    BY <1>13, <2>2 DEF RecordExit, Recorded
  <2>4. Verdict = "running" /\ Verdict' = "ended" /\ WorkloadSeen = "ended" /\ WorkloadSeen' = "ended"
    BY <2>1, <2>2, <1>0 DEF Verdict, WorkloadSeen, Control
  <2> QED
    BY <2>1, <2>3, <2>4 DEF SessionStep, S!Next, S!Record
<1>14. CASE SupCrash
  <2>1. CASE supPc \in Launching
    BY <1>14, <2>1, <1>0, GivesUp DEF SupCrash, Launching
  <2>2. CASE supPc \notin Launching
    BY <1>14, <2>2, Unseen DEF SupCrash, Launching
  <2> QED
    BY <2>1, <2>2
<1>15. CASE InitWrite
  BY <1>15, Unseen DEF InitWrite
<1>16. CASE InitRead
  BY <1>16, Unseen DEF InitRead
<1>17. CASE ExecInit
  BY <1>17, Unseen, EndIsSeen DEF ExecInit
<1>18. CASE ReadConfig
  BY <1>18, Unseen DEF ReadConfig
<1>19. CASE ReadySent
  BY <1>19, Unseen DEF ReadySent
<1>20. CASE AwaitGo
  BY <1>20, Unseen DEF AwaitGo, recv
<1>21. CASE Setup
  BY <1>21, Unseen DEF Setup
<1>22. CASE BlockSignals
  BY <1>22, Unseen DEF BlockSignals
<1>23. CASE spawn_workload
  <2>1. CASE wl' = "alive" /\ UNCHANGED <<wlExit, netReady, status, supPc, recorded>>
    <3>1. wl = "no" /\ netReady
      BY <1>23 DEF spawn_workload, IInv, Children, Announced, GoFollowsNetwork
    <3>2. WorkloadSeen = "none" /\ WorkloadSeen' = "running" /\ Verdict' = Verdict
      BY <2>1, <3>1 DEF WorkloadSeen, Verdict
    <3> QED
      BY <2>1, <3>1, <3>2 DEF SessionStep, S!Next, S!Start
  <2>2. CASE InitFails
    BY <2>2, Unseen
  <2> QED
    BY <1>23, <2>1, <2>2 DEF spawn_workload
<1>24. CASE StartedSent
  BY <1>24, Unseen DEF StartedSent
<1>25. CASE ReapOne
  BY <1>25, Unseen DEF ReapOne, Zombies
<1>26. CASE SuperviseReaped
  BY <1>26, Unseen DEF SuperviseReaped
<1>27. CASE Poll
  BY <1>27, Unseen DEF Poll
<1>28. CASE Drained
  BY <1>28, Unseen DEF Drained
<1>29. CASE ListRemaining
  BY <1>29, Unseen DEF ListRemaining, send_exit, Listed
<1>30. CASE GraceOver
  BY <1>30, Unseen DEF GraceOver, send_exit
<1>31. CASE KillRest
  BY <1>31, Unseen, EndIsSeen DEF KillRest
<1>32. CASE ReapedLast
  BY <1>32, Unseen DEF ReapedLast, send_exit
<1>33. CASE InitExits
  BY <1>33, EndIsSeen DEF InitExits
<1>34. CASE InitKilled
  BY <1>34, EndIsSeen DEF InitKilled
<1>35. ASSUME NEW e \in ExitStatus, WorkloadExits(e) PROVE SessionStep
  <2>1. WorkloadSeen = "running" /\ WorkloadSeen' = "ended" /\ wlExit' = e
    BY <1>35 DEF WorkloadExits, WorkloadSeen
  <2>2. Verdict' = Verdict /\ netReady' = netReady /\ recorded' = recorded
    BY <1>35 DEF WorkloadExits, Verdict
  <2>3. S!End(e)
    BY <2>1, <2>2 DEF S!End
  <2> QED
    BY <2>3 DEF SessionStep, S!Next
<1>36. ASSUME NEW o \in Orphan, OrphanStarts(o) PROVE SessionStep
  BY <1>36, Unseen DEF OrphanStarts
<1>37. ASSUME NEW o \in Orphan, OrphanExits(o) PROVE SessionStep
  BY <1>37, Unseen DEF OrphanExits
<1>38. ASSUME NEW g \in Signals, Forward(g) PROVE SessionStep
  BY <1>38, Unseen DEF Forward, ForwardAndKeep
<1>39. ASSUME NEW g \in Signals, SignalInit(g) PROVE SessionStep
  BY <1>39, Unseen DEF SignalInit
<1>40. CASE UNCHANGED vars
  BY <1>40, Unseen DEF vars
<1> QED
  BY <1>1, <1>2, <1>3, <1>4, <1>5, <1>6, <1>7, <1>8, <1>9, <1>10, <1>11, <1>12, <1>13, <1>14, <1>15, <1>16, <1>17, <1>18, <1>19, <1>20, <1>21, <1>22, <1>23, <1>24, <1>25, <1>26, <1>27, <1>28, <1>29, <1>30, <1>31, <1>32, <1>33, <1>34, <1>35, <1>36, <1>37, <1>38, <1>39, <1>40 DEF Next, SupStep, InitStep


(* The handshake implements a session: the workload starts only when the   *)
(* host's side is ready, the container is called running only when it has  *)
(* started, and the exit recorded is the workload's or a SIGKILL.          *)
THEOREM SessionIsImplemented == Spec => ImplementsSession
<1>1. Init => S!Init
  BY DEF Init, S!Init, WorkloadSeen, Verdict, Launching
<1>2. IInv /\ [Next]_vars => [S!Next]_S!vars
  BY NextSession DEF SessionStep
<1> QED
  BY <1>1, <1>2, InvHolds, PTL DEF Spec, ImplementsSession, S!Spec
=============================================================================
