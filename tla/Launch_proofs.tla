--------------------------- MODULE Launch_proofs ---------------------------
(***************************************************************************)
(* Proofs about Launch, for every leftover of an earlier crash and every   *)
(* pattern of failing removals: type correctness, and that neither a       *)
(* failed launch nor a stopped container leaves anything behind that the   *)
(* kernel did not refuse to remove.                                        *)
(***************************************************************************)
EXTENDS Launch, SequenceTheorems, TLAPS

Launching == {"cgroup", "clone", "cloned", "ready", "lease", "veth", "attach",
              "publish", "network", "go", "save"}

(* What the operators on sequences return, for any set of elements.        *)
LEMMA SequenceFacts ==
  ASSUME NEW S, NEW s \in Seq(S)
  PROVE  /\ << >> \in Seq(S)
         /\ \A x \in S : Append(s, x) \in Seq(S)
         /\ s # << >> => /\ s[Len(s)] \in S /\ SubSeq(s, 1, Len(s) - 1) \in Seq(S)
                        /\ Head(s) \in S /\ Tail(s) \in Seq(S)
  OBVIOUS

(* Every undo action is a short list of primitives.                        *)
LEMMA PrimitivesType ==
  /\ \A n \in Undos : Primitives(n) \in Seq(Primitive)
  /\ <<"cgroup">> \o NetworkTeardown \in Seq(Primitive)
<1>1. /\ <<"rules">> \in Seq(Primitive) /\ <<"veth">> \in Seq(Primitive)
      /\ <<"lease">> \in Seq(Primitive) /\ <<"process">> \in Seq(Primitive)
      /\ <<"cgroup">> \in Seq(Primitive)
      /\ <<"rules", "veth", "lease">> \in Seq(Primitive)
      /\ <<"cgroup", "rules", "veth", "lease">> \in Seq(Primitive)
  BY DEF Primitive, Resource
<1>2. ASSUME NEW n \in Undos PROVE Primitives(n) \in Seq(Primitive)
  BY <1>1 DEF Primitives, NetworkTeardown, Undos
<1>3. <<"cgroup">> \o NetworkTeardown \in Seq(Primitive)
  <2>1. ASSUME NEW S, NEW s \in Seq(S), NEW t \in Seq(S) PROVE s \o t \in Seq(S)
    OBVIOUS
  <2> QED
    BY <1>1, <2>1 DEF NetworkTeardown
<1> QED
  BY <1>2, <1>3

-----------------------------------------------------------------------------
LEMMA InitType == Init => TypeOK
<1>1. << >> \in Seq(Undos) /\ << >> \in Seq(Primitive)
  OBVIOUS
<1> QED
  BY <1>1, LaunchAssumption DEF Init, TypeOK, Resource

LEMMA NextType == TypeOK /\ [Next]_vars => TypeOK'
<1> SUFFICES ASSUME TypeOK, [Next]_vars PROVE TypeOK'
  OBVIOUS
<1> USE DEF Advance, Fail, Register
<1>0. /\ stack \in Seq(Undos) /\ todo \in Seq(Primitive)
      /\ << >> \in Seq(Undos)
      /\ \A n \in Undos : Append(stack, n) \in Seq(Undos)
  BY SequenceFacts DEF TypeOK
<1>u. {"cgroup", "container process", "ip lease", "veth pair", "iptables rules",
       "container network"} \subseteq Undos
  BY DEF Undos
<1>1. CASE CreateCgroup
  BY <1>1, <1>0, <1>u DEF TypeOK, CreateCgroup, Resource
<1>2. CASE CreateCgroupFails
  BY <1>2 DEF TypeOK, CreateCgroupFails
<1>3. CASE RunWithoutCgroup
  BY <1>3 DEF TypeOK, RunWithoutCgroup
<1>4. CASE CloneChild \/ CloneFails
  BY <1>4 DEF TypeOK, CloneChild, CloneFails
<1>5. CASE RegisterChild \/ FaultAfterClone
  BY <1>5, <1>0, <1>u DEF TypeOK, RegisterChild, FaultAfterClone
<1>6. CASE AwaitReady \/ AttachVeth \/ GoAndStarted
  BY <1>6 DEF TypeOK, AwaitReady, AttachVeth, GoAndStarted
<1>7. CASE AllocateLease
  BY <1>7, <1>0, <1>u DEF TypeOK, AllocateLease, Resource
<1>8. CASE CreateVeth
  BY <1>8, <1>0, <1>u DEF TypeOK, CreateVeth, Resource
<1>9. CASE PublishPorts
  BY <1>9, <1>0, <1>u DEF TypeOK, PublishPorts, Resource
<1>10. CASE PublishFails
  BY <1>10 DEF TypeOK, PublishFails, Resource
<1>11. CASE RegisterNetwork
  BY <1>11, <1>0, <1>u DEF TypeOK, RegisterNetwork
<1>12. CASE Commit
  BY <1>12, <1>0, <1>u DEF TypeOK, Commit
<1>13. CASE StepFails
  BY <1>13 DEF TypeOK, StepFails
<1>14. CASE Unwind
  <2>1. stack[Len(stack)] \in Undos /\ SubSeq(stack, 1, Len(stack) - 1) \in Seq(Undos)
    BY <1>14, <1>0, SequenceFacts DEF Unwind
  <2>2. todo' \in Seq(Primitive)
    BY <1>14, <2>1, PrimitivesType DEF Unwind
  <2> QED
    BY <1>14, <2>1, <2>2 DEF TypeOK, Unwind
<1>15. CASE Unwound \/ TornDown \/ ChildDies
  BY <1>15 DEF TypeOK, Unwound, TornDown, ChildDies
<1>16. CASE Teardown
  BY <1>16, PrimitivesType DEF TypeOK, Teardown
<1>17. CASE RemoveNext
  <2>1. Tail(todo) \in Seq(Primitive)
    BY <1>17, <1>0, SequenceFacts DEF RemoveNext
  <2> QED
    BY <1>17, <2>1 DEF TypeOK, RemoveNext
<1>18. CASE RemoveFails
  <2>1. Tail(todo) \in Seq(Primitive)
    BY <1>18, <1>0, SequenceFacts DEF RemoveFails
  <2> QED
    BY <1>18, <2>1 DEF TypeOK, RemoveFails
<1>19. CASE UNCHANGED vars
  BY <1>19 DEF TypeOK, vars
<1> QED
  BY <1>1, <1>2, <1>3, <1>4, <1>5, <1>6, <1>7, <1>8, <1>9, <1>10, <1>11, <1>12, <1>13,
     <1>14, <1>15, <1>16, <1>17, <1>18, <1>19 DEF Next, LaunchStep, Removal

(* No failure, at whichever step, takes the launch out of its states.      *)
THEOREM TypeCorrect == Spec => []TypeOK
  BY InitType, NextType, PTL DEF Spec

-----------------------------------------------------------------------------
(* What is still owed to a resource while a launch or its unwinding is     *)
(* under way: a removal already queued, or the undo action registered when *)
(* it was created.                                                         *)

Pending(queue, x) == \E k \in 1 .. Len(queue) : queue[k] = x

UndoOf(r) ==
  CASE r = "cgroup" -> "cgroup"
    [] r = "lease"  -> "ip lease"
    [] r = "veth"   -> "veth pair"
    [] r = "rules"  -> "iptables rules"

Owed ==
  /\ pc \in Launching \cup {"unwind"} =>
       \A r \in host \ (before \cup refused) :
         Pending(todo, r) \/ Pending(stack, UndoOf(r))
  /\ pc = "teardown" => \A r \in host \ refused : Pending(todo, r)

(* The strengthening of the two properties that every step preserves.      *)
IInv == TypeOK /\ Owed /\ FailureLeavesNothing /\ StopLeavesNothing

(* How the sequence operators change what is pending.                      *)
LEMMA PendingFacts ==
  ASSUME NEW S, NEW s \in Seq(S), NEW x
  PROVE  /\ ~Pending(<< >>, x)
         /\ \A y \in S : Pending(Append(s, y), y)
         /\ \A y \in S : Pending(s, x) => Pending(Append(s, y), x)
         /\ s # << >> /\ Pending(s, x) => x = Head(s) \/ Pending(Tail(s), x)
         /\ s # << >> /\ Pending(s, x) =>
              x = s[Len(s)] \/ Pending(SubSeq(s, 1, Len(s) - 1), x)
<1>1. ~Pending(<< >>, x)
  BY DEF Pending
<1>2. ASSUME NEW y \in S PROVE Pending(Append(s, y), y)
  <2>1. Len(Append(s, y)) = Len(s) + 1 /\ Append(s, y)[Len(s) + 1] = y /\ Len(s) \in Nat
    OBVIOUS
  <2> QED
    BY <2>1 DEF Pending
<1>3. ASSUME NEW y \in S, Pending(s, x) PROVE Pending(Append(s, y), x)
  <2>1. PICK k \in 1 .. Len(s) : s[k] = x
    BY <1>3 DEF Pending
  <2>2. Len(Append(s, y)) = Len(s) + 1 /\ Append(s, y)[k] = x /\ Len(s) \in Nat
    BY <2>1
  <2> QED
    BY <2>2 DEF Pending
<1>4. ASSUME s # << >>, Pending(s, x), x # Head(s) PROVE Pending(Tail(s), x)
  <2>1. PICK k \in 1 .. Len(s) : s[k] = x
    BY <1>4 DEF Pending
  <2>2. Len(Tail(s)) = Len(s) - 1 /\ Len(s) \in Nat /\ Head(s) = s[1]
    BY <1>4
  <2>3. k - 1 \in 1 .. Len(Tail(s))
    BY <1>4, <2>1, <2>2
  <2>4. Tail(s)[k - 1] = x
    BY <1>4, <2>1, <2>2, <2>3
  <2> QED
    BY <2>3, <2>4 DEF Pending
<1>5. ASSUME s # << >>, Pending(s, x), x # s[Len(s)]
      PROVE  Pending(SubSeq(s, 1, Len(s) - 1), x)
  <2>1. PICK k \in 1 .. Len(s) : s[k] = x
    BY <1>5 DEF Pending
  <2>2. Len(s) \in Nat /\ k \in 1 .. (Len(s) - 1)
    BY <1>5, <2>1
  <2>3. Len(SubSeq(s, 1, Len(s) - 1)) = Len(s) - 1 /\ SubSeq(s, 1, Len(s) - 1)[k] = x
    BY <1>5, <2>1, <2>2
  <2> QED
    BY <2>2, <2>3 DEF Pending
<1> QED
  BY <1>1, <1>2, <1>3, <1>4, <1>5

(* The undo registered for a resource removes it.                          *)
LEMMA UndoRemoves ==
  ASSUME NEW r \in Resource
  PROVE  UndoOf(r) \in Undos /\ Pending(Primitives(UndoOf(r)), r)
<1>1. UndoOf(r) \in Undos
  BY DEF UndoOf, Undos, Resource
<1>2. Primitives(UndoOf(r)) = <<r>>
  BY DEF UndoOf, Primitives, Resource
<1>3. Len(<<r>>) = 1 /\ <<r>>[1] = r
  OBVIOUS
<1> QED
  BY <1>1, <1>2, <1>3 DEF Pending

(* The teardown of a stopped container names every resource.               *)
LEMMA TeardownNamesAll ==
  ASSUME NEW r \in Resource
  PROVE  Pending(<<"cgroup">> \o NetworkTeardown, r)
<1> DEFINE c == <<"cgroup">>
           n == <<"rules", "veth", "lease">>
           t == c \o n
<1>1. /\ c \in Seq(Primitive) /\ n \in Seq(Primitive)
      /\ Len(c) = 1 /\ Len(n) = 3 /\ c[1] = "cgroup"
      /\ n[1] = "rules" /\ n[2] = "veth" /\ n[3] = "lease"
  BY DEF Primitive, Resource
<1> HIDE DEF c, n
<1>2. /\ Len(t) = Len(c) + Len(n)
      /\ \A i \in 1 .. Len(c) + Len(n) : t[i] = IF i <= Len(c) THEN c[i] ELSE n[i - Len(c)]
  <2> HIDE DEF t
  <2>1. t = c \o n
    BY DEF t
  <2> QED
    BY <1>1, <2>1, ConcatProperties, Zenon
<1>3. Len(t) = 4 /\ t[1] = "cgroup" /\ t[2] = "rules" /\ t[3] = "veth" /\ t[4] = "lease"
  BY <1>1, <1>2
<1> HIDE DEF t
<1>4. Pending(t, r)
  BY <1>3 DEF Pending, Resource
<1> QED
  BY <1>4 DEF NetworkTeardown, t, c, n

-----------------------------------------------------------------------------
(* A step that only moves on, adds nothing and queues nothing.             *)
LEMMA NothingNew ==
  ASSUME Owed, host' \subseteq host,
         UNCHANGED <<before, stack, todo, refused>>,
         pc' \in Launching \cup {"unwind"} => pc \in Launching \cup {"unwind"},
         pc' = "teardown" => pc = "teardown"
  PROVE  Owed'
  BY DEF Owed

(* A step of launch that creates r and registers its undo.                 *)
LEMMA CreatedAndRegistered ==
  ASSUME TypeOK, Owed, NEW r \in Resource,
         pc \in Launching, pc' \in Launching,
         host' = host \cup {r}, Register(UndoOf(r)),
         UNCHANGED <<before, todo, refused>>
  PROVE  Owed'
<1>1. stack \in Seq(Undos) /\ UndoOf(r) \in Undos
  BY UndoRemoves DEF TypeOK
<1>2. Pending(stack', UndoOf(r))
  BY <1>1, PendingFacts DEF Register
<1>3. ASSUME NEW x, Pending(stack, x) PROVE Pending(stack', x)
  BY <1>1, <1>3, PendingFacts DEF Register
<1>4. pc' # "teardown"
  BY DEF Launching
<1> QED
  BY <1>2, <1>3, <1>4 DEF Owed

(* A step of launch that registers an undo and creates nothing.            *)
LEMMA OnlyRegistered ==
  ASSUME TypeOK, Owed, NEW n \in Undos,
         pc \in Launching, pc' \in Launching, Register(n),
         UNCHANGED <<host, before, todo, refused>>
  PROVE  Owed'
<1>1. ASSUME NEW x, Pending(stack, x) PROVE Pending(stack', x)
  BY <1>1, PendingFacts DEF Register, TypeOK
<1>2. pc' # "teardown"
  BY DEF Launching
<1> QED
  BY <1>1, <1>2 DEF Owed

(* One primitive leaves the queue: its resource is gone, or refused.       *)
LEMMA OneRemoved ==
  ASSUME TypeOK, Owed, todo # << >>, todo' = Tail(todo),
         \/ host' = host \ {Head(todo)} /\ refused' = refused \ {Head(todo)}
         \/ host' = host /\ refused' = refused \cup {Head(todo)},
         UNCHANGED <<pc, before, stack>>
  PROVE  Owed'
<1>1. ASSUME NEW r \in host' \ refused'
      PROVE  r \in host \ refused /\ r # Head(todo)
  BY <1>1
<1>2. ASSUME NEW r, r # Head(todo), Pending(todo, r) PROVE Pending(todo', r)
  BY <1>2, PendingFacts DEF TypeOK
<1> QED
  BY <1>1, <1>2 DEF Owed

LEMMA InitOwed == Init => IInv
<1> SUFFICES ASSUME Init PROVE IInv
  OBVIOUS
<1>1. TypeOK
  BY InitType
<1> QED
  BY <1>1 DEF Init, IInv, Owed, FailureLeavesNothing, StopLeavesNothing

(* One step per action; publishing must not fail halfway, because its undo *)
(* is registered only once every rule is in place.                         *)
LEMMA NextOwed ==
  ASSUME PublishBreaks = FALSE
  PROVE  IInv /\ [Next]_vars => IInv'
<1> SUFFICES ASSUME IInv, [Next]_vars PROVE IInv'
  OBVIOUS
<1>t. TypeOK /\ TypeOK' /\ Owed
  BY NextType DEF IInv
<1>e. FailureLeavesNothing /\ StopLeavesNothing
  BY DEF IInv
<1>u. /\ UndoOf("cgroup") = "cgroup" /\ UndoOf("lease") = "ip lease"
      /\ UndoOf("veth") = "veth pair" /\ UndoOf("rules") = "iptables rules"
      /\ {"cgroup", "lease", "veth", "rules"} \subseteq Resource
      /\ {"container process", "container network"} \subseteq Undos
  BY DEF UndoOf, Resource, Undos
<1>1. CASE CreateCgroup
  <2>1. Owed'
    BY <1>1, <1>t, <1>u, CreatedAndRegistered DEF CreateCgroup, Advance, Launching
  <2> QED
    BY <1>1, <1>t, <2>1 DEF CreateCgroup, Advance, IInv, FailureLeavesNothing, StopLeavesNothing
<1>2. CASE CreateCgroupFails
  <2>1. Owed'
    BY <1>2, <1>t, NothingNew DEF CreateCgroupFails, Fail, Launching
  <2> QED
    BY <1>2, <1>t, <2>1 DEF CreateCgroupFails, Fail, IInv, FailureLeavesNothing, StopLeavesNothing
<1>3. CASE RunWithoutCgroup \/ CloneChild \/ AwaitReady \/ AttachVeth \/ GoAndStarted
  <2>1. Owed'
    BY <1>3, <1>t, NothingNew DEF RunWithoutCgroup, CloneChild, AwaitReady, AttachVeth,
       GoAndStarted, Advance, Launching
  <2> QED
    BY <1>3, <1>t, <2>1 DEF RunWithoutCgroup, CloneChild, AwaitReady, AttachVeth,
       GoAndStarted, Advance, IInv, FailureLeavesNothing, StopLeavesNothing
<1>4. CASE CloneFails \/ FaultAfterClone \/ StepFails
  <2>1. Owed'
    BY <1>4, <1>t, NothingNew DEF CloneFails, FaultAfterClone, StepFails, Fail, Launching
  <2> QED
    BY <1>4, <1>t, <2>1 DEF CloneFails, FaultAfterClone, StepFails, Fail, IInv,
       FailureLeavesNothing, StopLeavesNothing
<1>5. CASE RegisterChild \/ RegisterNetwork
  <2>1. Owed'
    BY <1>5, <1>t, <1>u, OnlyRegistered DEF RegisterChild, RegisterNetwork, Advance, Launching
  <2> QED
    BY <1>5, <1>t, <2>1 DEF RegisterChild, RegisterNetwork, Advance, IInv,
       FailureLeavesNothing, StopLeavesNothing
<1>6. CASE AllocateLease
  <2>1. Owed'
    BY <1>6, <1>t, <1>u, CreatedAndRegistered DEF AllocateLease, Advance, Launching
  <2> QED
    BY <1>6, <1>t, <2>1 DEF AllocateLease, Advance, IInv, FailureLeavesNothing, StopLeavesNothing
<1>7. CASE CreateVeth
  <2>1. Owed'
    BY <1>7, <1>t, <1>u, CreatedAndRegistered DEF CreateVeth, Advance, Launching
  <2> QED
    BY <1>7, <1>t, <2>1 DEF CreateVeth, Advance, IInv, FailureLeavesNothing, StopLeavesNothing
<1>8. CASE PublishPorts
  <2>1. ASSUME Publishes PROVE Owed'
    BY <1>8, <2>1, <1>t, <1>u, CreatedAndRegistered DEF PublishPorts, Advance, Launching
  <2>2. ASSUME ~Publishes PROVE Owed'
    BY <1>8, <2>2, <1>t, NothingNew DEF PublishPorts, Advance, Launching
  <2>3. Owed'
    BY <2>1, <2>2
  <2> QED
    BY <1>8, <1>t, <2>3 DEF PublishPorts, Advance, IInv, FailureLeavesNothing, StopLeavesNothing
<1>9. CASE PublishFails
  <2>1. host' = host
    BY <1>9 DEF PublishFails
  <2>2. Owed'
    BY <1>9, <1>t, <2>1, NothingNew DEF PublishFails, Fail, Launching
  <2> QED
    BY <1>9, <1>t, <2>2 DEF PublishFails, Fail, IInv, FailureLeavesNothing, StopLeavesNothing
<1>10. CASE Commit
  <2>1. pc' = "running"
    BY <1>10 DEF Commit, Advance
  <2> QED
    BY <1>t, <2>1 DEF IInv, Owed, Launching, FailureLeavesNothing, StopLeavesNothing
<1>11. CASE Unwind
  <2> DEFINE n == stack[Len(stack)]
  <2>1. /\ pc = "unwind" /\ pc' = "unwind" /\ todo = << >> /\ stack # << >>
        /\ todo' = Primitives(n) /\ stack' = SubSeq(stack, 1, Len(stack) - 1)
        /\ UNCHANGED <<host, before, refused>>
    BY <1>11 DEF Unwind
  <2>2. ASSUME NEW r \in host \ (before \cup refused)
        PROVE  Pending(todo', r) \/ Pending(stack', UndoOf(r))
    <3>1. r \in Resource
      BY <1>t DEF TypeOK
    <3>2. Pending(stack, UndoOf(r))
      BY <1>t, <2>1, PendingFacts DEF Owed, TypeOK
    <3>3. UndoOf(r) = n \/ Pending(stack', UndoOf(r))
      BY <1>t, <2>1, <3>2, PendingFacts DEF TypeOK
    <3> QED
      BY <2>1, <3>1, <3>3, UndoRemoves
  <2>3. Owed'
    BY <2>1, <2>2 DEF Owed
  <2> QED
    BY <1>t, <2>1, <2>3 DEF IInv, FailureLeavesNothing, StopLeavesNothing
<1>12. CASE Unwound
  <2>1. /\ pc = "unwind" /\ pc' = "failed" /\ todo = << >> /\ stack = << >>
        /\ UNCHANGED <<host, before, refused>>
    BY <1>12 DEF Unwound
  <2>2. host \subseteq before \cup refused
    BY <1>t, <2>1, PendingFacts DEF Owed, TypeOK
  <2> QED
    BY <1>t, <2>1, <2>2 DEF IInv, Owed, Launching, FailureLeavesNothing, StopLeavesNothing
<1>13. CASE Teardown
  <2>1. pc' = "teardown" /\ todo' = <<"cgroup">> \o NetworkTeardown
    BY <1>13 DEF Teardown
  <2>2. \A r \in host' : Pending(todo', r)
    BY <1>t, <2>1, TeardownNamesAll DEF TypeOK
  <2> QED
    BY <1>t, <2>1, <2>2 DEF IInv, Owed, Launching, FailureLeavesNothing, StopLeavesNothing
<1>14. CASE TornDown
  <2>1. pc = "teardown" /\ pc' = "stopped" /\ todo = << >> /\ UNCHANGED <<host, refused>>
    BY <1>14 DEF TornDown
  <2>2. host \subseteq refused
    BY <1>t, <2>1, PendingFacts DEF Owed, TypeOK
  <2> QED
    BY <1>t, <2>1, <2>2 DEF IInv, Owed, Launching, FailureLeavesNothing, StopLeavesNothing
<1>15. CASE RemoveNext \/ RemoveFails
  <2>1. /\ todo # << >> /\ todo' = Tail(todo) /\ UNCHANGED <<pc, before, stack>>
        /\ \/ host' = host \ {Head(todo)} /\ refused' = refused \ {Head(todo)}
           \/ host' = host /\ refused' = refused \cup {Head(todo)}
    BY <1>15 DEF RemoveNext, RemoveFails
  <2>2. Owed'
    BY <1>t, <2>1, OneRemoved
  <2>3. FailureLeavesNothing' /\ StopLeavesNothing'
    BY <1>e, <2>1 DEF FailureLeavesNothing, StopLeavesNothing
  <2> QED
    BY <1>t, <2>2, <2>3 DEF IInv
<1>16. CASE ChildDies \/ UNCHANGED vars
  <2>1. UNCHANGED <<pc, host, before, stack, todo, refused>>
    BY <1>16 DEF ChildDies, vars
  <2> QED
    BY <1>t, <1>e, <2>1, NothingNew DEF IInv, FailureLeavesNothing, StopLeavesNothing
<1> QED
  BY <1>1, <1>2, <1>3, <1>4, <1>5, <1>6, <1>7, <1>8, <1>9, <1>10, <1>11, <1>12, <1>13,
     <1>14, <1>15, <1>16 DEF Next, LaunchStep, Removal

(* Whichever step of the launch fails and whichever undo actions fail with *)
(* it, what is left when the rollback stack has been unwound was there     *)
(* before, or the kernel refused to remove it: one failing undo never      *)
(* costs another resource.  Assumes that publishing ports is all or        *)
(* nothing; run Launch_publish shows that the assumption is needed.        *)
THEOREM FailedLaunchIsClean ==
  ASSUME PublishBreaks = FALSE
  PROVE  Spec => []FailureLeavesNothing
<1>1. IInv => FailureLeavesNothing
  BY DEF IInv
<1> QED
  BY <1>1, InitOwed, NextOwed, PTL DEF Spec

(* The same for a container that ran and was torn down.                    *)
THEOREM StoppedContainerIsClean ==
  ASSUME PublishBreaks = FALSE
  PROVE  Spec => []StopLeavesNothing
<1>1. IInv => StopLeavesNothing
  BY DEF IInv
<1> QED
  BY <1>1, InitOwed, NextOwed, PTL DEF Spec
=============================================================================
