---------------------------- MODULE Host_proofs ----------------------------
(***************************************************************************)
(* Proofs about Host, for every number of containers, addresses, failures, *)
(* bridges, killed supervisors and runs of gc.  A container that runs has  *)
(* its limits, whatever gc does meanwhile, if the kernel has               *)
(* CLONE_INTO_CGROUP; it is on its bridge, with its lease and every rule   *)
(* its traffic passes, as long as gc does not overlap with launches        *)
(* (Host_gc_launch.cfg shows what happens otherwise).  Its published port  *)
(* leads to it and to nobody else, and gc on a host where nobody is alive  *)
(* leaves nothing behind but the bridges that --bridge made.               *)
(***************************************************************************)
EXTENDS Host, FiniteSetTheorems, SequenceTheorems, WellFoundedInduction, TLAPS

-----------------------------------------------------------------------------
(* Sequences, and what is in them.                                         *)

LEMMA PoppedSeq ==
  ASSUME NEW S, NEW s \in Seq(S), s # <<>>
  PROVE  /\ Tail(s) \in Seq(S) /\ Head(s) \in S
         /\ ToSet(s) = {Head(s)} \cup ToSet(Tail(s))
<1>1. Len(s) \in Nat \ {0} /\ DOMAIN s = 1 .. Len(s) /\ Head(s) = s[1]
  BY EmptySeq
<1>2. /\ Tail(s) \in Seq(S) /\ DOMAIN Tail(s) = 1 .. Len(s) - 1
      /\ \A i \in 1 .. Len(s) - 1 : Tail(s)[i] = s[i + 1]
  BY HeadTailProperties
<1>3. ASSUME NEW x \in ToSet(s) PROVE x \in {Head(s)} \cup ToSet(Tail(s))
  <2>1. PICK i \in 1 .. Len(s) : x = s[i]
    BY <1>1, <1>3 DEF ToSet
  <2>2. CASE i = 1
    BY <1>1, <2>1, <2>2
  <2>3. CASE i # 1
    <3>1. i - 1 \in 1 .. Len(s) - 1 /\ Tail(s)[i - 1] = s[i]
      BY <1>1, <1>2, <2>3
    <3> QED
      BY <1>2, <2>1, <3>1 DEF ToSet
  <2> QED
    BY <2>2, <2>3
<1>4. ASSUME NEW x \in {Head(s)} \cup ToSet(Tail(s)) PROVE x \in ToSet(s)
  <2>1. CASE x = Head(s)
    BY <1>1, <2>1 DEF ToSet
  <2>2. CASE x \in ToSet(Tail(s))
    <3>1. PICK i \in 1 .. Len(s) - 1 : x = Tail(s)[i]
      BY <1>2, <2>2 DEF ToSet
    <3>2. i + 1 \in DOMAIN s /\ x = s[i + 1]
      BY <1>1, <1>2, <3>1
    <3> QED
      BY <3>2 DEF ToSet
  <2> QED
    BY <1>4, <2>1, <2>2
<1> QED
  BY <1>1, <1>2, <1>3, <1>4, HeadTailProperties

LEMMA JoinedSeq ==
  ASSUME NEW S, NEW s \in Seq(S), NEW t \in Seq(S)
  PROVE  s \o t \in Seq(S) /\ ToSet(s \o t) = ToSet(s) \cup ToSet(t)
<1>1. /\ s \o t \in Seq(S) /\ DOMAIN (s \o t) = 1 .. Len(s) + Len(t)
      /\ DOMAIN s = 1 .. Len(s) /\ DOMAIN t = 1 .. Len(t) /\ Len(s) \in Nat /\ Len(t) \in Nat
      /\ \A i \in 1 .. Len(s) + Len(t) :
           (s \o t)[i] = IF i <= Len(s) THEN s[i] ELSE t[i - Len(s)]
  BY ConcatProperties, LenProperties
<1>2. ASSUME NEW x \in ToSet(s \o t) PROVE x \in ToSet(s) \cup ToSet(t)
  <2>1. PICK i \in 1 .. Len(s) + Len(t) : x = (s \o t)[i]
    BY <1>1, <1>2 DEF ToSet
  <2>2. CASE i <= Len(s)
    BY <1>1, <2>1, <2>2 DEF ToSet
  <2>3. CASE ~(i <= Len(s))
    <3>1. i - Len(s) \in 1 .. Len(t) /\ x = t[i - Len(s)]
      BY <1>1, <2>1, <2>3
    <3> QED
      BY <1>1, <3>1 DEF ToSet
  <2> QED
    BY <2>2, <2>3
<1>3. ASSUME NEW x \in ToSet(s) PROVE x \in ToSet(s \o t)
  <2>1. PICK i \in 1 .. Len(s) : x = s[i]
    BY <1>1, <1>3 DEF ToSet
  <2>2. i \in DOMAIN (s \o t) /\ (s \o t)[i] = x
    BY <1>1, <2>1
  <2> QED
    BY <2>2 DEF ToSet
<1>4. ASSUME NEW x \in ToSet(t) PROVE x \in ToSet(s \o t)
  <2>1. PICK i \in 1 .. Len(t) : x = t[i]
    BY <1>1, <1>4 DEF ToSet
  <2>2. i + Len(s) \in DOMAIN (s \o t) /\ (s \o t)[i + Len(s)] = x
    BY <1>1, <2>1
  <2> QED
    BY <2>2 DEF ToSet
<1> QED
  BY <1>1, <1>2, <1>3, <1>4

LEMMA SeqOfSet ==
  ASSUME NEW S, NEW s \in Seq(S)
  PROVE  ToSet(s) \subseteq S /\ \A T : ToSet(s) \subseteq T => s \in Seq(T)
<1>1. Len(s) \in Nat /\ DOMAIN s = 1 .. Len(s) /\ s \in [1 .. Len(s) -> S]
  BY LenProperties
<1>2. ASSUME NEW T, ToSet(s) \subseteq T PROVE s \in Seq(T)
  <2>1. s \in [1 .. Len(s) -> T]
    BY <1>1, <1>2 DEF ToSet
  <2> QED
    BY <1>1, <2>1
<1> QED
  BY <1>1, <1>2 DEF ToSet

LEMMA JoinedHead ==
  ASSUME NEW S, NEW a \in Seq(S), NEW b \in Seq(S), a # <<>>
  PROVE  a \o b # <<>> /\ Head(a \o b) = Head(a) /\ Tail(a \o b) = Tail(a) \o b
<1> DEFINE s == a \o b
           t == Tail(a) \o b
<1>1. /\ Len(a) \in Nat \ {0} /\ Len(b) \in Nat /\ Head(a) = a[1] /\ Tail(a) \in Seq(S) /\ Len(Tail(a)) = Len(a) - 1
      /\ \A i \in 1 .. Len(a) - 1 : Tail(a)[i] = a[i + 1]
  BY EmptySeq, LenProperties, HeadTailProperties
<1>2. /\ s \in Seq(S) /\ Len(s) = Len(a) + Len(b)
      /\ \A i \in 1 .. Len(a) + Len(b) : s[i] = IF i <= Len(a) THEN a[i] ELSE b[i - Len(a)]
  BY ConcatProperties
<1>3. /\ t \in Seq(S) /\ Len(t) = Len(Tail(a)) + Len(b)
      /\ \A i \in 1 .. Len(Tail(a)) + Len(b) : t[i] = IF i <= Len(Tail(a)) THEN Tail(a)[i] ELSE b[i - Len(Tail(a))]
  BY <1>1, ConcatProperties
<1> HIDE DEF s, t
<1>4. s # <<>> /\ Head(s) = s[1]
  BY <1>1, <1>2, EmptySeq, HeadTailProperties
<1>5. s[1] = a[1]
  BY <1>1, <1>2
<1>6. /\ Tail(s) \in Seq(S) /\ Len(Tail(s)) = Len(s) - 1 /\ \A i \in 1 .. Len(s) - 1 : Tail(s)[i] = s[i + 1]
  BY <1>2, <1>4, HeadTailProperties
<1>7. Len(Tail(s)) = Len(t)
  BY <1>1, <1>2, <1>3, <1>6
<1>8. ASSUME NEW i \in 1 .. Len(t) PROVE Tail(s)[i] = t[i]
  <2>1. i \in Nat /\ i \in 1 .. Len(s) - 1 /\ i + 1 \in 1 .. Len(a) + Len(b) /\ i \in 1 .. Len(Tail(a)) + Len(b)
    BY <1>1, <1>2, <1>3, <1>8
  <2>2. Tail(s)[i] = IF i + 1 <= Len(a) THEN a[i + 1] ELSE b[(i + 1) - Len(a)]
    BY <1>2, <1>6, <2>1
  <2>3. CASE i <= Len(a) - 1
    BY <1>1, <1>3, <2>1, <2>2, <2>3
  <2>4. CASE ~(i <= Len(a) - 1)
    <3>1. ~(i + 1 <= Len(a)) /\ ~(i <= Len(Tail(a))) /\ (i + 1) - Len(a) = i - Len(Tail(a))
      BY <1>1, <2>1, <2>4
    <3> QED
      BY <1>3, <2>1, <2>2, <3>1
  <2> QED
    BY <2>3, <2>4
<1>9. Tail(s) = t
  BY <1>3, <1>6, <1>7, <1>8, SeqEqual
<1> QED
  BY <1>1, <1>4, <1>5, <1>9 DEF s, t

(* The sequence that a finite set is put into.                             *)
LEMMA SetToSeqOfSet ==
  ASSUME NEW S, IsFiniteSet(S)
  PROVE  SetToSeq(S) \in Seq(S) /\ ToSet(SetToSeq(S)) = S
<1>1. Cardinality(S) \in Nat /\ ExistsBijection(1 .. Cardinality(S), S)
  BY FS_CardinalityType
<1>2. PICK f \in [1 .. Cardinality(S) -> S] : IsInjective(f)
  BY <1>1 DEF ExistsBijection, Bijection, Injection, IsInjective
<1> DEFINE n == Cardinality(S)
<1>3. SetToSeq(S) \in [1 .. n -> S] /\ IsInjective(SetToSeq(S))
  BY <1>2 DEF SetToSeq
<1>4. SetToSeq(S) \in Injection(1 .. n, S)
  BY <1>3 DEF IsInjective, Injection
<1>5. IsFiniteSet(1 .. n) /\ Cardinality(1 .. n) = n
  BY <1>1, FS_Interval
<1>6. SetToSeq(S) \in Surjection(1 .. n, S)
  BY <1>4, <1>5, FS_Injection
<1>7. ToSet(SetToSeq(S)) = S
  BY <1>3, <1>6 DEF ToSet, Surjection
<1> QED
  BY <1>1, <1>3, <1>7

-----------------------------------------------------------------------------
(* Least and greatest numbers.                                             *)

LEMMA LeastOf ==
  ASSUME NEW S \in SUBSET Nat, S # {}
  PROVE  \E x \in S : \A y \in S : x <= y
<1> DEFINE R == {ss \in Nat \X Nat : ss[1] < ss[2]}
<1>1. IsWellFoundedOn(R, Nat)
  BY NatLessThanWellFounded, Zenon DEF OpToRel
<1>2. \E x \in S : \A y \in S : ~(<<y, x>> \in R)
  <2> HIDE DEF R
  <2> QED
    BY <1>1, WFMin
<1>3. PICK x \in S : \A y \in S : ~(<<y, x>> \in R)
  BY <1>2
<1>4. ASSUME NEW y \in S PROVE x <= y
  <2>1. x \in Nat /\ y \in Nat
    OBVIOUS
  <2>2. ~(<<y, x>>[1] < <<y, x>>[2])
    BY <1>3, <2>1
  <2> QED
    BY <2>1, <2>2
<1> QED
  BY <1>4

LEMMA MinOf ==
  ASSUME NEW S \in SUBSET Nat, S # {}
  PROVE  Min(S) \in S
  BY LeastOf DEF Min

(* By counting the set: the first numbers of the count have a bound, and   *)
(* with each further one the larger of it and the bound is one.            *)
LEMMA BoundOf ==
  ASSUME NEW S \in SUBSET Nat, IsFiniteSet(S)
  PROVE  \E b \in Nat : \A x \in S : x <= b
<1>1. PICK n \in Nat : ExistsSurjection(1 .. n, S)
  BY FS_NatSurjection
<1>2. PICK f \in [1 .. n -> S] : \A x \in S : \E i \in 1 .. n : f[i] = x
  BY <1>1 DEF ExistsSurjection, Surjection
<1>3. n \in Nat /\ \A i \in 1 .. n : f[i] \in Nat
  BY <1>1, <1>2
<1> DEFINE Bounded == {k \in 0 .. n : \E b \in Nat : \A i \in 1 .. k : f[i] <= b}
           Bad == (0 .. n) \ Bounded
<1>4. 0 \in Bounded
  BY <1>3
<1>5. ASSUME NEW k \in 1 .. n, k - 1 \in Bounded PROVE k \in Bounded
  <2>1. PICK b \in Nat : \A i \in 1 .. k - 1 : f[i] <= b
    BY <1>5
  <2>2. k \in Nat /\ f[k] \in Nat
    BY <1>3
  <2> DEFINE m == IF b <= f[k] THEN f[k] ELSE b
  <2>3. m \in Nat /\ b <= m /\ f[k] <= m
    BY <2>1, <2>2
  <2> HIDE DEF m
  <2>4. ASSUME NEW i \in 1 .. k PROVE f[i] <= m
    <3>1. f[i] \in Nat
      BY <1>3
    <3>2. CASE i = k
      BY <2>3, <3>2
    <3>3. CASE i # k
      <4>1. i \in 1 .. k - 1
        BY <2>2, <3>3
      <4> QED
        BY <2>1, <2>3, <3>1, <4>1
    <3> QED
      BY <3>2, <3>3
  <2> QED
    BY <2>3, <2>4, <1>3
<1>6. Bad = {}
  <2> SUFFICES ASSUME Bad # {} PROVE FALSE
    OBVIOUS
  <2>1. Bad \in SUBSET Nat
    BY <1>3
  <2>2. PICK k \in Bad : \A j \in Bad : k <= j
    <3> HIDE DEF Bad
    <3> QED
      BY <2>1, LeastOf
  <2>3. k \in 1 .. n /\ k - 1 \in 0 .. n
    BY <2>2, <1>3, <1>4
  <2>4. k - 1 \notin Bad
    <3> HIDE DEF Bad
    <3> QED
      BY <2>2, <2>3
  <2> QED
    BY <1>5, <2>2, <2>3, <2>4
<1>7. n \in Bounded
  <2>1. n \in 0 .. n
    BY <1>3
  <2> HIDE DEF Bounded
  <2> QED
    BY <1>6, <2>1
<1> QED
  BY <1>2, <1>7

LEMMA MaxOf ==
  ASSUME NEW S \in SUBSET Nat, IsFiniteSet(S), S # {}
  PROVE  Max(S) \in S
<1> DEFINE B == {b \in Nat : \A x \in S : x <= b}
<1>1. B # {}
  BY BoundOf
<1>2. PICK m \in B : \A b \in B : m <= b
  BY <1>1, LeastOf
<1>3. m \in S
  <2> SUFFICES ASSUME m \notin S PROVE FALSE
    OBVIOUS
  <2>1. PICK s \in S : TRUE
    OBVIOUS
  <2>2. \A x \in S : x <= m - 1
    BY <1>2
  <2>3. m - 1 \in Nat
    BY <2>1, <2>2, <1>2
  <2>4. m - 1 \in B
    BY <2>2, <2>3
  <2> QED
    BY <1>2, <2>4, <2>3
<1> QED
  BY <1>2, <1>3 DEF Max

-----------------------------------------------------------------------------
(* What scripts are made of.                                               *)

RuleSet == [chain : Chain \cup {"PREROUTING", "POSTROUTING", "FORWARD", "INPUT"},
            to    : Chain \cup {"DROP", "MASQUERADE", "ACCEPT", "DNAT"},
            tag   : Container \cup {"base", "none"},
            about : Addr \cup Bridge \cup {0}]

Listing == [tables : Seq({"nat", "filter"}), tag : Container \cup {"base"}, found : Seq(RuleSet)]

LaunchOps == {"cgroup_base", "cgroup", "clone", "add_pid", "bridge", "bridge_index", "address",
              "allocate", "leftover", "create_veth", "set_master", "move", "publish", "published",
              "started"}
UndoOps == {"kill", "rmdir", "veth", "release"}
GcOps == {"gc_empty", "ipam_gc", "orphaned_veths"}
BaseOps == {"bridge_used", "bridge_links", "delete_bridge", "base_rules"}
RuleOps == {"forwarding", "chain", "rule", "list", "delete", "flush", "drop"}

Ops == LaunchOps \cup UndoOps \cup GcOps \cup BaseOps \cup RuleOps \cup {"scan", "teardown"}
Args == Container \cup {0, 1} \cup Chain \cup RuleSet \cup Listing
Item == Ops \X Args

(* An item of the launch of c.                                             *)
OfLaunch(c, x) ==
  \/ x[1] \in LaunchOps /\ x[2] = c
  \/ x = <<"forwarding", 1>>
  \/ x[1] = "chain" /\ x[2] \in Chain
  \/ x[1] = "rule" /\ x[2] \in RuleSet

(* An item that lists, or deletes, rules with one of the tags.             *)
OfCleanup(tags, x) ==
  \/ x[1] = "list" /\ x[2] \in Listing /\ x[2].tag \in tags
     /\ \A r \in ToSet(x[2].found) : r.tag \in tags
  \/ x[1] = "delete" /\ x[2] \in RuleSet /\ x[2].tag \in tags

(* An item that removes something of c, and of no other container.         *)
OfUndo(c, x) == (x[1] \in UndoOps /\ x[2] = c) \/ OfCleanup({c}, x)

(* An item of gc that removes what the containers share.                   *)
OfBase(x) ==
  \/ x[1] \in BaseOps /\ x[2] = 0
  \/ x[1] \in {"flush", "drop"} /\ x[2] \in Chain
  \/ OfCleanup({"base", "none"}, x)

OfGc(x) ==
  \/ OfBase(x)
  \/ x[1] \in GcOps \cup {"scan"} /\ x[2] = 0
  \/ x[1] = "teardown" /\ x[2] \in Container
  \/ \E c \in Container : OfUndo(c, x)

Todo(p) == ToSet(script[p])

(* The phase, script and rollback stack that a process may have at once.   *)
Fits(p, f, s, u) ==
  /\ s \in Seq(Item) /\ u \in Seq(Item)
  /\ p = "gc" => /\ f \in {"idle", "collect", "done"} /\ (f # "collect" => s = <<>>)
                 /\ \A x \in ToSet(s) : OfGc(x)
  /\ p # "gc" => /\ f \in {"idle", "launch", "unwind", "wait", "teardown", "ended"}
                 /\ f = "launch" => \A x \in ToSet(s) : OfLaunch(p, x)
                 /\ f \in {"unwind", "teardown"} => \A x \in ToSet(s) : OfUndo(p, x)
                 /\ f \in {"idle", "wait", "ended"} => s = <<>>
                 /\ \A x \in ToSet(u) : OfUndo(p, x)

Kinds ==
  /\ phase = [p \in Process |-> phase[p]]
  /\ script = [p \in Process |-> script[p]] /\ undo = [p \in Process |-> undo[p]]
  /\ \A p \in Process : Fits(p, phase[p], script[p], undo[p])

(* The packet filter has finitely many rules of the known kinds.           *)
Filter ==
  /\ DOMAIN fw = {"chains", "rules", "dnat"} /\ fw = [x \in DOMAIN fw |-> fw[x]]
  /\ fw.chains \subseteq Chain
  /\ IsABag(fw.rules) /\ IsFiniteSet(DOMAIN fw.rules) /\ DOMAIN fw.rules \subseteq RuleSet

-----------------------------------------------------------------------------
(* A running container can be reached.                                     *)

(* The order of a launch, as far as it matters.                            *)
Stage(x) ==
  IF x[1] \in {"cgroup_base", "cgroup", "clone", "add_pid", "bridge", "bridge_index"} THEN 1
  ELSE IF x[1] = "address" THEN 2
  ELSE IF x[1] \in {"allocate", "leftover", "create_veth"} THEN 3
  ELSE IF x[1] \in {"set_master", "move"} THEN 4
  ELSE IF x[1] \in {"publish", "published"} THEN 6
  ELSE IF x[1] = "started" THEN 7
  ELSE 5

Sorted(s) == \A i, j \in 1 .. Len(s) : i < j => Stage(s[i]) <= Stage(s[j])

(* What is later in the order is still to be done.                         *)
Ahead(c) ==
  /\ Sorted(script[c])
  /\ (\E x \in Todo(c) : Stage(x) = 1) => <<"address", c>> \in Todo(c)
  /\ (\E x \in Todo(c) : Stage(x) <= 3)
       => {<<"set_master", c>>, <<"move", c>>, <<"publish", c>>} \subseteq Todo(c)

(* Each thing the container needs is there, or still to be done.           *)
OnBridge(c) ==
  /\ {<<"bridge", c>>, <<"bridge_index", c>>} \cap Todo(c) # {}
       \/ (seen[c] = bridge[On[c]].index /\ bridge[On[c]].index # 0)
  /\ <<"address", c>> \in Todo(c) \/ (bridge[On[c]].index # 0 /\ bridge[On[c]].address /\ bridge[On[c]].up)
  /\ <<"set_master", c>> \in Todo(c) \/ master[c] = bridge[On[c]].index
  /\ <<"move", c>> \in Todo(c) \/ veth[c] = "moved"
  /\ <<"allocate", c>> \in Todo(c) \/ lease[c] = ip[c]

RulesThere(c) ==
  /\ <<"forwarding", 1>> \in Todo(c) \/ forwarding
  /\ \A n \in Chain : <<"chain", n>> \in Todo(c) \/ n \in fw.chains
  /\ \A r \in SharedRules(On[c]) : <<"rule", r>> \in Todo(c) \/ r \in BagToSet(fw.rules)
  /\ \/ <<"publish", c>> \in Todo(c)
     \/ \A r \in ToSet(PublishRules(c, ip[c])) :
          <<"rule", r>> \in Todo(c) \/ r \in BagToSet(fw.rules)

(* Containers that run, or are on their way there.                         *)
Engaged(c) == phase[c] = "launch" \/ Up(c)

Ready(c) == /\ phase[c] = "launch" => Ahead(c)
            /\ Engaged(c) => OnBridge(c) /\ RulesThere(c)

Provided == \A c \in Container : Ready(c)

(* A container that runs is recorded as running.                           *)
Recorded == \A c \in Container : Up(c) => status[c] = "Running"

(* An item of gc that does no harm to what runs.                           *)
Safe(x) ==
  \/ OfBase(x) /\ \A c \in Container : ~Up(c)
  \/ x[1] \in GcOps
  \/ \E c \in Container : ~Up(c) /\ (OfUndo(c, x) \/ x = <<"teardown", c>>)

(* gc meets no launch, and knows who runs.                                 *)
Aware ==
  phase["gc"] = "collect" =>
    /\ \A c \in Container : phase[c] # "launch"
    /\ \/ script["gc"] = <<<<"scan", 0>>>>
       \/ (\A c \in Container : Up(c) => c \in live) /\ \A x \in Todo("gc") : Safe(x)

-----------------------------------------------------------------------------
(* The scripts.                                                            *)

LEMMA ItemsAre ==
  /\ \A op \in Ops, a \in Args : <<op, a>> \in Item
  /\ \A x \in Item : x[1] \in Ops /\ x[2] \in Args /\ x = <<x[1], x[2]>>
  BY DEF Item

LEMMA OpsAre ==
  /\ LaunchOps \subseteq Ops /\ UndoOps \subseteq Ops /\ GcOps \subseteq Ops
  /\ BaseOps \subseteq Ops /\ RuleOps \subseteq Ops /\ {"scan", "teardown"} \subseteq Ops
  BY DEF Ops

LEMMA ArgsAre ==
  /\ Container \subseteq Args /\ 0 \in Args /\ 1 \in Args /\ Chain \subseteq Args
  /\ RuleSet \subseteq Args /\ Listing \subseteq Args
  BY DEF Args

LEMMA EachIs ==
  ASSUME NEW op \in Ops, NEW args \in Seq(Args)
  PROVE  /\ Each(op, args) \in Seq(Item) /\ Len(Each(op, args)) = Len(args)
         /\ \A i \in 1 .. Len(args) : Each(op, args)[i] = <<op, args[i]>>
         /\ \A x \in ToSet(Each(op, args)) : \E a \in ToSet(args) : x = <<op, a>>
         /\ \A a \in ToSet(args) : <<op, a>> \in ToSet(Each(op, args))
<1>1. Len(args) \in Nat /\ DOMAIN args = 1 .. Len(args) /\ \A i \in 1 .. Len(args) : args[i] \in Args
  BY LenProperties
<1>2. Each(op, args) = [i \in 1 .. Len(args) |-> <<op, args[i]>>]
  BY <1>1 DEF Each
<1>3. Each(op, args) \in [1 .. Len(args) -> Item]
  BY <1>1, <1>2, ItemsAre
<1>4. /\ \A x \in ToSet(Each(op, args)) : \E a \in ToSet(args) : x = <<op, a>>
      /\ \A a \in ToSet(args) : <<op, a>> \in ToSet(Each(op, args))
  BY <1>1, <1>2 DEF ToSet
<1> QED
  BY <1>1, <1>2, <1>3, <1>4

LEMMA TagsDiffer ==
  /\ "base" \notin Container /\ "none" \notin Container /\ "gc" \notin Container
  BY HostAssumption

LEMMA BridgeIs == DEFAULT_BRIDGE \in Bridge /\ \A c \in Container : On[c] \in Bridge
  BY HostAssumption

LEMMA SharedRulesAre ==
  /\ Jumps \in Seq(RuleSet) /\ \A r \in ToSet(Jumps) : r.tag = "none"
  /\ Guard \in RuleSet /\ Guard.tag = "base"
  /\ \A b \in Bridge :
       /\ ToSet(Jumps) \subseteq SharedRules(b) /\ Guard \in SharedRules(b)
       /\ BridgeRules(b) \in Seq(RuleSet) /\ \A r \in ToSet(BridgeRules(b)) : r.tag = "base"
       /\ SharedRules(b) \subseteq RuleSet /\ \A r \in SharedRules(b) : r.tag \in {"base", "none"}
<1>1. \A ch \in Chain \cup {"PREROUTING", "POSTROUTING", "FORWARD", "INPUT"},
         to \in Chain \cup {"DROP", "MASQUERADE", "ACCEPT", "DNAT"}, t \in {"base", "none"},
         b \in Bridge \cup {0} :
        Rule(ch, to, t, b) \in RuleSet /\ Rule(ch, to, t, b).tag = t
  BY DEF Rule, RuleSet
<1>2. /\ "MYRUN-PRE" \in Chain /\ "MYRUN-POST" \in Chain /\ "MYRUN-FWD" \in Chain
  BY DEF Chain
<1>3. /\ Jumps \in Seq(RuleSet) /\ \A r \in ToSet(Jumps) : r.tag = "none"
  <2> DEFINE j1 == Rule("PREROUTING", "MYRUN-PRE", "none", 0)
             j2 == Rule("POSTROUTING", "MYRUN-POST", "none", 0)
             j3 == Rule("FORWARD", "MYRUN-FWD", "none", 0)
  <2>1. j1 \in RuleSet /\ j2 \in RuleSet /\ j3 \in RuleSet
    BY <1>1, <1>2
  <2>2. j1.tag = "none" /\ j2.tag = "none" /\ j3.tag = "none"
    BY <1>1, <1>2
  <2>3. Jumps = <<j1, j2, j3>>
    BY DEF Jumps
  <2> HIDE DEF j1, j2, j3
  <2> QED
    BY <2>1, <2>2, <2>3 DEF ToSet
<1>4. Guard \in RuleSet /\ Guard.tag = "base"
  BY <1>1 DEF Guard
<1>5. ASSUME NEW b \in Bridge
      PROVE  BridgeRules(b) \in Seq(RuleSet) /\ \A r \in ToSet(BridgeRules(b)) : r.tag = "base"
  <2> DEFINE p == Rule("MYRUN-POST", "MASQUERADE", "base", b)
             f == Rule("MYRUN-FWD", "ACCEPT", "base", b)
  <2>1. p \in RuleSet /\ f \in RuleSet /\ p.tag = "base" /\ f.tag = "base"
    BY <1>1, <1>2
  <2>2. BridgeRules(b) = <<p, f>>
    BY DEF BridgeRules
  <2> HIDE DEF p, f
  <2> QED
    BY <2>1, <2>2 DEF ToSet
<1>6. \A b \in Bridge : SharedRules(b) \subseteq RuleSet
  BY <1>3, <1>4, <1>5, SeqOfSet DEF SharedRules
<1> QED
  BY <1>3, <1>4, <1>5, <1>6 DEF SharedRules

LEMMA PublishRulesAre ==
  ASSUME NEW c \in Container, NEW a \in Addr \cup {0}
  PROVE  /\ PublishRules(c, a) \in Seq(RuleSet)
         /\ \A r \in ToSet(PublishRules(c, a)) : r \in RuleSet /\ r.tag = c
<1>1. \A ch \in Chain, to \in {"MASQUERADE", "ACCEPT", "DNAT"} :
        Rule(ch, to, c, a) \in RuleSet /\ Rule(ch, to, c, a).tag = c
  BY DEF Rule, RuleSet
<1>2. /\ "MYRUN-PRE" \in Chain /\ "MYRUN-POST" \in Chain /\ "MYRUN-FWD" \in Chain
  BY DEF Chain
<1> QED
  BY <1>1, <1>2 DEF PublishRules, ToSet

LEMMA CleanupIs ==
  ASSUME NEW t \in Container \cup {"base"}
  PROVE  /\ cleanup(t) \in Seq(Item)
         /\ \A tags : t \in tags => \A x \in ToSet(cleanup(t)) : OfCleanup(tags, x)
<1> DEFINE l == [tables |-> <<"nat", "filter">>, tag |-> t, found |-> <<>>]
<1>1. l \in Listing /\ l.tag = t /\ ToSet(l.found) = {}
  BY DEF Listing, ToSet
<1> HIDE DEF l
<1>2. cleanup(t) = <<<<"list", l>>>>
  BY DEF cleanup, l
<1>3. <<"list", l>> \in Item
  BY <1>1, ItemsAre, ArgsAre DEF Ops, RuleOps
<1>4. ToSet(cleanup(t)) = {<<"list", l>>}
  BY <1>2 DEF ToSet
<1> QED
  BY <1>1, <1>2, <1>3, <1>4 DEF OfCleanup

LEMMA TeardownIs ==
  ASSUME NEW c \in Container
  PROVE  /\ NetTeardown(c) \in Seq(Item) /\ teardown(c) \in Seq(Item)
         /\ \A x \in ToSet(NetTeardown(c)) \cup ToSet(teardown(c)) : OfUndo(c, x)
<1> DEFINE a == <<<<"veth", c>>, <<"release", c>>>>
           b == <<<<"kill", c>>, <<"rmdir", c>>>>
<1>1. /\ <<"veth", c>> \in Item /\ <<"release", c>> \in Item
      /\ <<"kill", c>> \in Item /\ <<"rmdir", c>> \in Item
  BY ItemsAre, OpsAre, ArgsAre DEF UndoOps
<1>2. a \in Seq(Item) /\ b \in Seq(Item)
  BY <1>1
<1>3. ToSet(a) = {<<"veth", c>>, <<"release", c>>} /\ ToSet(b) = {<<"kill", c>>, <<"rmdir", c>>}
  BY DEF ToSet
<1> HIDE DEF a, b
<1>4. \A x \in ToSet(a) \cup ToSet(b) : OfUndo(c, x)
  BY <1>3 DEF OfUndo, UndoOps
<1>5. cleanup(c) \in Seq(Item) /\ \A x \in ToSet(cleanup(c)) : OfUndo(c, x)
  BY CleanupIs DEF OfUndo
<1>6. /\ NetTeardown(c) \in Seq(Item)
      /\ ToSet(NetTeardown(c)) = ToSet(cleanup(c)) \cup ToSet(a)
  BY <1>2, <1>5, JoinedSeq DEF NetTeardown, a
<1>7. /\ teardown(c) \in Seq(Item)
      /\ ToSet(teardown(c)) = ToSet(b) \cup ToSet(NetTeardown(c))
  <2>1. teardown(c) = b \o NetTeardown(c)
    BY DEF teardown, b
  <2> QED
    BY <1>2, <1>6, <2>1, JoinedSeq
<1> QED
  BY <1>4, <1>5, <1>6, <1>7

LEMMA BaseTeardownIs ==
  teardown_base \in Seq(Item) /\ \A x \in ToSet(teardown_base) : OfBase(x)
<1> DEFINE d == <<Guard>> \o Jumps
           e == <<<<"flush", "MYRUN-PRE">>, <<"drop", "MYRUN-PRE">>,
                  <<"flush", "MYRUN-POST">>, <<"drop", "MYRUN-POST">>,
                  <<"flush", "MYRUN-FWD">>, <<"drop", "MYRUN-FWD">>>>
<1>1. d \in Seq(RuleSet) /\ \A r \in ToSet(d) : r \in RuleSet /\ r.tag \in {"base", "none"}
  <2>1. <<Guard>> \in Seq(RuleSet) /\ ToSet(<<Guard>>) = {Guard}
    BY SharedRulesAre DEF ToSet
  <2>2. Jumps \in Seq(RuleSet)
    BY SharedRulesAre
  <2> DEFINE g == <<Guard>>
  <2> HIDE DEF g
  <2>3. d \in Seq(RuleSet) /\ ToSet(d) = ToSet(g) \cup ToSet(Jumps)
    <3>1. g \in Seq(RuleSet) /\ d = g \o Jumps
      BY <2>1 DEF g
    <3> HIDE DEF d
    <3> QED
      BY <2>2, <3>1, JoinedSeq
  <2> QED
    BY <2>1, <2>2, <2>3, SharedRulesAre, SeqOfSet DEF g
<1>2. /\ Each("delete", d) \in Seq(Item)
      /\ \A x \in ToSet(Each("delete", d)) : OfBase(x)
  <2> HIDE DEF d
  <2>1. d \in Seq(Args) /\ "delete" \in Ops
    BY <1>1, SeqMonotonic, ArgsAre, OpsAre DEF RuleOps
  <2>2. /\ Each("delete", d) \in Seq(Item)
        /\ \A x \in ToSet(Each("delete", d)) : \E r \in ToSet(d) : x = <<"delete", r>>
    BY <2>1, EachIs
  <2> QED
    BY <1>1, <2>2 DEF OfBase, OfCleanup
<1>3. e \in Seq(Item) /\ \A x \in ToSet(e) : OfBase(x)
  <2>1. \A n \in Chain : <<"flush", n>> \in Item /\ <<"drop", n>> \in Item
    BY ItemsAre, OpsAre, ArgsAre DEF RuleOps
  <2>2. /\ "MYRUN-PRE" \in Chain /\ "MYRUN-POST" \in Chain /\ "MYRUN-FWD" \in Chain
    BY DEF Chain
  <2>3. e \in Seq(Item)
    BY <2>1, <2>2
  <2>4. \A n \in Chain : OfBase(<<"flush", n>>) /\ OfBase(<<"drop", n>>)
    BY DEF OfBase
  <2> QED
    BY <2>2, <2>3, <2>4 DEF ToSet
<1> HIDE DEF d, e
<1>4. cleanup("base") \in Seq(Item) /\ \A x \in ToSet(cleanup("base")) : OfBase(x)
  BY CleanupIs DEF OfBase
<1>5. teardown_base = (cleanup("base") \o Each("delete", d)) \o e
  BY DEF teardown_base, d, e
<1>6. /\ cleanup("base") \o Each("delete", d) \in Seq(Item)
      /\ ToSet(cleanup("base") \o Each("delete", d)) = ToSet(cleanup("base")) \cup ToSet(Each("delete", d))
  BY <1>2, <1>4, JoinedSeq
<1>7. /\ teardown_base \in Seq(Item)
      /\ ToSet(teardown_base) = ToSet(cleanup("base") \o Each("delete", d)) \cup ToSet(e)
  <2>1. e \in Seq(Item)
    BY <1>3
  <2> DEFINE f == cleanup("base") \o Each("delete", d)
  <2>2. f \in Seq(Item)
    BY <1>6
  <2> HIDE DEF f
  <2>3. f \o e \in Seq(Item) /\ ToSet(f \o e) = ToSet(f) \cup ToSet(e)
    BY <2>1, <2>2, JoinedSeq
  <2> QED
    BY <1>5, <2>3 DEF f
<1> QED
  BY <1>2, <1>3, <1>4, <1>6, <1>7

LEMMA StageIs ==
  /\ \A x : Stage(x) \in 1 .. 7
  /\ \A a : /\ Stage(<<"cgroup_base", a>>) = 1 /\ Stage(<<"cgroup", a>>) = 1 /\ Stage(<<"clone", a>>) = 1
            /\ Stage(<<"add_pid", a>>) = 1
            /\ Stage(<<"bridge", a>>) = 1 /\ Stage(<<"bridge_index", a>>) = 1
            /\ Stage(<<"address", a>>) = 2 /\ Stage(<<"allocate", a>>) = 3
            /\ Stage(<<"leftover", a>>) = 3 /\ Stage(<<"create_veth", a>>) = 3
            /\ Stage(<<"set_master", a>>) = 4 /\ Stage(<<"move", a>>) = 4
            /\ Stage(<<"forwarding", a>>) = 5 /\ Stage(<<"chain", a>>) = 5 /\ Stage(<<"rule", a>>) = 5
            /\ Stage(<<"publish", a>>) = 6 /\ Stage(<<"published", a>>) = 6
            /\ Stage(<<"started", a>>) = 7
  BY DEF Stage

LEMMA SortedJoin ==
  ASSUME NEW s \in Seq(Item), NEW t \in Seq(Item), Sorted(s), Sorted(t),
         \A x \in ToSet(s), y \in ToSet(t) : Stage(x) <= Stage(y)
  PROVE  Sorted(s \o t)
<1>1. /\ DOMAIN s = 1 .. Len(s) /\ DOMAIN t = 1 .. Len(t) /\ Len(s) \in Nat /\ Len(t) \in Nat
      /\ Len(s \o t) = Len(s) + Len(t)
      /\ \A i \in 1 .. Len(s) + Len(t) :
           (s \o t)[i] = IF i <= Len(s) THEN s[i] ELSE t[i - Len(s)]
  BY ConcatProperties, LenProperties
<1>2. \A i \in 1 .. Len(s), j \in 1 .. Len(t) : Stage(s[i]) <= Stage(t[j])
  BY <1>1 DEF ToSet
<1> SUFFICES ASSUME NEW i \in 1 .. Len(s) + Len(t), NEW j \in 1 .. Len(s) + Len(t), i < j
             PROVE  Stage((s \o t)[i]) <= Stage((s \o t)[j])
  BY <1>1 DEF Sorted
<1>3. CASE j <= Len(s)
  <2>1. i \in 1 .. Len(s) /\ j \in 1 .. Len(s) /\ (s \o t)[i] = s[i] /\ (s \o t)[j] = s[j]
    BY <1>1, <1>3
  <2> QED
    BY <2>1 DEF Sorted
<1>4. CASE i <= Len(s) /\ j > Len(s)
  <2>1. /\ i \in 1 .. Len(s) /\ j - Len(s) \in 1 .. Len(t)
        /\ (s \o t)[i] = s[i] /\ (s \o t)[j] = t[j - Len(s)]
    BY <1>1, <1>4
  <2> QED
    BY <1>2, <2>1
<1>5. CASE i > Len(s)
  <2>1. /\ i - Len(s) \in 1 .. Len(t) /\ j - Len(s) \in 1 .. Len(t) /\ i - Len(s) < j - Len(s)
        /\ (s \o t)[i] = t[i - Len(s)] /\ (s \o t)[j] = t[j - Len(s)]
    BY <1>1, <1>5
  <2> QED
    BY <2>1 DEF Sorted
<1> QED
  BY <1>1, <1>3, <1>4, <1>5

LEMMA SortedLevel ==
  ASSUME NEW s \in Seq(Item), NEW n, \A x \in ToSet(s) : Stage(x) = n
  PROVE  Sorted(s)
<1>1. \A i \in 1 .. Len(s) : s[i] \in ToSet(s)
  BY LenProperties DEF ToSet
<1>2. \A i \in 1 .. Len(s) : Stage(s[i]) = n /\ Stage(s[i]) \in 1 .. 7
  BY <1>1, StageIs
<1> QED
  BY <1>2 DEF Sorted

(* The commands that set the chains and rules up.                          *)
SetsUp(x) == \/ x = <<"forwarding", 1>>
             \/ x[1] = "chain" /\ x[2] \in Chain
             \/ x[1] = "rule" /\ x[2] \in RuleSet

LEMMA SetsUpIs ==
  ASSUME NEW c, NEW x, SetsUp(x)
  PROVE  OfLaunch(c, x) /\ Stage(x) = 5
<1>1. x[1] \in {"forwarding", "chain", "rule"}
  BY DEF SetsUp
<1> QED
  BY <1>1 DEF SetsUp, OfLaunch, Stage

LEMMA RulesSetUp ==
  ASSUME NEW s \in Seq(RuleSet)
  PROVE  /\ Each("rule", s) \in Seq(Item) /\ \A x \in ToSet(Each("rule", s)) : SetsUp(x)
         /\ \A r \in ToSet(s) : <<"rule", r>> \in ToSet(Each("rule", s))
         /\ \A x \in ToSet(Each("rule", s)) : x[2] \in ToSet(s)
<1>1. s \in Seq(Args) /\ "rule" \in Ops /\ ToSet(s) \subseteq RuleSet
  BY SeqMonotonic, ArgsAre, OpsAre, SeqOfSet DEF RuleOps
<1> QED
  BY <1>1, EachIs DEF SetsUp

LEMMA EnsureChainsIs ==
  /\ ensure_chains \in Seq(Item) /\ \A x \in ToSet(ensure_chains) : SetsUp(x)
  /\ \A n \in Chain : <<"chain", n>> \in ToSet(ensure_chains)
  /\ \A r \in ToSet(Jumps) \cup {Guard} : <<"rule", r>> \in ToSet(ensure_chains)
  /\ \A x \in ToSet(ensure_chains) : x[1] = "rule" => x[2] \in ToSet(Jumps) \cup {Guard}
<1> DEFINE n == <<"MYRUN-PRE", "MYRUN-POST", "MYRUN-FWD">>
           j == Append(Jumps, Guard)
<1>1. n \in Seq(Chain) /\ ToSet(n) = Chain
  BY DEF Chain, ToSet
<1>2. j \in Seq(RuleSet) /\ ToSet(j) = ToSet(Jumps) \cup {Guard}
  <2> DEFINE g == <<Guard>>
  <2>1. g \in Seq(RuleSet) /\ Jumps \in Seq(RuleSet) /\ ToSet(g) = {Guard}
    BY SharedRulesAre DEF ToSet
  <2>2. j = Jumps \o g
    BY <2>1, SharedRulesAre, AppendIsConcat
  <2> HIDE DEF g, j
  <2>3. Jumps \o g \in Seq(RuleSet) /\ ToSet(Jumps \o g) = ToSet(Jumps) \cup ToSet(g)
    BY <2>1, JoinedSeq
  <2> QED
    BY <2>1, <2>2, <2>3
<1> HIDE DEF n, j
<1>3. /\ Each("chain", n) \in Seq(Item) /\ \A x \in ToSet(Each("chain", n)) : SetsUp(x)
      /\ \A m \in Chain : <<"chain", m>> \in ToSet(Each("chain", n))
      /\ \A x \in ToSet(Each("chain", n)) : x[1] = "chain"
  <2>1. n \in Seq(Args) /\ "chain" \in Ops
    BY <1>1, SeqMonotonic, ArgsAre, OpsAre DEF RuleOps
  <2> QED
    BY <1>1, <2>1, EachIs DEF SetsUp
<1>4. ensure_chains = Each("chain", n) \o Each("rule", j)
  BY DEF ensure_chains, n, j
<1>5. /\ Each("rule", j) \in Seq(Item) /\ \A x \in ToSet(Each("rule", j)) : SetsUp(x)
      /\ \A r \in ToSet(Jumps) \cup {Guard} : <<"rule", r>> \in ToSet(Each("rule", j))
      /\ \A x \in ToSet(Each("rule", j)) : x[2] \in ToSet(Jumps) \cup {Guard}
  BY <1>2, RulesSetUp
<1>6. ensure_chains \in Seq(Item) /\ ToSet(ensure_chains) = ToSet(Each("chain", n)) \cup ToSet(Each("rule", j))
  BY <1>3, <1>4, <1>5, JoinedSeq
<1> QED
  BY <1>3, <1>5, <1>6

LEMMA SetupBridgeIs ==
  ASSUME NEW br \in Bridge
  PROVE  /\ setup_bridge(br) \in Seq(Item) /\ \A x \in ToSet(setup_bridge(br)) : SetsUp(x)
         /\ <<"forwarding", 1>> \in ToSet(setup_bridge(br))
         /\ \A n \in Chain : <<"chain", n>> \in ToSet(setup_bridge(br))
         /\ \A r \in SharedRules(br) : <<"rule", r>> \in ToSet(setup_bridge(br))
         /\ \A x \in ToSet(setup_bridge(br)) : x[1] = "rule" => x[2] \in SharedRules(br)
<1> DEFINE f == <<<<"forwarding", 1>>>>
           b == Each("rule", BridgeRules(br))
           e == f \o ensure_chains
<1>1. f \in Seq(Item) /\ ToSet(f) = {<<"forwarding", 1>>} /\ \A x \in ToSet(f) : SetsUp(x)
  <2>1. <<"forwarding", 1>> \in Item
    BY ItemsAre, ArgsAre, OpsAre DEF RuleOps
  <2>2. ToSet(f) = {<<"forwarding", 1>>}
    BY DEF ToSet
  <2> QED
    BY <2>1, <2>2 DEF SetsUp
<1>2. /\ b \in Seq(Item) /\ \A x \in ToSet(b) : SetsUp(x)
      /\ \A r \in ToSet(BridgeRules(br)) : <<"rule", r>> \in ToSet(b)
      /\ \A x \in ToSet(b) : x[2] \in ToSet(BridgeRules(br))
  BY SharedRulesAre, RulesSetUp
<1>3. setup_bridge(br) = e \o b
  BY DEF setup_bridge
<1> HIDE DEF f, b
<1>4. e \in Seq(Item) /\ ToSet(e) = ToSet(f) \cup ToSet(ensure_chains)
  BY <1>1, EnsureChainsIs, JoinedSeq
<1> HIDE DEF e
<1>5. setup_bridge(br) \in Seq(Item) /\ ToSet(setup_bridge(br)) = ToSet(e) \cup ToSet(b)
  BY <1>2, <1>3, <1>4, JoinedSeq
<1>6. \A x \in ToSet(setup_bridge(br)) : x[1] = "rule" => x[2] \in SharedRules(br)
  BY <1>1, <1>2, <1>4, <1>5, EnsureChainsIs DEF SharedRules
<1> QED
  BY <1>1, <1>2, <1>4, <1>5, <1>6, EnsureChainsIs DEF SharedRules

(* What remains once the bridge is there: the publishing of the port.      *)
LEMMA PublishIs ==
  ASSUME NEW c \in Container, NEW a \in Addr \cup {0}
  PROVE  /\ publish(c, a) \in Seq(Item) /\ \A x \in ToSet(publish(c, a)) : SetsUp(x)
         /\ \A r \in ToSet(PublishRules(c, a)) : <<"rule", r>> \in ToSet(publish(c, a))
         /\ \A x \in ToSet(publish(c, a)) :
              x[1] = "rule" => x[2] \in SharedRules(On[c]) \cup ToSet(PublishRules(c, a))
<1> DEFINE b == Each("rule", PublishRules(c, a))
<1>1. /\ b \in Seq(Item) /\ \A x \in ToSet(b) : SetsUp(x)
      /\ \A r \in ToSet(PublishRules(c, a)) : <<"rule", r>> \in ToSet(b)
      /\ \A x \in ToSet(b) : x[2] \in ToSet(PublishRules(c, a))
  BY PublishRulesAre, RulesSetUp
<1>2. publish(c, a) = ensure_chains \o b
  BY DEF publish
<1> HIDE DEF b
<1>3. publish(c, a) \in Seq(Item) /\ ToSet(publish(c, a)) = ToSet(ensure_chains) \cup ToSet(b)
  BY <1>1, <1>2, EnsureChainsIs, JoinedSeq
<1> QED
  BY <1>1, <1>3, EnsureChainsIs DEF SharedRules

(* One more part at the end of a script.                                   *)
LEMMA JoinIs ==
  ASSUME NEW c, NEW s \in Seq(Item), NEW t \in Seq(Item), Sorted(s), Sorted(t),
         \A x \in ToSet(s) : OfLaunch(c, x), \A x \in ToSet(t) : OfLaunch(c, x),
         \A x \in ToSet(s), y \in ToSet(t) : Stage(x) <= Stage(y)
  PROVE  /\ s \o t \in Seq(Item) /\ Sorted(s \o t) /\ \A x \in ToSet(s \o t) : OfLaunch(c, x)
         /\ ToSet(s \o t) = ToSet(s) \cup ToSet(t)
<1>1. s \o t \in Seq(Item) /\ ToSet(s \o t) = ToSet(s) \cup ToSet(t)
  BY JoinedSeq
<1>2. Sorted(s \o t)
  BY SortedJoin
<1> QED
  BY <1>1, <1>2

LEMMA LaunchIs ==
  ASSUME NEW c \in Container
  PROVE  /\ launch(c) \in Seq(Item) /\ Sorted(launch(c)) /\ launch(c) # <<>>
         /\ \A x \in ToSet(launch(c)) : OfLaunch(c, x)
         /\ {<<"bridge", c>>, <<"address", c>>, <<"allocate", c>>, <<"set_master", c>>, <<"move", c>>,
             <<"forwarding", 1>>, <<"publish", c>>} \subseteq ToSet(launch(c))
         /\ \A n \in Chain : <<"chain", n>> \in ToSet(launch(c))
         /\ \A r \in SharedRules(On[c]) : <<"rule", r>> \in ToSet(launch(c))
         /\ \A x \in ToSet(launch(c)) : x[1] = "rule" => x[2] \in SharedRules(On[c])
<1> DEFINE a == <<<<"cgroup_base", c>>, <<"cgroup", c>>, <<"clone", c>>>>
           b == <<<<"bridge", c>>, <<"address", c>>, <<"allocate", c>>, <<"leftover", c>>,
                  <<"create_veth", c>>, <<"set_master", c>>, <<"move", c>>>>
           p == <<<<"publish", c>>>>
           z == <<<<"started", c>>>>
<1>1. \A op \in LaunchOps : <<op, c>> \in Item /\ OfLaunch(c, <<op, c>>)
  BY ItemsAre, OpsAre, ArgsAre DEF OfLaunch
<1>2. /\ a \in Seq(Item) /\ ToSet(a) = {<<"cgroup_base", c>>, <<"cgroup", c>>, <<"clone", c>>}
      /\ \A x \in ToSet(a) : OfLaunch(c, x) /\ Stage(x) = 1
  <2>1. <<"cgroup_base", c>> \in Item /\ <<"cgroup", c>> \in Item /\ <<"clone", c>> \in Item
    BY <1>1 DEF LaunchOps
  <2>2. OfLaunch(c, <<"cgroup_base", c>>) /\ OfLaunch(c, <<"cgroup", c>>) /\ OfLaunch(c, <<"clone", c>>)
    BY <1>1 DEF LaunchOps
  <2>3. a \in Seq(Item)
    BY <2>1
  <2>4. ToSet(a) = {<<"cgroup_base", c>>, <<"cgroup", c>>, <<"clone", c>>}
    BY DEF ToSet
  <2> QED
    BY <2>2, <2>3, <2>4, StageIs
<1>3. /\ b \in Seq(Item) /\ Sorted(b) /\ \A x \in ToSet(b) : OfLaunch(c, x) /\ Stage(x) <= 4
      /\ {<<"bridge", c>>, <<"address", c>>, <<"allocate", c>>, <<"set_master", c>>, <<"move", c>>}
           \subseteq ToSet(b)
      /\ \A x \in ToSet(b) : x[1] # "rule"
  <2>1. /\ <<"bridge", c>> \in Item /\ <<"address", c>> \in Item /\ <<"allocate", c>> \in Item
        /\ <<"leftover", c>> \in Item /\ <<"create_veth", c>> \in Item /\ <<"set_master", c>> \in Item
        /\ <<"move", c>> \in Item
    BY <1>1 DEF LaunchOps
  <2>2. /\ OfLaunch(c, <<"bridge", c>>) /\ OfLaunch(c, <<"address", c>>) /\ OfLaunch(c, <<"allocate", c>>)
        /\ OfLaunch(c, <<"leftover", c>>) /\ OfLaunch(c, <<"create_veth", c>>)
        /\ OfLaunch(c, <<"set_master", c>>) /\ OfLaunch(c, <<"move", c>>)
    BY <1>1 DEF LaunchOps
  <2>3. b \in Seq(Item)
    BY <2>1
  <2>4. ToSet(b) = {<<"bridge", c>>, <<"address", c>>, <<"allocate", c>>, <<"leftover", c>>,
                    <<"create_veth", c>>, <<"set_master", c>>, <<"move", c>>}
    BY DEF ToSet
  <2>5. Len(b) = 7 /\ Stage(b[1]) = 1 /\ Stage(b[2]) = 2 /\ Stage(b[3]) = 3 /\ Stage(b[4]) = 3
        /\ Stage(b[5]) = 3 /\ Stage(b[6]) = 4 /\ Stage(b[7]) = 4
    BY StageIs
  <2>6. Sorted(b)
    <3> HIDE DEF b
    <3> QED
      BY <2>5 DEF Sorted
  <2> HIDE DEF b
  <2>7. \A x \in ToSet(b) : Stage(x) <= 4
    BY <2>4, StageIs
  <2> QED
    BY <2>2, <2>3, <2>4, <2>6, <2>7
<1>4. p \in Seq(Item) /\ ToSet(p) = {<<"publish", c>>} /\ \A x \in ToSet(p) : OfLaunch(c, x) /\ Stage(x) = 6
  <2>1. <<"publish", c>> \in Item /\ OfLaunch(c, <<"publish", c>>)
    BY <1>1 DEF LaunchOps
  <2>2. p \in Seq(Item) /\ ToSet(p) = {<<"publish", c>>}
    BY <2>1 DEF ToSet
  <2> QED
    BY <2>1, <2>2, StageIs
<1>5. z \in Seq(Item) /\ ToSet(z) = {<<"started", c>>} /\ \A x \in ToSet(z) : OfLaunch(c, x) /\ Stage(x) = 7
  <2>1. <<"started", c>> \in Item /\ OfLaunch(c, <<"started", c>>)
    BY <1>1 DEF LaunchOps
  <2>2. z \in Seq(Item) /\ ToSet(z) = {<<"started", c>>}
    BY <2>1 DEF ToSet
  <2> QED
    BY <2>1, <2>2, StageIs
<1>6. /\ setup_bridge(On[c]) \in Seq(Item)
      /\ \A x \in ToSet(setup_bridge(On[c])) : OfLaunch(c, x) /\ Stage(x) = 5
  BY BridgeIs, SetupBridgeIs, SetsUpIs
<1>7. launch(c) = (a \o ((b \o setup_bridge(On[c])) \o p)) \o z
  BY DEF launch, setup_host
<1>8. Sorted(a) /\ Sorted(p) /\ Sorted(z) /\ Sorted(setup_bridge(On[c]))
  BY <1>2, <1>4, <1>5, <1>6, SortedLevel
<1> HIDE DEF a, b, p, z
<1> DEFINE u == b \o setup_bridge(On[c])
<1>9. /\ u \in Seq(Item) /\ Sorted(u) /\ \A x \in ToSet(u) : OfLaunch(c, x)
      /\ ToSet(u) = ToSet(b) \cup ToSet(setup_bridge(On[c]))
  <2>1. ASSUME NEW x \in ToSet(b), NEW y \in ToSet(setup_bridge(On[c])) PROVE Stage(x) <= Stage(y)
    <3>1. Stage(x) \in 1 .. 7 /\ Stage(x) <= 4 /\ Stage(y) = 5
      BY <1>3, <1>6, StageIs
    <3> QED
      BY <3>1
  <2> HIDE DEF u
  <2> DEFINE v == setup_bridge(On[c])
  <2>2. v \in Seq(Item) /\ Sorted(v) /\ \A x \in ToSet(v) : OfLaunch(c, x)
    BY <1>6, <1>8
  <2>3. \A x \in ToSet(b), y \in ToSet(v) : Stage(x) <= Stage(y)
    BY <2>1
  <2> HIDE DEF v
  <2> QED
    BY <1>3, <2>2, <2>3, JoinIs DEF u, v
<1> HIDE DEF u
<1>10. ASSUME NEW x \in ToSet(u) PROVE Stage(x) <= 5
  <2>1. Stage(x) \in 1 .. 7 /\ (Stage(x) <= 4 \/ Stage(x) = 5)
    BY <1>3, <1>6, <1>9, StageIs
  <2> QED
    BY <2>1
<1> DEFINE v == u \o p
<1>11. /\ v \in Seq(Item) /\ Sorted(v) /\ \A x \in ToSet(v) : OfLaunch(c, x)
       /\ ToSet(v) = ToSet(u) \cup ToSet(p)
  <2>1. \A x \in ToSet(u), y \in ToSet(p) : Stage(x) <= Stage(y)
    BY <1>4, <1>10, StageIs
  <2> QED
    BY <1>4, <1>8, <1>9, <2>1, JoinIs
<1> HIDE DEF v
<1> DEFINE w == a \o v
<1>12. /\ w \in Seq(Item) /\ Sorted(w) /\ \A x \in ToSet(w) : OfLaunch(c, x)
       /\ ToSet(w) = ToSet(a) \cup ToSet(v)
  <2>1. \A x \in ToSet(a), y \in ToSet(v) : Stage(x) <= Stage(y)
    BY <1>2, StageIs
  <2> QED
    BY <1>2, <1>8, <1>11, <2>1, JoinIs
<1> HIDE DEF w
<1>13. launch(c) = w \o z
  BY <1>7 DEF u, v, w
<1>14. /\ w \o z \in Seq(Item) /\ Sorted(w \o z) /\ \A x \in ToSet(w \o z) : OfLaunch(c, x)
       /\ ToSet(w \o z) = ToSet(w) \cup ToSet(z)
  <2>1. \A x \in ToSet(w), y \in ToSet(z) : Stage(x) <= Stage(y)
    BY <1>5, StageIs
  <2> QED
    BY <1>5, <1>8, <1>12, <2>1, JoinIs
<1>15. /\ ToSet(b) \subseteq ToSet(launch(c)) /\ <<"publish", c>> \in ToSet(launch(c))
       /\ ToSet(setup_bridge(On[c])) \subseteq ToSet(launch(c))
  BY <1>4, <1>9, <1>11, <1>12, <1>13, <1>14
<1>16. launch(c) # <<>>
  <2>1. ToSet(<<>>) = {}
    BY DEF ToSet
  <2> QED
    BY <1>15, <2>1
<1>17. \A x \in ToSet(launch(c)) : x[1] = "rule" => x[2] \in SharedRules(On[c])
  <2>1. ToSet(launch(c)) = ToSet(a) \cup ToSet(b) \cup ToSet(setup_bridge(On[c])) \cup ToSet(p) \cup ToSet(z)
    BY <1>9, <1>11, <1>12, <1>13, <1>14
  <2>2. \A x \in ToSet(a) \cup ToSet(b) \cup ToSet(p) \cup ToSet(z) : x[1] # "rule"
    BY <1>2, <1>3, <1>4, <1>5
  <2> QED
    BY <2>1, <2>2, BridgeIs, SetupBridgeIs
<1> QED
  BY <1>3, <1>13, <1>14, <1>15, <1>16, <1>17, BridgeIs, SetupBridgeIs

-----------------------------------------------------------------------------
(* Every process has a script that fits its phase.                         *)

LEMMA ProcessIs ==
  /\ "gc" \in Process /\ \A c \in Container : c \in Process /\ c # "gc"
  /\ \A p \in Process : p # "gc" => p \in Container
  BY TagsDiffer DEF Process

LEMMA KindsStep ==
  ASSUME Kinds, NEW p \in Process, NEW f, NEW s, NEW u, Fits(p, f, s, u),
         phase' = [phase EXCEPT ![p] = f], script' = [script EXCEPT ![p] = s],
         undo' = [undo EXCEPT ![p] = u]
  PROVE  Kinds'
<1>1. /\ phase = [q \in Process |-> phase[q]]
      /\ script = [q \in Process |-> script[q]] /\ undo = [q \in Process |-> undo[q]]
  BY DEF Kinds
<1>2. /\ phase' = [q \in Process |-> phase'[q]]
      /\ script' = [q \in Process |-> script'[q]] /\ undo' = [q \in Process |-> undo'[q]]
  BY <1>1
<1>3. phase'[p] = f /\ script'[p] = s /\ undo'[p] = u
  BY <1>1
<1>4. ASSUME NEW q \in Process PROVE Fits(q, phase'[q], script'[q], undo'[q])
  <2>1. CASE q = p
    BY <1>3, <2>1
  <2>2. CASE q # p
    <3>1. phase'[q] = phase[q] /\ script'[q] = script[q] /\ undo'[q] = undo[q]
      BY <1>1, <2>2
    <3> QED
      BY <3>1 DEF Kinds
  <2> QED
    BY <2>1, <2>2
<1> QED
  BY <1>2, <1>4 DEF Kinds

LEMMA KindsSame ==
  ASSUME Kinds, UNCHANGED <<phase, script, undo>>
  PROVE  Kinds'
  BY DEF Kinds

LEMMA KindsScript ==
  ASSUME Kinds, NEW p \in Process, NEW s, Fits(p, phase[p], s, undo[p]),
         script' = [script EXCEPT ![p] = s], UNCHANGED <<phase, undo>>
  PROVE  Kinds'
<1>1. phase' = [phase EXCEPT ![p] = phase[p]] /\ undo' = [undo EXCEPT ![p] = undo[p]]
  BY DEF Kinds
<1> QED
  BY <1>1, KindsStep

(* The first item of a script, and what is left.                           *)
LEMMA HeadIs ==
  ASSUME Kinds, NEW p \in Process, script[p] # <<>>
  PROVE  /\ Head(script[p]) \in Item /\ Head(script[p]) \in Todo(p)
         /\ Todo(p) = {Head(script[p])} \cup ToSet(Tail(script[p]))
         /\ Tail(script[p]) \in Seq(Item) /\ Fits(p, phase[p], Tail(script[p]), undo[p])
         /\ Head(script[p]) = <<Head(script[p])[1], Arg(p)>>
<1>1. Fits(p, phase[p], script[p], undo[p])
  BY DEF Kinds
<1>2. script[p] \in Seq(Item)
  BY <1>1 DEF Fits
<1>3. /\ Tail(script[p]) \in Seq(Item) /\ Head(script[p]) \in Item
      /\ Todo(p) = {Head(script[p])} \cup ToSet(Tail(script[p]))
  BY <1>2, PoppedSeq DEF Todo
<1>4. ToSet(Tail(script[p])) \subseteq ToSet(script[p])
  BY <1>3 DEF Todo
<1>5. Fits(p, phase[p], Tail(script[p]), undo[p])
  BY <1>1, <1>3, <1>4 DEF Fits
<1> QED
  BY <1>3, <1>5, ItemsAre DEF Arg

LEMMA KindsDone ==
  ASSUME Kinds, NEW p \in Process, script[p] # <<>>, Done(p)
  PROVE  Kinds'
  BY HeadIs, KindsScript DEF Done, Continue

LEMMA KindsPush ==
  ASSUME Kinds, NEW c \in Container, script[c] # <<>>, NEW u \in Seq(Item),
         \A x \in ToSet(u) : OfUndo(c, x), DoneAndPush(c, u)
  PROVE  Kinds'
<1>1. c \in Process /\ c # "gc"
  BY ProcessIs
<1>2. Fits(c, phase[c], Tail(script[c]), undo[c])
  BY <1>1, HeadIs
<1>3. undo[c] \in Seq(Item) /\ \A x \in ToSet(undo[c]) : OfUndo(c, x)
  BY <1>1, <1>2 DEF Fits
<1> DEFINE v == undo[c]
<1>4. u \o v \in Seq(Item) /\ ToSet(u \o v) = ToSet(u) \cup ToSet(v)
  <2> HIDE DEF v
  <2>1. v \in Seq(Item)
    BY <1>3 DEF v
  <2> QED
    BY <2>1, JoinedSeq
<1>5. Fits(c, phase[c], Tail(script[c]), u \o undo[c])
  BY <1>1, <1>2, <1>3, <1>4 DEF Fits
<1>6. /\ phase' = [phase EXCEPT ![c] = phase[c]] /\ script' = [script EXCEPT ![c] = Tail(script[c])]
      /\ undo' = [undo EXCEPT ![c] = u \o undo[c]]
  BY DEF DoneAndPush, Continue, Kinds
<1> QED
  BY <1>1, <1>5, <1>6, KindsStep

LEMMA KindsUnwind ==
  ASSUME Kinds, NEW c \in Container, Unwind(c)
  PROVE  Kinds'
<1>1. c \in Process /\ c # "gc"
  BY ProcessIs
<1>2. Fits(c, phase[c], script[c], undo[c])
  BY <1>1 DEF Kinds
<1>3. <<>> \in Seq(Item) /\ ToSet(<<>>) = {}
  BY DEF ToSet
<1>4. Fits(c, "unwind", undo[c], <<>>)
  BY <1>1, <1>2, <1>3 DEF Fits
<1> QED
  BY <1>1, <1>4, KindsStep DEF Unwind, Continue

-----------------------------------------------------------------------------
(* The packet filter.                                                      *)

(* The set of pairs of a rule and a number is finite, since the numbers of *)
(* copies have a bound.                                                    *)
LEMMA TaggedAre ==
  ASSUME Filter, NEW table, NEW tag
  PROVE  /\ IsFiniteSet(tagged_rules(fw, table, tag))
         /\ \A x \in tagged_rules(fw, table, tag) : x[1] \in RuleSet /\ x[1].tag = tag
<1> DEFINE D == DOMAIN fw.rules
           N == {fw.rules[r] : r \in D}
<1>1. IsFiniteSet(D) /\ D \subseteq RuleSet /\ fw.rules \in [D -> Nat]
  BY DEF Filter, IsABag
<1>2. IsFiniteSet(N) /\ N \in SUBSET Nat
  <2>1. fw.rules \in Surjection(D, N)
    BY <1>1 DEF Surjection
  <2> QED
    BY <1>1, <2>1, FS_Surjection
<1>3. PICK b \in Nat : \A n \in N : n <= b
  BY <1>2, BoundOf
<1>4. tagged_rules(fw, table, tag) \subseteq D \X (1 .. b)
  <2> SUFFICES ASSUME NEW x \in tagged_rules(fw, table, tag) PROVE x \in D \X (1 .. b)
    OBVIOUS
  <2>1. PICK r \in D : x \in Lines(fw, r)
    BY DEF tagged_rules, BagToSet
  <2>2. PICK i \in 1 .. fw.rules[r] : x = <<r, i>>
    BY <2>1 DEF Lines
  <2>3. fw.rules[r] \in Nat /\ fw.rules[r] <= b
    BY <1>1, <1>3
  <2>4. i \in 1 .. b
    BY <2>2, <2>3
  <2> QED
    BY <2>2, <2>4
<1>5. IsFiniteSet(D \X (1 .. b))
  <2>1. 1 \in Int /\ b \in Int
    OBVIOUS
  <2>2. IsFiniteSet(1 .. b)
    BY <2>1, FS_Interval
  <2> QED
    BY <1>1, <2>2, FS_Product
<1>6. IsFiniteSet(tagged_rules(fw, table, tag))
  BY <1>4, <1>5, FS_Subset
<1>7. ASSUME NEW x \in tagged_rules(fw, table, tag) PROVE x[1] \in RuleSet /\ x[1].tag = tag
  <2>1. PICK r \in D : r.tag = tag /\ x \in Lines(fw, r)
    BY DEF tagged_rules, BagToSet
  <2>2. x[1] = r
    BY <2>1 DEF Lines
  <2> QED
    BY <1>1, <2>1, <2>2
<1> QED
  BY <1>6, <1>7

LEMMA AddKeeps ==
  ASSUME Filter, NEW r \in RuleSet, fw' = Add(fw, r)
  PROVE  Filter' /\ BagToSet(fw'.rules) = BagToSet(fw.rules) \cup {r} /\ fw'.chains = fw.chains
<1>1. /\ fw'.chains = fw.chains /\ fw'.rules = fw.rules (+) SetToBag({r})
      /\ DOMAIN fw' = {"chains", "rules", "dnat"} /\ fw' = [x \in DOMAIN fw' |-> fw'[x]]
  BY DEF Filter, Add
<1> DEFINE B == fw.rules
           C == fw'.rules
<1>2. IsABag(B) /\ IsFiniteSet(DOMAIN B) /\ DOMAIN B \subseteq RuleSet /\ fw.chains \subseteq Chain
  BY DEF Filter
<1> HIDE DEF B, C
<1>3. C = B (+) SetToBag({r})
  BY <1>1 DEF B, C
<1>4. IsABag(C) /\ DOMAIN C = DOMAIN B \cup {r}
  BY <1>2, <1>3 DEF IsABag, SetToBag, (+)
<1>5. IsFiniteSet(DOMAIN C)
  BY <1>2, <1>4, FS_AddElement
<1> QED
  BY <1>1, <1>2, <1>4, <1>5 DEF B, C, Filter, BagToSet

LEMMA DeleteKeeps ==
  ASSUME Filter, NEW r \in RuleSet, fw' = Delete(fw, r)
  PROVE  /\ Filter' /\ fw'.chains = fw.chains
         /\ \A s \in BagToSet(fw.rules) : s # r => s \in BagToSet(fw'.rules)
<1>1. /\ fw'.chains = fw.chains /\ fw'.rules = fw.rules (-) SetToBag({r})
      /\ DOMAIN fw' = {"chains", "rules", "dnat"} /\ fw' = [x \in DOMAIN fw' |-> fw'[x]]
  BY DEF Filter, Delete
<1> DEFINE B == fw.rules
           C == fw'.rules
<1>2. IsABag(B) /\ IsFiniteSet(DOMAIN B) /\ DOMAIN B \subseteq RuleSet /\ fw.chains \subseteq Chain
  BY DEF Filter
<1> HIDE DEF B, C
<1>3. C = B (-) SetToBag({r})
  BY <1>1 DEF B, C
<1>4. IsABag(C) /\ DOMAIN C \subseteq DOMAIN B /\ \A s \in DOMAIN B : s # r => s \in DOMAIN C
  BY <1>2, <1>3 DEF IsABag, SetToBag, (-)
<1>5. IsFiniteSet(DOMAIN C)
  BY <1>2, <1>4, FS_Subset
<1> QED
  BY <1>1, <1>2, <1>4, <1>5 DEF B, C, Filter, BagToSet

LEMMA FlushKeeps ==
  ASSUME Filter, NEW n, fw' = Flush(fw, n)
  PROVE  Filter'
<1>1. /\ fw'.chains = fw.chains
      /\ fw'.rules = [r \in {s \in DOMAIN fw.rules : s.chain # n} |-> fw.rules[r]]
      /\ DOMAIN fw' = {"chains", "rules", "dnat"} /\ fw' = [x \in DOMAIN fw' |-> fw'[x]]
  BY DEF Filter, Flush
<1> DEFINE B == fw.rules
           C == fw'.rules
<1>2. IsABag(B) /\ IsFiniteSet(DOMAIN B) /\ DOMAIN B \subseteq RuleSet /\ fw.chains \subseteq Chain
  BY DEF Filter
<1> HIDE DEF B, C
<1>3. C = [r \in {s \in DOMAIN B : s.chain # n} |-> B[r]]
  BY <1>1 DEF B, C
<1>4. IsABag(C) /\ DOMAIN C \subseteq DOMAIN B
  BY <1>2, <1>3 DEF IsABag
<1>5. IsFiniteSet(DOMAIN C)
  BY <1>2, <1>4, FS_Subset
<1> QED
  BY <1>1, <1>2, <1>4, <1>5 DEF B, C, Filter

LEMMA ChainsKeep ==
  ASSUME Filter, NEW n \in Chain,
         fw' = DropChain(fw, n) \/ fw' = [fw EXCEPT !.chains = @ \cup {n}]
  PROVE  /\ Filter' /\ fw'.rules = fw.rules
         /\ fw' = [fw EXCEPT !.chains = @ \cup {n}] => fw'.chains = fw.chains \cup {n}
  BY DEF Filter, DropChain

-----------------------------------------------------------------------------
(* Whose items are whose.                                                  *)

LEMMA LaunchItem ==
  ASSUME Kinds, NEW c \in Container, NEW op \in LaunchOps \cup {"forwarding", "chain", "rule"}, At(c, op)
  PROVE  /\ phase[c] = "launch" /\ OfLaunch(c, Head(script[c])) /\ script[c] # <<>>
         /\ (op \in LaunchOps => Arg(c) = c) /\ (op = "chain" => Arg(c) \in Chain)
         /\ (op = "rule" => Arg(c) \in RuleSet)
<1>1. c \in Process /\ c # "gc" /\ script[c] # <<>> /\ Head(script[c])[1] = op
  BY ProcessIs DEF At
<1>2. Head(script[c]) \in ToSet(script[c]) /\ Fits(c, phase[c], script[c], undo[c])
  BY <1>1, HeadIs DEF Todo, Kinds
<1>3. phase[c] \notin {"unwind", "teardown"}
  <2>1. op \notin UndoOps \cup {"list", "delete"}
    BY DEF UndoOps, LaunchOps
  <2>2. ~OfUndo(c, Head(script[c]))
    BY <1>1, <2>1 DEF OfUndo, OfCleanup
  <2> QED
    BY <1>1, <1>2, <2>2 DEF Fits
<1>4. phase[c] = "launch" /\ OfLaunch(c, Head(script[c]))
  BY <1>1, <1>2, <1>3 DEF Fits
<1> QED
  BY <1>1, <1>4 DEF OfLaunch, Arg, LaunchOps

LEMMA UndoItem ==
  ASSUME Kinds, NEW p \in Process,
         NEW op \in UndoOps \cup {"list", "delete", "flush", "drop"}, At(p, op)
  PROVE  /\ script[p] # <<>> /\ (op \in UndoOps => Arg(p) \in Container)
         /\ (op = "list" => Arg(p) \in Listing) /\ (op = "delete" => Arg(p) \in RuleSet)
         /\ op \in {"flush", "drop"} => p = "gc" /\ Arg(p) \in Chain
         /\ p = "gc" => phase[p] = "collect" /\ OfGc(Head(script[p]))
         /\ p # "gc" => phase[p] \in {"unwind", "teardown"} /\ OfUndo(p, Head(script[p]))
<1>1. script[p] # <<>> /\ Head(script[p])[1] = op /\ Arg(p) = Head(script[p])[2]
  BY DEF At, Arg
<1>2. Head(script[p]) \in ToSet(script[p]) /\ Fits(p, phase[p], script[p], undo[p])
  BY <1>1, HeadIs DEF Todo, Kinds
<1>3. op \notin LaunchOps \cup {"forwarding", "chain", "rule"}
  BY DEF UndoOps, LaunchOps
<1>4. CASE p # "gc"
  <2>1. ~OfLaunch(p, Head(script[p]))
    BY <1>1, <1>3 DEF OfLaunch
  <2>2. phase[p] \in {"unwind", "teardown"} /\ OfUndo(p, Head(script[p]))
    BY <1>1, <1>2, <1>4, <2>1 DEF Fits
  <2> QED
    BY <1>1, <1>4, <2>2, ProcessIs DEF OfUndo, OfCleanup, UndoOps
<1>5. CASE p = "gc"
  <2>1. phase[p] = "collect" /\ OfGc(Head(script[p]))
    BY <1>1, <1>2, <1>5 DEF Fits
  <2> QED
    BY <1>1, <1>5, <2>1 DEF OfGc, OfUndo, OfBase, OfCleanup, UndoOps, GcOps, BaseOps
<1> QED
  BY <1>4, <1>5

LEMMA GcItem ==
  ASSUME Kinds, NEW op, At("gc", op)
  PROVE  phase["gc"] = "collect" /\ script["gc"] # <<>> /\ OfGc(Head(script["gc"]))
<1>1. script["gc"] # <<>> /\ "gc" \in Process
  BY ProcessIs DEF At
<1>2. Head(script["gc"]) \in ToSet(script["gc"]) /\ Fits("gc", phase["gc"], script["gc"], undo["gc"])
  BY <1>1, HeadIs DEF Todo, Kinds
<1> QED
  BY <1>1, <1>2 DEF Fits

(* A listing read further, or turned into deletions, is about the same     *)
(* tags.                                                                   *)
LEMMA ListingRead ==
  ASSUME Filter, NEW tags, NEW q \in Listing, q.tables # <<>>, OfCleanup(tags, <<"list", q>>),
         NEW new,
         LET found == SetToSeq(tagged_rules(fw, Head(q.tables), q.tag)) IN
           new = [q EXCEPT !.tables = Tail(@),
                           !.found  = @ \o [i \in DOMAIN found |-> found[i][1]]]
  PROVE  new \in Listing /\ OfCleanup(tags, <<"list", new>>)
<1> DEFINE T == tagged_rules(fw, Head(q.tables), q.tag)
           f == SetToSeq(T)
           g == [i \in DOMAIN f |-> f[i][1]]
           R == {r \in RuleSet : r.tag \in tags}
<1>1. q.tag \in tags /\ \A r \in ToSet(q.found) : r.tag \in tags
  BY DEF OfCleanup
<1>2. IsFiniteSet(T) /\ \A x \in T : x[1] \in R
  BY <1>1, TaggedAre
<1> HIDE DEF T
<1>3. f \in Seq(T)
  BY <1>2, SetToSeqOfSet
<1> HIDE DEF f
<1>4. Len(f) \in Nat /\ DOMAIN f = 1 .. Len(f) /\ \A i \in 1 .. Len(f) : f[i] \in T
  BY <1>3, LenProperties
<1>5. g \in [1 .. Len(f) -> R]
  BY <1>2, <1>4
<1>6. g \in Seq(R)
  BY <1>4, <1>5
<1>7. q.found \in Seq(RuleSet) /\ q.tables \in Seq({"nat", "filter"}) /\ q.tag \in Container \cup {"base"}
  BY DEF Listing
<1>8. q.found \in Seq(R)
  <2>1. ToSet(q.found) \subseteq RuleSet
    BY <1>7, SeqOfSet
  <2>2. ToSet(q.found) \subseteq R
    BY <1>1, <2>1
  <2> HIDE DEF R
  <2> QED
    BY <1>7, <2>2, SeqOfSet
<1>9. q.found \o g \in Seq(R)
  <2> HIDE DEF R, g
  <2> QED
    BY <1>6, <1>8, ConcatProperties
<1>10. Tail(q.tables) \in Seq({"nat", "filter"})
  BY <1>7, HeadTailProperties
<1>11. new = [q EXCEPT !.tables = Tail(@), !.found = @ \o g]
  BY DEF T, f
<1> HIDE DEF g
<1>12. new.tables = Tail(q.tables) /\ new.found = q.found \o g /\ new.tag = q.tag
       /\ new = [tables |-> Tail(q.tables), tag |-> q.tag, found |-> q.found \o g]
  BY <1>11 DEF Listing
<1>13. q.found \o g \in Seq(RuleSet) /\ ToSet(q.found \o g) \subseteq R
  <2>1. R \subseteq RuleSet
    OBVIOUS
  <2> HIDE DEF R
  <2> QED
    BY <1>9, <2>1, SeqMonotonic, SeqOfSet
<1>14. new \in Listing
  BY <1>7, <1>10, <1>12, <1>13 DEF Listing
<1> QED
  BY <1>1, <1>12, <1>13, <1>14 DEF OfCleanup

LEMMA ListingDone ==
  ASSUME NEW tags, NEW q \in Listing, OfCleanup(tags, <<"list", q>>)
  PROVE  /\ Each("delete", q.found) \in Seq(Item)
         /\ \A x \in ToSet(Each("delete", q.found)) : OfCleanup(tags, x)
<1>1. q.found \in Seq(RuleSet) /\ \A r \in ToSet(q.found) : r.tag \in tags
  BY DEF OfCleanup, Listing
<1> DEFINE f == q.found
<1> HIDE DEF f
<1>2. f \in Seq(RuleSet) /\ \A r \in ToSet(f) : r.tag \in tags /\ r \in RuleSet
  BY <1>1, SeqOfSet DEF f
<1>3. f \in Seq(Args) /\ "delete" \in Ops
  BY <1>2, SeqMonotonic, ArgsAre, OpsAre DEF RuleOps
<1>4. /\ Each("delete", f) \in Seq(Item)
      /\ \A x \in ToSet(Each("delete", f)) : \E r \in ToSet(f) : x = <<"delete", r>>
  BY <1>3, EachIs
<1>5. \A x \in ToSet(Each("delete", f)) : OfCleanup(tags, x)
  BY <1>2, <1>4 DEF OfCleanup
<1> QED
  BY <1>4, <1>5 DEF f

LEMMA KindsPlain ==
  ASSUME Kinds, NEW c \in Container, script[c] # <<>>, Done(c) \/ NotThere(c) \/ Unwind(c)
  PROVE  Kinds'
  BY KindsDone, KindsUnwind, KindsSame, ProcessIs DEF NotThere

LEMMA SetOfOne == \A x : ToSet(<<x>>) = {x}
  BY DEF ToSet

LEMMA UndoOne ==
  ASSUME NEW c \in Container, NEW op \in UndoOps
  PROVE  <<<<op, c>>>> \in Seq(Item) /\ \A x \in ToSet(<<<<op, c>>>>) : OfUndo(c, x)
<1>1. <<op, c>> \in Item /\ OfUndo(c, <<op, c>>)
  BY ItemsAre, OpsAre, ArgsAre DEF OfUndo
<1>2. ToSet(<<<<op, c>>>>) = {<<op, c>>}
  BY DEF ToSet
<1> QED
  BY <1>1, <1>2

(* A script put before what is left of another.                            *)
LEMMA KindsBefore ==
  ASSUME Kinds, NEW p \in Process, script[p] # <<>>, NEW s \in Seq(Item),
         \A x \in ToSet(s) : /\ p = "gc" => OfGc(x)
                             /\ p # "gc" /\ phase[p] = "launch" => OfLaunch(p, x)
                             /\ p # "gc" /\ phase[p] # "launch" => OfUndo(p, x)
  PROVE  Fits(p, phase[p], s \o Tail(script[p]), undo[p])
<1> DEFINE t == Tail(script[p])
<1>1. Fits(p, phase[p], t, undo[p]) /\ Fits(p, phase[p], script[p], undo[p]) /\ t \in Seq(Item)
  BY HeadIs DEF Kinds
<1> HIDE DEF t
<1>2. s \o t \in Seq(Item) /\ ToSet(s \o t) = ToSet(s) \cup ToSet(t)
  BY <1>1, JoinedSeq
<1>3. phase[p] \notin {"idle", "wait", "ended", "done"}
  BY <1>1 DEF Fits
<1> QED
  BY <1>1, <1>2, <1>3 DEF Fits, t

(* The same, when an undo action is pushed in the same step.               *)
LEMMA KindsInsert ==
  ASSUME Kinds, NEW c \in Container, script[c] # <<>>, phase[c] = "launch",
         NEW x \in Item, OfLaunch(c, x), NEW y \in Item, OfUndo(c, y),
         script' = [script EXCEPT ![c] = <<x>> \o Tail(script[c])],
         undo' = [undo EXCEPT ![c] = <<y>> \o @], UNCHANGED phase
  PROVE  Kinds'
<1> DEFINE v == undo[c]
           s == <<x>>
           u == <<y>>
<1>1. c \in Process /\ c # "gc"
  BY ProcessIs
<1>2. s \in Seq(Item) /\ u \in Seq(Item) /\ ToSet(s) = {x} /\ ToSet(u) = {y}
  BY DEF ToSet
<1> HIDE DEF s, u
<1>3. Fits(c, phase[c], s \o Tail(script[c]), v)
  BY <1>1, <1>2, KindsBefore
<1> HIDE DEF v
<1>4. v \in Seq(Item) /\ \A z \in ToSet(v) : OfUndo(c, z)
  BY <1>1, <1>3 DEF Fits
<1>5. u \o v \in Seq(Item) /\ ToSet(u \o v) = ToSet(u) \cup ToSet(v)
  BY <1>2, <1>4, JoinedSeq
<1>6. Fits(c, phase[c], s \o Tail(script[c]), u \o v)
  BY <1>1, <1>2, <1>3, <1>4, <1>5 DEF Fits
<1>7. /\ phase' = [phase EXCEPT ![c] = phase[c]] /\ script' = [script EXCEPT ![c] = s \o Tail(script[c])]
      /\ undo' = [undo EXCEPT ![c] = u \o v]
  BY DEF Kinds, s, u, v
<1> QED
  BY ONLY Kinds, <1>1, <1>6, <1>7, KindsStep

(* The items that the cloning of a child adds.                             *)
LEMMA CloneItems ==
  ASSUME NEW c \in Container
  PROVE  /\ <<"add_pid", c>> \in Item /\ OfLaunch(c, <<"add_pid", c>>) /\ Stage(<<"add_pid", c>>) = 1
         /\ <<"kill", c>> \in Item /\ OfUndo(c, <<"kill", c>>)
<1>1. <<"add_pid", c>> \in Item /\ <<"kill", c>> \in Item
  BY ItemsAre, OpsAre, ArgsAre DEF LaunchOps, UndoOps
<1> QED
  BY <1>1, StageIs DEF OfLaunch, OfUndo, LaunchOps, UndoOps

(* What Clone does to the process.                                         *)
LEMMA CloneMoves ==
  ASSUME NEW c, Clone(c)
  PROVE  \/ DoneAndPush(c, <<<<"kill", c>>>>) \/ Unwind(c)
         \/ /\ script' = [script EXCEPT ![c] = <<<<"add_pid", c>>>> \o Tail(script[c])]
            /\ undo' = [undo EXCEPT ![c] = <<<<"kill", c>>>> \o @] /\ UNCHANGED phase
            /\ missing' = [missing EXCEPT ![c] = FALSE] /\ UNCHANGED leftRules
  BY DEF Clone, CloneWithCgroup, CloneThenMove, CloneWithoutCgroup, Continue, FailLaunch, hist

LEMMA LaunchKinds ==
  ASSUME Kinds, ip \in [Container -> Addr \cup {0}], NEW c \in Container, LaunchStep(c)
  PROVE  Kinds'
<1>0. c \in Process /\ c # "gc"
  BY ProcessIs
<1>1. CASE \/ CgroupBase(c) \/ LookUpBridge(c) \/ BridgeIndex(c) \/ BridgeAddress(c)
           \/ DeleteLeftover(c) \/ SetMaster(c) \/ MovePeer(c) \/ enable_ip_forwarding(c)
           \/ EnsureChain(c) \/ append_unique(c)
  <2>1. script[c] # <<>> /\ (Done(c) \/ NotThere(c) \/ Unwind(c))
    BY <1>1 DEF CgroupBase, LookUpBridge, BridgeIndex, BridgeAddress, DeleteLeftover, SetMaster,
       MovePeer, enable_ip_forwarding, EnsureChain, append_unique, At, FailLaunch
  <2> QED
    BY <2>1, KindsPlain
<1>2. CASE Allocate(c) \/ CreateVeth(c)
  <2>1. /\ script[c] # <<>>
        /\ (\E op \in UndoOps : DoneAndPush(c, <<<<op, c>>>>)) \/ Unwind(c)
    BY <1>2 DEF Allocate, CreateVeth, At, FailLaunch, UndoOps
  <2>2. ASSUME NEW op \in UndoOps, DoneAndPush(c, <<<<op, c>>>>) PROVE Kinds'
    BY <2>1, <2>2, UndoOne, KindsPush
  <2> QED
    BY <2>1, <2>2, KindsUnwind
<1>7. CASE CreateCgroup(c) \/ AddPid(c)
  <2>1. script[c] # <<>> /\ (DoneAndPush(c, <<<<"rmdir", c>>>>) \/ Done(c) \/ Unwind(c))
    BY <1>7 DEF CreateCgroup, AddPid, At, FailLaunch
  <2>2. ASSUME DoneAndPush(c, <<<<"rmdir", c>>>>) PROVE Kinds'
    BY <2>1, <2>2, UndoOne, KindsPush DEF UndoOps
  <2> QED
    BY <2>1, <2>2, KindsPlain
<1>8. CASE Clone(c)
  <2>1. script[c] # <<>> /\ phase[c] = "launch"
    BY <1>8, LaunchItem DEF Clone, At, LaunchOps
  <2>2. ASSUME DoneAndPush(c, <<<<"kill", c>>>>) PROVE Kinds'
    BY <2>1, <2>2, UndoOne, KindsPush DEF UndoOps
  <2> QED
    BY <1>8, <2>1, <2>2, KindsUnwind, CloneMoves, CloneItems, KindsInsert
<1>3. CASE CreateBridge(c)
  <2>0. script[c] # <<>>
    BY <1>3 DEF CreateBridge, At
  <2>1. CASE FailLaunch(c)
    BY <2>1, KindsUnwind DEF FailLaunch
  <2>2. CASE ~FailLaunch(c)
    <3> DEFINE s == <<<<"bridge_index", c>>>>
    <3>1. s \in Seq(Item) /\ ToSet(s) = {<<"bridge_index", c>>} /\ OfLaunch(c, <<"bridge_index", c>>)
      <4>1. <<"bridge_index", c>> \in Item
        BY ItemsAre, OpsAre, ArgsAre DEF LaunchOps
      <4> QED
        BY <4>1 DEF OfLaunch, ToSet, LaunchOps
    <3>2. script' = [script EXCEPT ![c] = s \o Tail(script[c])] /\ UNCHANGED <<phase, undo>>
      BY <1>3, <2>2 DEF CreateBridge, Continue
    <3>3. phase[c] = "launch"
      BY <1>3, LaunchItem DEF CreateBridge, LaunchOps
    <3> HIDE DEF s
    <3>4. Fits(c, phase[c], s \o Tail(script[c]), undo[c])
      BY <1>0, <2>0, <3>1, <3>3, KindsBefore
    <3> QED
      BY <1>0, <3>2, <3>4, KindsScript
  <2> QED
    BY <2>1, <2>2
<1>4. CASE Publish(c)
  <2>0. script[c] # <<>> /\ phase[c] = "launch"
    BY <1>4, LaunchItem DEF Publish, At, LaunchOps
  <2> DEFINE z == <<<<"published", c>>>>
             s == publish(c, ip[c])
  <2>1. z \in Seq(Item) /\ ToSet(z) = {<<"published", c>>} /\ OfLaunch(c, <<"published", c>>)
    <3>1. <<"published", c>> \in Item
      BY ItemsAre, OpsAre, ArgsAre DEF LaunchOps
    <3> QED
      BY <3>1 DEF OfLaunch, ToSet, LaunchOps
  <2>2. s \in Seq(Item) /\ \A x \in ToSet(s) : OfLaunch(c, x)
    <3>1. ip[c] \in Addr \cup {0}
      OBVIOUS
    <3> QED
      BY <3>1, PublishIs, SetsUpIs
  <2>3. script' = [script EXCEPT ![c] = (s \o z) \o Tail(script[c])] /\ UNCHANGED <<phase, undo>>
    BY <1>4 DEF Publish, Continue
  <2> HIDE DEF s, z
  <2>4. s \o z \in Seq(Item) /\ ToSet(s \o z) = ToSet(s) \cup ToSet(z)
    BY <2>1, <2>2, JoinedSeq
  <2> DEFINE t == s \o z
  <2>5. t \in Seq(Item) /\ \A x \in ToSet(t) : OfLaunch(c, x)
    BY <2>1, <2>2, <2>4
  <2> HIDE DEF t
  <2>6. Fits(c, phase[c], t \o Tail(script[c]), undo[c])
    BY <1>0, <2>0, <2>5, KindsBefore
  <2> QED
    BY <1>0, <2>3, <2>6, KindsScript DEF t
<1>5. CASE Published(c)
  <2> DEFINE u == NetTeardown(c) \o cleanup(c)
  <2>1. script[c] # <<>> /\ DoneAndPush(c, u)
    BY <1>5 DEF Published, At
  <2>2. /\ cleanup(c) \in Seq(Item) /\ NetTeardown(c) \in Seq(Item)
        /\ \A x \in ToSet(cleanup(c)) \cup ToSet(NetTeardown(c)) : OfUndo(c, x)
    BY CleanupIs, TeardownIs DEF OfUndo
  <2>3. u \in Seq(Item) /\ ToSet(u) = ToSet(NetTeardown(c)) \cup ToSet(cleanup(c))
    BY <2>2, JoinedSeq
  <2> HIDE DEF u
  <2> QED
    BY <2>1, <2>2, <2>3, KindsPush
<1>6. CASE Started(c)
  <2>1. CASE FailLaunch(c)
    BY <2>1, KindsUnwind DEF FailLaunch
  <2>2. CASE ~FailLaunch(c)
    <3>1. /\ phase' = [phase EXCEPT ![c] = "wait"] /\ script' = [script EXCEPT ![c] = <<>>]
          /\ undo' = [undo EXCEPT ![c] = <<>>]
      BY <1>6, <2>2 DEF Started, Continue
    <3>2. Fits(c, "wait", <<>>, <<>>)
      <4>1. <<>> \in Seq(Item) /\ ToSet(<<>>) = {}
        BY DEF ToSet
      <4> QED
        BY <1>0, <4>1 DEF Fits
    <3> QED
      BY <1>0, <3>1, <3>2, KindsStep
  <2> QED
    BY <2>1, <2>2
<1> QED
  BY <1>1, <1>2, <1>3, <1>4, <1>5, <1>6, <1>7, <1>8 DEF LaunchStep

(* A listing read further, or the deletions that follow it, in place of    *)
(* the listing.                                                            *)
LEMMA ListedAre ==
  ASSUME Kinds, Filter, NEW p \in Process, ListTagged(p), NEW tags, OfCleanup(tags, Head(script[p]))
  PROVE  \E s \in Seq(Item) : /\ script' = [script EXCEPT ![p] = s \o Tail(script[p])]
                              /\ \A x \in ToSet(s) : OfCleanup(tags, x)
<1> DEFINE q == Arg(p)
<1>1. q \in Listing /\ Head(script[p]) = <<"list", q>>
  <2>1. q \in Listing /\ script[p] # <<>>
    BY UndoItem DEF ListTagged
  <2> QED
    BY <2>1, HeadIs DEF ListTagged, At
<1> HIDE DEF q
<1>2. CASE q.tables = <<>>
  <2> DEFINE s == Each("delete", q.found)
  <2>1. s \in Seq(Item) /\ \A x \in ToSet(s) : OfCleanup(tags, x)
    BY <1>1, ListingDone
  <2>2. script' = [script EXCEPT ![p] = s \o Tail(script[p])]
    BY <1>2 DEF ListTagged, Continue, q
  <2> QED
    BY <2>1, <2>2
<1>3. CASE q.tables # <<>>
  <2> DEFINE found == SetToSeq(tagged_rules(fw, Head(q.tables), q.tag))
             new == [q EXCEPT !.tables = Tail(@), !.found = @ \o [i \in DOMAIN found |-> found[i][1]]]
             s == <<<<"list", new>>>>
  <2>1. script' = [script EXCEPT ![p] = s \o Tail(script[p])]
    BY <1>3 DEF ListTagged, Continue, q
  <2>2. new \in Listing /\ OfCleanup(tags, <<"list", new>>)
    <3> HIDE DEF new
    <3>1. LET f == SetToSeq(tagged_rules(fw, Head(q.tables), q.tag)) IN
            new = [q EXCEPT !.tables = Tail(@), !.found  = @ \o [i \in DOMAIN f |-> f[i][1]]]
      BY DEF new
    <3> QED
      BY <1>1, <1>3, <3>1, ListingRead
  <2> HIDE DEF new
  <2>3. s \in Seq(Item) /\ ToSet(s) = {<<"list", new>>}
    <3>1. <<"list", new>> \in Item
      BY <2>2, ItemsAre, OpsAre, ArgsAre DEF RuleOps
    <3> QED
      BY <3>1 DEF ToSet
  <2> HIDE DEF s
  <2> QED
    BY <2>1, <2>2, <2>3
<1> QED
  BY <1>2, <1>3

(* Whose rules gc lists.                                                   *)
LEMMA GcLists ==
  ASSUME NEW h, OfGc(h), h[1] = "list"
  PROVE  OfCleanup({"base", "none"}, h) \/ \E c \in Container : OfCleanup({c}, h)
<1>1. OfBase(h) => OfCleanup({"base", "none"}, h)
  BY DEF OfBase, BaseOps
<1>2. ASSUME NEW c \in Container, OfUndo(c, h) PROVE OfCleanup({c}, h)
  BY <1>2 DEF OfUndo, UndoOps
<1>3. OfBase(h) \/ \E c \in Container : OfUndo(c, h)
  BY DEF OfGc, GcOps
<1> QED
  BY <1>1, <1>2, <1>3

LEMMA UndoKinds ==
  ASSUME Kinds, Filter, NEW p \in Process, UndoStep(p)
  PROVE  Kinds'
<1>1. CASE \/ Kill(p) \/ RemoveCgroup(p) \/ DeleteRule(p) \/ FlushChain(p) \/ DeleteChain(p)
           \/ DeleteVeth(p) \/ Release(p)
  <2>1. script[p] # <<>> /\ Done(p)
    BY <1>1 DEF Kill, RemoveCgroup, DeleteRule, FlushChain, DeleteChain, DeleteVeth, Release, At
  <2> QED
    BY <2>1, KindsDone
<1>2. CASE ListTagged(p)
  <2>1. /\ script[p] # <<>> /\ Head(script[p])[1] = "list"
        /\ p = "gc" => OfGc(Head(script[p]))
        /\ p # "gc" => OfUndo(p, Head(script[p])) /\ phase[p] # "launch"
    BY <1>2, UndoItem DEF ListTagged, At
  <2>2. PICK tags : /\ OfCleanup(tags, Head(script[p]))
                    /\ \A x : OfCleanup(tags, x) => /\ p = "gc" => OfGc(x)
                                                    /\ p # "gc" => OfUndo(p, x)
    <3>1. CASE p # "gc"
      <4>1. OfCleanup({p}, Head(script[p]))
        BY <2>1, <3>1 DEF OfUndo, UndoOps
      <4> QED
        BY <3>1, <4>1 DEF OfUndo
    <3>2. CASE p = "gc"
      <4>1. \A x : OfCleanup({"base", "none"}, x) => OfGc(x)
        BY DEF OfGc, OfBase
      <4>2. \A c \in Container : \A x : OfCleanup({c}, x) => OfGc(x)
        BY DEF OfGc, OfUndo
      <4> QED
        BY <2>1, <3>2, <4>1, <4>2, GcLists
    <3> QED
      BY <3>1, <3>2
  <2>3. PICK s \in Seq(Item) : /\ script' = [script EXCEPT ![p] = s \o Tail(script[p])]
                              /\ \A x \in ToSet(s) : OfCleanup(tags, x)
    BY <1>2, <2>2, ListedAre
  <2>4. Fits(p, phase[p], s \o Tail(script[p]), undo[p])
    BY <2>1, <2>2, <2>3, KindsBefore
  <2> QED
    BY <1>2, <2>3, <2>4, KindsScript DEF ListTagged
<1>3. CASE Finish(p)
  <2>1. Fits(p, phase[p], <<>>, undo[p])
    BY <1>3 DEF Finish, Kinds
  <2>2. Fits(p, IF p = "gc" THEN "done" ELSE "ended", <<>>, undo[p])
    BY <2>1 DEF Fits
  <2>3. /\ phase' = [phase EXCEPT ![p] = IF p = "gc" THEN "done" ELSE "ended"]
        /\ script' = [script EXCEPT ![p] = <<>>] /\ undo' = [undo EXCEPT ![p] = undo[p]]
    <3>1. script' = script /\ undo' = undo /\ script[p] = <<>>
      BY <1>3 DEF Finish
    <3>2. script' = [script EXCEPT ![p] = <<>>] /\ undo' = [undo EXCEPT ![p] = undo[p]]
      BY <3>1 DEF Kinds
    <3> QED
      BY <1>3, <3>2 DEF Finish
  <2> QED
    BY <2>2, <2>3, KindsStep
<1> QED
  BY <1>1, <1>2, <1>3 DEF UndoStep

(* One item of gc for each of some containers.                             *)
LEMMA EachContainer ==
  ASSUME NEW S \in SUBSET Container, NEW op \in Ops
  PROVE  /\ Each(op, SetToSeq(S)) \in Seq(Item)
         /\ \A x \in ToSet(Each(op, SetToSeq(S))) : \E c \in S : x = <<op, c>>
<1> DEFINE s == SetToSeq(S)
<1>1. IsFiniteSet(S)
  BY HostAssumption, FS_Subset
<1>2. s \in Seq(S)
  BY <1>1, SetToSeqOfSet
<1> HIDE DEF s
<1>3. s \in Seq(Args) /\ ToSet(s) \subseteq S
  <2>1. S \subseteq Args
    BY ArgsAre
  <2> QED
    BY <1>2, <2>1, SeqMonotonic, SeqOfSet
<1>4. /\ Each(op, s) \in Seq(Item)
      /\ \A x \in ToSet(Each(op, s)) : \E a \in ToSet(s) : x = <<op, a>>
  BY <1>3, EachIs
<1> QED
  BY <1>3, <1>4 DEF s

LEMMA GcItemsAre ==
  /\ \A c \in Container : \A x : OfUndo(c, x) \/ x = <<"teardown", c>> => OfGc(x)
  /\ \A x : OfBase(x) => OfGc(x)
  /\ <<<<"gc_empty", 0>>, <<"ipam_gc", 0>>, <<"orphaned_veths", 0>>>> \in Seq(Item)
  /\ \A x \in ToSet(<<<<"gc_empty", 0>>, <<"ipam_gc", 0>>, <<"orphaned_veths", 0>>>>) :
       OfGc(x) /\ x[1] \in GcOps
  /\ <<<<"bridge_used", 0>>, <<"bridge_links", 0>>, <<"base_rules", 0>>>> \in Seq(Item)
  /\ \A x \in ToSet(<<<<"bridge_used", 0>>, <<"bridge_links", 0>>, <<"base_rules", 0>>>>) : OfBase(x)
  /\ <<<<"delete_bridge", 0>>>> \in Seq(Item) /\ \A x \in ToSet(<<<<"delete_bridge", 0>>>>) : OfBase(x)
  /\ <<<<"scan", 0>>>> \in Seq(Item) /\ \A x \in ToSet(<<<<"scan", 0>>>>) : OfGc(x)
<1>1. /\ \A c \in Container : \A x : OfUndo(c, x) \/ x = <<"teardown", c>> => OfGc(x)
      /\ \A x : OfBase(x) => OfGc(x)
  BY DEF OfGc
<1>2. /\ <<"gc_empty", 0>> \in Item /\ <<"ipam_gc", 0>> \in Item /\ <<"orphaned_veths", 0>> \in Item
      /\ <<"bridge_used", 0>> \in Item /\ <<"bridge_links", 0>> \in Item /\ <<"base_rules", 0>> \in Item
      /\ <<"delete_bridge", 0>> \in Item /\ <<"scan", 0>> \in Item
  BY ItemsAre, OpsAre, ArgsAre DEF GcOps, BaseOps
<1>3. /\ OfGc(<<"gc_empty", 0>>) /\ OfGc(<<"ipam_gc", 0>>) /\ OfGc(<<"orphaned_veths", 0>>)
      /\ OfGc(<<"scan", 0>>) /\ {"gc_empty", "ipam_gc", "orphaned_veths"} \subseteq GcOps
  BY DEF OfGc, GcOps
<1>4. /\ OfBase(<<"bridge_used", 0>>) /\ OfBase(<<"bridge_links", 0>>) /\ OfBase(<<"base_rules", 0>>)
      /\ OfBase(<<"delete_bridge", 0>>)
  BY DEF OfBase, BaseOps
<1>5. /\ ToSet(<<<<"gc_empty", 0>>, <<"ipam_gc", 0>>, <<"orphaned_veths", 0>>>>)
           = {<<"gc_empty", 0>>, <<"ipam_gc", 0>>, <<"orphaned_veths", 0>>}
      /\ ToSet(<<<<"bridge_used", 0>>, <<"bridge_links", 0>>, <<"base_rules", 0>>>>)
           = {<<"bridge_used", 0>>, <<"bridge_links", 0>>, <<"base_rules", 0>>}
      /\ ToSet(<<<<"delete_bridge", 0>>>>) = {<<"delete_bridge", 0>>}
      /\ ToSet(<<<<"scan", 0>>>>) = {<<"scan", 0>>}
  BY DEF ToSet
<1>6. /\ <<<<"gc_empty", 0>>, <<"ipam_gc", 0>>, <<"orphaned_veths", 0>>>> \in Seq(Item)
      /\ <<<<"bridge_used", 0>>, <<"bridge_links", 0>>, <<"base_rules", 0>>>> \in Seq(Item)
      /\ <<<<"delete_bridge", 0>>>> \in Seq(Item) /\ <<<<"scan", 0>>>> \in Seq(Item)
  BY <1>2
<1> QED
  BY <1>1, <1>3, <1>4, <1>5, <1>6

(* What gc does next, as scripts: the new script and where its items come  *)
(* from.                                                                   *)
LEMMA ScanIs ==
  ASSUME Kinds, Scan
  PROVE  /\ script'["gc"] \in Seq(Item) /\ script' = [script EXCEPT !["gc"] = script'["gc"]]
         /\ \A x \in ToSet(script'["gc"]) :
              \/ x[1] \in GcOps /\ OfGc(x)
              \/ \E c \in Container : ~child[c] /\ x = <<"teardown", c>>
<1> DEFINE dead == {c \in Container : status[c] = "Running" /\ ~child[c]}
           t == <<<<"gc_empty", 0>>, <<"ipam_gc", 0>>, <<"orphaned_veths", 0>>>>
           d == Each("teardown", SetToSeq(dead))
<1>1. script' = [script EXCEPT !["gc"] = d \o t] /\ script = [p \in Process |-> script[p]]
  BY DEF Scan, Continue, Kinds
<1>2. d \in Seq(Item) /\ \A x \in ToSet(d) : \E c \in dead : x = <<"teardown", c>>
  <2>1. "teardown" \in Ops
    BY OpsAre
  <2> QED
    BY <2>1, EachContainer
<1>3. t \in Seq(Item) /\ \A x \in ToSet(t) : OfGc(x) /\ x[1] \in GcOps
  BY GcItemsAre
<1> HIDE DEF d, t
<1>4. d \o t \in Seq(Item) /\ ToSet(d \o t) = ToSet(d) \cup ToSet(t)
  BY <1>2, <1>3, JoinedSeq
<1>5. script'["gc"] = d \o t
  BY <1>1, ProcessIs
<1> QED
  BY <1>1, <1>2, <1>3, <1>4, <1>5

LEMMA OrphansAre ==
  ASSUME Kinds, orphaned_veths
  PROVE  /\ script'["gc"] \in Seq(Item) /\ script' = [script EXCEPT !["gc"] = script'["gc"]]
         /\ \A x \in ToSet(script'["gc"]) :
              \/ OfBase(x) /\ live = {}
              \/ \E c \in Container : c \notin live /\ x = <<"veth", c>>
<1> DEFINE o == {c \in list_links : c \notin live}
           t == <<<<"bridge_used", 0>>, <<"bridge_links", 0>>, <<"base_rules", 0>>>>
           d == Each("veth", SetToSeq(o))
           u == IF live = {} THEN t ELSE <<>>
<1>1. script' = [script EXCEPT !["gc"] = d \o u] /\ script = [p \in Process |-> script[p]]
  BY DEF orphaned_veths, Continue, Kinds
<1>2. d \in Seq(Item) /\ \A x \in ToSet(d) : \E c \in o : x = <<"veth", c>>
  <2>1. "veth" \in Ops /\ o \in SUBSET Container
    BY OpsAre DEF UndoOps, list_links
  <2> HIDE DEF o
  <2> QED
    BY <2>1, EachContainer
<1>3. t \in Seq(Item) /\ \A x \in ToSet(t) : OfBase(x)
  BY GcItemsAre
<1>4. u \in Seq(Item) /\ \A x \in ToSet(u) : OfBase(x) /\ live = {}
  <2>1. <<>> \in Seq(Item) /\ ToSet(<<>>) = {}
    BY DEF ToSet
  <2> HIDE DEF t
  <2> QED
    BY <1>3, <2>1
<1> HIDE DEF d, u
<1>5. d \o u \in Seq(Item) /\ ToSet(d \o u) = ToSet(d) \cup ToSet(u)
  BY <1>2, <1>4, JoinedSeq
<1>6. script'["gc"] = d \o u
  BY <1>1, ProcessIs
<1> QED
  BY <1>1, <1>2, <1>4, <1>5, <1>6 DEF list_links

LEMMA GcKinds ==
  ASSUME Kinds, GcStep
  PROVE  Kinds'
<1>0. "gc" \in Process
  BY ProcessIs
<1>1. CASE gc_empty \/ IpamGc \/ BridgeUsed \/ DeleteBridge
  <2>1. script["gc"] # <<>> /\ Done("gc")
    BY <1>1 DEF gc_empty, IpamGc, BridgeUsed, DeleteBridge, At
  <2> QED
    BY <1>0, <2>1, KindsDone
<1>2. CASE Scan \/ orphaned_veths
  <2>1. phase["gc"] = "collect" /\ UNCHANGED <<phase, undo>>
    BY <1>2, GcItem DEF Scan, orphaned_veths
  <2>2. /\ script'["gc"] \in Seq(Item) /\ script' = [script EXCEPT !["gc"] = script'["gc"]]
        /\ \A x \in ToSet(script'["gc"]) : OfGc(x)
    <3>1. CASE Scan
      BY <3>1, ScanIs, GcItemsAre
    <3>2. CASE orphaned_veths
      <4>1. /\ script'["gc"] \in Seq(Item) /\ script' = [script EXCEPT !["gc"] = script'["gc"]]
            /\ \A x \in ToSet(script'["gc"]) : OfBase(x) \/ \E c \in Container : x = <<"veth", c>>
        BY <3>2, OrphansAre
      <4>2. \A c \in Container : OfUndo(c, <<"veth", c>>)
        BY DEF OfUndo, UndoOps
      <4> QED
        BY <4>1, <4>2, GcItemsAre
    <3> QED
      BY <1>2, <3>1, <3>2
  <2>3. Fits("gc", phase["gc"], script["gc"], undo["gc"])
    BY <1>0 DEF Kinds
  <2>4. Fits("gc", phase["gc"], script'["gc"], undo["gc"])
    BY <2>1, <2>2, <2>3 DEF Fits
  <2> QED
    BY <1>0, <2>1, <2>2, <2>4, KindsScript
<1>3. CASE TeardownDead
  <2> DEFINE s == teardown(Arg("gc"))
  <2>1. script["gc"] # <<>> /\ OfGc(Head(script["gc"])) /\ Head(script["gc"])[1] = "teardown"
    BY <1>3, GcItem DEF TeardownDead, At
  <2>2. Arg("gc") \in Container
    BY <2>1 DEF OfGc, OfBase, OfUndo, OfCleanup, Arg, BaseOps, GcOps, UndoOps
  <2>3. s \in Seq(Item) /\ \A x \in ToSet(s) : OfGc(x)
    BY <2>2, TeardownIs, GcItemsAre
  <2>4. script' = [script EXCEPT !["gc"] = s \o Tail(script["gc"])] /\ UNCHANGED <<phase, undo>>
    BY <1>3 DEF TeardownDead, Continue
  <2> HIDE DEF s
  <2>5. Fits("gc", phase["gc"], s \o Tail(script["gc"]), undo["gc"])
    BY <1>0, <2>1, <2>3, KindsBefore
  <2> QED
    BY <1>0, <2>4, <2>5, KindsScript
<1>4. CASE BridgeLinks
  <2> DEFINE s == <<<<"delete_bridge", 0>>>>
  <2>1. script["gc"] # <<>>
    BY <1>4 DEF BridgeLinks, At
  <2>2. s \in Seq(Item) /\ \A x \in ToSet(s) : OfGc(x)
    BY GcItemsAre
  <2>3. /\ UNCHANGED <<phase, undo>>
        /\ \/ script' = [script EXCEPT !["gc"] = s \o Tail(script["gc"])]
           \/ script' = [script EXCEPT !["gc"] = Tail(script["gc"])]
    BY <1>4 DEF BridgeLinks, Continue
  <2> HIDE DEF s
  <2>4. Fits("gc", phase["gc"], s \o Tail(script["gc"]), undo["gc"])
    BY <1>0, <2>1, <2>2, KindsBefore
  <2> QED
    BY <1>0, <2>1, <2>3, <2>4, HeadIs, KindsScript
<1>5. CASE CountBaseRules
  <2>1. Fits("gc", phase["gc"], script["gc"], undo["gc"]) /\ phase["gc"] = "collect"
    BY <1>0, <1>5, GcItem DEF Kinds, CountBaseRules
  <2>2. /\ UNCHANGED <<phase, undo>>
        /\ \/ script' = [script EXCEPT !["gc"] = <<>>]
           \/ script' = [script EXCEPT !["gc"] = teardown_base]
    BY <1>5 DEF CountBaseRules, Continue
  <2>3. Fits("gc", phase["gc"], <<>>, undo["gc"])
    <3>1. <<>> \in Seq(Item) /\ ToSet(<<>>) = {}
      BY DEF ToSet
    <3> QED
      BY <2>1, <3>1 DEF Fits
  <2>4. Fits("gc", phase["gc"], teardown_base, undo["gc"])
    BY <2>1, BaseTeardownIs, GcItemsAre DEF Fits
  <2> QED
    BY <1>0, <2>2, <2>3, <2>4, KindsScript
<1> QED
  BY <1>1, <1>2, <1>3, <1>4, <1>5 DEF GcStep

LEMMA KindsNext ==
  ASSUME Kinds, Filter, ip \in [Container -> Addr \cup {0}], [Next]_vars
  PROVE  Kinds'
<1>0. "gc" \in Process /\ \A c \in Container : c \in Process /\ c # "gc"
  BY ProcessIs
<1>1. ASSUME NEW c \in Container, Start(c) PROVE Kinds'
  <2>1. /\ phase' = [phase EXCEPT ![c] = "launch", !["gc"] = IF @ = "done" THEN "idle" ELSE @]
        /\ script' = [script EXCEPT ![c] = launch(c)] /\ undo' = undo
    BY <1>1 DEF Start
  <2>2. /\ phase = [p \in Process |-> phase[p]]
        /\ script = [p \in Process |-> script[p]] /\ undo = [p \in Process |-> undo[p]]
        /\ \A p \in Process : Fits(p, phase[p], script[p], undo[p])
    BY DEF Kinds
  <2>3. /\ phase'[c] = "launch" /\ script'[c] = launch(c)
        /\ phase'["gc"] = IF phase["gc"] = "done" THEN "idle" ELSE phase["gc"]
        /\ script'["gc"] = script["gc"]
        /\ \A p \in Process : p # c /\ p # "gc" => phase'[p] = phase[p] /\ script'[p] = script[p]
    BY <1>0, <2>1, <2>2
  <2>4. /\ phase' = [p \in Process |-> phase'[p]] /\ script' = [p \in Process |-> script'[p]]
        /\ undo' = [p \in Process |-> undo'[p]]
    BY <2>1, <2>2
  <2>5. Fits(c, "launch", launch(c), undo[c])
    <3>1. Fits(c, phase[c], script[c], undo[c]) /\ launch(c) \in Seq(Item)
      BY <1>0, <2>2, LaunchIs
    <3> QED
      BY <1>0, <3>1, LaunchIs DEF Fits
  <2>6. Fits("gc", phase'["gc"], script["gc"], undo["gc"])
    <3>1. Fits("gc", phase["gc"], script["gc"], undo["gc"])
      BY <1>0, <2>2
    <3> QED
      BY <2>3, <3>1 DEF Fits
  <2>7. ASSUME NEW p \in Process PROVE Fits(p, phase'[p], script'[p], undo'[p])
    <3>1. CASE p = c
      BY <2>1, <2>3, <2>5, <3>1
    <3>2. CASE p = "gc"
      BY <2>1, <2>3, <2>6, <3>2
    <3>3. CASE p # c /\ p # "gc"
      BY <2>1, <2>2, <2>3, <3>3
    <3> QED
      BY <3>1, <3>2, <3>3
  <2> QED
    BY <2>4, <2>7 DEF Kinds
<1>2. ASSUME NEW c \in Container, CallFails(c) PROVE Kinds'
  BY <1>2, KindsUnwind DEF CallFails
<1>3. ASSUME NEW c \in Container, Exit(c) PROVE Kinds'
  BY <1>3, KindsSame DEF Exit, procVars
<1>4. ASSUME NEW c \in Container, Reap(c) PROVE Kinds'
  <2>1. Fits(c, phase[c], script[c], undo[c])
    BY <1>0 DEF Kinds
  <2>2. Fits(c, "teardown", teardown(c), undo[c])
    BY <1>0, <2>1, TeardownIs DEF Fits
  <2>3. /\ phase' = [phase EXCEPT ![c] = "teardown"] /\ script' = [script EXCEPT ![c] = teardown(c)]
        /\ undo' = [undo EXCEPT ![c] = undo[c]]
    BY <1>4 DEF Reap, Kinds
  <2> QED
    BY <1>0, <2>2, <2>3, KindsStep
<1>5. ASSUME NEW c \in Container, Crash(c) PROVE Kinds'
  <2> DEFINE f == IF status[c] = "Created" THEN "idle" ELSE "ended"
  <2>1. Fits(c, f, <<>>, <<>>)
    <3>1. <<>> \in Seq(Item) /\ ToSet(<<>>) = {}
      BY DEF ToSet
    <3> QED
      BY <1>0, <3>1 DEF Fits
  <2>2. /\ phase' = [phase EXCEPT ![c] = f] /\ script' = [script EXCEPT ![c] = <<>>]
        /\ undo' = [undo EXCEPT ![c] = <<>>]
    BY <1>5 DEF Crash, Continue
  <2> HIDE DEF f
  <2> QED
    BY <1>0, <2>1, <2>2, KindsStep
<1>6. CASE StartGc
  <2> DEFINE s == <<<<"scan", 0>>>>
  <2>1. s \in Seq(Item) /\ \A x \in ToSet(s) : OfGc(x)
    BY GcItemsAre
  <2>2. /\ phase' = [phase EXCEPT !["gc"] = "collect"] /\ script' = [script EXCEPT !["gc"] = s]
        /\ undo' = [undo EXCEPT !["gc"] = undo["gc"]]
    BY <1>6 DEF StartGc, Kinds
  <2> HIDE DEF s
  <2>3. Fits("gc", phase["gc"], script["gc"], undo["gc"])
    BY <1>0 DEF Kinds
  <2>4. Fits("gc", "collect", s, undo["gc"])
    BY <2>1, <2>3 DEF Fits
  <2> QED
    BY <1>0, <2>2, <2>4, KindsStep
<1>7. CASE UNCHANGED vars
  BY <1>7, KindsSame DEF vars, procVars
<1>8. ASSUME NEW c \in Container, LaunchStep(c) PROVE Kinds'
  BY <1>8, LaunchKinds
<1>9. ASSUME NEW p \in Process, UndoStep(p) PROVE Kinds'
  BY <1>9, UndoKinds
<1>10. CASE GcStep
  BY <1>10, GcKinds
<1> QED
  BY <1>1, <1>2, <1>3, <1>4, <1>5, <1>6, <1>7, <1>8, <1>9, <1>10 DEF Next

LEMMA FilterNext ==
  ASSUME Kinds, Filter, [Next]_vars
  PROVE  Filter'
<1>1. ASSUME UNCHANGED fw PROVE Filter'
  BY <1>1 DEF Filter
<1>2. ASSUME NEW c \in Container, EnsureChain(c) PROVE Filter'
  <2>1. Arg(c) \in Chain
    BY <1>2, LaunchItem DEF EnsureChain
  <2>2. UNCHANGED fw \/ fw' = [fw EXCEPT !.chains = @ \cup {Arg(c)}]
    BY <1>2 DEF EnsureChain
  <2> QED
    BY <1>1, <2>1, <2>2, ChainsKeep
<1>3. ASSUME NEW c \in Container, append_unique(c) PROVE Filter'
  <2>1. Arg(c) \in RuleSet
    BY <1>3, LaunchItem DEF append_unique
  <2>2. UNCHANGED fw \/ fw' = Add(fw, Arg(c))
    BY <1>3 DEF append_unique
  <2> QED
    BY <1>1, <2>1, <2>2, AddKeeps
<1>4. ASSUME NEW c \in Container,
             \/ CgroupBase(c) \/ CreateCgroup(c) \/ Clone(c) \/ AddPid(c) \/ LookUpBridge(c) \/ CreateBridge(c)
             \/ BridgeIndex(c) \/ BridgeAddress(c) \/ Allocate(c) \/ DeleteLeftover(c) \/ CreateVeth(c)
             \/ SetMaster(c) \/ MovePeer(c) \/ enable_ip_forwarding(c) \/ Publish(c) \/ Published(c)
             \/ Started(c) \/ Start(c) \/ CallFails(c) \/ Exit(c) \/ Reap(c) \/ Crash(c)
      PROVE  Filter'
  BY <1>1, <1>4 DEF CgroupBase, CreateCgroup, Clone, CloneWithCgroup, CloneThenMove, CloneWithoutCgroup, AddPid, LookUpBridge, CreateBridge, BridgeIndex,
     BridgeAddress, Allocate, DeleteLeftover, CreateVeth, SetMaster, MovePeer, enable_ip_forwarding,
     Publish, Published, Started, Start, CallFails, Exit, Reap, Crash, fwVars
<1>5. ASSUME NEW p \in Process, DeleteRule(p) PROVE Filter'
  BY <1>5, UndoItem, DeleteKeeps DEF DeleteRule
<1>6. ASSUME NEW p \in Process, FlushChain(p) PROVE Filter'
  BY <1>6, FlushKeeps DEF FlushChain
<1>7. ASSUME NEW p \in Process, DeleteChain(p) PROVE Filter'
  BY <1>7, UndoItem, ChainsKeep DEF DeleteChain
<1>8. ASSUME NEW p \in Process, Kill(p) \/ RemoveCgroup(p) \/ ListTagged(p) \/ DeleteVeth(p)
                                \/ Release(p) \/ Finish(p)
      PROVE  Filter'
  BY <1>1, <1>8 DEF Kill, RemoveCgroup, ListTagged, DeleteVeth, Release, Finish, fwVars
<1>9. CASE GcStep \/ StartGc
  BY <1>1, <1>9 DEF GcStep, Scan, TeardownDead, gc_empty, IpamGc, orphaned_veths, BridgeUsed,
     BridgeLinks, DeleteBridge, CountBaseRules, StartGc, fwVars
<1>10. CASE UNCHANGED vars
  BY <1>1, <1>10 DEF vars, fwVars
<1> QED
  BY <1>2, <1>3, <1>4, <1>5, <1>6, <1>7, <1>8, <1>9, <1>10 DEF Next, LaunchStep, UndoStep

(* The variables of the host other than the packet filter.                 *)
Typed ==
  /\ missing \in [Process -> BOOLEAN] /\ seen \in [Process -> Nat]
  /\ status \in [Container -> {"Created", "Running", "Stopped"}]
  /\ child \in [Container -> BOOLEAN] /\ ip \in [Container -> Addr \cup {0}]
  /\ live \subseteq Container /\ bridge \in [Bridge -> [index : Nat, address : BOOLEAN, up : BOOLEAN]]
  /\ veth \in [Container -> {"none", "host", "moved"}] /\ master \in [Container -> Nat]
  /\ lease \in [Container -> Addr \cup {0}] /\ forwarding \in BOOLEAN
  /\ cgBase \in BOOLEAN /\ cgroup2 \in BOOLEAN /\ placed \in [Container -> BOOLEAN]
  /\ DOMAIN cg = Container
  /\ \A c \in Container : cg[c] = None \/ cg[c] \subseteq Needs[c]

LEMMA TypedIs ==
  ASSUME Kinds, Filter, Typed
  PROVE  TypeOK
<1>1. phase \in [Process -> {"idle", "launch", "unwind", "wait", "teardown", "ended", "collect", "done"}]
  <2>1. phase = [p \in Process |-> phase[p]]
    BY DEF Kinds
  <2>2. ASSUME NEW p \in Process
        PROVE  phase[p] \in {"idle", "launch", "unwind", "wait", "teardown", "ended", "collect", "done"}
    <3>1. Fits(p, phase[p], script[p], undo[p])
      BY DEF Kinds
    <3> QED
      BY <3>1 DEF Fits
  <2> QED
    BY <2>1, <2>2
<1> QED
  BY <1>1 DEF TypeOK, Typed, Filter

LEMMA FreshIs ==
  ASSUME Typed
  PROVE  FreshIndex \in Nat \ {0}
<1> DEFINE S == {seen[p] : p \in Process}
           B == {bridge[b].index : b \in Bridge}
           T == B \cup S
           f == [b \in Bridge |-> bridge[b].index]
<1>1. IsFiniteSet(Process)
  <2>1. Process = Container \cup {"gc"} /\ IsFiniteSet(Container)
    BY HostAssumption DEF Process
  <2> QED
    BY <2>1, FS_AddElement
<1>2. IsFiniteSet(S) /\ S \subseteq Nat
  <2>1. seen \in Surjection(Process, S)
    BY DEF Surjection, Typed
  <2>2. S \subseteq Nat
    BY DEF Typed
  <2> HIDE DEF S
  <2> QED
    BY <1>1, <2>1, <2>2, FS_Surjection
<1>3. IsFiniteSet(B) /\ B \subseteq Nat /\ B # {}
  <2>1. f \in Surjection(Bridge, B)
    BY DEF Surjection
  <2>2. B \subseteq Nat
    BY DEF Typed
  <2>3. bridge[DEFAULT_BRIDGE].index \in B
    BY HostAssumption
  <2> HIDE DEF B, f
  <2> QED
    BY <2>1, <2>2, <2>3, FS_Surjection, HostAssumption
<1>6. FreshIndex = 1 + Max(T)
  BY DEF FreshIndex
<1> HIDE DEF S, B
<1>4. IsFiniteSet(T) /\ T \in SUBSET Nat /\ T # {}
  BY <1>2, <1>3, FS_Union
<1> HIDE DEF T
<1>5. Max(T) \in Nat
  BY <1>4, MaxOf
<1> QED
  BY <1>5, <1>6

LEMMA FreeIs ==
  ASSUME NEW c \in Container, Typed, Free # {}
  PROVE  Min(Free) \in Addr
<1>1. Free \in SUBSET Nat /\ Free \subseteq Addr
  BY HostAssumption DEF Free
<1> QED
  BY <1>1, MinOf

LEMMA TypedNext ==
  ASSUME Kinds, Typed, [Next]_vars
  PROVE  Typed'
<1>0. "gc" \in Process /\ \A c \in Container : c \in Process /\ c # "gc"
  BY ProcessIs
<1>1. ASSUME NEW c \in Container, CgroupBase(c) PROVE Typed'
  BY <1>0, <1>1 DEF Typed, CgroupBase, Done, NotThere, FailLaunch, Unwind, Continue, recVars, netVars, fwVars
<1>2. ASSUME NEW c \in Container, CreateCgroup(c) PROVE Typed'
  <2>1. apply_limits(c) \subseteq Needs[c]
    BY DEF apply_limits
  <2>2. /\ UNCHANGED <<recVars, seen, live, netVars, fwVars, cgBase, placed, cgroup2>>
        /\ missing' = [missing EXCEPT ![c] = FALSE]
        /\ UNCHANGED cg \/ cg' = [cg EXCEPT ![c] = apply_limits(c)]
    BY <1>2 DEF CreateCgroup, Done, DoneAndPush, FailLaunch, Unwind, Continue
  <2>3. DOMAIN cg' = Container /\ \A d \in Container : cg'[d] = None \/ cg'[d] \subseteq Needs[d]
    BY <2>1, <2>2 DEF Typed
  <2> QED
    BY <1>0, <2>2, <2>3 DEF Typed, recVars, netVars, fwVars
<1>3. ASSUME NEW c \in Container, Clone(c) \/ AddPid(c) PROVE Typed'
  <2>1. CloneIntoCgroup \in BOOLEAN
    BY HostAssumption
  <2>2. CASE Clone(c)
    <3>1. /\ UNCHANGED <<status, ip, seen, live, netVars, fwVars, cgBase, cg, cgroup2>>
          /\ missing' = [missing EXCEPT ![c] = FALSE]
          /\ UNCHANGED child \/ child' = [child EXCEPT ![c] = TRUE]
          /\ UNCHANGED placed \/ \E b \in BOOLEAN : placed' = [placed EXCEPT ![c] = b]
      BY <2>1, <2>2 DEF Clone, CloneWithCgroup, CloneThenMove, CloneWithoutCgroup, DoneAndPush, FailLaunch,
         Unwind, Continue
    <3> QED
      BY <1>0, <3>1 DEF Typed, netVars, fwVars
  <2>3. CASE AddPid(c)
    BY <1>0, <2>3 DEF Typed, AddPid, Done, FailLaunch, Unwind, Continue, recVars, netVars, fwVars
  <2> QED
    BY <1>3, <2>2, <2>3
<1>4. ASSUME NEW c \in Container, LookUpBridge(c) \/ BridgeIndex(c) PROVE Typed'
  <2>1. bridge[On[c]].index \in Nat
    BY HostAssumption DEF Typed
  <2> QED
    BY <1>0, <1>4, <2>1 DEF Typed, LookUpBridge, BridgeIndex, Done, NotThere, FailLaunch, Unwind, Continue,
     recVars, netVars, fwVars, cgVars
<1>5. ASSUME NEW c \in Container, CreateBridge(c) PROVE Typed'
  <2>1. create_bridge(FreshIndex) \in [index : Nat, address : BOOLEAN, up : BOOLEAN]
    BY FreshIs DEF create_bridge, NoBridge
  <2>2. /\ UNCHANGED <<recVars, seen, live, veth, master, lease, fwVars, cgVars>>
        /\ missing' = [missing EXCEPT ![c] = FALSE]
        /\ UNCHANGED bridge \/ bridge' = [bridge EXCEPT ![On[c]] = create_bridge(FreshIndex)]
    BY <1>5 DEF CreateBridge, FailLaunch, Unwind, Continue
  <2> HIDE DEF create_bridge
  <2> QED
    BY <1>0, <2>1, <2>2, BridgeIs DEF Typed, recVars, fwVars, cgVars
<1>6. ASSUME NEW c \in Container, BridgeAddress(c) PROVE Typed'
  <2>1. set_up(add_address(bridge[On[c]])) \in [index : Nat, address : BOOLEAN, up : BOOLEAN]
    <3>1. bridge[On[c]] \in [index : Nat, address : BOOLEAN, up : BOOLEAN]
      BY BridgeIs DEF Typed
    <3> QED
      BY <3>1 DEF set_up, add_address
  <2>2. /\ UNCHANGED <<recVars, seen, live, veth, master, lease, fwVars, cgVars>>
        /\ missing' = [missing EXCEPT ![c] = FALSE]
        /\ UNCHANGED bridge \/ bridge' = [bridge EXCEPT ![On[c]] = set_up(add_address(bridge[On[c]]))]
    BY <1>6 DEF BridgeAddress, Done, FailLaunch, Unwind, Continue
  <2> QED
    BY <1>0, <2>1, <2>2, BridgeIs DEF Typed, recVars, fwVars, cgVars
<1>7. ASSUME NEW c \in Container, Allocate(c) PROVE Typed'
  <2>1. /\ UNCHANGED <<status, child, seen, live, bridge, veth, master, fwVars, cgVars>>
        /\ missing' = [missing EXCEPT ![c] = FALSE]
    BY <1>7 DEF Allocate, DoneAndPush, FailLaunch, Unwind, Continue
  <2>2. \/ UNCHANGED <<lease, ip>>
        \/ \E a \in Addr \cup {0} : lease' = [lease EXCEPT ![c] = a] /\ ip' = [ip EXCEPT ![c] = a]
    <3>1. Free # {} => Min(Free) \in Addr \cup {0}
      BY FreeIs
    <3>2. lease[c] \in Addr \cup {0}
      BY DEF Typed
    <3> QED
      BY <1>7, <3>1, <3>2 DEF Allocate
  <2> QED
    BY <1>0, <2>1, <2>2 DEF Typed, fwVars, cgVars
<1>8. ASSUME NEW c \in Container, DeleteLeftover(c) \/ CreateVeth(c) \/ SetMaster(c) \/ MovePeer(c)
      PROVE  Typed'
  <2>1. /\ UNCHANGED <<recVars, seen, live, bridge, lease, fwVars, cgVars>>
        /\ missing' = [missing EXCEPT ![c] = FALSE]
    BY <1>8 DEF DeleteLeftover, CreateVeth, SetMaster, MovePeer, Done, DoneAndPush, FailLaunch, Unwind,
       Continue
  <2>2. /\ UNCHANGED veth \/ \E v \in {"none", "host", "moved"} : veth' = [veth EXCEPT ![c] = v]
        /\ UNCHANGED master \/ \E m \in {0, seen[c]} : master' = [master EXCEPT ![c] = m]
    BY <1>8 DEF DeleteLeftover, CreateVeth, SetMaster, MovePeer, delete_link, create_veth, set_master,
       move_to_netns_pid
  <2>3. seen[c] \in Nat
    BY <1>0 DEF Typed
  <2> QED
    BY <1>0, <2>1, <2>2, <2>3 DEF Typed, recVars, fwVars, cgVars
<1>9. ASSUME NEW c \in Container, enable_ip_forwarding(c) \/ EnsureChain(c) \/ append_unique(c)
                                  \/ Publish(c) \/ Published(c)
      PROVE  Typed'
  BY <1>0, <1>9 DEF Typed, enable_ip_forwarding, EnsureChain, append_unique, Publish, Published, Done,
     NotThere, DoneAndPush, FailLaunch, Unwind, Continue, recVars, netVars, fwVars, cgVars
<1>10. ASSUME NEW c \in Container, Started(c) PROVE Typed'
  <2>1. /\ UNCHANGED <<child, ip, seen, live, netVars, fwVars, cgVars>>
        /\ missing' = [missing EXCEPT ![c] = FALSE]
        /\ UNCHANGED status \/ status' = [status EXCEPT ![c] = "Running"]
    BY <1>10 DEF Started, FailLaunch, Unwind, Continue
  <2> QED
    BY <1>0, <2>1 DEF Typed, netVars, fwVars, cgVars
<1>11. ASSUME NEW c \in Container, Start(c) \/ CallFails(c) \/ Reap(c) PROVE Typed'
  BY <1>0, <1>11 DEF Typed, Start, CallFails, Reap, Unwind, Continue, recVars, netVars, fwVars, cgVars
<1>12. ASSUME NEW c \in Container, Exit(c) \/ Crash(c) PROVE Typed'
  <2>1. /\ UNCHANGED <<status, ip, seen, live, bridge, lease, fwVars, cgVars>> /\ Dies(c)
        /\ UNCHANGED missing \/ missing' = [missing EXCEPT ![c] = FALSE]
    BY <1>12 DEF Exit, Crash, Continue, procVars
  <2> QED
    BY <1>0, <2>1 DEF Typed, Dies, fwVars, cgVars
<1>13. ASSUME NEW p \in Process, Kill(p) PROVE Typed'
  BY <1>13 DEF Typed, Kill, Dies, Done, Continue, fwVars, cgVars
<1>14. ASSUME NEW p \in Process, RemoveCgroup(p) PROVE Typed'
  BY <1>14 DEF Typed, RemoveCgroup, Done, Continue, recVars, netVars, fwVars
<1>15. ASSUME NEW p \in Process, DeleteVeth(p) \/ Release(p) PROVE Typed'
  <2>1. Arg(p) \in Container
    BY <1>15, UndoItem DEF DeleteVeth, Release, UndoOps
  <2>2. CASE DeleteVeth(p)
    BY <2>1, <2>2 DEF Typed, DeleteVeth, delete_link, set_master, Done, Continue, recVars, fwVars, cgVars
  <2>3. CASE Release(p)
    BY <2>1, <2>3 DEF Typed, Release, Done, Continue, recVars, fwVars, cgVars
  <2> QED
    BY <1>15, <2>2, <2>3
<1>16. ASSUME NEW p \in Process, ListTagged(p) \/ DeleteRule(p) \/ FlushChain(p) \/ DeleteChain(p)
       PROVE  Typed'
  BY <1>16 DEF Typed, ListTagged, DeleteRule, FlushChain, DeleteChain, Done, Continue, recVars, netVars,
     fwVars, cgVars
<1>17. ASSUME NEW p \in Process, Finish(p) PROVE Typed'
  BY <1>17, ProcessIs DEF Typed, Finish, netVars, fwVars, cgVars
<1>18. CASE Scan
  BY <1>0, <1>18 DEF Typed, Scan, Continue, netVars, fwVars, cgVars
<1>19. CASE TeardownDead \/ orphaned_veths \/ BridgeUsed \/ BridgeLinks \/ CountBaseRules \/ StartGc
  <2>1. /\ UNCHANGED <<recVars, live, netVars, fwVars, cgVars>>
        /\ UNCHANGED missing \/ missing' = [missing EXCEPT !["gc"] = FALSE]
        /\ UNCHANGED seen \/ seen' = [seen EXCEPT !["gc"] = bridge[DEFAULT_BRIDGE].index]
    BY <1>19 DEF TeardownDead, orphaned_veths, BridgeUsed, BridgeLinks, CountBaseRules,
       StartGc, Done, Continue
  <2> QED
    BY <1>0, <2>1, BridgeIs DEF Typed, recVars, netVars, fwVars, cgVars
<1>20. CASE gc_empty
  BY <1>0, <1>20 DEF Typed, gc_empty, Done, Continue, recVars, netVars, fwVars
<1>21. CASE IpamGc \/ DeleteBridge
  <2>1. CASE IpamGc
    BY <1>0, <2>1 DEF Typed, IpamGc, Done, Continue, recVars, fwVars, cgVars
  <2>2. CASE DeleteBridge
    BY <1>0, <2>2, HostAssumption DEF Typed, DeleteBridge, NoBridge, Done, Continue, recVars, fwVars, cgVars
  <2> QED
    BY <1>21, <2>1, <2>2
<1>22. CASE UNCHANGED vars
  BY <1>22 DEF Typed, vars, procVars, recVars, netVars, fwVars, cgVars
<1> QED
  BY <1>1, <1>2, <1>3, <1>4, <1>5, <1>6, <1>7, <1>8, <1>9, <1>10, <1>11, <1>12, <1>13, <1>14, <1>15,
     <1>16, <1>17, <1>18, <1>19, <1>20, <1>21, <1>22 DEF Next, LaunchStep, UndoStep, GcStep

LEMMA ShapeInit ==
  ASSUME Init
  PROVE  Kinds /\ Filter /\ Typed
<1>1. <<>> \in Seq(Item) /\ ToSet(<<>>) = {}
  BY DEF ToSet
<1>2. \A p \in Process : Fits(p, "idle", <<>>, <<>>)
  BY <1>1 DEF Fits
<1>3. Kinds
  BY <1>2 DEF Init, Kinds
<1>4. Filter
  <2>1. /\ fw.chains = {} /\ DOMAIN fw.rules = {} /\ IsABag(fw.rules)
        /\ DOMAIN fw = {"chains", "rules", "dnat"} /\ fw = [x \in DOMAIN fw |-> fw[x]]
    BY DEF Init, Untouched, EmptyBag, SetToBag, IsABag
  <2> QED
    BY <2>1, FS_EmptySet DEF Filter
<1>5. Typed
  BY HostAssumption DEF Init, Typed, NoBridge
<1> QED
  BY <1>3, <1>4, <1>5

(* Every variable stays in its domain, and every process has a script made *)
(* of the items its phase allows: a launch undoes nothing, a rollback and  *)
(* a teardown touch one container only.                                    *)
THEOREM TypeCorrect == Spec => [](TypeOK /\ Kinds)
<1>1. Init => Kinds /\ Filter /\ Typed
  BY ShapeInit
<1>2. (Kinds /\ Filter /\ Typed) /\ [Next]_vars => (Kinds /\ Filter /\ Typed)'
  BY KindsNext, FilterNext, TypedNext DEF Typed
<1>3. Kinds /\ Filter /\ Typed => TypeOK /\ Kinds
  BY TypedIs
<1> QED
  BY <1>1, <1>2, <1>3, PTL DEF Spec

-----------------------------------------------------------------------------
(* The limits.                                                             *)

(* A cgroup is made with every limit, and is only removed when it is       *)
(* empty.  A child is in it from clone on, or is moved into it next; until *)
(* a launch has its child, it has none.                                    *)
Limited ==
  /\ child \in [Container -> BOOLEAN] /\ placed \in [Container -> BOOLEAN]
  /\ DOMAIN cg = Container /\ DOMAIN script = Process /\ DOMAIN phase = Process
  /\ cgroup2 \in BOOLEAN
  /\ \A c \in Container :
       /\ cg[c] = None \/ AllowMissing \/ cg[c] = Needs[c]
       /\ Inside(c) => cg[c] # None
       /\ phase[c] \in {"idle", "wait"} => script[c] = <<>>
       /\ phase[c] = "idle" => ~child[c]
       /\ ~cgroup2 /\ Needs[c] # {} => (phase[c] = "launch" => At(c, "cgroup_base")) /\ ~Up(c)
       /\ cgroup2 /\ child[c] /\ phase[c] \in {"launch", "wait"} => placed[c] \/ At(c, "add_pid")

LEMMA LaunchFirst ==
  ASSUME NEW c \in Container
  PROVE  launch(c) # <<>> /\ Head(launch(c)) = <<"cgroup_base", c>>
<1> DEFINE a == <<<<"cgroup_base", c>>, <<"cgroup", c>>, <<"clone", c>>>>
<1>1. a # <<>> /\ a[1] = <<"cgroup_base", c>> /\ Len(a) = 3
  OBVIOUS
<1> QED
  BY <1>1 DEF launch

(* A process takes an item that is not about cgroups.                      *)
LEMMA LimitsItem ==
  ASSUME Limited, NEW p \in Process, NEW op, op \notin {"add_pid", "cgroup_base"}, At(p, op),
         UNCHANGED <<child, cgVars, phase>>, script' = script \/ \E s : script' = [script EXCEPT ![p] = s]
  PROVE  Limited'
<1> USE DEF Limited, cgVars, At, Up, Inside, Process
<1>1. CASE script' = script
  BY <1>1
<1>2. ASSUME NEW s, script' = [script EXCEPT ![p] = s] PROVE Limited'
  <2>1. ASSUME NEW c \in Container, c # p PROVE script'[c] = script[c]
    BY <1>2, <2>1
  <2>2. script[p] # <<>> /\ Head(script[p])[1] = op
    OBVIOUS
  <2> QED
    BY <1>2, <2>1, <2>2
<1> QED
  BY <1>1, <1>2

(* A launch gives up.                                                      *)
LEMMA LimitsFail ==
  ASSUME Limited, NEW c \in Container, Unwind(c), UNCHANGED <<child, cgVars>>
  PROVE  Limited'
<1>1. /\ phase' = [phase EXCEPT ![c] = "unwind"] /\ script' = [script EXCEPT ![c] = undo[c]]
      /\ phase[c] = "launch"
  BY DEF Unwind, Continue
<1>2. /\ phase'[c] = "unwind" /\ DOMAIN phase' = Process /\ DOMAIN script' = Process
      /\ \A d \in Container : d # c => phase'[d] = phase[d] /\ script'[d] = script[d]
  BY <1>1 DEF Limited, Process
<1> QED
  BY <1>2 DEF Limited, cgVars, At, Up, Inside

LEMMA LimitsStep ==
  ASSUME CloneIntoCgroup = TRUE, Kinds, Limited, [Next]_vars
  PROVE  Limited'
<1> USE DEF Limited, recVars, cgVars, procVars, hist, At, Up, Inside, Process
<1>1. ASSUME NEW c \in Container, LookUpBridge(c) \/ CreateBridge(c) \/ BridgeIndex(c)
             \/ BridgeAddress(c) \/ Allocate(c) \/ DeleteLeftover(c) \/ CreateVeth(c) \/ SetMaster(c)
             \/ MovePeer(c)
      PROVE  Limited'
  BY <1>1 DEF LookUpBridge, CreateBridge, BridgeIndex, BridgeAddress, Allocate,
     DeleteLeftover, CreateVeth, SetMaster, MovePeer, Done, DoneAndPush, Continue, NotThere, FailLaunch, Unwind
<1>11. ASSUME NEW c \in Container, enable_ip_forwarding(c) \/ EnsureChain(c) \/ append_unique(c)
             \/ Publish(c) \/ Published(c)
      PROVE  Limited'
  <2>1. UNCHANGED <<child, cgVars>>
    BY <1>11 DEF enable_ip_forwarding, EnsureChain, append_unique, Publish, Published
  <2>2. CASE Unwind(c)
    BY <2>1, <2>2, LimitsFail
  <2>3. CASE ~Unwind(c)
    <3>1. phase' = phase /\ (script' = script \/ \E s : script' = [script EXCEPT ![c] = s])
      BY <1>11, <2>3 DEF enable_ip_forwarding, EnsureChain, append_unique, Publish, Published,
         Done, DoneAndPush, Continue, NotThere, FailLaunch
    <3>2. \E op \in {"forwarding", "chain", "rule", "publish", "published"} : At(c, op)
      BY <1>11 DEF enable_ip_forwarding, EnsureChain, append_unique, Publish, Published
    <3> QED
      BY <2>1, <3>1, <3>2, LimitsItem
  <2> QED
    BY <2>2, <2>3
<1>16. ASSUME NEW c \in Container, Started(c) PROVE Limited'
  <2>1. CASE ~child[c]
    BY <1>16, <2>1, LimitsFail DEF Started, FailLaunch
  <2>2. CASE child[c]
    <3>1. /\ phase' = [phase EXCEPT ![c] = "wait"] /\ script' = [script EXCEPT ![c] = <<>>]
          /\ UNCHANGED <<child, cgVars>> /\ At(c, "started")
      BY <1>16, <2>2 DEF Started, Continue
    <3>2. phase[c] = "launch"
      BY <3>1, LaunchItem DEF LaunchOps
    <3>3. (~cgroup2 => Needs[c] = {}) /\ (cgroup2 => placed[c])
      BY <2>2, <3>1, <3>2
    <3> QED
      BY <3>1, <3>3
  <2> QED
    BY <2>1, <2>2
<1>12. ASSUME NEW c \in Container, CallFails(c) PROVE Limited'
  BY <1>12, LimitsFail DEF CallFails
<1>17. ASSUME NEW c \in Container, CgroupBase(c) PROVE Limited'
  <2>1. CASE Unwind(c)
    <3>1. UNCHANGED <<child, cg, placed, cgroup2>>
      BY <1>17 DEF CgroupBase
    <3> QED
      BY <2>1, <3>1 DEF Unwind, Continue
  <2>2. CASE ~Unwind(c)
    <3>1. phase' = phase /\ UNCHANGED <<child, cg, placed, cgroup2>>
      BY <1>17, <2>2 DEF CgroupBase, Done, Continue, NotThere, FailLaunch
    <3>2. script' = script \/ (script' = [script EXCEPT ![c] = Tail(script[c])] /\ (cgroup2 \/ Needs[c] = {}))
      BY <1>17, <2>2 DEF CgroupBase, Done, Continue, NotThere, FailLaunch
    <3>3. At(c, "cgroup_base")
      BY <1>17 DEF CgroupBase
    <3> QED
      BY <3>1, <3>2, <3>3
  <2> QED
    BY <2>1, <2>2
<1>18. ASSUME NEW c \in Container, Reap(c) PROVE Limited'
  BY <1>18 DEF Reap
<1>13. ASSUME NEW c \in Container, Start(c) PROVE Limited'
  <2>1. launch(c) # <<>> /\ Head(launch(c))[1] = "cgroup_base"
    BY LaunchFirst
  <2>2. /\ script' = [script EXCEPT ![c] = launch(c)] /\ phase[c] = "idle" /\ phase'[c] = "launch"
        /\ \A d \in Container : d # c => phase'[d] = phase[d]
        /\ DOMAIN phase' = Process /\ UNCHANGED <<child, cgVars>>
    BY <1>13, HostAssumption DEF Start
  <2> QED
    BY <2>1, <2>2
<1>2. ASSUME NEW c \in Container, CreateCgroup(c) PROVE Limited'
  <2>1. apply_limits(c) # None
    BY DEF apply_limits, Enabled, None
  <2>2. Missing(c) = {} => apply_limits(c) = Needs[c]
    BY DEF apply_limits, Missing
  <2> QED
    BY <1>2, <2>1, <2>2 DEF CreateCgroup, Done, DoneAndPush, Continue, FailLaunch, Unwind
<1>3. ASSUME NEW c \in Container, Clone(c) PROVE Limited'
  <2>1. CASE CloneWithCgroup(c)
    <3>1. CASE cg[c] = None
      BY <1>3, <2>1, <3>1, LimitsFail DEF Clone, CloneWithCgroup, FailLaunch
    <3>2. CASE cg[c] # None
      <4>1. /\ child' = [child EXCEPT ![c] = TRUE] /\ placed' = [placed EXCEPT ![c] = TRUE]
            /\ UNCHANGED <<phase, cg, cgroup2>> /\ script' = [script EXCEPT ![c] = Tail(script[c])] /\ cgroup2
            /\ script[c] # <<>>
        BY <1>3, <2>1, <3>2 DEF Clone, CloneWithCgroup, DoneAndPush, Continue
      <4> QED
        BY <3>2, <4>1
    <3> QED
      BY <3>1, <3>2
  <2>2. CASE CloneThenMove(c)
    BY <1>3, <2>2 DEF Clone, CloneThenMove, Continue
  <2>3. CASE CloneWithoutCgroup(c)
    BY <1>3, <2>3 DEF Clone, CloneWithoutCgroup, DoneAndPush, Continue
  <2> QED
    BY <1>3, <2>1, <2>2, <2>3 DEF Clone
<1>14. ASSUME NEW c \in Container, AddPid(c) PROVE Limited'
  <2>1. CASE cg[c] = None
    BY <1>14, <2>1, LimitsFail DEF AddPid, FailLaunch
  <2>2. CASE cg[c] # None
    <3>1. /\ placed' = [placed EXCEPT ![c] = TRUE] /\ At(c, "add_pid")
          /\ UNCHANGED <<phase, cg, cgroup2, child>> /\ script' = [script EXCEPT ![c] = Tail(script[c])]
      BY <1>14, <2>2 DEF AddPid, Done, Continue
    <3>2. ~At(c, "cgroup_base") /\ script[c] # <<>>
      BY <3>1
    <3> QED
      BY <2>2, <3>1, <3>2
  <2> QED
    BY <2>1, <2>2
<1>4. ASSUME NEW c \in Container, Exit(c) PROVE Limited'
  BY <1>4 DEF Exit, Dies
<1>19. ASSUME NEW c \in Container, Crash(c) PROVE Limited'
  <2>1. /\ phase'[c] \in {"idle", "ended"} /\ script' = [script EXCEPT ![c] = <<>>]
        /\ child' = [child EXCEPT ![c] = FALSE] /\ UNCHANGED cgVars
        /\ DOMAIN phase' = Process /\ \A d \in Container : d # c => phase'[d] = phase[d]
    BY <1>19 DEF Crash, Dies, Continue
  <2> QED
    BY <2>1
<1>5. ASSUME NEW p \in Process, Kill(p) PROVE Limited'
  BY <1>5 DEF Kill, Dies, Done, Continue
<1>6. ASSUME NEW p \in Process, RemoveCgroup(p) PROVE Limited'
  BY <1>6 DEF RemoveCgroup, Done, Continue
<1>7. ASSUME NEW p \in Process,
             ListTagged(p) \/ DeleteRule(p) \/ FlushChain(p) \/ DeleteChain(p) \/ DeleteVeth(p)
             \/ Release(p)
      PROVE  Limited'
  <2>1. UNCHANGED <<child, cgVars, phase>> /\ \E s : script' = [script EXCEPT ![p] = s]
    BY <1>7 DEF ListTagged, DeleteRule, FlushChain, DeleteChain, DeleteVeth, Release, Done, Continue
  <2>2. \E op \in {"list", "delete", "flush", "drop", "veth", "release"} : At(p, op)
    BY <1>7 DEF ListTagged, DeleteRule, FlushChain, DeleteChain, DeleteVeth, Release
  <2> QED
    BY <2>1, <2>2, LimitsItem
<1>15. ASSUME NEW p \in Process, Finish(p) PROVE Limited'
  BY <1>15, HostAssumption DEF Finish
<1>8. CASE gc_empty
  BY <1>8 DEF gc_empty, Done, Continue
<1>9. CASE Scan \/ TeardownDead \/ IpamGc \/ orphaned_veths \/ BridgeUsed \/ BridgeLinks
           \/ DeleteBridge \/ CountBaseRules \/ StartGc
  BY <1>9, HostAssumption DEF Scan, TeardownDead, IpamGc, orphaned_veths, BridgeUsed, BridgeLinks, DeleteBridge,
     CountBaseRules, StartGc, Done, Continue
<1>10. CASE UNCHANGED vars
  BY <1>10 DEF vars
<1> QED
  BY <1>1, <1>2, <1>3, <1>4, <1>5, <1>6, <1>7, <1>8, <1>9, <1>10, <1>11, <1>12, <1>13, <1>14, <1>15,
     <1>16, <1>17, <1>18, <1>19
     DEF Next, LaunchStep, UndoStep, GcStep

(* On a kernel with CLONE_INTO_CGROUP no container runs outside a cgroup   *)
(* with all the limits asked for, whichever launches, teardowns, kills and *)
(* collections overlap with it; without a cgroup2 hierarchy, only those    *)
(* run that ask for no limits.                                             *)
THEOREM RunningIsLimited ==
  ASSUME CloneIntoCgroup = TRUE
  PROVE  Spec => []LimitsHold
<1>1. Init => Kinds /\ Filter /\ Typed /\ Limited
  <2>1. Init => Limited
    BY HostAssumption DEF Init, Limited, Inside, Up, Process
  <2> QED
    BY <2>1, ShapeInit
<1>2. (Kinds /\ Filter /\ Typed /\ Limited) /\ [Next]_vars => (Kinds /\ Filter /\ Typed /\ Limited)'
  BY KindsNext, FilterNext, TypedNext, LimitsStep DEF Typed
<1>3. Limited => LimitsHold
  BY DEF Limited, LimitsHold, Up, Inside, At
<1> QED
  BY <1>1, <1>2, <1>3, PTL DEF Spec

-----------------------------------------------------------------------------
(* What gc knows.                                                          *)

(* A step makes no container run but one whose launch ends.                *)
LEMMA UpBefore ==
  ASSUME Kinds, Typed, [Next]_vars, NEW d \in Container, Up(d)', ~Up(d)
  PROVE  Started(d) /\ status'[d] = "Running"
<1> USE DEF Up
<1>0. "gc" \in Process /\ \A c \in Container : c \in Process /\ c # "gc"
  BY ProcessIs
<1>1. phase = [p \in Process |-> phase[p]] /\ child \in [Container -> BOOLEAN]
      /\ status \in [Container -> {"Created", "Running", "Stopped"}]
  BY DEF Kinds, Typed
<1>2. ASSUME NEW c \in Container,
             \/ CgroupBase(c) \/ CreateCgroup(c) \/ AddPid(c) \/ LookUpBridge(c) \/ CreateBridge(c)
             \/ BridgeIndex(c) \/ BridgeAddress(c) \/ Allocate(c) \/ DeleteLeftover(c) \/ CreateVeth(c)
             \/ SetMaster(c) \/ MovePeer(c) \/ enable_ip_forwarding(c) \/ EnsureChain(c)
             \/ append_unique(c) \/ Publish(c) \/ Published(c)
      PROVE  FALSE
  <2>1. UNCHANGED child /\ (UNCHANGED phase \/ phase' = [phase EXCEPT ![c] = "unwind"])
    BY <1>2 DEF CgroupBase, CreateCgroup, AddPid, LookUpBridge, CreateBridge, BridgeIndex, BridgeAddress,
       Allocate, DeleteLeftover, CreateVeth, SetMaster, MovePeer, enable_ip_forwarding, EnsureChain,
       append_unique, Publish, Published, Done, NotThere, DoneAndPush, FailLaunch, Unwind, recVars
  <2> QED
    BY <1>0, <1>1, <2>1
<1>3. ASSUME NEW c \in Container, Clone(c) PROVE FALSE
  <2>1. phase[c] = "launch"
    BY <1>3, LaunchItem DEF Clone, CloneWithCgroup, CloneThenMove, CloneWithoutCgroup, AddPid, LaunchOps
  <2>2. /\ UNCHANGED phase \/ phase' = [phase EXCEPT ![c] = "unwind"]
        /\ UNCHANGED child \/ child' = [child EXCEPT ![c] = TRUE]
    BY <1>3 DEF Clone, CloneWithCgroup, CloneThenMove, CloneWithoutCgroup, AddPid, DoneAndPush, FailLaunch, Unwind
  <2> QED
    BY <1>0, <1>1, <2>1, <2>2
<1>4. ASSUME NEW c \in Container, Started(c) PROVE c = d /\ status'[d] = "Running"
  <2>1. CASE FailLaunch(c)
    <3>1. UNCHANGED child /\ phase' = [phase EXCEPT ![c] = "unwind"]
      BY <1>4, <2>1 DEF Started, FailLaunch, Unwind
    <3> QED
      BY <1>0, <1>1, <3>1
  <2>2. CASE ~FailLaunch(c)
    <3>1. /\ UNCHANGED child /\ phase' = [phase EXCEPT ![c] = "wait"]
          /\ status' = [status EXCEPT ![c] = "Running"]
      BY <1>4, <2>2 DEF Started
    <3> QED
      BY <1>0, <1>1, <3>1
  <2> QED
    BY <2>1, <2>2
<1>5. ASSUME NEW c \in Container, Start(c) \/ CallFails(c) \/ Reap(c) PROVE FALSE
  <2>1. /\ UNCHANGED child
        /\ \/ phase' = [phase EXCEPT ![c] = "launch", !["gc"] = IF @ = "done" THEN "idle" ELSE @]
           \/ phase' = [phase EXCEPT ![c] = "unwind"] \/ phase' = [phase EXCEPT ![c] = "teardown"]
    BY <1>5 DEF Start, CallFails, Reap, Unwind, recVars
  <2> QED
    BY <1>0, <1>1, <2>1
<1>6. ASSUME NEW c \in Container, Exit(c) \/ Crash(c) PROVE FALSE
  <2>1. /\ child' = [child EXCEPT ![c] = FALSE]
        /\ \/ UNCHANGED phase
           \/ \E f \in {"idle", "ended"} : phase' = [phase EXCEPT ![c] = f]
    BY <1>6 DEF Exit, Crash, Dies, procVars
  <2> QED
    BY <1>0, <1>1, <2>1
<1>7. ASSUME NEW p \in Process, Kill(p) PROVE FALSE
  <2>1. UNCHANGED phase /\ child' = [child EXCEPT ![Arg(p)] = FALSE]
    BY <1>7 DEF Kill, Dies, Done
  <2> QED
    BY <1>1, <2>1
<1>8. ASSUME NEW p \in Process, \/ RemoveCgroup(p) \/ ListTagged(p) \/ DeleteRule(p) \/ FlushChain(p)
                                \/ DeleteChain(p) \/ DeleteVeth(p) \/ Release(p)
      PROVE  FALSE
  BY <1>8 DEF RemoveCgroup, ListTagged, DeleteRule, FlushChain, DeleteChain, DeleteVeth, Release, Done,
     recVars
<1>9. ASSUME NEW p \in Process, Finish(p) PROVE FALSE
  <2>1. UNCHANGED child /\ \E f \in {"done", "ended"} : phase' = [phase EXCEPT ![p] = f]
    BY <1>9 DEF Finish
  <2> QED
    BY <1>0, <1>1, <2>1
<1>10. CASE GcStep
  BY <1>10 DEF GcStep, Scan, TeardownDead, gc_empty, IpamGc, orphaned_veths, BridgeUsed, BridgeLinks,
     DeleteBridge, CountBaseRules, Done, recVars
<1>11. CASE StartGc
  <2>1. UNCHANGED child /\ phase' = [phase EXCEPT !["gc"] = "collect"]
    BY <1>11 DEF StartGc, recVars
  <2> QED
    BY <1>0, <1>1, <2>1
<1>12. CASE UNCHANGED vars
  BY <1>12 DEF vars, procVars, recVars
<1> QED
  BY <1>2, <1>3, <1>4, <1>5, <1>6, <1>7, <1>8, <1>9, <1>10, <1>11, <1>12
     DEF Next, LaunchStep, UndoStep

(* The record of a container that runs changes by no step that leaves it   *)
(* running.                                                                *)
LEMMA RecordedNext ==
  ASSUME Kinds, Typed, Recorded, [Next]_vars
  PROVE  Recorded'
<1>0. "gc" \in Process /\ \A c \in Container : c \in Process /\ c # "gc"
  BY ProcessIs
<1>1. phase = [p \in Process |-> phase[p]] /\ status \in [Container -> {"Created", "Running", "Stopped"}]
  BY DEF Kinds, Typed
<1> SUFFICES ASSUME NEW d \in Container, Up(d)' PROVE status'[d] = "Running"
  BY DEF Recorded
<1>2. CASE ~Up(d)
  BY <1>2, UpBefore
<1>3. CASE Up(d)
  <2>0. status[d] = "Running" /\ phase[d] = "wait" /\ child[d] /\ phase'[d] = "wait"
    BY <1>3 DEF Recorded, Up
  <2>1. ASSUME NEW c \in Container, Started(c) PROVE status'[d] = "Running"
    BY <2>0, <2>1, <1>1 DEF Started
  <2>2. ASSUME NEW c \in Container, Reap(c) PROVE status'[d] = "Running"
    <3>1. phase' = [phase EXCEPT ![c] = "teardown"] /\ status' = [status EXCEPT ![c] = "Stopped"]
      BY <2>2 DEF Reap
    <3> QED
      BY <1>0, <1>1, <2>0, <3>1
  <2>3. ASSUME NEW c \in Container,
               \/ CgroupBase(c) \/ CreateCgroup(c) \/ Clone(c) \/ AddPid(c) \/ LookUpBridge(c) \/ CreateBridge(c)
               \/ BridgeIndex(c) \/ BridgeAddress(c) \/ Allocate(c) \/ DeleteLeftover(c)
               \/ CreateVeth(c) \/ SetMaster(c) \/ MovePeer(c) \/ enable_ip_forwarding(c)
               \/ EnsureChain(c) \/ append_unique(c) \/ Publish(c) \/ Published(c)
               \/ Start(c) \/ CallFails(c) \/ Exit(c) \/ Crash(c)
        PROVE  status'[d] = "Running"
    BY <2>0, <2>3 DEF CgroupBase, CreateCgroup, Clone, CloneWithCgroup, CloneThenMove, CloneWithoutCgroup, AddPid, LookUpBridge, CreateBridge, BridgeIndex,
       BridgeAddress, Allocate, DeleteLeftover, CreateVeth, SetMaster, MovePeer, enable_ip_forwarding,
       EnsureChain, append_unique, Publish, Published, Start, CallFails, Exit, Crash, recVars
  <2>4. ASSUME NEW p \in Process, Finish(p) PROVE status'[d] = "Running"
    <3>1. CASE p = "gc"
      BY <2>0, <2>4, <3>1 DEF Finish
    <3>2. CASE p # "gc"
      <4>1. phase' = [phase EXCEPT ![p] = "ended"] /\ status' = [status EXCEPT ![p] = "Stopped"]
        BY <2>4, <3>2 DEF Finish
      <4> QED
        BY <1>0, <1>1, <2>0, <4>1
    <3> QED
      BY <3>1, <3>2
  <2>5. ASSUME NEW p \in Process, \/ Kill(p) \/ RemoveCgroup(p) \/ ListTagged(p) \/ DeleteRule(p)
                                  \/ FlushChain(p) \/ DeleteChain(p) \/ DeleteVeth(p) \/ Release(p)
        PROVE  status'[d] = "Running"
    BY <2>0, <2>5 DEF Kill, RemoveCgroup, ListTagged, DeleteRule, FlushChain, DeleteChain, DeleteVeth,
       Release, recVars
  <2>6. CASE Scan
    BY <2>0, <2>6 DEF Scan
  <2>7. CASE TeardownDead \/ gc_empty \/ IpamGc \/ orphaned_veths \/ BridgeUsed \/ BridgeLinks
             \/ DeleteBridge \/ CountBaseRules \/ StartGc
    BY <2>0, <2>7 DEF TeardownDead, gc_empty, IpamGc, orphaned_veths, BridgeUsed, BridgeLinks,
       DeleteBridge, CountBaseRules, StartGc, recVars
  <2>8. CASE UNCHANGED vars
    BY <2>0, <2>8 DEF vars, recVars
  <2> QED
    BY <2>1, <2>2, <2>3, <2>4, <2>5, <2>6, <2>7, <2>8 DEF Next, LaunchStep, UndoStep, GcStep
<1> QED
  BY <1>2, <1>3

(* A step of p, as the other processes see it.                             *)
Others(p) ==
  \A q \in Process : q # p => phase'[q] = phase[q] /\ script'[q] = script[q] /\ seen'[q] = seen[q]

LEMMA LaunchActor ==
  ASSUME Kinds, Typed, NEW c \in Container, LaunchStep(c) \/ CallFails(c)
  PROVE  Others(c) /\ live' = live /\ phase[c] = "launch" /\ phase'[c] \in {"launch", "unwind", "wait"}
<1>1. /\ c \in Process /\ phase = [q \in Process |-> phase[q]] /\ script = [q \in Process |-> script[q]]
      /\ seen \in [Process -> Nat]
  BY ProcessIs DEF Kinds, Typed
<1>2. /\ live' = live
      /\ (\E f \in {"unwind", "wait"} : phase' = [phase EXCEPT ![c] = f]) \/ UNCHANGED phase
      /\ (\E s : script' = [script EXCEPT ![c] = s]) \/ UNCHANGED script
      /\ (\E i : seen' = [seen EXCEPT ![c] = i]) \/ UNCHANGED seen
  <2>1. CASE \/ CgroupBase(c) \/ CreateCgroup(c) \/ Clone(c) \/ AddPid(c) \/ CreateBridge(c) \/ BridgeAddress(c)
             \/ Allocate(c) \/ DeleteLeftover(c) \/ CreateVeth(c) \/ SetMaster(c) \/ MovePeer(c)
             \/ enable_ip_forwarding(c) \/ EnsureChain(c) \/ append_unique(c) \/ Publish(c)
             \/ Published(c) \/ CallFails(c)
    <3>1. live' = live /\ seen' = seen
      BY <2>1 DEF CgroupBase, CreateCgroup, Clone, CloneWithCgroup, CloneThenMove, CloneWithoutCgroup, AddPid, CreateBridge, BridgeAddress, Allocate,
         DeleteLeftover, CreateVeth, SetMaster, MovePeer, enable_ip_forwarding, EnsureChain,
         append_unique, Publish, Published, CallFails
    <3>2. /\ phase' = [phase EXCEPT ![c] = "unwind"] \/ UNCHANGED phase
          /\ (\E s : script' = [script EXCEPT ![c] = s]) \/ UNCHANGED script
      BY <2>1 DEF CgroupBase, CreateCgroup, Clone, CloneWithCgroup, CloneThenMove, CloneWithoutCgroup, AddPid, CreateBridge, BridgeAddress, Allocate,
         DeleteLeftover, CreateVeth, SetMaster, MovePeer, enable_ip_forwarding, EnsureChain,
         append_unique, Publish, Published, CallFails, Done, NotThere, DoneAndPush, FailLaunch, Unwind,
         Continue
    <3> QED
      BY <3>1, <3>2
  <2>2. CASE LookUpBridge(c) \/ BridgeIndex(c)
    BY <2>2 DEF LookUpBridge, BridgeIndex, Done, NotThere, FailLaunch, Unwind, Continue
  <2>3. CASE Started(c)
    BY <2>3 DEF Started, FailLaunch, Unwind, Continue
  <2> QED
    BY <2>1, <2>2, <2>3 DEF LaunchStep
<1>3. phase[c] = "launch"
  <2>1. \/ CallFails(c)
        \/ \E op \in LaunchOps \cup {"forwarding", "chain", "rule"} : At(c, op)
    BY DEF LaunchStep, CgroupBase, CreateCgroup, Clone, CloneWithCgroup, CloneThenMove, CloneWithoutCgroup, AddPid, LookUpBridge, CreateBridge, BridgeIndex,
       BridgeAddress, Allocate, DeleteLeftover, CreateVeth, SetMaster, MovePeer, enable_ip_forwarding,
       EnsureChain, append_unique, Publish, Published, Started, LaunchOps
  <2>2. ASSUME NEW op \in LaunchOps \cup {"forwarding", "chain", "rule"}, At(c, op)
        PROVE  phase[c] = "launch"
    BY <2>2, LaunchItem
  <2> QED
    BY <2>1, <2>2 DEF CallFails, Unwind
<1> QED
  BY <1>1, <1>2, <1>3 DEF Others

LEMMA EndActor ==
  ASSUME Kinds, Typed, NEW c \in Container, Exit(c) \/ Reap(c) \/ Crash(c)
  PROVE  Others(c) /\ live' = live /\ phase'[c] # "launch" /\ ~Up(c)'
<1>1. /\ c \in Process /\ phase = [q \in Process |-> phase[q]] /\ script = [q \in Process |-> script[q]]
      /\ seen \in [Process -> Nat] /\ child \in [Container -> BOOLEAN]
  BY ProcessIs DEF Kinds, Typed
<1>2. /\ live' = live /\ seen' = seen
      /\ (\E s : script' = [script EXCEPT ![c] = s]) \/ UNCHANGED script
      /\ \/ \E f \in {"teardown", "idle", "ended"} : phase' = [phase EXCEPT ![c] = f]
         \/ UNCHANGED phase /\ phase[c] = "wait" /\ child' = [child EXCEPT ![c] = FALSE]
  BY DEF Exit, Reap, Crash, Dies, Continue, procVars
<1> QED
  BY <1>1, <1>2 DEF Others, Up

LEMMA UndoActor ==
  ASSUME Kinds, Typed, NEW p \in Process, UndoStep(p)
  PROVE  Others(p) /\ live' = live /\ phase'[p] \notin {"launch", "wait"}
<1>1. /\ phase = [q \in Process |-> phase[q]] /\ script = [q \in Process |-> script[q]]
      /\ seen \in [Process -> Nat]
  BY DEF Kinds, Typed
<1>2. CASE Finish(p)
  <2>1. /\ UNCHANGED <<script, seen, live>>
        /\ \E f \in {"done", "ended"} : phase' = [phase EXCEPT ![p] = f]
    BY <1>2 DEF Finish
  <2> QED
    BY <1>1, <2>1 DEF Others
<1>3. CASE ~Finish(p)
  <2>1. UNCHANGED <<phase, seen, live>> /\ \E s : script' = [script EXCEPT ![p] = s]
    BY <1>3 DEF UndoStep, Kill, RemoveCgroup, ListTagged, DeleteRule, FlushChain, DeleteChain,
       DeleteVeth, Release, Done, Continue
  <2>2. \E op \in UndoOps \cup {"list", "delete", "flush", "drop"} : At(p, op)
    BY <1>3 DEF UndoStep, Kill, RemoveCgroup, ListTagged, DeleteRule, FlushChain, DeleteChain,
       DeleteVeth, Release, UndoOps
  <2>3. phase[p] \in {"unwind", "teardown", "collect"}
    BY <2>2, UndoItem
  <2> QED
    BY <1>1, <2>1, <2>3 DEF Others
<1> QED
  BY <1>2, <1>3

LEMMA GcActor ==
  ASSUME Kinds, Typed, GcStep
  PROVE  Others("gc") /\ phase' = phase /\ child' = child /\ phase["gc"] = "collect"
<1>1. /\ "gc" \in Process /\ script = [q \in Process |-> script[q]] /\ seen \in [Process -> Nat]
  BY ProcessIs DEF Kinds, Typed
<1>2. /\ UNCHANGED <<phase, child>> /\ \E s : script' = [script EXCEPT !["gc"] = s]
      /\ UNCHANGED seen \/ seen' = [seen EXCEPT !["gc"] = bridge[DEFAULT_BRIDGE].index]
  BY DEF GcStep, Scan, TeardownDead, gc_empty, IpamGc, orphaned_veths, BridgeUsed, BridgeLinks,
     DeleteBridge, CountBaseRules, Done, Continue, recVars
<1>3. \E op : At("gc", op)
  BY DEF GcStep, Scan, TeardownDead, gc_empty, IpamGc, orphaned_veths, BridgeUsed, BridgeLinks,
     DeleteBridge, CountBaseRules
<1>4. phase["gc"] = "collect"
  BY <1>3, GcItem
<1> QED
  BY <1>1, <1>2, <1>4, BridgeIs DEF Others, Typed

LEMMA SafeStays ==
  ASSUME \A c \in Container : Up(c)' => Up(c), NEW x, Safe(x)
  PROVE  Safe(x)'
  BY DEF Safe

LEMMA SafeItems ==
  /\ \A c \in Container : \A x : ~Up(c) /\ OfUndo(c, x) => Safe(x)
  /\ \A x : (\A c \in Container : ~Up(c)) /\ OfBase(x) => Safe(x)
  BY DEF Safe

(* What gc puts on its script is safe if what it takes off is.             *)
LEMMA SafeScript ==
  ASSUME Kinds, Filter, Typed, phase["gc"] = "collect", script["gc"] # <<>>,
         \A c \in Container : Up(c) => c \in live, \A x \in Todo("gc") : Safe(x),
         UndoStep("gc") \/ (GcStep /\ ~Scan)
  PROVE  live' = live /\ \A x \in ToSet(script'["gc"]) : Safe(x)
<1> DEFINE h == Head(script["gc"])
           t == Tail(script["gc"])
<1>0. "gc" \in Process /\ script = [p \in Process |-> script[p]]
  BY ProcessIs DEF Kinds
<1>1. /\ Safe(h) /\ OfGc(h) /\ t \in Seq(Item) /\ h = <<h[1], Arg("gc")>> /\ \A x \in ToSet(t) : Safe(x)
  <2>1. h \in Todo("gc") /\ t \in Seq(Item) /\ Todo("gc") = {h} \cup ToSet(t) /\ h = <<h[1], Arg("gc")>>
    BY <1>0, HeadIs
  <2>2. Fits("gc", phase["gc"], script["gc"], undo["gc"])
    BY <1>0 DEF Kinds
  <2> QED
    BY <2>1, <2>2 DEF Fits, Todo
<1>2. ASSUME NEW s \in Seq(Item), script' = [script EXCEPT !["gc"] = s \o t],
             \A x \in ToSet(s) : Safe(x)
      PROVE  \A x \in ToSet(script'["gc"]) : Safe(x)
  <2> HIDE DEF t
  <2>1. t \in Seq(Item)
    BY <1>1
  <2>2. ToSet(s \o t) = ToSet(s) \cup ToSet(t)
    BY <2>1, JoinedSeq
  <2>3. script'["gc"] = s \o t
    BY <1>0, <1>2
  <2> QED
    BY <1>1, <1>2, <2>2, <2>3
<1>3. ASSUME script' = [script EXCEPT !["gc"] = t]
      PROVE  \A x \in ToSet(script'["gc"]) : Safe(x)
  BY <1>0, <1>1, <1>3
<1>4. live' = live
  BY DEF UndoStep, Kill, RemoveCgroup, ListTagged, DeleteRule, FlushChain, DeleteChain, DeleteVeth,
     Release, Finish, GcStep, TeardownDead, gc_empty, IpamGc, orphaned_veths, BridgeUsed,
     BridgeLinks, DeleteBridge, CountBaseRules
<1>5. CASE \/ Kill("gc") \/ RemoveCgroup("gc") \/ DeleteRule("gc") \/ FlushChain("gc")
           \/ DeleteChain("gc") \/ DeleteVeth("gc") \/ Release("gc")
           \/ gc_empty \/ IpamGc \/ BridgeUsed \/ DeleteBridge
  BY <1>3, <1>4, <1>5 DEF Kill, RemoveCgroup, DeleteRule, FlushChain, DeleteChain, DeleteVeth,
     Release, gc_empty, IpamGc, BridgeUsed, DeleteBridge, Done, Continue
<1>6. CASE Finish("gc")
  BY <1>6 DEF Finish
<1>7. CASE ListTagged("gc")
  <2>1. h[1] = "list"
    BY <1>7 DEF ListTagged, At
  <2>2. PICK tags : OfCleanup(tags, h) /\ \A x : OfCleanup(tags, x) => Safe(x)
    <3>1. CASE OfBase(h) /\ \A c \in Container : ~Up(c)
      <4>1. OfCleanup({"base", "none"}, h)
        BY <2>1, <3>1 DEF OfBase, BaseOps
      <4>2. \A x : OfCleanup({"base", "none"}, x) => OfBase(x)
        BY DEF OfBase
      <4> QED
        BY <3>1, <4>1, <4>2, SafeItems
    <3>2. ASSUME NEW c \in Container, ~Up(c), OfUndo(c, h) \/ h = <<"teardown", c>>
          PROVE  OfCleanup({c}, h) /\ \A x : OfCleanup({c}, x) => Safe(x)
      <4>1. OfCleanup({c}, h)
        BY <2>1, <3>2 DEF OfUndo, UndoOps
      <4>2. \A x : OfCleanup({c}, x) => OfUndo(c, x)
        BY DEF OfUndo
      <4> QED
        BY <3>2, <4>1, <4>2, SafeItems
    <3>3. h[1] \notin GcOps
      BY <2>1 DEF GcOps
    <3>4. \/ OfBase(h) /\ \A c \in Container : ~Up(c)
          \/ \E c \in Container : ~Up(c) /\ (OfUndo(c, h) \/ h = <<"teardown", c>>)
      BY <1>1, <3>3 DEF Safe
    <3> QED
      BY <3>1, <3>2, <3>4
  <2>3. PICK s \in Seq(Item) : /\ script' = [script EXCEPT !["gc"] = s \o t]
                              /\ \A x \in ToSet(s) : OfCleanup(tags, x)
    BY <1>0, <1>7, <2>2, ListedAre
  <2> QED
    BY <1>2, <1>4, <2>2, <2>3
<1>8. CASE TeardownDead
  <2>1. h[1] = "teardown"
    BY <1>8 DEF TeardownDead, At
  <2>2. PICK c \in Container : ~Up(c) /\ h = <<"teardown", c>>
    <3>1. ~OfBase(h) /\ h[1] \notin GcOps
      BY <2>1 DEF OfBase, OfCleanup, BaseOps, GcOps
    <3>2. ASSUME NEW c \in Container PROVE ~OfUndo(c, h)
      BY <2>1 DEF OfUndo, OfCleanup, UndoOps
    <3> QED
      BY <1>1, <3>1, <3>2 DEF Safe
  <2>3. Arg("gc") = c
    BY <2>2 DEF Arg
  <2>4. script' = [script EXCEPT !["gc"] = teardown(c) \o t]
    BY <1>8, <2>3 DEF TeardownDead, Continue
  <2>5. teardown(c) \in Seq(Item) /\ \A x \in ToSet(teardown(c)) : Safe(x)
    BY <2>2, TeardownIs, SafeItems
  <2> QED
    BY <1>2, <1>4, <2>4, <2>5
<1>9. CASE orphaned_veths
  <2>1. \A x \in ToSet(script'["gc"]) : \/ OfBase(x) /\ live = {}
                                        \/ \E c \in Container : c \notin live /\ x = <<"veth", c>>
    BY <1>9, OrphansAre
  <2>2. \A c \in Container : OfUndo(c, <<"veth", c>>)
    BY DEF OfUndo, UndoOps
  <2>3. live = {} => \A c \in Container : ~Up(c)
    OBVIOUS
  <2> QED
    BY <1>4, <2>1, <2>2, <2>3, SafeItems
<1>10. CASE BridgeLinks \/ CountBaseRules
  <2>1. h[1] \in {"bridge_links", "base_rules"}
    BY <1>10 DEF BridgeLinks, CountBaseRules, At
  <2>2. \A c \in Container : ~Up(c)
    <3>1. h[1] \notin GcOps /\ h[1] \notin UndoOps /\ h[1] \notin {"list", "delete", "teardown"}
      BY <2>1 DEF GcOps, UndoOps
    <3>2. ASSUME NEW c \in Container PROVE ~OfUndo(c, h) /\ h # <<"teardown", c>>
      BY <3>1 DEF OfUndo, OfCleanup
    <3> QED
      BY <1>1, <3>1, <3>2 DEF Safe
  <2>3. CASE BridgeLinks
    <3> DEFINE s == <<<<"delete_bridge", 0>>>>
    <3>1. s \in Seq(Item) /\ \A x \in ToSet(s) : Safe(x)
      BY <2>2, GcItemsAre, SafeItems
    <3>2. \/ script' = [script EXCEPT !["gc"] = s \o t]
          \/ script' = [script EXCEPT !["gc"] = t]
      BY <2>3 DEF BridgeLinks, Continue
    <3> HIDE DEF s
    <3> QED
      BY <1>2, <1>3, <1>4, <3>1, <3>2
  <2>4. CASE CountBaseRules
    <3>1. script'["gc"] = <<>> \/ script'["gc"] = teardown_base
      BY <1>0, <2>4 DEF CountBaseRules, Continue
    <3>2. ToSet(<<>>) = {} /\ \A x \in ToSet(teardown_base) : Safe(x)
      BY <2>2, BaseTeardownIs, SafeItems DEF ToSet
    <3> QED
      BY <1>4, <3>1, <3>2
  <2> QED
    BY <1>10, <2>3, <2>4
<1> QED
  BY <1>5, <1>6, <1>7, <1>8, <1>9, <1>10 DEF UndoStep, GcStep

LEMMA AwareNext ==
  ASSUME GcRaces = FALSE, Kinds, Filter, Typed, Recorded, Aware, [Next]_vars
  PROVE  Aware'
<1>0. "gc" \in Process /\ \A c \in Container : c \in Process /\ c # "gc"
  BY ProcessIs
<1>1. phase = [p \in Process |-> phase[p]] /\ script = [p \in Process |-> script[p]]
  BY DEF Kinds
<1>2. ASSUME phase["gc"] = "collect", \A c \in Container : phase'[c] # "launch",
             UNCHANGED <<script, live>> \/ (script'["gc"] = script["gc"] /\ live' = live)
      PROVE  Aware'
  <2>1. \A c \in Container : Up(c)' => Up(c)
    <3>1. ASSUME NEW c \in Container PROVE ~Started(c)
      <4>1. phase[c] # "launch"
        BY <1>2 DEF Aware
      <4> QED
        BY <4>1, LaunchItem DEF Started, LaunchOps
    <3> QED
      BY <3>1, UpBefore
  <2>2. script'["gc"] = script["gc"] /\ live' = live
    BY <1>2
  <2>3. CASE script["gc"] = <<<<"scan", 0>>>>
    BY <1>2, <2>2, <2>3 DEF Aware
  <2>4. CASE (\A c \in Container : Up(c) => c \in live) /\ \A x \in Todo("gc") : Safe(x)
    <3>1. \A x \in ToSet(script'["gc"]) : Safe(x)'
      BY <2>1, <2>2, <2>4, SafeStays DEF Todo
    <3>2. \A c \in Container : Up(c)' => c \in live'
      BY <2>1, <2>2, <2>4
    <3> QED
      BY <1>2, <3>1, <3>2 DEF Aware, Todo
  <2> QED
    BY <1>2, <2>3, <2>4 DEF Aware
<1>3. ASSUME phase["gc"] # "collect", phase'["gc"] = phase["gc"] PROVE Aware'
  BY <1>3 DEF Aware
<1>4. ASSUME NEW c \in Container, Start(c) PROVE Aware'
  <2>1. /\ phase["gc"] # "collect"
        /\ phase' = [phase EXCEPT ![c] = "launch", !["gc"] = IF @ = "done" THEN "idle" ELSE @]
    BY <1>4 DEF Start
  <2>2. phase'["gc"] # "collect"
    BY <1>0, <1>1, <2>1
  <2> QED
    BY <2>2 DEF Aware
<1>5. ASSUME NEW c \in Container, LaunchStep(c) \/ CallFails(c) PROVE Aware'
  <2>1. phase[c] = "launch" /\ Others(c)
    BY <1>5, LaunchActor
  <2>2. phase'["gc"] = phase["gc"] /\ phase["gc"] # "collect"
    BY <1>0, <2>1 DEF Others, Aware
  <2> QED
    BY <1>3, <2>2
<1>6. ASSUME NEW c \in Container, Exit(c) \/ Reap(c) \/ Crash(c) \/ UndoStep(c) PROVE Aware'
  <2>1. Others(c) /\ live' = live /\ phase'[c] # "launch"
    BY <1>0, <1>6, EndActor, UndoActor
  <2>2. phase'["gc"] = phase["gc"] /\ script'["gc"] = script["gc"]
    BY <1>0, <2>1 DEF Others
  <2>3. CASE phase["gc"] = "collect"
    <3>1. \A d \in Container : phase'[d] # "launch"
      BY <1>0, <2>1, <2>3 DEF Others, Aware
    <3> QED
      BY <1>2, <2>1, <2>2, <2>3, <3>1
  <2> QED
    BY <1>3, <2>2, <2>3
<1>7. CASE StartGc
  <2>1. /\ \A c \in Container : phase[c] # "launch"
        /\ phase' = [phase EXCEPT !["gc"] = "collect"]
        /\ script' = [script EXCEPT !["gc"] = <<<<"scan", 0>>>>]
    BY <1>7 DEF StartGc, Launching
  <2>2. \A c \in Container : phase'[c] # "launch"
    BY <1>0, <1>1, <2>1
  <2>3. script'["gc"] = <<<<"scan", 0>>>>
    BY <1>0, <1>1, <2>1
  <2> QED
    BY <2>2, <2>3 DEF Aware
<1>8. CASE Scan
  <2>1. phase["gc"] = "collect" /\ phase' = phase /\ child' = child
    BY <1>8, GcActor DEF GcStep
  <2>2. \A c \in Container : phase'[c] # "launch"
    BY <2>1 DEF Aware
  <2>3. \A c \in Container : Up(c)' => c \in live' /\ child[c]
    BY <1>8, <2>1 DEF Scan, Recorded, Up
  <2>4. \A x \in ToSet(script'["gc"]) :
          \/ x[1] \in GcOps
          \/ \E c \in Container : ~child[c] /\ x = <<"teardown", c>>
    BY <1>8, ScanIs
  <2>5. \A x \in ToSet(script'["gc"]) : Safe(x)'
    BY <2>3, <2>4 DEF Safe
  <2> QED
    BY <2>2, <2>3, <2>5 DEF Aware, Todo
<1>9. CASE UndoStep("gc") \/ (GcStep /\ ~Scan)
  <2>1. Others("gc")
    BY <1>0, <1>9, UndoActor, GcActor
  <2>2. \A c \in Container : phase'[c] = phase[c]
    BY <1>0, <2>1 DEF Others
  <2> SUFFICES ASSUME phase'["gc"] = "collect" PROVE Aware'
    BY DEF Aware
  <2>3. phase["gc"] = "collect" /\ script["gc"] # <<>> /\ script["gc"] # <<<<"scan", 0>>>>
    <3>1. \E op : At("gc", op) /\ op # "scan"
      <4>1. CASE UndoStep("gc")
        <5>1. ~Finish("gc")
          BY <1>0, <1>1 DEF Finish
        <5> QED
          BY <4>1, <5>1 DEF UndoStep, Kill, RemoveCgroup, ListTagged, DeleteRule, FlushChain,
             DeleteChain, DeleteVeth, Release
      <4>2. CASE GcStep /\ ~Scan
        BY <4>2 DEF GcStep, TeardownDead, gc_empty, IpamGc, orphaned_veths, BridgeUsed, BridgeLinks,
           DeleteBridge, CountBaseRules
      <4> QED
        BY <1>9, <4>1, <4>2
    <3>2. phase["gc"] = "collect"
      BY <3>1, GcItem
    <3>3. Head(<<<<"scan", 0>>>>)[1] = "scan"
      OBVIOUS
    <3> QED
      BY <3>1, <3>2, <3>3 DEF At
  <2>4. (\A c \in Container : Up(c) => c \in live) /\ \A x \in Todo("gc") : Safe(x)
    BY <2>3 DEF Aware
  <2>5. live' = live /\ \A x \in ToSet(script'["gc"]) : Safe(x)
    BY <1>9, <2>3, <2>4, SafeScript
  <2>6. \A c \in Container : Up(c)' => Up(c)
    <3>1. ASSUME NEW c \in Container PROVE ~Started(c)
      <4>1. phase[c] # "launch"
        BY <2>3 DEF Aware
      <4> QED
        BY <4>1, LaunchItem DEF Started, LaunchOps
    <3> QED
      BY <3>1, UpBefore
  <2>7. \A x \in ToSet(script'["gc"]) : Safe(x)'
    BY <2>5, <2>6, SafeStays
  <2>8. \A c \in Container : (Up(c)' => c \in live') /\ phase'[c] # "launch"
    BY <2>2, <2>3, <2>4, <2>5, <2>6 DEF Aware
  <2> QED
    BY <2>7, <2>8 DEF Aware, Todo
<1>10. CASE UNCHANGED vars
  <2>1. UNCHANGED <<phase, script, live>>
    BY <1>10 DEF vars, procVars
  <2>2. CASE phase["gc"] = "collect"
    <3>1. \A c \in Container : phase'[c] # "launch"
      BY <2>1, <2>2 DEF Aware
    <3> QED
      BY <1>2, <2>1, <2>2, <3>1
  <2> QED
    BY <1>3, <2>1, <2>2
<1>11. ASSUME NEW p \in Process, UndoStep(p) PROVE Aware'
  BY <1>6, <1>9, <1>11, ProcessIs
<1> QED
  BY <1>4, <1>5, <1>6, <1>7, <1>8, <1>9, <1>10, <1>11 DEF Next, GcStep

-----------------------------------------------------------------------------
(* What a container needs stays, or is still to be done.                   *)

LEMMA ReadyNot ==
  ASSUME NEW c \in Container, ~Engaged(c)'
  PROVE  Ready(c)'
  BY DEF Ready, Engaged

(* The rules that the traffic of c passes.                                 *)
Mine(c) == {r \in RuleSet : r.tag \in {c, "base", "none"}}

LEMMA MineAre ==
  ASSUME NEW c \in Container, NEW a \in Addr \cup {0}
  PROVE  SharedRules(On[c]) \subseteq Mine(c) /\ ToSet(PublishRules(c, a)) \subseteq Mine(c)
  BY SharedRulesAre, PublishRulesAre, BridgeIs DEF Mine

(* The shared things that c needs are not taken away.                      *)
Growing(c) ==
  /\ forwarding => forwarding'
  /\ fw.chains \subseteq fw'.chains
  /\ \A r \in Mine(c) : r \in BagToSet(fw.rules) => r \in BagToSet(fw'.rules)

BridgeStays(c) ==
  LET b == bridge[On[c]]
      n == bridge'[On[c]] IN
  n.index = b.index /\ (b.address => n.address) /\ (b.up => n.up)

(* A step of another process that leaves what c has alone.                 *)
Kept(c) ==
  /\ phase'[c] = phase[c] /\ script'[c] = script[c] /\ seen'[c] = seen[c]
  /\ ip'[c] = ip[c] /\ veth'[c] = veth[c] /\ master'[c] = master[c] /\ lease'[c] = lease[c]
  /\ bridge[On[c]].index = 0 \/ BridgeStays(c)
  /\ Growing(c)

LEMMA KeptReady ==
  ASSUME Kinds, Typed, NEW c \in Container, Ready(c), Engaged(c), Kept(c)
  PROVE  Ready(c)'
<1>1. Todo(c)' = Todo(c) /\ phase'[c] = phase[c] /\ script'[c] = script[c]
  BY DEF Kept, Todo
<1>2. phase[c] = "launch" => Ahead(c)'
  BY <1>1 DEF Ready, Kept, Ahead, Todo
<1>3. OnBridge(c)'
  <2>0. OnBridge(c)
    BY DEF Ready
  <2>1. CASE bridge[On[c]].index # 0
    <3>1. BridgeStays(c)
      BY <2>1 DEF Kept
    <3> QED
      BY <1>1, <2>0, <3>1 DEF OnBridge, Kept, BridgeStays
  <2>2. CASE bridge[On[c]].index = 0
    <3>1. PICK x \in {<<"bridge", c>>, <<"bridge_index", c>>} : x \in Todo(c)
      BY <2>0, <2>2 DEF OnBridge
    <3>2. Stage(x) = 1
      BY <3>1, StageIs
    <3>3. phase[c] = "launch"
      <4>1. Todo(c) # {}
        BY <3>1
      <4>2. ToSet(<<>>) = {}
        BY DEF ToSet
      <4>3. Fits(c, phase[c], script[c], undo[c]) /\ c # "gc"
        BY ProcessIs DEF Kinds
      <4> QED
        BY <4>1, <4>2, <4>3 DEF Fits, Engaged, Up, Todo
    <3>4. {<<"address", c>>, <<"set_master", c>>, <<"move", c>>} \subseteq Todo(c)
      BY <3>1, <3>2, <3>3 DEF Ready, Ahead
    <3> QED
      BY <1>1, <2>0, <3>1, <3>4 DEF OnBridge, Kept
  <2> QED
    BY <2>1, <2>2
<1>4. RulesThere(c)'
  <2>1. RulesThere(c) /\ ip[c] \in Addr \cup {0} /\ ip'[c] = ip[c]
    BY DEF Ready, Typed, Kept
  <2>2. /\ fw.chains \subseteq fw'.chains
        /\ \A r \in Mine(c) : r \in BagToSet(fw.rules) => r \in BagToSet(fw'.rules)
    BY DEF Kept, Growing
  <2>3. \A r \in SharedRules(On[c]) \cup ToSet(PublishRules(c, ip[c])) :
          r \in BagToSet(fw.rules) => r \in BagToSet(fw'.rules)
    BY <2>1, <2>2, MineAre
  <2>4. forwarding => forwarding'
    BY DEF Kept, Growing
  <2> QED
    BY <1>1, <2>1, <2>2, <2>3, <2>4 DEF RulesThere
<1> QED
  BY <1>1, <1>2, <1>3, <1>4 DEF Ready

LEMMA SortedTail ==
  ASSUME NEW s \in Seq(Item), s # <<>>, Sorted(s)
  PROVE  Sorted(Tail(s)) /\ \A x \in ToSet(s) : Stage(Head(s)) <= Stage(x)
<1>1. /\ Len(s) \in Nat \ {0} /\ DOMAIN s = 1 .. Len(s) /\ Head(s) = s[1]
      /\ Len(Tail(s)) = Len(s) - 1 /\ \A i \in 1 .. Len(s) - 1 : Tail(s)[i] = s[i + 1]
  BY EmptySeq, HeadTailProperties, LenProperties
<1>2. ASSUME NEW i \in 1 .. Len(Tail(s)), NEW j \in 1 .. Len(Tail(s)), i < j
      PROVE  Stage(Tail(s)[i]) <= Stage(Tail(s)[j])
  <2>1. /\ Tail(s)[i] = s[i + 1] /\ Tail(s)[j] = s[j + 1]
        /\ i + 1 \in 1 .. Len(s) /\ j + 1 \in 1 .. Len(s) /\ i + 1 < j + 1
    BY <1>1, <1>2
  <2> QED
    BY <2>1 DEF Sorted
<1>3. ASSUME NEW x \in ToSet(s) PROVE Stage(Head(s)) <= Stage(x)
  <2>1. PICK i \in 1 .. Len(s) : x = s[i]
    BY <1>1 DEF ToSet
  <2>2. Stage(x) \in 1 .. 7
    BY StageIs
  <2>3. CASE i = 1
    BY <1>1, <2>1, <2>2, <2>3
  <2>4. CASE i # 1
    BY <1>1, <2>1, <2>4 DEF Sorted
  <2> QED
    BY <2>3, <2>4
<1> QED
  BY <1>2, <1>3 DEF Sorted

(* A launch that is one item further is still in order.                    *)
LEMMA AheadPop ==
  ASSUME Kinds, NEW c \in Container, script[c] # <<>>, Ahead(c), script'[c] = Tail(script[c])
  PROVE  Ahead(c)' /\ Todo(c) = {Head(script[c])} \cup Todo(c)'
<1> DEFINE h == Head(script[c])
<1>1. /\ script[c] \in Seq(Item) /\ Todo(c) = {h} \cup ToSet(Tail(script[c]))
  BY HeadIs, ProcessIs DEF Kinds, Fits
<1>2. Sorted(script'[c]) /\ \A x \in Todo(c) : Stage(h) <= Stage(x)
  BY <1>1, SortedTail DEF Ahead, Todo
<1>3. Todo(c)' = ToSet(Tail(script[c])) /\ Todo(c) = {h} \cup Todo(c)'
  BY <1>1 DEF Todo
<1>4. Stage(h) \in 1 .. 7 /\ \A x \in Todo(c) : Stage(x) \in 1 .. 7
  BY StageIs
<1>5. /\ Stage(<<"address", c>>) = 2 /\ Stage(<<"set_master", c>>) = 4
      /\ Stage(<<"move", c>>) = 4 /\ Stage(<<"publish", c>>) = 6
  BY StageIs
<1>6. ASSUME NEW x \in Todo(c)', Stage(x) = 1 PROVE <<"address", c>> \in Todo(c)'
  <2>1. x \in Todo(c) /\ <<"address", c>> \in Todo(c)
    BY <1>3, <1>6 DEF Ahead
  <2>2. Stage(h) <= 1
    BY <1>2, <1>6, <2>1
  <2>3. h # <<"address", c>>
    BY <1>4, <1>5, <2>2
  <2> QED
    BY <1>3, <2>1, <2>3
<1>7. ASSUME NEW x \in Todo(c)', Stage(x) <= 3
      PROVE  {<<"set_master", c>>, <<"move", c>>, <<"publish", c>>} \subseteq Todo(c)'
  <2>1. x \in Todo(c) /\ {<<"set_master", c>>, <<"move", c>>, <<"publish", c>>} \subseteq Todo(c)
    BY <1>3, <1>7 DEF Ahead
  <2>2. Stage(h) <= 3
    BY <1>2, <1>4, <1>7, <2>1
  <2>3. h # <<"set_master", c>> /\ h # <<"move", c>> /\ h # <<"publish", c>>
    BY <1>4, <1>5, <2>2
  <2> QED
    BY <1>3, <2>1, <2>3
<1> QED
  BY <1>2, <1>3, <1>6, <1>7 DEF Ahead

(* What the item h of the launch of c was for is there afterwards.         *)
Served(c, h) ==
  /\ h \in {<<"bridge", c>>, <<"bridge_index", c>>} => seen'[c] = bridge'[On[c]].index /\ bridge'[On[c]].index # 0
  /\ h = <<"address", c>> => bridge'[On[c]].index # 0 /\ bridge'[On[c]].address /\ bridge'[On[c]].up
  /\ h = <<"set_master", c>> => master'[c] = bridge'[On[c]].index
  /\ h = <<"move", c>> => veth'[c] = "moved"
  /\ h = <<"allocate", c>> => lease'[c] = ip'[c]
  /\ h = <<"forwarding", 1>> => forwarding'
  /\ \A n \in Chain : h = <<"chain", n>> => n \in fw'.chains
  /\ \A r \in RuleSet : h = <<"rule", r>> => r \in BagToSet(fw'.rules)
  /\ h # <<"publish", c>>

(* It changes nothing of c but what is still to be set.                    *)
Unset(c, h) ==
  /\ BridgeStays(c) /\ Growing(c)
  /\ seen'[c] = seen[c] \/ h \in {<<"bridge", c>>, <<"bridge_index", c>>}
  /\ master'[c] = master[c] \/ Stage(h) <= 3 \/ h = <<"set_master", c>>
  /\ veth'[c] = veth[c] \/ Stage(h) <= 3 \/ h = <<"move", c>>
  /\ (ip'[c] = ip[c] /\ lease'[c] = lease[c]) \/ h = <<"allocate", c>>

LEMMA ReadyPop ==
  ASSUME Kinds, Typed, NEW c \in Container, phase[c] = "launch", phase'[c] = "launch", Ready(c),
         script[c] # <<>>, script'[c] = Tail(script[c]),
         Served(c, Head(script[c])), Unset(c, Head(script[c]))
  PROVE  Ready(c)'
<1> DEFINE h == Head(script[c])
<1>1. Ahead(c) /\ OnBridge(c) /\ RulesThere(c)
  BY DEF Ready, Engaged
<1>2. Ahead(c)' /\ Todo(c) = {h} \cup Todo(c)'
  BY <1>1, AheadPop
<1>3. Stage(h) <= 3 => {<<"set_master", c>>, <<"move", c>>, <<"publish", c>>} \subseteq Todo(c)'
  <2>1. /\ Stage(<<"set_master", c>>) = 4 /\ Stage(<<"move", c>>) = 4 /\ Stage(<<"publish", c>>) = 6
    BY StageIs
  <2>2. ASSUME Stage(h) <= 3
        PROVE  {<<"set_master", c>>, <<"move", c>>, <<"publish", c>>} \subseteq Todo(c)
    BY <1>1, <1>2, <2>2 DEF Ahead
  <2>3. ASSUME Stage(h) <= 3
        PROVE  h # <<"set_master", c>> /\ h # <<"move", c>> /\ h # <<"publish", c>>
    BY <2>1, <2>3
  <2> QED
    BY <1>2, <2>2, <2>3
<1>4. Served(c, h) /\ Unset(c, h)
  OBVIOUS
<1> HIDE DEF h
<1>5. OnBridge(c)'
  <2>1. \/ {<<"bridge", c>>, <<"bridge_index", c>>} \cap Todo(c)' # {}
        \/ seen'[c] = bridge'[On[c]].index /\ bridge'[On[c]].index # 0
    BY <1>1, <1>2, <1>4 DEF OnBridge, Served, Unset, BridgeStays
  <2>2. <<"address", c>> \in Todo(c)' \/ (bridge'[On[c]].index # 0 /\ bridge'[On[c]].address /\ bridge'[On[c]].up)
    BY <1>1, <1>2, <1>4 DEF OnBridge, Served, Unset, BridgeStays
  <2>3. <<"set_master", c>> \in Todo(c)' \/ master'[c] = bridge'[On[c]].index
    BY <1>1, <1>2, <1>3, <1>4 DEF OnBridge, Served, Unset, BridgeStays
  <2>4. <<"move", c>> \in Todo(c)' \/ veth'[c] = "moved"
    BY <1>1, <1>2, <1>3, <1>4 DEF OnBridge, Served, Unset
  <2>5. <<"allocate", c>> \in Todo(c)' \/ lease'[c] = ip'[c]
    BY <1>1, <1>2, <1>4 DEF OnBridge, Served, Unset
  <2> QED
    BY <2>1, <2>2, <2>3, <2>4, <2>5 DEF OnBridge
<1>6. RulesThere(c)'
  <2>0. ip[c] \in Addr \cup {0} /\ SharedRules(On[c]) \subseteq RuleSet
    BY SharedRulesAre, BridgeIs DEF Typed
  <2>1. <<"forwarding", 1>> \in Todo(c)' \/ forwarding'
    BY <1>1, <1>2, <1>4 DEF RulesThere, Served, Unset, Growing
  <2>2. \A n \in Chain : <<"chain", n>> \in Todo(c)' \/ n \in fw'.chains
    BY <1>1, <1>2, <1>4 DEF RulesThere, Served, Unset, Growing
  <2>3. \A r \in Mine(c) : <<"rule", r>> \in Todo(c) \/ r \in BagToSet(fw.rules)
                             => <<"rule", r>> \in Todo(c)' \/ r \in BagToSet(fw'.rules)
    BY <1>2, <1>4 DEF Served, Unset, Growing, Mine
  <2>4. \A r \in SharedRules(On[c]) : <<"rule", r>> \in Todo(c)' \/ r \in BagToSet(fw'.rules)
    BY <1>1, <2>0, <2>3, MineAre DEF RulesThere
  <2>5. CASE h = <<"allocate", c>>
    <3>1. Stage(h) <= 3
      BY <2>5, StageIs
    <3> QED
      BY <1>3, <2>1, <2>2, <2>4, <3>1 DEF RulesThere
  <2>6. CASE h # <<"allocate", c>>
    <3>1. ip'[c] = ip[c] /\ h # <<"publish", c>>
      BY <1>4, <2>6 DEF Unset, Served
    <3>2. \/ <<"publish", c>> \in Todo(c)'
          \/ \A r \in ToSet(PublishRules(c, ip[c])) :
               <<"rule", r>> \in Todo(c)' \/ r \in BagToSet(fw'.rules)
      BY <1>1, <1>2, <2>0, <2>3, <3>1, MineAre DEF RulesThere
    <3> QED
      BY <2>1, <2>2, <2>4, <3>1, <3>2 DEF RulesThere
  <2> QED
    BY <2>5, <2>6
<1> QED
  BY <1>2, <1>5, <1>6 DEF Ready

LEMMA SameGrows ==
  ASSUME UNCHANGED fwVars, NEW c
  PROVE  Growing(c)
  BY DEF Growing, fwVars

LEMMA LaunchGrows ==
  ASSUME Kinds, Filter, NEW d \in Container, LaunchStep(d) \/ CallFails(d), NEW c
  PROVE  Growing(c)
<1>1. CASE EnsureChain(d)
  <2>1. Arg(d) \in Chain
    BY <1>1, LaunchItem DEF EnsureChain
  <2>2. forwarding' = forwarding /\ (UNCHANGED fw \/ fw' = [fw EXCEPT !.chains = @ \cup {Arg(d)}])
    BY <1>1 DEF EnsureChain
  <2>3. fw.chains \subseteq fw'.chains /\ fw'.rules = fw.rules
    BY <2>1, <2>2, ChainsKeep
  <2> QED
    BY <2>2, <2>3 DEF Growing
<1>2. CASE append_unique(d)
  <2>1. Arg(d) \in RuleSet
    BY <1>2, LaunchItem DEF append_unique
  <2>2. forwarding' = forwarding /\ (UNCHANGED fw \/ fw' = Add(fw, Arg(d)))
    BY <1>2 DEF append_unique
  <2>3. fw.chains = fw'.chains /\ BagToSet(fw.rules) \subseteq BagToSet(fw'.rules)
    BY <2>1, <2>2, AddKeeps
  <2> QED
    BY <2>2, <2>3 DEF Growing
<1>3. CASE enable_ip_forwarding(d)
  BY <1>3 DEF enable_ip_forwarding, Growing
<1>4. CASE \/ CgroupBase(d) \/ CreateCgroup(d) \/ Clone(d) \/ AddPid(d) \/ LookUpBridge(d) \/ CreateBridge(d)
           \/ BridgeIndex(d) \/ BridgeAddress(d) \/ Allocate(d) \/ DeleteLeftover(d) \/ CreateVeth(d)
           \/ SetMaster(d) \/ MovePeer(d) \/ Publish(d) \/ Published(d) \/ Started(d) \/ CallFails(d)
  BY <1>4, SameGrows DEF CgroupBase, CreateCgroup, Clone, CloneWithCgroup, CloneThenMove, CloneWithoutCgroup, AddPid, LookUpBridge, CreateBridge, BridgeIndex,
     BridgeAddress, Allocate, DeleteLeftover, CreateVeth, SetMaster, MovePeer, Publish, Published,
     Started, CallFails
<1> QED
  BY <1>1, <1>2, <1>3, <1>4 DEF LaunchStep

(* The three ways a step of a launch ends: the item is done, something was *)
(* looked up and is not there, or the launch fails.                        *)
LEMMA OwnDone ==
  ASSUME Kinds, Typed, NEW c \in Container, phase[c] = "launch", Ready(c), script[c] # <<>>,
         Done(c) \/ \E u : DoneAndPush(c, u), Served(c, Head(script[c])), Unset(c, Head(script[c]))
  PROVE  Ready(c)'
<1>1. phase' = phase /\ script' = [script EXCEPT ![c] = Tail(script[c])]
  BY DEF Done, DoneAndPush, Continue
<1>2. script'[c] = Tail(script[c]) /\ phase'[c] = "launch"
  BY <1>1, ProcessIs DEF Kinds
<1> QED
  BY <1>2, ReadyPop

LEMMA OwnLookUp ==
  ASSUME Kinds, Typed, NEW c \in Container, phase[c] = "launch", Ready(c), NotThere(c),
         UNCHANGED <<seen, ip, netVars, fwVars>>
  PROVE  Ready(c)'
<1>1. Engaged(c) /\ Kept(c)
  BY SameGrows DEF Engaged, Kept, NotThere, BridgeStays, netVars
<1> QED
  BY <1>1, KeptReady

LEMMA OwnFails ==
  ASSUME Kinds, NEW c \in Container, Unwind(c)
  PROVE  Ready(c)'
<1>1. phase'[c] = "unwind"
  BY ProcessIs DEF Unwind, Kinds
<1> QED
  BY <1>1, ReadyNot DEF Engaged, Up

LEMMA AddressIs ==
  ASSUME Typed, NEW d \in Container, bridge' = [bridge EXCEPT ![On[d]] = set_up(add_address(bridge[On[d]]))]
  PROVE  /\ bridge'[On[d]].index = bridge[On[d]].index /\ bridge'[On[d]].address /\ bridge'[On[d]].up
         /\ \A b \in Bridge : b # On[d] => bridge'[b] = bridge[b]
<1>1. bridge[On[d]] \in [index : Nat, address : BOOLEAN, up : BOOLEAN] /\ On[d] \in Bridge
  BY BridgeIs DEF Typed
<1>2. /\ bridge'[On[d]] = set_up(add_address(bridge[On[d]]))
      /\ \A b \in Bridge : b # On[d] => bridge'[b] = bridge[b]
  BY BridgeIs DEF Typed
<1> DEFINE o == bridge[On[d]]
           n == bridge'[On[d]]
<1>3. o \in [index : Nat, address : BOOLEAN, up : BOOLEAN] /\ n = [[o EXCEPT !.address = TRUE] EXCEPT !.up = TRUE]
  BY <1>1, <1>2 DEF set_up, add_address
<1> HIDE DEF o, n
<1>4. n.index = o.index /\ n.address /\ n.up
  BY <1>3
<1> QED
  BY <1>2, <1>4 DEF o, n

LEMMA OwnBridge ==
  ASSUME Kinds, Typed, Filter, NEW c \in Container, Ready(c),
         LookUpBridge(c) \/ BridgeIndex(c) \/ BridgeAddress(c)
  PROVE  Ready(c)'
<1>1. Growing(c)
  BY LaunchGrows DEF LaunchStep
<1>2. phase[c] = "launch" /\ script[c] # <<>> /\ Arg(c) = c
  BY LaunchItem DEF LookUpBridge, BridgeIndex, BridgeAddress, LaunchOps
<1>3. c \in Process /\ Head(script[c]) = <<Head(script[c])[1], c>>
  BY <1>2, HeadIs, ProcessIs
<1> DEFINE h == Head(script[c])
<1>4. CASE LookUpBridge(c)
  <2>1. h = <<"bridge", c>>
    BY <1>3, <1>4 DEF LookUpBridge, At
  <2>2. CASE bridge[On[c]].index # 0
    <3>1. Done(c) /\ seen' = [seen EXCEPT ![c] = bridge[On[c]].index] /\ UNCHANGED <<ip, netVars>>
      BY <1>4, <2>2 DEF LookUpBridge, recVars
    <3>2. seen'[c] = bridge[On[c]].index
      BY <1>3, <3>1 DEF Typed
    <3>3. Served(c, h)
      BY <2>1, <2>2, <3>1, <3>2 DEF Served, netVars
    <3>4. Unset(c, h)
      BY <1>1, <2>1, <3>1 DEF Unset, BridgeStays, netVars
    <3> QED
      BY <1>2, <3>1, <3>3, <3>4, OwnDone
  <2>3. CASE bridge[On[c]].index = 0
    BY <1>2, <1>4, <2>3, OwnLookUp DEF LookUpBridge, recVars
  <2> QED
    BY <2>2, <2>3
<1>5. CASE BridgeIndex(c)
  <2>1. h = <<"bridge_index", c>>
    BY <1>3, <1>5 DEF BridgeIndex, At
  <2>2. CASE bridge[On[c]].index # 0
    <3>1. Done(c) /\ seen' = [seen EXCEPT ![c] = bridge[On[c]].index] /\ UNCHANGED <<ip, netVars>>
      BY <1>5, <2>2 DEF BridgeIndex, recVars
    <3>2. seen'[c] = bridge[On[c]].index
      BY <1>3, <3>1 DEF Typed
    <3>3. Served(c, h)
      BY <2>1, <2>2, <3>1, <3>2 DEF Served, netVars
    <3>4. Unset(c, h)
      BY <1>1, <2>1, <3>1 DEF Unset, BridgeStays, netVars
    <3> QED
      BY <1>2, <3>1, <3>3, <3>4, OwnDone
  <2>3. CASE bridge[On[c]].index = 0
    BY <1>5, <2>3, OwnFails DEF BridgeIndex, FailLaunch
  <2> QED
    BY <2>2, <2>3
<1>6. CASE BridgeAddress(c)
  <2>1. h = <<"address", c>>
    BY <1>3, <1>6 DEF BridgeAddress, At
  <2>2. CASE FailLaunch(c)
    BY <2>2, OwnFails DEF FailLaunch
  <2>3. CASE ~FailLaunch(c)
    <3>1. /\ Done(c) /\ UNCHANGED <<ip, seen, veth, master, lease>>
          /\ bridge' = [bridge EXCEPT ![On[c]] = set_up(add_address(bridge[On[c]]))]
          /\ bridge[On[c]].index = seen[c]
      BY <1>6, <2>3 DEF BridgeAddress, recVars
    <3>2. bridge'[On[c]].index = bridge[On[c]].index /\ bridge'[On[c]].address /\ bridge'[On[c]].up
      BY <3>1, AddressIs
    <3>3. bridge[On[c]].index # 0
      <4>1. Ahead(c) /\ OnBridge(c)
        BY <1>2 DEF Ready, Engaged
      <4>2. script[c] \in Seq(Item)
        BY <1>3 DEF Kinds, Fits
      <4>3. \A x \in Todo(c) : Stage(h) <= Stage(x)
        BY <1>2, <4>1, <4>2, SortedTail DEF Ahead, Todo
      <4>4. Stage(h) = 2 /\ Stage(<<"bridge", c>>) = 1 /\ Stage(<<"bridge_index", c>>) = 1
        BY <2>1, StageIs
      <4>5. <<"bridge", c>> \notin Todo(c) /\ <<"bridge_index", c>> \notin Todo(c)
        BY <4>3, <4>4
      <4> QED
        BY <4>1, <4>5 DEF OnBridge
    <3>4. Served(c, h)
      BY <2>1, <3>2, <3>3 DEF Served
    <3>5. Unset(c, h)
      BY <1>1, <3>1, <3>2 DEF Unset, BridgeStays
    <3> QED
      BY <1>2, <3>1, <3>4, <3>5, OwnDone
  <2> QED
    BY <2>2, <2>3
<1> QED
  BY <1>4, <1>5, <1>6

(* An early item that stands for the one it takes the place of.            *)
LEMMA OwnInsert ==
  ASSUME Kinds, NEW c \in Container, Ready(c), phase[c] = "launch", script[c] # <<>>,
         Head(script[c]) \in {<<"bridge", c>>, <<"clone", c>>},
         NEW x \in Item, Stage(x) = 1,
         Head(script[c]) = <<"bridge", c>> => x = <<"bridge_index", c>>,
         Head(script[c]) = <<"clone", c>> => UNCHANGED bridge,
         script' = [script EXCEPT ![c] = <<x>> \o Tail(script[c])], phase' = phase,
         UNCHANGED <<ip, seen, veth, master, lease, fwVars>>
  PROVE  Ready(c)'
<1> DEFINE h == Head(script[c])
           t == Tail(script[c])
           s == <<x>>
<1>2. /\ c \in Process /\ h \in {<<"bridge", c>>, <<"clone", c>>}
      /\ script[c] \in Seq(Item) /\ t \in Seq(Item) /\ Todo(c) = {h} \cup ToSet(t)
  BY HeadIs, ProcessIs DEF Kinds, Fits
<1>3. Ahead(c) /\ OnBridge(c) /\ RulesThere(c)
  BY DEF Ready, Engaged
<1>4. script'[c] = s \o t /\ phase'[c] = "launch"
  BY <1>2 DEF Kinds
<1>5. s \in Seq(Item) /\ ToSet(s) = {x}
  BY DEF ToSet
<1> HIDE DEF s, t, h
<1>6. Todo(c)' = {x} \cup ToSet(t)
  BY ONLY <1>2, <1>4, <1>5, JoinedSeq DEF Todo
<1>7. Sorted(script'[c])
  <2>1. Sorted(t)
    BY <1>2, <1>3, SortedTail DEF Ahead, t
  <2>2. Sorted(s)
    BY <1>5, SortedLevel
  <2>3. \A z \in ToSet(s), y \in ToSet(t) : Stage(z) <= Stage(y)
    BY <1>5, StageIs
  <2> QED
    BY <1>2, <1>4, <1>5, <2>1, <2>2, <2>3, SortedJoin
<1>8. {<<"address", c>>, <<"set_master", c>>, <<"move", c>>, <<"publish", c>>} \subseteq Todo(c)'
  <2>1. Stage(h) = 1 /\ h \in Todo(c)
    BY <1>2, StageIs
  <2>2. {<<"address", c>>, <<"set_master", c>>, <<"move", c>>, <<"publish", c>>} \subseteq Todo(c)
    BY <1>3, <2>1 DEF Ahead
  <2> QED
    BY <1>2, <1>6, <2>2
<1>9. Ahead(c)'
  BY <1>7, <1>8 DEF Ahead
<1>10. \A y \in Todo(c) : y # h => y \in Todo(c)'
  BY <1>2, <1>6
<1>11. OnBridge(c)'
  <2>1. <<"allocate", c>> \in Todo(c)' \/ lease'[c] = ip'[c]
    BY <1>2, <1>3, <1>10 DEF OnBridge
  <2>2. CASE h = <<"bridge", c>>
    BY <1>6, <1>8, <2>1, <2>2 DEF OnBridge, h
  <2>3. CASE h = <<"clone", c>>
    <3>1. UNCHANGED bridge
      BY <2>3 DEF h
    <3>2. {<<"bridge", c>>, <<"bridge_index", c>>} \cap Todo(c)' # {}
            \/ (seen[c] = bridge[On[c]].index /\ bridge[On[c]].index # 0)
      BY <1>3, <1>10, <2>3 DEF OnBridge
    <3> QED
      BY <1>8, <2>1, <3>1, <3>2 DEF OnBridge
  <2> QED
    BY <1>2, <2>2, <2>3
<1>12. RulesThere(c)'
  <2>0. \A a : h # <<"chain", a>> /\ h # <<"rule", a>>
    BY <1>2
  <2>1. <<"forwarding", 1>> \in Todo(c)' \/ forwarding'
    BY <1>2, <1>3, <1>10 DEF RulesThere, fwVars
  <2>2. \A n \in Chain : <<"chain", n>> \in Todo(c)' \/ n \in fw'.chains
    BY <1>3, <1>10, <2>0 DEF RulesThere, fwVars
  <2>3. \A r \in SharedRules(On[c]) : <<"rule", r>> \in Todo(c)' \/ r \in BagToSet(fw'.rules)
    BY <1>3, <1>10, <2>0 DEF RulesThere, fwVars
  <2> QED
    BY <1>8, <2>1, <2>2, <2>3 DEF RulesThere
<1> QED
  BY <1>9, <1>11, <1>12 DEF Ready

LEMMA OwnCreate ==
  ASSUME Kinds, Typed, Filter, NEW c \in Container, Ready(c), CreateBridge(c)
  PROVE  Ready(c)'
<1>1. phase[c] = "launch" /\ script[c] # <<>> /\ Head(script[c]) = <<"bridge", c>>
  <2>1. phase[c] = "launch" /\ script[c] # <<>> /\ Arg(c) = c
    BY LaunchItem DEF CreateBridge, LaunchOps
  <2> QED
    BY <2>1, HeadIs, ProcessIs DEF CreateBridge, At
<1>2. CASE FailLaunch(c)
  BY <1>2, OwnFails DEF FailLaunch
<1>3. CASE ~FailLaunch(c)
  <2>1. /\ script' = [script EXCEPT ![c] = <<<<"bridge_index", c>>>> \o Tail(script[c])] /\ phase' = phase
        /\ UNCHANGED <<ip, seen, veth, master, lease, fwVars>>
    BY <1>3 DEF CreateBridge, Continue, recVars
  <2>2. <<"bridge_index", c>> \in Item /\ Stage(<<"bridge_index", c>>) = 1
    BY ItemsAre, OpsAre, ArgsAre, StageIs DEF LaunchOps
  <2>3. <<"bridge", c>> # <<"clone", c>>
    OBVIOUS
  <2> QED
    BY <1>1, <2>1, <2>2, <2>3, OwnInsert
<1> QED
  BY <1>2, <1>3

LEMMA OwnPublish ==
  ASSUME Kinds, Typed, Filter, NEW c \in Container, Ready(c), Publish(c)
  PROVE  Ready(c)'
<1>1. phase[c] = "launch" /\ script[c] # <<>> /\ Arg(c) = c /\ ip[c] \in Addr \cup {0}
  BY LaunchItem DEF Publish, LaunchOps, Typed
<1> DEFINE h == Head(script[c])
           t == Tail(script[c])
           s == publish(c, ip[c])
           z == <<<<"published", c>>>>
           w == s \o z
<1>2. /\ c \in Process /\ h = <<"publish", c>> /\ script[c] \in Seq(Item) /\ t \in Seq(Item)
      /\ Todo(c) = {h} \cup ToSet(t)
  BY <1>1, HeadIs, ProcessIs DEF Publish, At, Kinds, Fits
<1>3. Ahead(c) /\ OnBridge(c) /\ RulesThere(c)
  BY <1>1 DEF Ready, Engaged
<1>4. /\ script' = [script EXCEPT ![c] = w \o t] /\ phase' = phase
      /\ UNCHANGED <<ip, seen, netVars, fwVars>>
  BY DEF Publish, Continue, recVars
<1>5. script'[c] = w \o t /\ phase'[c] = "launch"
  BY <1>1, <1>2, <1>4 DEF Kinds
<1>6. z \in Seq(Item) /\ ToSet(z) = {<<"published", c>>} /\ Stage(<<"published", c>>) = 6
  <2>1. <<"published", c>> \in Item
    BY ItemsAre, OpsAre, ArgsAre DEF LaunchOps
  <2>2. z \in Seq(Item)
    BY <2>1
  <2> QED
    BY <2>2, StageIs DEF ToSet
<1>7. /\ s \in Seq(Item) /\ \A x \in ToSet(s) : Stage(x) = 5
      /\ \A r \in ToSet(PublishRules(c, ip[c])) : <<"rule", r>> \in ToSet(s)
  BY <1>1, PublishIs, SetsUpIs
<1>8. Sorted(t) /\ \A x \in ToSet(t) : Stage(x) \in {6, 7}
  <2>1. Sorted(t) /\ \A x \in Todo(c) : Stage(h) <= Stage(x)
    BY <1>1, <1>2, <1>3, SortedTail DEF Ahead, Todo
  <2>2. Stage(h) = 6
    BY <1>2, StageIs
  <2>3. ASSUME NEW x \in ToSet(t) PROVE Stage(x) \in {6, 7}
    <3>1. Stage(x) \in 1 .. 7 /\ 6 <= Stage(x)
      BY <1>2, <2>1, <2>2, StageIs
    <3> QED
      BY <3>1
  <2> QED
    BY <2>1, <2>3
<1> HIDE DEF s, z, t, h
<1>9. /\ w \in Seq(Item) /\ ToSet(w) = ToSet(s) \cup {<<"published", c>>} /\ Sorted(w)
      /\ \A x \in ToSet(w) : Stage(x) \in {5, 6}
  <2>1. w \in Seq(Item) /\ ToSet(w) = ToSet(s) \cup ToSet(z)
    BY <1>6, <1>7, JoinedSeq
  <2>2. Sorted(s) /\ Sorted(z)
    BY <1>6, <1>7, SortedLevel
  <2>3. \A x \in ToSet(s), y \in ToSet(z) : Stage(x) <= Stage(y)
    BY <1>6, <1>7
  <2>4. Sorted(w)
    BY <1>6, <1>7, <2>2, <2>3, SortedJoin
  <2> QED
    BY <1>6, <1>7, <2>1, <2>4
<1> HIDE DEF w
<1>10. Todo(c)' = ToSet(w) \cup ToSet(t) /\ Sorted(script'[c])
  <2>1. ToSet(w \o t) = ToSet(w) \cup ToSet(t)
    BY <1>2, <1>9, JoinedSeq
  <2>2. \A x \in ToSet(w), y \in ToSet(t) : Stage(x) <= Stage(y)
    BY <1>8, <1>9
  <2>3. Sorted(w \o t)
    BY <1>2, <1>8, <1>9, <2>2, SortedJoin
  <2> QED
    BY <1>5, <2>1, <2>3 DEF Todo
<1>11. \A x \in Todo(c)' : Stage(x) \in {5, 6, 7}
  BY <1>8, <1>9, <1>10
<1>12. Ahead(c)'
  BY <1>10, <1>11 DEF Ahead
<1>13. \A x \in Todo(c) : x # <<"publish", c>> => x \in Todo(c)'
  BY <1>2, <1>10
<1>14. OnBridge(c)'
  BY <1>3, <1>4, <1>13 DEF OnBridge, netVars
<1>15. RulesThere(c)'
  <2>1. <<"forwarding", 1>> \in Todo(c)' \/ forwarding'
    BY <1>3, <1>4, <1>13 DEF RulesThere, fwVars
  <2>2. \A n \in Chain : <<"chain", n>> \in Todo(c)' \/ n \in fw'.chains
    BY <1>3, <1>4, <1>13 DEF RulesThere, fwVars
  <2>3. \A r \in SharedRules(On[c]) : <<"rule", r>> \in Todo(c)' \/ r \in BagToSet(fw'.rules)
    BY <1>3, <1>4, <1>13 DEF RulesThere, fwVars
  <2>4. \A r \in ToSet(PublishRules(c, ip'[c])) : <<"rule", r>> \in Todo(c)'
    BY <1>4, <1>7, <1>9, <1>10
  <2> QED
    BY <2>1, <2>2, <2>3, <2>4 DEF RulesThere
<1> QED
  BY <1>12, <1>14, <1>15 DEF Ready

(* When STARTED has arrived nothing is left to be done.                    *)
LEMMA OwnStarted ==
  ASSUME Kinds, Typed, Filter, NEW c \in Container, Ready(c), Started(c)
  PROVE  Ready(c)'
<1>1. phase[c] = "launch" /\ script[c] # <<>> /\ Arg(c) = c
  BY LaunchItem DEF Started, LaunchOps
<1> DEFINE h == Head(script[c])
<1>2. c \in Process /\ h = <<"started", c>> /\ script[c] \in Seq(Item)
  BY <1>1, HeadIs, ProcessIs DEF Started, At, Kinds, Fits
<1>3. Ahead(c) /\ OnBridge(c) /\ RulesThere(c)
  BY <1>1 DEF Ready, Engaged
<1>4. CASE FailLaunch(c)
  BY <1>4, OwnFails DEF FailLaunch
<1>5. CASE ~FailLaunch(c)
  <2>1. /\ script' = [script EXCEPT ![c] = <<>>] /\ phase' = [phase EXCEPT ![c] = "wait"]
        /\ UNCHANGED <<ip, seen, netVars, fwVars>>
    BY <1>5 DEF Started, Continue
  <2>2. phase'[c] = "wait"
    BY <1>2, <2>1 DEF Kinds
  <2>3. ASSUME NEW x \in Todo(c) PROVE Stage(x) = 7
    <3>1. Stage(h) <= Stage(x) /\ Stage(h) = 7 /\ Stage(x) \in 1 .. 7
      BY <1>1, <1>2, <1>3, SortedTail, StageIs DEF Ahead, Todo
    <3> QED
      BY <3>1
  <2>4. /\ <<"bridge", c>> \notin Todo(c) /\ <<"bridge_index", c>> \notin Todo(c)
        /\ <<"address", c>> \notin Todo(c) /\ <<"set_master", c>> \notin Todo(c)
        /\ <<"move", c>> \notin Todo(c) /\ <<"allocate", c>> \notin Todo(c)
        /\ <<"forwarding", 1>> \notin Todo(c) /\ <<"publish", c>> \notin Todo(c)
    BY <2>3, StageIs
  <2>5. ASSUME NEW a PROVE <<"chain", a>> \notin Todo(c) /\ <<"rule", a>> \notin Todo(c)
    <3>1. Stage(<<"chain", a>>) = 5 /\ Stage(<<"rule", a>>) = 5
      BY StageIs
    <3> QED
      BY <2>3, <3>1
  <2>6. OnBridge(c)'
    BY <1>3, <2>1, <2>4 DEF OnBridge, netVars
  <2>7. RulesThere(c)'
    BY <1>3, <2>1, <2>4, <2>5 DEF RulesThere, fwVars
  <2> QED
    BY <2>2, <2>6, <2>7 DEF Ready
<1> QED
  BY <1>4, <1>5

LEMMA OwnItem ==
  ASSUME Kinds, NEW c \in Container, NEW op \in LaunchOps, At(c, op)
  PROVE  phase[c] = "launch" /\ script[c] # <<>> /\ Head(script[c]) = <<op, c>>
<1>1. phase[c] = "launch" /\ script[c] # <<>> /\ Arg(c) = c
  BY LaunchItem
<1> QED
  BY <1>1, HeadIs, ProcessIs DEF At

(* The steps before and after those about the network.                     *)
LEMMA OwnQuiet ==
  ASSUME Kinds, Typed, Filter, NEW c \in Container, Ready(c),
         CgroupBase(c) \/ CreateCgroup(c) \/ Clone(c) \/ AddPid(c) \/ Published(c)
  PROVE  Ready(c)'
<1>1. PICK op \in {"cgroup_base", "cgroup", "clone", "add_pid", "published"} :
         At(c, op) /\ (Clone(c) => op = "clone")
  BY DEF CgroupBase, CreateCgroup, Clone, CloneWithCgroup, CloneThenMove, CloneWithoutCgroup, AddPid, Published
<1>2. phase[c] = "launch" /\ script[c] # <<>> /\ Head(script[c]) = <<op, c>>
  BY <1>1, OwnItem DEF LaunchOps
<1>3. UNCHANGED <<seen, ip, netVars, fwVars>>
  BY DEF CgroupBase, CreateCgroup, Clone, CloneWithCgroup, CloneThenMove, CloneWithoutCgroup, AddPid, Published, recVars
<1>4. Done(c) \/ (\E u : DoneAndPush(c, u)) \/ NotThere(c) \/ Unwind(c) \/ Clone(c)
  BY DEF CgroupBase, CreateCgroup, AddPid, Published, FailLaunch
<1>5. Served(c, Head(script[c]))
  BY <1>2 DEF Served
<1>6. Unset(c, Head(script[c]))
  BY <1>3, SameGrows DEF Unset, BridgeStays, netVars
<1>7. CASE Clone(c)
  <2>1. CASE script' = [script EXCEPT ![c] = <<<<"add_pid", c>>>> \o Tail(script[c])] /\ phase' = phase
    <3>1. Head(script[c]) = <<"clone", c>> /\ <<"bridge", c>> # <<"clone", c>>
      BY <1>1, <1>2, <1>7
    <3>2. UNCHANGED <<ip, seen, bridge, veth, master, lease, fwVars>>
      BY <1>3 DEF netVars
    <3> QED
      BY <1>2, <2>1, <3>1, <3>2, CloneItems, OwnInsert
  <2> QED
    BY <1>2, <1>5, <1>6, <1>7, <2>1, CloneMoves, OwnDone, OwnFails
<1> QED
  BY <1>2, <1>3, <1>4, <1>5, <1>6, <1>7, OwnDone, OwnLookUp, OwnFails

LEMMA OwnAllocate ==
  ASSUME Kinds, Typed, Filter, NEW c \in Container, Ready(c), Allocate(c)
  PROVE  Ready(c)'
<1>1. phase[c] = "launch" /\ script[c] # <<>> /\ Head(script[c]) = <<"allocate", c>>
  BY OwnItem DEF Allocate, LaunchOps
<1>2. CASE FailLaunch(c)
  BY <1>2, OwnFails DEF FailLaunch
<1>3. CASE ~FailLaunch(c)
  <2>1. /\ \E u : DoneAndPush(c, u)
        /\ \E a : lease' = [lease EXCEPT ![c] = a] /\ ip' = [ip EXCEPT ![c] = a]
        /\ UNCHANGED <<seen, bridge, veth, master, fwVars>>
    BY <1>3 DEF Allocate
  <2>2. lease'[c] = ip'[c]
    BY <2>1 DEF Typed
  <2>3. Served(c, Head(script[c]))
    BY <1>1, <2>2 DEF Served
  <2>4. Unset(c, Head(script[c]))
    BY <1>1, <2>1, SameGrows DEF Unset, BridgeStays
  <2> QED
    BY <1>1, <2>1, <2>3, <2>4, OwnDone
<1> QED
  BY <1>2, <1>3

LEMMA OwnVeth ==
  ASSUME Kinds, Typed, Filter, NEW c \in Container, Ready(c),
         DeleteLeftover(c) \/ CreateVeth(c) \/ SetMaster(c) \/ MovePeer(c)
  PROVE  Ready(c)'
<1>1. PICK op \in {"leftover", "create_veth", "set_master", "move"} : At(c, op)
  BY DEF DeleteLeftover, CreateVeth, SetMaster, MovePeer
<1>2. phase[c] = "launch" /\ script[c] # <<>> /\ Head(script[c]) = <<op, c>>
  BY <1>1, OwnItem DEF LaunchOps
<1>3. UNCHANGED <<seen, ip, bridge, lease, fwVars>> /\ Growing(c)
  BY SameGrows DEF DeleteLeftover, CreateVeth, SetMaster, MovePeer, recVars
<1>4. CASE DeleteLeftover(c) \/ CreateVeth(c)
  <2>1. Done(c) \/ \E u : DoneAndPush(c, u)
    BY <1>4 DEF DeleteLeftover, CreateVeth
  <2>2. op \in {"leftover", "create_veth"}
    BY <1>1, <1>4 DEF DeleteLeftover, CreateVeth, At
  <2>3. Stage(Head(script[c])) <= 3
    <3>1. Stage(<<"leftover", c>>) = 3 /\ Stage(<<"create_veth", c>>) = 3
      BY StageIs
    <3> QED
      BY <1>2, <2>2, <3>1
  <2>4. Served(c, Head(script[c]))
    BY <1>2, <2>2 DEF Served
  <2>5. Unset(c, Head(script[c]))
    BY <1>3, <2>3 DEF Unset, BridgeStays
  <2> QED
    BY <1>2, <2>1, <2>4, <2>5, OwnDone
<1>5. CASE SetMaster(c)
  <2>0. Head(script[c]) = <<"set_master", c>>
    BY <1>5, OwnItem DEF SetMaster, LaunchOps
  <2>1. CASE FailLaunch(c)
    BY <2>1, OwnFails DEF FailLaunch
  <2>2. CASE ~FailLaunch(c)
    <3>1. Done(c) /\ bridge[On[c]].index = seen[c] /\ master' = [master EXCEPT ![c] = seen[c]] /\ veth' = veth
      BY <1>5, <2>2 DEF SetMaster, set_master
    <3>2. master'[c] = bridge'[On[c]].index
      BY <1>3, <3>1 DEF Typed
    <3>3. Served(c, Head(script[c]))
      BY <2>0, <3>2 DEF Served
    <3>4. Unset(c, Head(script[c]))
      BY <1>3, <2>0, <3>1 DEF Unset, BridgeStays
    <3> QED
      BY <1>2, <3>1, <3>3, <3>4, OwnDone
  <2> QED
    BY <2>1, <2>2
<1>6. CASE MovePeer(c)
  <2>0. Head(script[c]) = <<"move", c>>
    BY <1>6, OwnItem DEF MovePeer, LaunchOps
  <2>1. CASE FailLaunch(c)
    BY <2>1, OwnFails DEF FailLaunch
  <2>2. CASE ~FailLaunch(c)
    <3>1. Done(c) /\ veth' = [veth EXCEPT ![c] = "moved"] /\ master' = master
      BY <1>6, <2>2 DEF MovePeer, move_to_netns_pid
    <3>2. veth'[c] = "moved"
      BY <3>1 DEF Typed
    <3>3. Served(c, Head(script[c]))
      BY <2>0, <3>2 DEF Served
    <3>4. Unset(c, Head(script[c]))
      BY <1>3, <2>0, <3>1 DEF Unset, BridgeStays
    <3> QED
      BY <1>2, <3>1, <3>3, <3>4, OwnDone
  <2> QED
    BY <2>1, <2>2
<1> QED
  BY <1>4, <1>5, <1>6

LEMMA OwnRules ==
  ASSUME Kinds, Typed, Filter, NEW c \in Container, Ready(c),
         enable_ip_forwarding(c) \/ EnsureChain(c) \/ append_unique(c)
  PROVE  Ready(c)'
<1>1. phase[c] = "launch" /\ script[c] # <<>> /\ OfLaunch(c, Head(script[c]))
  BY LaunchItem DEF enable_ip_forwarding, EnsureChain, append_unique
<1>2. UNCHANGED <<seen, ip, netVars>> /\ Growing(c)
  BY LaunchGrows DEF LaunchStep, enable_ip_forwarding, EnsureChain, append_unique, recVars
<1>3. Unset(c, Head(script[c]))
  BY <1>2 DEF Unset, BridgeStays, netVars
<1>4. Head(script[c]) = <<Head(script[c])[1], Arg(c)>>
  BY <1>1, HeadIs, ProcessIs
<1>5. CASE enable_ip_forwarding(c)
  <2>1. Head(script[c])[1] = "forwarding" /\ forwarding' /\ Done(c)
    BY <1>5 DEF enable_ip_forwarding, At
  <2>2. Served(c, Head(script[c]))
    BY <1>4, <2>1 DEF Served
  <2> QED
    BY <1>1, <1>3, <2>1, <2>2, OwnDone
<1>6. CASE EnsureChain(c)
  <2>1. Head(script[c]) = <<"chain", Arg(c)>> /\ Arg(c) \in Chain
    BY <1>4, <1>6, LaunchItem DEF EnsureChain, At
  <2>2. CASE Unwind(c)
    BY <2>2, OwnFails
  <2>3. CASE ~Unwind(c) /\ NotThere(c) /\ fw' = fw
    BY <1>1, <1>2, <1>6, <2>3, OwnLookUp DEF EnsureChain, fwVars
  <2>4. CASE Done(c) /\ (Arg(c) \in fw.chains \/ fw' = [fw EXCEPT !.chains = @ \cup {Arg(c)}])
    <3>1. Arg(c) \in fw'.chains
      <4>1. CASE Arg(c) \in fw.chains
        BY <1>2, <4>1 DEF Growing
      <4>2. CASE fw' = [fw EXCEPT !.chains = @ \cup {Arg(c)}]
        BY <2>1, <4>2, ChainsKeep
      <4> QED
        BY <2>4, <4>1, <4>2
    <3>2. Served(c, Head(script[c]))
      BY <2>1, <3>1 DEF Served
    <3> QED
      BY <1>1, <1>3, <2>4, <3>2, OwnDone
  <2> QED
    BY <1>6, <2>2, <2>3, <2>4 DEF EnsureChain, FailLaunch
<1>7. CASE append_unique(c)
  <2>1. Head(script[c]) = <<"rule", Arg(c)>> /\ Arg(c) \in RuleSet
    BY <1>4, <1>7, LaunchItem DEF append_unique, At
  <2>2. CASE Unwind(c)
    BY <2>2, OwnFails
  <2>3. CASE ~Unwind(c) /\ NotThere(c) /\ fw' = fw
    BY <1>1, <1>2, <1>7, <2>3, OwnLookUp DEF append_unique, fwVars
  <2>4. CASE Done(c) /\ ((rule_exists(fw, Arg(c)) /\ fw' = fw) \/ fw' = Add(fw, Arg(c)))
    <3>1. Arg(c) \in BagToSet(fw'.rules)
      <4>1. CASE rule_exists(fw, Arg(c)) /\ fw' = fw
        BY <4>1 DEF rule_exists, BagIn
      <4>2. CASE fw' = Add(fw, Arg(c))
        BY <2>1, <4>2, AddKeeps
      <4> QED
        BY <2>4, <4>1, <4>2
    <3>2. Served(c, Head(script[c]))
      BY <2>1, <3>1 DEF Served
    <3> QED
      BY <1>1, <1>3, <2>4, <3>2, OwnDone
  <2> QED
    BY <1>7, <2>2, <2>3, <2>4 DEF append_unique, FailLaunch
<1> QED
  BY <1>5, <1>6, <1>7

LEMMA OwnLaunch ==
  ASSUME Kinds, Typed, Filter, NEW c \in Container, Ready(c), LaunchStep(c)
  PROVE  Ready(c)'
  BY OwnBridge, OwnCreate, OwnPublish, OwnStarted, OwnQuiet, OwnAllocate, OwnVeth, OwnRules
     DEF LaunchStep

(* A launch begins with everything to be done.                             *)
LEMMA OwnStart ==
  ASSUME Kinds, NEW c \in Container, Start(c)
  PROVE  Ready(c)'
<1>1. script'[c] = launch(c)
  BY ProcessIs DEF Start, Kinds
<1>2. Ahead(c)'
  BY <1>1, LaunchIs DEF Ahead, Todo
<1>3. OnBridge(c)' /\ RulesThere(c)'
  BY <1>1, LaunchIs DEF OnBridge, RulesThere, Todo
<1> QED
  BY <1>2, <1>3 DEF Ready

-----------------------------------------------------------------------------
(* Steps of others.                                                        *)

LEMMA OtherLaunch ==
  ASSUME Kinds, Typed, Filter, NEW d \in Container, LaunchStep(d) \/ CallFails(d),
         NEW c \in Container, c # d
  PROVE  Kept(c) /\ child'[c] = child[c]
<1>1. phase'[c] = phase[c] /\ script'[c] = script[c] /\ seen'[c] = seen[c] /\ Growing(c)
  BY LaunchActor, LaunchGrows, ProcessIs DEF Others
<1>2. bridge[On[c]].index = 0 \/ BridgeStays(c)
  <2>1. CASE CreateBridge(d)
    <3>1. UNCHANGED bridge \/ (bridge[On[d]].index = 0 /\ \E n : bridge' = [bridge EXCEPT ![On[d]] = n])
      BY <2>1 DEF CreateBridge
    <3> QED
      BY <3>1, BridgeIs DEF BridgeStays, Typed
  <2>2. CASE BridgeAddress(d)
    <3>1. UNCHANGED bridge \/ bridge' = [bridge EXCEPT ![On[d]] = set_up(add_address(bridge[On[d]]))]
      BY <2>2 DEF BridgeAddress
    <3> QED
      BY <3>1, AddressIs, BridgeIs DEF BridgeStays
  <2>3. CASE ~CreateBridge(d) /\ ~BridgeAddress(d)
    <3>1. bridge' = bridge
      BY <2>3 DEF LaunchStep, CgroupBase, CreateCgroup, Clone, CloneWithCgroup, CloneThenMove, CloneWithoutCgroup, AddPid, LookUpBridge, BridgeIndex, Allocate,
         DeleteLeftover, CreateVeth, SetMaster, MovePeer, enable_ip_forwarding, EnsureChain,
         append_unique, Publish, Published, Started, CallFails, netVars
    <3> QED
      BY <3>1 DEF BridgeStays
  <2> QED
    BY <2>1, <2>2, <2>3
<1>3. child'[c] = child[c]
  <2>1. UNCHANGED child \/ child' = [child EXCEPT ![d] = TRUE]
    BY DEF LaunchStep, CgroupBase, CreateCgroup, Clone, CloneWithCgroup, CloneThenMove, CloneWithoutCgroup, AddPid, LookUpBridge, CreateBridge, BridgeIndex,
       BridgeAddress, Allocate, DeleteLeftover, CreateVeth, SetMaster, MovePeer, enable_ip_forwarding,
       EnsureChain, append_unique, Publish, Published, Started, CallFails, recVars
  <2> QED
    BY <2>1 DEF Typed
<1>4. ip'[c] = ip[c] /\ lease'[c] = lease[c]
  <2>1. \/ UNCHANGED <<ip, lease>>
        \/ \E a : lease' = [lease EXCEPT ![d] = a] /\ ip' = [ip EXCEPT ![d] = a]
    BY DEF LaunchStep, CgroupBase, CreateCgroup, Clone, CloneWithCgroup, CloneThenMove, CloneWithoutCgroup, AddPid, LookUpBridge, CreateBridge, BridgeIndex,
       BridgeAddress, Allocate, DeleteLeftover, CreateVeth, SetMaster, MovePeer, enable_ip_forwarding,
       EnsureChain, append_unique, Publish, Published, Started, CallFails, recVars, netVars
  <2> QED
    BY <2>1 DEF Typed
<1>5. veth'[c] = veth[c] /\ master'[c] = master[c]
  <2>1. /\ UNCHANGED veth \/ \E v : veth' = [veth EXCEPT ![d] = v]
        /\ UNCHANGED master \/ \E m : master' = [master EXCEPT ![d] = m]
    BY DEF LaunchStep, CgroupBase, CreateCgroup, Clone, CloneWithCgroup, CloneThenMove, CloneWithoutCgroup, AddPid, LookUpBridge, CreateBridge, BridgeIndex,
       BridgeAddress, Allocate, DeleteLeftover, CreateVeth, SetMaster, MovePeer, enable_ip_forwarding,
       EnsureChain, append_unique, Publish, Published, Started, CallFails, netVars, delete_link,
       create_veth, set_master, move_to_netns_pid
  <2> QED
    BY <2>1 DEF Typed
<1> QED
  BY <1>1, <1>2, <1>3, <1>4, <1>5 DEF Kept

LEMMA OtherEnd ==
  ASSUME Kinds, Typed, NEW d \in Container, Exit(d) \/ Reap(d) \/ Crash(d), NEW c \in Container, c # d
  PROVE  Kept(c) /\ child'[c] = child[c]
<1>1. phase'[c] = phase[c] /\ script'[c] = script[c] /\ seen'[c] = seen[c]
  BY EndActor, ProcessIs DEF Others
<1>2. UNCHANGED <<ip, bridge, lease, fwVars>> /\ (Dies(d) \/ UNCHANGED <<child, veth, master>>)
  BY DEF Exit, Reap, Crash, netVars
<1>3. child'[c] = child[c] /\ veth'[c] = veth[c] /\ master'[c] = master[c]
  BY <1>2 DEF Dies, Typed
<1> QED
  BY <1>1, <1>2, <1>3, SameGrows DEF Kept, BridgeStays

(* An item that removes something of d, done by whichever process.         *)
LEMMA OtherUndo ==
  ASSUME Kinds, Typed, Filter, NEW p \in Process, UndoStep(p), ~Finish(p), NEW d \in Container,
         OfUndo(d, Head(script[p])), NEW c \in Container, c # d, c # p
  PROVE  Kept(c) /\ child'[c] = child[c]
<1>1. phase'[c] = phase[c] /\ script'[c] = script[c] /\ seen'[c] = seen[c]
  BY UndoActor, ProcessIs DEF Others
<1>2. UNCHANGED <<ip, bridge>>
  BY DEF UndoStep, Kill, RemoveCgroup, ListTagged, DeleteRule, FlushChain, DeleteChain, DeleteVeth,
     Release, recVars, netVars
<1>3. CASE Kill(p)
  <2>1. Arg(p) = d /\ Dies(Arg(p)) /\ UNCHANGED <<lease, fwVars>>
    BY <1>3 DEF Kill, At, Arg, OfUndo, OfCleanup
  <2>2. child'[c] = child[c] /\ veth'[c] = veth[c] /\ master'[c] = master[c]
    BY <2>1 DEF Dies, Typed
  <2> QED
    BY <1>1, <1>2, <2>1, <2>2, SameGrows DEF Kept, BridgeStays
<1>4. CASE RemoveCgroup(p) \/ ListTagged(p)
  <2>1. UNCHANGED <<child, netVars, fwVars>>
    BY <1>4 DEF RemoveCgroup, ListTagged, recVars
  <2> QED
    BY <1>1, <1>2, <2>1, SameGrows DEF Kept, BridgeStays, netVars
<1>5. CASE DeleteRule(p)
  <2>1. Head(script[p])[1] = "delete" /\ fw' = Delete(fw, Arg(p)) /\ UNCHANGED <<child, netVars, forwarding>>
    BY <1>5 DEF DeleteRule, At, recVars
  <2>2. Arg(p) \in RuleSet /\ Arg(p).tag = d
    BY <2>1 DEF OfUndo, OfCleanup, UndoOps, Arg
  <2>3. Arg(p) \notin Mine(c)
    BY <2>2, TagsDiffer DEF Mine
  <2>4. Growing(c)
    BY <2>1, <2>2, <2>3, DeleteKeeps DEF Growing
  <2> QED
    BY <1>1, <1>2, <2>1, <2>4 DEF Kept, BridgeStays, netVars
<1>6. CASE FlushChain(p) \/ DeleteChain(p)
  <2>1. Head(script[p])[1] \in {"flush", "drop"}
    BY <1>6 DEF FlushChain, DeleteChain, At
  <2> QED
    BY <2>1 DEF OfUndo, OfCleanup, UndoOps
<1>7. CASE DeleteVeth(p)
  <2>1. Arg(p) = d /\ delete_link(Arg(p)) /\ UNCHANGED <<child, lease, fwVars>>
    BY <1>7 DEF DeleteVeth, At, Arg, OfUndo, OfCleanup, recVars
  <2>2. veth'[c] = veth[c] /\ master'[c] = master[c]
    BY <2>1 DEF delete_link, set_master, Typed
  <2> QED
    BY <1>1, <1>2, <2>1, <2>2, SameGrows DEF Kept, BridgeStays
<1>8. CASE Release(p)
  <2>1. Arg(p) = d /\ lease' = [lease EXCEPT ![Arg(p)] = 0] /\ UNCHANGED <<child, veth, master, fwVars>>
    BY <1>8 DEF Release, At, Arg, OfUndo, OfCleanup, recVars
  <2>2. lease'[c] = lease[c]
    BY <2>1 DEF Typed
  <2> QED
    BY <1>1, <1>2, <2>1, <2>2, SameGrows DEF Kept, BridgeStays
<1> QED
  BY <1>3, <1>4, <1>5, <1>6, <1>7, <1>8 DEF UndoStep

(* What gc does, to a container that runs.                                 *)
LEMMA GcSpares ==
  ASSUME Kinds, Typed, Filter, Aware, NEW c \in Container, Up(c), UndoStep("gc") \/ GcStep
  PROVE  Kept(c)
<1>0. "gc" \in Process /\ c \in Process /\ c # "gc"
  BY ProcessIs
<1>1. phase'[c] = phase[c] /\ script'[c] = script[c] /\ seen'[c] = seen[c]
  BY <1>0, UndoActor, GcActor DEF Others
<1>2. CASE Finish("gc")
  BY <1>1, <1>2, SameGrows DEF Finish, Kept, BridgeStays, netVars
<1>3. CASE ~Finish("gc") /\ ~Scan
  <2> DEFINE h == Head(script["gc"])
  <2>1. phase["gc"] = "collect" /\ script["gc"] # <<>> /\ h[1] # "scan"
    <3>1. \E op : At("gc", op) /\ op # "scan"
      BY <1>3 DEF UndoStep, Kill, RemoveCgroup, ListTagged, DeleteRule, FlushChain, DeleteChain,
         DeleteVeth, Release, GcStep, TeardownDead, gc_empty, IpamGc, orphaned_veths, BridgeUsed,
         BridgeLinks, DeleteBridge, CountBaseRules
    <3> QED
      BY <3>1, GcItem DEF At
  <2>2. Head(<<<<"scan", 0>>>>)[1] = "scan"
    OBVIOUS
  <2>3. c \in live /\ Safe(h)
    <3>1. h \in Todo("gc")
      BY <1>0, <2>1, HeadIs
    <3> QED
      BY <2>1, <2>2, <3>1 DEF Aware
  <2>5. CASE UndoStep("gc")
    <3>1. \E op \in UndoOps \cup {"list", "delete", "flush", "drop"} : At("gc", op)
      BY <1>3, <2>5 DEF UndoStep, Kill, RemoveCgroup, ListTagged, DeleteRule, FlushChain, DeleteChain,
         DeleteVeth, Release, UndoOps
    <3>2. h[1] \notin GcOps /\ h[1] # "teardown"
      BY <3>1 DEF At, UndoOps, GcOps
    <3>3. PICK d \in Container : ~Up(d) /\ OfUndo(d, h)
      BY <2>3, <3>2 DEF Safe
    <3> QED
      BY <1>0, <1>3, <2>5, <3>3, OtherUndo
  <2>6. CASE gc_empty \/ TeardownDead \/ orphaned_veths \/ BridgeUsed \/ BridgeLinks \/ CountBaseRules
    <3>1. UNCHANGED <<ip, netVars, fwVars>>
      BY <2>6 DEF gc_empty, TeardownDead, orphaned_veths, BridgeUsed, BridgeLinks, CountBaseRules, recVars
    <3> QED
      BY <1>1, <3>1, SameGrows DEF Kept, BridgeStays, netVars
  <2>7. CASE IpamGc
    <3>1. lease'[c] = lease[c] /\ UNCHANGED <<ip, bridge, veth, master, fwVars>>
      BY <2>3, <2>7 DEF IpamGc, recVars
    <3> QED
      BY <1>1, <3>1, SameGrows DEF Kept, BridgeStays
  <2>8. CASE DeleteBridge
    <3>1. h[1] = "delete_bridge"
      BY <2>8 DEF DeleteBridge, At
    <3>2. h[1] \notin GcOps /\ h[1] \notin UndoOps /\ h[1] \notin {"list", "delete", "teardown"}
      BY <3>1 DEF GcOps, UndoOps
    <3>3. ASSUME NEW d \in Container PROVE ~OfUndo(d, h) /\ h # <<"teardown", d>>
      BY <3>2 DEF OfUndo, OfCleanup
    <3> QED
      BY <2>3, <3>2, <3>3 DEF Safe
  <2> QED
    BY <1>3, <2>5, <2>6, <2>7, <2>8 DEF GcStep
<1>4. CASE Scan
  <2>1. UNCHANGED <<ip, netVars, fwVars>>
    BY <1>4 DEF Scan
  <2> QED
    BY <1>1, <2>1, SameGrows DEF Kept, BridgeStays, netVars
<1> QED
  BY <1>2, <1>3, <1>4

LEMMA Unengaged ==
  ASSUME Kinds, Typed, [Next]_vars, NEW c \in Container, ~Engaged(c), phase'[c] = phase[c]
  PROVE  Ready(c)'
<1>1. ~Started(c)
  BY LaunchItem DEF Started, LaunchOps, Engaged
<1>2. ~Up(c)'
  BY <1>1, UpBefore DEF Engaged
<1> QED
  BY <1>2, ReadyNot DEF Engaged

LEMMA ProvidedNext ==
  ASSUME Kinds, Typed, Filter, Aware, Provided, [Next]_vars
  PROVE  Provided'
<1> SUFFICES ASSUME NEW c \in Container PROVE Ready(c)'
  BY DEF Provided
<1>0. /\ Ready(c) /\ "gc" \in Process /\ phase = [p \in Process |-> phase[p]]
      /\ script = [p \in Process |-> script[p]] /\ \A d \in Container : d \in Process /\ d # "gc"
  BY ProcessIs DEF Provided, Kinds
<1>1. ASSUME Kept(c) PROVE Ready(c)'
  <2>1. phase'[c] = phase[c]
    BY <1>1 DEF Kept
  <2> QED
    BY <1>0, <1>1, <2>1, KeptReady, Unengaged
<1>2. ASSUME NEW d \in Container, Start(d) PROVE Ready(c)'
  <2>1. CASE d = c
    BY <1>2, <2>1, OwnStart
  <2>2. CASE d # c
    <3>1. /\ phase' = [phase EXCEPT ![d] = "launch", !["gc"] = IF @ = "done" THEN "idle" ELSE @]
          /\ script' = [script EXCEPT ![d] = launch(d)] /\ UNCHANGED <<seen, ip, netVars, fwVars>>
      BY <1>2 DEF Start, recVars
    <3>2. phase'[c] = phase[c] /\ script'[c] = script[c]
      BY <1>0, <2>2, <3>1
    <3> QED
      BY <1>1, <3>1, <3>2, SameGrows DEF Kept, BridgeStays, netVars
  <2> QED
    BY <2>1, <2>2
<1>3. ASSUME NEW d \in Container, LaunchStep(d) \/ CallFails(d) PROVE Ready(c)'
  BY <1>0, <1>1, <1>3, OwnLaunch, OwnFails, OtherLaunch DEF CallFails
<1>4. ASSUME NEW d \in Container, Exit(d) \/ Reap(d) \/ Crash(d) PROVE Ready(c)'
  <2>1. CASE d = c
    BY <1>4, <2>1, EndActor, ReadyNot DEF Engaged
  <2>2. CASE d # c
    BY <1>1, <1>4, <2>2, OtherEnd
  <2> QED
    BY <2>1, <2>2
<1>5. ASSUME NEW d \in Container, UndoStep(d) PROVE Ready(c)'
  <2>1. CASE d = c
    <3>1. phase'[c] \notin {"launch", "wait"}
      BY <1>0, <1>5, <2>1, UndoActor
    <3> QED
      BY <3>1, ReadyNot DEF Engaged, Up
  <2>2. CASE d # c /\ Finish(d)
    <3>1. Others(d)
      BY <1>0, <1>5, UndoActor
    <3>2. UNCHANGED <<ip, netVars, fwVars>>
      BY <2>2 DEF Finish
    <3> QED
      BY <1>0, <1>1, <2>2, <3>1, <3>2, SameGrows DEF Others, Kept, BridgeStays, netVars
  <2>3. CASE d # c /\ ~Finish(d)
    <3>1. \E op \in UndoOps \cup {"list", "delete", "flush", "drop"} : At(d, op)
      BY <1>5, <2>3 DEF UndoStep, Kill, RemoveCgroup, ListTagged, DeleteRule, FlushChain, DeleteChain,
         DeleteVeth, Release, UndoOps
    <3>2. OfUndo(d, Head(script[d]))
      BY <1>0, <3>1, UndoItem
    <3> QED
      BY <1>0, <1>1, <1>5, <2>3, <3>2, OtherUndo
  <2> QED
    BY <2>1, <2>2, <2>3
<1>6. CASE UndoStep("gc") \/ GcStep
  <2>1. phase'[c] = phase[c] /\ phase["gc"] = "collect"
    <3>1. CASE GcStep
      BY <1>0, <3>1, GcActor
    <3>2. CASE UndoStep("gc")
      <4>1. phase'[c] = phase[c]
        BY <1>0, <3>2, UndoActor DEF Others
      <4>2. CASE Finish("gc")
        <5>1. Fits("gc", phase["gc"], script["gc"], undo["gc"])
          BY <1>0 DEF Kinds
        <5> QED
          BY <4>1, <4>2, <5>1 DEF Finish, Fits
      <4>3. CASE ~Finish("gc")
        <5>1. \E op : At("gc", op)
          BY <3>2, <4>3 DEF UndoStep, Kill, RemoveCgroup, ListTagged, DeleteRule, FlushChain,
             DeleteChain, DeleteVeth, Release
        <5> QED
          BY <4>1, <5>1, GcItem
      <4> QED
        BY <4>2, <4>3
    <3> QED
      BY <1>6, <3>1, <3>2
  <2>2. phase[c] # "launch"
    BY <2>1 DEF Aware
  <2>3. CASE Up(c)
    BY <1>1, <1>6, <2>3, GcSpares
  <2>4. CASE ~Up(c)
    BY <2>1, <2>2, <2>4, Unengaged DEF Engaged
  <2> QED
    BY <2>3, <2>4
<1>7. CASE StartGc
  <2>1. /\ phase' = [phase EXCEPT !["gc"] = "collect"]
        /\ script' = [script EXCEPT !["gc"] = <<<<"scan", 0>>>>] /\ UNCHANGED <<seen, ip, netVars, fwVars>>
    BY <1>7 DEF StartGc, recVars
  <2>2. phase'[c] = phase[c] /\ script'[c] = script[c]
    BY <1>0, <2>1
  <2> QED
    BY <1>1, <2>1, <2>2, SameGrows DEF Kept, BridgeStays, netVars
<1>8. CASE UNCHANGED vars
  BY <1>1, <1>8, SameGrows DEF vars, procVars, recVars, netVars, Kept, BridgeStays
<1> QED
  BY <1>2, <1>3, <1>4, <1>5, <1>6, <1>7, <1>8, ProcessIs DEF Next

(* The inductive invariant.                                                *)
Inv == Kinds /\ Filter /\ Typed /\ Recorded /\ Aware /\ Provided

LEMMA InvReachable ==
  ASSUME Inv
  PROVE  RunningReachable
<1> SUFFICES ASSUME NEW c \in Container, Up(c)
             PROVE  /\ bridge[On[c]].index # 0 /\ bridge[On[c]].address /\ bridge[On[c]].up /\ forwarding
                    /\ veth[c] = "moved" /\ master[c] = bridge[On[c]].index /\ lease[c] = ip[c]
                    /\ fw.chains = Chain
                    /\ SharedRules(On[c]) \cup ToSet(PublishRules(c, ip[c])) \subseteq BagToSet(fw.rules)
  BY DEF RunningReachable
<1>1. OnBridge(c) /\ RulesThere(c)
  BY DEF Inv, Provided, Ready, Engaged
<1>2. Todo(c) = {}
  <2>1. Fits(c, phase[c], script[c], undo[c]) /\ phase[c] = "wait" /\ c # "gc"
    BY ProcessIs DEF Inv, Kinds, Up
  <2> QED
    BY <2>1 DEF Fits, Todo, ToSet
<1>3. fw.chains \subseteq Chain
  BY DEF Inv, Filter
<1>4. Chain \subseteq fw.chains
  BY <1>1, <1>2 DEF RulesThere
<1>5. SharedRules(On[c]) \cup ToSet(PublishRules(c, ip[c])) \subseteq BagToSet(fw.rules)
  BY <1>1, <1>2 DEF RulesThere
<1>6. forwarding
  BY <1>1, <1>2 DEF RulesThere
<1> QED
  BY <1>1, <1>2, <1>3, <1>4, <1>5, <1>6 DEF OnBridge

LEMMA InvInit ==
  ASSUME Init
  PROVE  Inv
<1>1. Kinds /\ Filter /\ Typed
  BY ShapeInit
<1>2. \A p \in Process : phase[p] = "idle"
  BY DEF Init
<1>3. \A c \in Container : phase[c] = "idle" /\ c \in Process
  BY <1>2, ProcessIs
<1>4. Aware
  BY <1>2, ProcessIs DEF Aware
<1>5. Recorded /\ Provided
  BY <1>3 DEF Recorded, Provided, Ready, Engaged, Up
<1> QED
  BY <1>1, <1>4, <1>5 DEF Inv

LEMMA InvNext ==
  ASSUME GcRaces = FALSE, Inv, [Next]_vars
  PROVE  Inv'
<1>1. Kinds /\ Filter /\ Typed /\ Recorded /\ Aware /\ Provided /\ ip \in [Container -> Addr \cup {0}]
  BY DEF Inv, Typed
<1> QED
  BY <1>1, KindsNext, FilterNext, TypedNext, RecordedNext, AwareNext, ProvidedNext DEF Inv

(* A running container is on the bridge, with its lease and every chain,   *)
(* jump and rule that its traffic passes, whichever other launches fail,   *)
(* are rolled back or killed meanwhile, and whatever gc collects, as long  *)
(* as gc does not overlap with a launch (Host_gc_launch.cfg shows what     *)
(* happens if it does).                                                    *)
THEOREM RunningIsReachable ==
  ASSUME GcRaces = FALSE
  PROVE  Spec => []RunningReachable
<1>1. Init => Inv
  BY InvInit
<1>2. Inv /\ [Next]_vars => Inv'
  BY InvNext
<1>3. Inv => RunningReachable
  BY InvReachable
<1> QED
  BY <1>1, <1>2, <1>3, PTL DEF Spec

-----------------------------------------------------------------------------
(* A published port leads to its container.                                *)

(* The rules of a container.                                               *)
RulesOf(c) == {r \in BagToSet(fw.rules) : r.tag = c}

(* Each rule of a container is there once, and the DNAT rules are listed   *)
(* in order.                                                               *)
Orderly ==
  /\ fw.dnat \in Seq(RuleSet)
  /\ \A i, j \in 1 .. Len(fw.dnat) : fw.dnat[i] = fw.dnat[j] => i = j
  /\ ToSet(fw.dnat) = {r \in BagToSet(fw.rules) : r.to = "DNAT"}
  /\ \A r \in BagToSet(fw.rules) :
       /\ r.tag \in Container => fw.rules[r] = 1
       /\ r.to = "DNAT" => r.tag \in Container /\ r.chain = "MYRUN-PRE"

LEMMA RemoveFirstIs ==
  ASSUME NEW S, NEW s \in Seq(S), NEW e, NEW t, t = RemoveFirst(s, e),
         \A i, j \in 1 .. Len(s) : s[i] = s[j] => i = j
  PROVE  /\ t \in Seq(S) /\ ToSet(t) = ToSet(s) \ {e}
         /\ \A i, j \in 1 .. Len(t) : t[i] = t[j] => i = j
<1> DEFINE I == {i \in 1 .. Len(s) : s[i] = e}
<1>1. Len(s) \in Nat /\ DOMAIN s = 1 .. Len(s) /\ ToSet(s) = {s[i] : i \in 1 .. Len(s)}
  BY LenProperties DEF ToSet
<1>2. CASE I = {}
  <2>1. t = s
    BY <1>2 DEF RemoveFirst
  <2> QED
    BY <1>1, <1>2, <2>1
<1>3. CASE I # {}
  <2>1. t = RemoveAt(s, Min(I))
    BY <1>3 DEF RemoveFirst, SelectInSeq
  <2>2. I \in SUBSET Nat
    BY <1>1
  <2>3. PICK k \in 1 .. Len(s) : k = Min(I) /\ s[k] = e
    BY <1>3, <2>2, MinOf
  <2> HIDE DEF I
  <2> DEFINE a == SubSeq(s, 1, k - 1)
             b == SubSeq(s, k + 1, Len(s))
  <2>4. a \in Seq(S) /\ Len(a) = k - 1 /\ \A i \in 1 .. k - 1 : a[i] = s[i]
    BY <1>1, <2>3
  <2>5. b \in Seq(S) /\ Len(b) = Len(s) - k /\ \A i \in 1 .. Len(s) - k : b[i] = s[k + i]
    BY <1>1, <2>3
  <2>6. t = a \o b
    BY <2>1, <2>3 DEF RemoveAt
  <2> HIDE DEF a, b
  <2>7. /\ t \in Seq(S) /\ Len(t) = Len(s) - 1
        /\ \A i \in 1 .. Len(s) - 1 : t[i] = IF i < k THEN s[i] ELSE s[i + 1]
    <3>1. t \in Seq(S) /\ Len(t) = Len(a) + Len(b)
      <4>1. a \in Seq(S) /\ b \in Seq(S)
        BY <2>4, <2>5
      <4>2. a \o b \in Seq(S) /\ Len(a \o b) = Len(a) + Len(b)
        BY <4>1, ConcatProperties
      <4> QED
        BY <2>6, <4>2
    <3>2. ASSUME NEW i \in 1 .. Len(s) - 1 PROVE t[i] = IF i < k THEN s[i] ELSE s[i + 1]
      <4>1. CASE i < k
        BY <1>1, <2>4, <2>5, <2>6, <4>1
      <4>2. CASE ~(i < k)
        <5>1. t[i] = b[i - (k - 1)] /\ i - (k - 1) \in 1 .. Len(s) - k
          BY <1>1, <2>4, <2>5, <2>6, <4>2
        <5> QED
          BY <1>1, <2>5, <4>2, <5>1
      <4> QED
        BY <4>1, <4>2
    <3> QED
      BY <1>1, <2>4, <2>5, <3>1, <3>2
  <2>8. \A i, j \in 1 .. Len(t) : t[i] = t[j] => i = j
    BY <1>1, <2>7
  <2>9. ToSet(t) = {t[i] : i \in 1 .. Len(s) - 1}
    BY <2>7, LenProperties DEF ToSet
  <2>10. ASSUME NEW x \in ToSet(t) PROVE x \in ToSet(s) \ {e}
    <3>1. PICK i \in 1 .. Len(s) - 1 : x = t[i]
      BY <2>9
    <3>2. PICK j \in 1 .. Len(s) : j # k /\ x = s[j]
      BY <1>1, <2>7, <3>1
    <3> QED
      BY <1>1, <2>3, <3>2
  <2>11. ASSUME NEW x \in ToSet(s) \ {e} PROVE x \in ToSet(t)
    <3>1. PICK j \in 1 .. Len(s) : x = s[j] /\ j # k
      BY <1>1, <2>3
    <3>2. PICK i \in 1 .. Len(s) - 1 : t[i] = s[j]
      <4>1. CASE j < k
        BY <1>1, <2>7, <3>1, <4>1
      <4>2. CASE ~(j < k)
        <5>1. j - 1 \in 1 .. Len(s) - 1 /\ ~(j - 1 < k) /\ (j - 1) + 1 = j
          BY <1>1, <3>1, <4>2
        <5> QED
          BY <2>7, <5>1
      <4> QED
        BY <4>1, <4>2
    <3> QED
      BY <2>9, <3>1, <3>2
  <2> QED
    BY <2>7, <2>8, <2>10, <2>11
<1> QED
  BY <1>2, <1>3

LEMMA OrderlyAdd ==
  ASSUME Filter, Orderly, NEW r \in RuleSet, fw' = Add(fw, r),
         r.tag \in Container => r \notin BagToSet(fw.rules),
         r.to = "DNAT" => r.tag \in Container /\ r.chain = "MYRUN-PRE"
  PROVE  Orderly'
<1>1. BagToSet(fw'.rules) = BagToSet(fw.rules) \cup {r}
  BY AddKeeps
<1>2. /\ fw'.rules = fw.rules (+) SetToBag({r})
      /\ fw'.dnat = IF r.to = "DNAT" THEN Append(fw.dnat, r) ELSE fw.dnat
  BY DEF Filter, Add
<1>3. /\ \A x \in BagToSet(fw.rules) : x # r => fw'.rules[x] = fw.rules[x]
      /\ r \notin BagToSet(fw.rules) => fw'.rules[r] = 1
  <2> DEFINE B == fw.rules
  <2>1. IsABag(B) /\ fw'.rules = B (+) SetToBag({r})
    BY <1>2 DEF Filter
  <2> HIDE DEF B
  <2>2. /\ \A x \in DOMAIN B : x # r => fw'.rules[x] = B[x]
        /\ r \notin DOMAIN B => fw'.rules[r] = 1
    BY <2>1 DEF IsABag, SetToBag, (+)
  <2> QED
    BY <2>2 DEF B, BagToSet
<1>4. \A x \in BagToSet(fw'.rules) :
        /\ x.tag \in Container => fw'.rules[x] = 1
        /\ x.to = "DNAT" => x.tag \in Container /\ x.chain = "MYRUN-PRE"
  BY <1>1, <1>3 DEF Orderly
<1>5. CASE r.to # "DNAT"
  BY <1>1, <1>2, <1>4, <1>5 DEF Orderly
<1>6. CASE r.to = "DNAT"
  <2> DEFINE d == fw.dnat
             t == fw'.dnat
  <2>1. /\ d \in Seq(RuleSet) /\ \A i, j \in 1 .. Len(d) : d[i] = d[j] => i = j
        /\ ToSet(d) = {x \in BagToSet(fw.rules) : x.to = "DNAT"} /\ t = Append(d, r)
    BY <1>2, <1>6 DEF Orderly
  <2>2. r \notin ToSet(d)
    BY <1>6, <2>1
  <2> HIDE DEF d, t
  <2>3. /\ t \in Seq(RuleSet) /\ Len(t) = Len(d) + 1 /\ Len(d) \in Nat
        /\ t[Len(d) + 1] = r /\ \A i \in 1 .. Len(d) : t[i] = d[i]
    BY <2>1, AppendProperties, LenProperties
  <2>4. ToSet(d) = {d[i] : i \in 1 .. Len(d)} /\ ToSet(t) = {t[i] : i \in 1 .. Len(d) + 1}
    BY <2>1, <2>3, LenProperties DEF ToSet
  <2>5. \A i, j \in 1 .. Len(t) : t[i] = t[j] => i = j
    BY <2>1, <2>2, <2>3, <2>4
  <2>6. ToSet(t) = ToSet(d) \cup {r}
    BY <2>3, <2>4
  <2>7. ToSet(t) = {x \in BagToSet(fw'.rules) : x.to = "DNAT"}
    BY <1>1, <1>6, <2>1, <2>6
  <2> QED
    BY <1>4, <2>3, <2>5, <2>7 DEF t, Orderly
<1> QED
  BY <1>5, <1>6

LEMMA OrderlyDelete ==
  ASSUME Filter, Orderly, NEW r \in RuleSet, fw' = Delete(fw, r)
  PROVE  /\ Orderly' /\ BagToSet(fw'.rules) \subseteq BagToSet(fw.rules)
         /\ r.tag \in Container => r \notin BagToSet(fw'.rules)
<1>1. fw'.rules = fw.rules (-) SetToBag({r}) /\ fw'.dnat = RemoveFirst(fw.dnat, r)
  BY DEF Filter, Delete
<1> DEFINE B == fw.rules
           C == fw'.rules
<1>2. IsABag(B) /\ C = B (-) SetToBag({r})
  BY <1>1 DEF Filter
<1> HIDE DEF B, C
<1>3. /\ DOMAIN C \subseteq DOMAIN B /\ \A x \in DOMAIN B : x # r => x \in DOMAIN C /\ C[x] = B[x]
      /\ r \in DOMAIN B /\ B[r] = 1 => r \notin DOMAIN C
  BY <1>2 DEF IsABag, SetToBag, (-)
<1>4. /\ BagToSet(fw'.rules) = DOMAIN C /\ BagToSet(fw.rules) = DOMAIN B
  BY DEF BagToSet, B, C
<1>5. r.tag \in Container => r \notin DOMAIN C
  BY <1>3, <1>4 DEF Orderly, B
<1>6. \A x \in DOMAIN C : /\ x.tag \in Container => C[x] = 1
                          /\ x.to = "DNAT" => x.tag \in Container /\ x.chain = "MYRUN-PRE"
  BY <1>3, <1>4, <1>5 DEF Orderly, B
<1>7. /\ fw'.dnat \in Seq(RuleSet) /\ ToSet(fw'.dnat) = ToSet(fw.dnat) \ {r}
      /\ \A i, j \in 1 .. Len(fw'.dnat) : fw'.dnat[i] = fw'.dnat[j] => i = j
  BY <1>1, RemoveFirstIs DEF Orderly
<1>8. ToSet(fw'.dnat) = {x \in DOMAIN C : x.to = "DNAT"}
  <2>1. ToSet(fw.dnat) = {x \in DOMAIN B : x.to = "DNAT"}
        /\ (r \in DOMAIN B /\ r.to = "DNAT" => r.tag \in Container)
    BY <1>4 DEF Orderly
  <2> QED
    BY <1>3, <1>5, <1>7, <2>1
<1> QED
  BY <1>3, <1>4, <1>5, <1>6, <1>7, <1>8 DEF Orderly, C

LEMMA OrderlyFlush ==
  ASSUME Filter, Orderly, NEW n, fw' = Flush(fw, n)
  PROVE  Orderly' /\ BagToSet(fw'.rules) \subseteq BagToSet(fw.rules)
<1>1. /\ fw'.rules = [r \in {s \in DOMAIN fw.rules : s.chain # n} |-> fw.rules[r]]
      /\ fw'.dnat = IF n = "MYRUN-PRE" THEN <<>> ELSE fw.dnat
  BY DEF Filter, Flush
<1>2. /\ BagToSet(fw'.rules) = {s \in BagToSet(fw.rules) : s.chain # n}
      /\ \A r \in BagToSet(fw'.rules) : fw'.rules[r] = fw.rules[r]
  BY <1>1 DEF BagToSet
<1>3. /\ ToSet(fw.dnat) = {r \in BagToSet(fw.rules) : r.to = "DNAT"}
      /\ \A r \in BagToSet(fw.rules) : r.to = "DNAT" => r.chain = "MYRUN-PRE"
  BY DEF Orderly
<1>4. ToSet(fw'.dnat) = {r \in BagToSet(fw'.rules) : r.to = "DNAT"}
  <2>1. ToSet(<<>>) = {}
    BY DEF ToSet
  <2> QED
    BY <1>1, <1>2, <1>3, <2>1
<1>5. fw'.dnat \in Seq(RuleSet) /\ \A i, j \in 1 .. Len(fw'.dnat) : fw'.dnat[i] = fw'.dnat[j] => i = j
  BY <1>1 DEF Orderly
<1> QED
  BY <1>2, <1>4, <1>5 DEF Orderly

LEMMA OrderlySame ==
  ASSUME Orderly, fw'.rules = fw.rules, fw'.dnat = fw.dnat
  PROVE  Orderly' /\ BagToSet(fw'.rules) = BagToSet(fw.rules)
  BY DEF Orderly

-----------------------------------------------------------------------------
(* Rules that are still to be deleted.                                     *)

(* An item that leads to the deletion of r.                                *)
Covers(x, r) ==
  \/ x = <<"delete", r>>
  \/ /\ x[1] = "list" /\ x[2].tag = r.tag
     /\ Table(r.chain) \in ToSet(x[2].tables) \/ r \in ToSet(x[2].found)

(* r is deleted before the address of its container is released.           *)
Covered(s, r) ==
  \A i \in 1 .. Len(s) : s[i] = <<"release", r.tag>> => \E j \in 1 .. i - 1 : Covers(s[j], r)

LEMMA CoveredNone ==
  ASSUME NEW s \in Seq(Item), NEW r, <<"release", r.tag>> \notin ToSet(s)
  PROVE  Covered(s, r)
<1>1. \A i \in 1 .. Len(s) : s[i] \in ToSet(s)
  BY LenProperties DEF ToSet
<1> QED
  BY <1>1 DEF Covered

(* The first item is replaced by others.                                   *)
LEMMA CoveredNext ==
  ASSUME NEW s \in Seq(Item), s # <<>>, NEW t \in Seq(Item), NEW r, Covered(s, r),
         <<"release", r.tag>> \notin ToSet(t),
         Covers(Head(s), r) => \E x \in ToSet(t) : Covers(x, r)
  PROVE  Covered(t \o Tail(s), r)
<1> DEFINE u == Tail(s)
           w == t \o u
<1>1. /\ Len(s) \in Nat /\ Len(s) > 0 /\ Head(s) = s[1] /\ u \in Seq(Item) /\ Len(u) = Len(s) - 1
      /\ \A i \in 1 .. Len(u) : u[i] = s[i + 1]
  BY HeadTailProperties, LenProperties, EmptySeq
<1>2. Len(t) \in Nat /\ ToSet(t) = {t[i] : i \in 1 .. Len(t)}
  BY LenProperties DEF ToSet
<1> HIDE DEF u
<1>3. /\ Len(w) = Len(t) + Len(u) /\ \A i \in 1 .. Len(t) : w[i] = t[i]
      /\ \A i \in 1 .. Len(u) : w[Len(t) + i] = u[i]
  <2>1. u \in Seq(Item) /\ Len(t) \in Nat /\ Len(u) \in Nat
    BY <1>1, <1>2
  <2>2. /\ Len(w) = Len(t) + Len(u)
        /\ \A i \in 1 .. Len(t) + Len(u) : w[i] = IF i <= Len(t) THEN t[i] ELSE u[i - Len(t)]
    BY <2>1, ConcatProperties
  <2> HIDE DEF w
  <2>3. ASSUME NEW i \in 1 .. Len(u) PROVE w[Len(t) + i] = u[i]
    <3>1. Len(t) + i \in 1 .. Len(t) + Len(u) /\ ~(Len(t) + i <= Len(t)) /\ (Len(t) + i) - Len(t) = i
      BY <2>1
    <3> QED
      BY <2>2, <3>1
  <2> QED
    BY <2>1, <2>2, <2>3
<1> HIDE DEF w
<1> SUFFICES ASSUME NEW i \in 1 .. Len(w), w[i] = <<"release", r.tag>>
             PROVE  \E j \in 1 .. i - 1 : Covers(w[j], r)
  BY DEF Covered, w, u
<1>4. i > Len(t)
  BY <1>2, <1>3
<1>5. PICK k \in 1 .. Len(u) : i = Len(t) + k
  <2>1. i - Len(t) \in 1 .. Len(u) /\ i = Len(t) + (i - Len(t))
    BY <1>1, <1>2, <1>3, <1>4
  <2> QED
    BY <2>1
<1>6. s[k + 1] = <<"release", r.tag>> /\ k + 1 \in 1 .. Len(s)
  BY <1>1, <1>3, <1>5
<1>7. PICK j \in 1 .. (k + 1) - 1 : Covers(s[j], r)
  BY <1>6 DEF Covered
<1>8. CASE j = 1
  <2>1. PICK m \in 1 .. Len(t) : Covers(t[m], r)
    BY <1>1, <1>2, <1>7, <1>8
  <2>2. m \in 1 .. i - 1 /\ w[m] = t[m]
    BY <1>2, <1>3, <1>4, <2>1
  <2> QED
    BY <2>1, <2>2
<1>9. CASE j # 1
  <2>1. j - 1 \in 1 .. Len(u) /\ (j - 1) + 1 = j
    BY <1>1, <1>7, <1>9
  <2>2. u[j - 1] = s[j] /\ w[Len(t) + (j - 1)] = u[j - 1]
    BY <1>1, <1>3, <2>1
  <2>3. Len(t) + (j - 1) \in 1 .. i - 1
    BY <1>2, <1>5, <1>7, <2>1
  <2> QED
    BY <1>7, <2>2, <2>3
<1> QED
  BY <1>8, <1>9

LEMMA CoveredTail ==
  ASSUME NEW s \in Seq(Item), s # <<>>, NEW r, Covered(s, r), ~Covers(Head(s), r)
  PROVE  Covered(Tail(s), r)
<1>1. <<>> \in Seq(Item) /\ ToSet(<<>>) = {}
  BY DEF ToSet
<1>2. <<>> \o Tail(s) = Tail(s)
  BY HeadTailProperties, ConcatEmptySeq
<1> QED
  BY <1>1, <1>2, CoveredNext

(* r is deleted early in the first part.                                   *)
LEMMA CoveredFirst ==
  ASSUME NEW t \in Seq(Item), NEW u \in Seq(Item), NEW r, NEW k \in 1 .. Len(t), Covers(t[k], r),
         \A i \in 1 .. k : t[i] # <<"release", r.tag>>
  PROVE  Covered(t \o u, r)
<1> DEFINE w == t \o u
<1>1. /\ Len(t) \in Nat /\ Len(u) \in Nat /\ Len(w) = Len(t) + Len(u)
      /\ \A i \in 1 .. Len(t) : w[i] = t[i]
  BY ConcatProperties, LenProperties
<1> HIDE DEF w
<1> SUFFICES ASSUME NEW i \in 1 .. Len(w), w[i] = <<"release", r.tag>>
             PROVE  \E j \in 1 .. i - 1 : Covers(w[j], r)
  BY DEF Covered, w
<1>2. i > k
  <2>1. ASSUME i <= k PROVE FALSE
    <3>1. i \in 1 .. k /\ i \in 1 .. Len(t)
      BY <1>1, <2>1
    <3> QED
      BY <1>1, <3>1
  <2> QED
    BY <1>1, <2>1
<1>3. k \in 1 .. i - 1 /\ w[k] = t[k]
  BY <1>1, <1>2
<1> QED
  BY <1>3

LEMMA CleanupCovers ==
  ASSUME NEW r, r.tag \in Container
  PROVE  Covers(cleanup(r.tag)[1], r) /\ \A c : cleanup(r.tag)[1] # <<"release", c>>
<1> DEFINE l == [tables |-> <<"nat", "filter">>, tag |-> r.tag, found |-> <<>>]
<1>1. cleanup(r.tag)[1] = <<"list", l>>
  BY DEF cleanup
<1>2. l.tag = r.tag /\ Table(r.chain) \in ToSet(l.tables)
  BY DEF Table, ToSet
<1> HIDE DEF l
<1> QED
  BY <1>1, <1>2 DEF Covers

(* teardown lists the rules in its third step and releases in its last.    *)
LEMMA TeardownBegins ==
  ASSUME NEW c \in Container
  PROVE  LET t == teardown(c) IN
         /\ NetTeardown(c)[1] = cleanup(c)[1] /\ Len(NetTeardown(c)) >= 1
         /\ 3 \in 1 .. Len(t) /\ t[1] = <<"kill", c>> /\ t[2] = <<"rmdir", c>> /\ t[3] = cleanup(c)[1]
<1> DEFINE a == <<<<"veth", c>>, <<"release", c>>>>
           b == <<<<"kill", c>>, <<"rmdir", c>>>>
           l == cleanup(c)
           n == NetTeardown(c)
           t == teardown(c)
<1>1. l \in Seq(Item) /\ Len(l) = 1
  BY CleanupIs DEF cleanup
<1>2. a \in Seq(Item) /\ b \in Seq(Item) /\ Len(a) = 2 /\ Len(b) = 2
      /\ b[1] = <<"kill", c>> /\ b[2] = <<"rmdir", c>>
  <2>1. /\ <<"veth", c>> \in Item /\ <<"release", c>> \in Item
        /\ <<"kill", c>> \in Item /\ <<"rmdir", c>> \in Item
    BY ItemsAre, OpsAre, ArgsAre DEF UndoOps
  <2> QED
    BY <2>1
<1>3. n = l \o a /\ t = b \o n
  BY DEF NetTeardown, teardown
<1> HIDE DEF a, b, l, n, t
<1>4. n \in Seq(Item) /\ Len(n) = 3 /\ n[1] = l[1]
  <2>1. l \in Seq(Item) /\ a \in Seq(Item)
    BY <1>1, <1>2
  <2>2. /\ l \o a \in Seq(Item) /\ Len(l \o a) = Len(l) + Len(a)
        /\ \A i \in 1 .. Len(l) + Len(a) : (l \o a)[i] = IF i <= Len(l) THEN l[i] ELSE a[i - Len(l)]
    BY <2>1, ConcatProperties
  <2>3. 1 \in 1 .. Len(l) + Len(a) /\ 1 <= Len(l) /\ Len(l) + Len(a) = 3
    BY <1>1, <1>2
  <2> QED
    BY <1>3, <2>2, <2>3
<1>5. Len(t) = 5 /\ t[1] = b[1] /\ t[2] = b[2] /\ t[3] = n[1]
  <2>1. b \in Seq(Item) /\ n \in Seq(Item)
    BY <1>2, <1>4
  <2>2. /\ Len(b \o n) = Len(b) + Len(n)
        /\ \A i \in 1 .. Len(b) + Len(n) : (b \o n)[i] = IF i <= Len(b) THEN b[i] ELSE n[i - Len(b)]
    BY <2>1, ConcatProperties
  <2>3. /\ 1 \in 1 .. Len(b) + Len(n) /\ 2 \in 1 .. Len(b) + Len(n) /\ 3 \in 1 .. Len(b) + Len(n)
        /\ 1 <= Len(b) /\ 2 <= Len(b) /\ ~(3 <= Len(b)) /\ 3 - Len(b) = 1 /\ Len(b) + Len(n) = 5
    BY <1>2, <1>4
  <2> QED
    BY <1>3, <2>2, <2>3
<1>6. 3 \in 1 .. 5 /\ 3 >= 1
  OBVIOUS
<1> QED
  BY <1>2, <1>4, <1>5, <1>6 DEF l, n, t

LEMMA TeardownCovers ==
  ASSUME NEW r, r.tag \in Container, NEW u \in Seq(Item)
  PROVE  Covered(teardown(r.tag) \o u, r) /\ Covered(teardown(r.tag), r)
<1> DEFINE c == r.tag
           t == teardown(c)
<1>1. t \in Seq(Item)
  BY TeardownIs
<1>2. 3 \in 1 .. Len(t) /\ t[1] = <<"kill", c>> /\ t[2] = <<"rmdir", c>> /\ t[3] = cleanup(c)[1]
  BY TeardownBegins
<1>3. Covers(t[3], r) /\ t[3] # <<"release", c>>
  BY <1>2, CleanupCovers
<1> HIDE DEF t
<1>4. \A i \in 1 .. 3 : t[i] # <<"release", c>>
  BY <1>2, <1>3
<1>5. Covered(t \o u, r)
  BY <1>1, <1>2, <1>3, <1>4, CoveredFirst
<1>6. Covered(t \o <<>>, r) /\ t \o <<>> = t
  <2>1. <<>> \in Seq(Item)
    OBVIOUS
  <2> QED
    BY <1>1, <1>2, <1>3, <1>4, <2>1, CoveredFirst, ConcatEmptySeq
<1> QED
  BY <1>5, <1>6 DEF t

-----------------------------------------------------------------------------
(* An address belongs to the rules for it.                                 *)

Allocated(c) == <<"allocate", c>> \notin Todo(c)

(* What a launch has still to publish is about its address, a rule that it *)
(* found missing still is, and a rollback that cleans up does so before it *)
(* releases the address.                                                   *)
Publishing(c) ==
  /\ ~Launching(c) => undo[c] = <<>>
  /\ Launching(c) =>
       /\ \A x \in Todo(c) : x[1] = "rule" =>
            x[2] \in SharedRules(On[c]) \/ (x[2] \in ToSet(PublishRules(c, ip[c])) /\ Allocated(c))
       /\ Allocated(c) => ip[c] # 0
       /\ missing[c] /\ At(c, "rule") /\ Arg(c).tag = c => Arg(c) \notin BagToSet(fw.rules)
       /\ cleanup(c)[1] \in ToSet(undo[c])
            => Allocated(c) /\ \A r \in RuleSet : r.tag = c => Covered(undo[c], r)

(* No address is leased twice.                                             *)
Apart == \A c, d \in Container : c # d /\ lease[c] # 0 => lease[c] # lease[d]

(* A rule of c is about the address that c has, and goes before that.      *)
Owns(c, r) ==
  /\ r \in ToSet(PublishRules(c, ip[c])) /\ lease[c] = ip[c] /\ ip[c] # 0
  /\ phase[c] # "idle" /\ (Launching(c) => Allocated(c))
  /\ \A p \in Process : Covered(script[p], r)

Owned == leftRules = {} => \A c \in Container : \A r \in RulesOf(c) : Owns(c, r)

(* The script of another container, or of a launch, releases nothing of c. *)
LEMMA CoveredElsewhere ==
  ASSUME NEW p \in Process, NEW f, NEW s, NEW u, Fits(p, f, s, u), NEW r, r.tag \in Container,
         \/ p # "gc" /\ p # r.tag
         \/ p # "gc" /\ f \in {"launch", "wait", "ended", "idle"}
         \/ p = "gc" /\ f # "collect"
  PROVE  Covered(s, r)
<1>1. s \in Seq(Item)
  BY DEF Fits
<1> DEFINE x == <<"release", r.tag>>
<1>2. x[1] = "release" /\ x[2] = r.tag
  OBVIOUS
<1> HIDE DEF x
<1>3. ~OfLaunch(p, x)
  <2>1. "release" \notin LaunchOps
    BY DEF LaunchOps
  <2>2. x # <<"forwarding", 1>>
    BY <1>2
  <2> QED
    BY <1>2, <2>1, <2>2 DEF OfLaunch
<1>4. p # r.tag => ~OfUndo(p, x)
  BY <1>2 DEF OfUndo, OfCleanup
<1>5. ToSet(<<>>) = {}
  BY DEF ToSet
<1>6. x \notin ToSet(s)
  BY <1>3, <1>4, <1>5 DEF Fits
<1> QED
  BY <1>1, <1>6, CoveredNone DEF x

(* Nothing is left of the rules when the address is released.              *)
LEMMA CoveredRelease ==
  ASSUME NEW s \in Seq(Item), s # <<>>, NEW r, Head(s) = <<"release", r.tag>>
  PROVE  ~Covered(s, r)
<1>1. Len(s) \in Nat /\ Len(s) > 0 /\ Head(s) = s[1]
  BY HeadTailProperties, LenProperties, EmptySeq
<1>2. 1 \in 1 .. Len(s) /\ 1 .. 1 - 1 = {}
  BY <1>1
<1> QED
  BY <1>1, <1>2 DEF Covered

(* Items before a script that release nothing.                             *)
LEMMA CoveredLonger ==
  ASSUME NEW s \in Seq(Item), NEW x \in Item, NEW r, Covered(s, r), x # <<"release", r.tag>>
  PROVE  Covered(<<x>> \o s, r)
<1> DEFINE t == <<x>>
           w == t \o s
<1>1. t \in Seq(Item) /\ Len(t) = 1 /\ t[1] = x /\ Len(s) \in Nat
  BY LenProperties
<1> HIDE DEF t
<1>2. /\ Len(w) = Len(t) + Len(s)
      /\ \A i \in 1 .. Len(t) + Len(s) : w[i] = IF i <= Len(t) THEN t[i] ELSE s[i - Len(t)]
  BY <1>1, ConcatProperties
<1> HIDE DEF w
<1> SUFFICES ASSUME NEW i \in 1 .. Len(w), w[i] = <<"release", r.tag>>
             PROVE  \E j \in 1 .. i - 1 : Covers(w[j], r)
  BY DEF Covered, w, t
<1>3. i # 1
  <2>1. 1 \in 1 .. Len(t) + Len(s) /\ 1 <= Len(t)
    BY <1>1
  <2>2. w[1] = x
    BY <1>1, <1>2, <2>1
  <2> QED
    BY <2>2
<1>4. i - 1 \in 1 .. Len(s) /\ w[i] = s[i - 1]
  BY <1>1, <1>2, <1>3
<1>5. PICK j \in 1 .. (i - 1) - 1 : Covers(s[j], r)
  BY <1>4 DEF Covered
<1>6. j + 1 \in 1 .. i - 1 /\ j + 1 \in 1 .. Len(t) + Len(s) /\ ~(j + 1 <= Len(t)) /\ (j + 1) - Len(t) = j
  BY <1>1, <1>4, <1>5
<1>7. w[j + 1] = s[j]
  BY <1>2, <1>6
<1> QED
  BY <1>5, <1>6, <1>7

-----------------------------------------------------------------------------
(* What a step of a launch does to scripts, addresses and rules.           *)

SameRules == fw'.rules = fw.rules /\ fw'.dnat = fw.dnat

Quiet == UNCHANGED <<lease, ip, leftRules>> /\ SameRules

Fails(c) == Unwind(c) /\ UNCHANGED <<lease, ip>> /\ SameRules

Allocates(c) ==
  \E a : /\ At(c, "allocate") /\ lease' = [lease EXCEPT ![c] = a] /\ ip' = [ip EXCEPT ![c] = a]
         /\ (a = lease[c] /\ lease[c] # 0) \/ (a = Min(Free) /\ Free # {})
         /\ DoneAndPush(c, <<<<"release", c>>>>) /\ leftRules' = leftRules /\ SameRules

Adds(c) ==
  /\ At(c, "rule") /\ missing[c] /\ fw' = Add(fw, Arg(c)) /\ Done(c)
  /\ UNCHANGED <<lease, ip, leftRules>>

Misses(c) == NotThere(c) /\ (At(c, "rule") => ~rule_exists(fw, Arg(c))) /\ Quiet

Busy(c) == script[c] # <<>> /\ ~At(c, "allocate")

Passes(c) == Busy(c) /\ Done(c) /\ Quiet

Pushes(c) == /\ Busy(c) /\ Quiet
             /\ \E op \in {"rmdir", "kill", "veth"} : DoneAndPush(c, <<<<op, c>>>>)

Creates(c) == /\ Busy(c) /\ Quiet /\ Continue(c, <<<<"bridge_index", c>>>> \o Tail(script[c]))
              /\ UNCHANGED <<phase, undo>>

Forks(c) == /\ Busy(c) /\ Quiet /\ Continue(c, <<<<"add_pid", c>>>> \o Tail(script[c])) /\ UNCHANGED phase
            /\ undo' = [undo EXCEPT ![c] = <<<<"kill", c>>>> \o @]

Starts(c) == /\ Quiet /\ Continue(c, <<>>)
             /\ phase' = [phase EXCEPT ![c] = "wait"] /\ undo' = [undo EXCEPT ![c] = <<>>]

Moves(c) ==
  \/ Fails(c) \/ Allocates(c) \/ Adds(c) \/ Misses(c) \/ Passes(c) \/ Pushes(c) \/ Creates(c) \/ Forks(c)
  \/ Starts(c) \/ (Publish(c) /\ Quiet) \/ (Published(c) /\ Quiet)

LEMMA LaunchMoves ==
  ASSUME Filter, Kinds, NEW c \in Container, LaunchStep(c) \/ CallFails(c)
  PROVE  Moves(c)
<1>0. ASSUME fw' = fw PROVE SameRules
  BY <1>0 DEF SameRules
<1>1. CASE CgroupBase(c)
  BY <1>0, <1>1 DEF CgroupBase, Moves, Passes, Misses, Fails, Busy, At, Quiet, FailLaunch, recVars, netVars, fwVars, hist
<1>2. CASE CreateCgroup(c) \/ AddPid(c)
  BY <1>0, <1>2 DEF CreateCgroup, AddPid, Moves, Pushes, Passes, Fails, Busy, At, Quiet, FailLaunch, recVars, netVars,
     fwVars, hist
<1>3. CASE Clone(c)
  <2>1. Busy(c) /\ UNCHANGED <<lease, ip>> /\ SameRules
    BY <1>0, <1>3 DEF Clone, Busy, At, netVars, fwVars
  <2>2. \/ DoneAndPush(c, <<<<"kill", c>>>>) /\ UNCHANGED leftRules
        \/ Unwind(c)
        \/ /\ Continue(c, <<<<"add_pid", c>>>> \o Tail(script[c])) /\ UNCHANGED <<phase, leftRules>>
           /\ undo' = [undo EXCEPT ![c] = <<<<"kill", c>>>> \o @]
    BY <1>3 DEF Clone, CloneWithCgroup, CloneThenMove, CloneWithoutCgroup, FailLaunch, hist
  <2> QED
    BY <2>1, <2>2 DEF Moves, Pushes, Forks, Fails, Quiet
<1>4. CASE LookUpBridge(c)
  BY <1>0, <1>4 DEF LookUpBridge, Moves, Passes, Misses, Busy, At, Quiet, recVars, netVars, fwVars, hist
<1>5. CASE CreateBridge(c)
  BY <1>0, <1>5 DEF CreateBridge, Moves, Creates, Fails, Busy, At, Quiet, FailLaunch, recVars, netVars, fwVars, hist
<1>6. CASE BridgeIndex(c) \/ BridgeAddress(c)
  BY <1>0, <1>6 DEF BridgeIndex, BridgeAddress, Moves, Passes, Fails, Busy, At, Quiet, FailLaunch, recVars, netVars,
     fwVars, hist
<1>7. CASE Allocate(c)
  <2> DEFINE a == IF lease[c] # 0 THEN lease[c] ELSE Min(Free)
  <2>1. SameRules
    BY <1>0, <1>7 DEF Allocate, fwVars
  <2>2. CASE lease[c] = 0 /\ Free = {} /\ FailLaunch(c) /\ UNCHANGED <<lease, ip>>
    BY <2>1, <2>2 DEF Moves, Fails, FailLaunch
  <2>3. CASE /\ lease[c] # 0 \/ Free # {}
             /\ lease' = [lease EXCEPT ![c] = a] /\ ip' = [ip EXCEPT ![c] = a]
             /\ DoneAndPush(c, <<<<"release", c>>>>) /\ UNCHANGED hist
    <3>0. lease[c] # 0 \/ Free # {}
      BY <2>3
    <3>1. (a = lease[c] /\ lease[c] # 0) \/ (a = Min(Free) /\ Free # {})
      BY <3>0
    <3>2. At(c, "allocate") /\ leftRules' = leftRules
      BY <1>7, <2>3 DEF Allocate, hist
    <3> HIDE DEF a
    <3> QED
      BY <2>1, <2>3, <3>1, <3>2 DEF Moves, Allocates
  <2> QED
    BY <1>7, <2>2, <2>3 DEF Allocate
<1>8. CASE DeleteLeftover(c) \/ SetMaster(c) \/ MovePeer(c)
  BY <1>0, <1>8 DEF DeleteLeftover, SetMaster, MovePeer, Moves, Passes, Fails, Busy, At, Quiet, FailLaunch, recVars,
     netVars, fwVars, hist
<1>9. CASE CreateVeth(c)
  BY <1>0, <1>9 DEF CreateVeth, Moves, Pushes, Busy, At, Quiet, recVars, netVars, fwVars, hist
<1>10. CASE enable_ip_forwarding(c)
  BY <1>0, <1>10 DEF enable_ip_forwarding, Moves, Passes, Busy, At, Quiet, recVars, netVars, hist
<1>11. CASE EnsureChain(c)
  <2>1. /\ At(c, "chain") /\ UNCHANGED <<lease, ip>>
        /\ UNCHANGED fw \/ fw' = [fw EXCEPT !.chains = @ \cup {Arg(c)}]
        /\ \/ Done(c) /\ leftRules' = leftRules
           \/ NotThere(c) /\ leftRules' = leftRules
           \/ Unwind(c)
    BY <1>11 DEF EnsureChain, FailLaunch, recVars, netVars, hist
  <2>2. SameRules
    BY <2>1 DEF SameRules, Filter
  <2> QED
    BY <2>1, <2>2 DEF Moves, Passes, Misses, Fails, Busy, At, Quiet
<1>12. CASE append_unique(c)
  BY <1>0, <1>12 DEF append_unique, Moves, Passes, Misses, Adds, Fails, Busy, At, Quiet, FailLaunch, recVars, netVars, hist
<1>13. CASE Publish(c) \/ Published(c)
  <2>1. Quiet
    BY <1>0, <1>13 DEF Publish, Published, Quiet, recVars, netVars, fwVars, hist
  <2> QED
    BY <1>13, <2>1 DEF Moves
<1>14. CASE Started(c)
  BY <1>0, <1>14 DEF Started, Moves, Starts, Fails, Busy, At, Quiet, FailLaunch, recVars, netVars, fwVars, hist
<1>15. CASE CallFails(c)
  BY <1>0, <1>15 DEF CallFails, Moves, Fails, recVars, netVars, fwVars
<1> QED
  BY <1>1, <1>2, <1>3, <1>4, <1>5, <1>6, <1>7, <1>8, <1>9, <1>10, <1>11, <1>12, <1>13, <1>14, <1>15
  DEF LaunchStep

LEMMA MovesLocal ==
  ASSUME Kinds, Typed, NEW c \in Container, Moves(c), NEW q \in Process, q # c
  PROVE  undo'[q] = undo[q] /\ missing'[q] = missing[q]
<1>1. undo = [p \in Process |-> undo[p]] /\ missing \in [Process -> BOOLEAN]
  BY DEF Kinds, Typed
<1>2. /\ UNCHANGED undo \/ \E u : undo' = [undo EXCEPT ![c] = u]
      /\ \E b : missing' = [missing EXCEPT ![c] = b]
  BY DEF Moves, Fails, Allocates, Adds, Misses, Passes, Pushes, Creates, Forks, Starts, Publish, Published,
     Unwind, DoneAndPush, Done, NotThere, Continue
<1> QED
  BY <1>1, <1>2

(* The first item goes and others come, none of them about the address.    *)
LEMMA PublishingPop ==
  ASSUME Kinds, Typed, NEW c \in Container, Launching(c), Publishing(c), phase'[c] = phase[c], Busy(c),
         ip'[c] = ip[c], missing'[c] = FALSE, NEW N, ToSet(script'[c]) = N \cup ToSet(Tail(script[c])),
         <<"allocate", c>> \notin N,
         \A x \in N : x[1] = "rule" =>
           x[2] \in SharedRules(On[c]) \/ (x[2] \in ToSet(PublishRules(c, ip[c])) /\ Allocated(c)),
         cleanup(c)[1] \in ToSet(undo'[c])
           => Allocated(c) /\ \A r \in RuleSet : r.tag = c => Covered(undo'[c], r)
  PROVE  Publishing(c)' /\ Allocated(c)' = Allocated(c)
<1>1. Todo(c) = {Head(script[c])} \cup ToSet(Tail(script[c])) /\ Todo(c)' = N \cup ToSet(Tail(script[c]))
  BY HeadIs, ProcessIs DEF Busy, Todo
<1>2. Head(script[c]) # <<"allocate", c>>
  BY DEF Busy, At
<1>3. Allocated(c)' = Allocated(c)
  BY <1>1, <1>2 DEF Allocated
<1>4. /\ Allocated(c) => ip[c] # 0
      /\ \A x \in Todo(c) :
           x[1] = "rule" => x[2] \in SharedRules(On[c]) \/ (x[2] \in ToSet(PublishRules(c, ip[c])) /\ Allocated(c))
  BY DEF Publishing, Launching
<1>5. ToSet(PublishRules(c, ip[c]))' = ToSet(PublishRules(c, ip[c])) /\ SharedRules(On[c])' = SharedRules(On[c])
  BY DEF SharedRules, Jumps, Guard, BridgeRules
<1>6. \A x \in Todo(c)' :
        x[1] = "rule" => x[2] \in SharedRules(On[c])' \/ (x[2] \in ToSet(PublishRules(c, ip[c]))' /\ Allocated(c)')
  BY <1>1, <1>3, <1>4, <1>5
<1>7. cleanup(c)[1] \in ToSet(undo'[c])
        => Allocated(c)' /\ \A r \in RuleSet : r.tag = c => Covered(undo'[c], r)
  BY <1>3
<1>8. (Allocated(c)' => ip'[c] # 0) /\ ~missing'[c]
  BY <1>3, <1>4
<1> QED
  BY <1>3, <1>6, <1>7, <1>8 DEF Publishing, Launching

(* The first item goes.                                                    *)
LEMMA PublishingDone ==
  ASSUME Kinds, Typed, NEW c \in Container, Launching(c), Publishing(c), phase' = phase, Busy(c),
         ip' = ip, missing'[c] = FALSE, script'[c] = Tail(script[c]),
         cleanup(c)[1] \in ToSet(undo'[c])
           => Allocated(c) /\ \A r \in RuleSet : r.tag = c => Covered(undo'[c], r)
  PROVE  Publishing(c)'
<1> DEFINE N == {}
<1>1. ToSet(script'[c]) = N \cup ToSet(Tail(script[c])) /\ phase'[c] = phase[c] /\ ip'[c] = ip[c]
  OBVIOUS
<1>2. <<"allocate", c>> \notin N /\ \A x \in N : x[1] # "rule"
  OBVIOUS
<1> HIDE DEF N
<1> QED
  BY <1>1, <1>2, PublishingPop

LEMMA CleanupItem ==
  ASSUME NEW c \in Container
  PROVE  cleanup(c)[1] \in Item /\ cleanup(c)[1][1] = "list" /\ ToSet(cleanup(c)) = {cleanup(c)[1]}
<1> DEFINE l == [tables |-> <<"nat", "filter">>, tag |-> c, found |-> <<>>]
<1>1. cleanup(c) = <<<<"list", l>>>>
  BY DEF cleanup
<1>2. l \in Listing
  BY DEF Listing
<1> HIDE DEF l
<1>3. <<"list", l>> \in Item
  BY <1>2, ItemsAre, ArgsAre, OpsAre DEF RuleOps
<1> QED
  BY <1>1, <1>3 DEF ToSet

(* An undo action that lists nothing is pushed.                            *)
LEMMA PushedOne ==
  ASSUME Kinds, Typed, NEW c \in Container, Launching(c), Publishing(c), NEW op \in UndoOps,
         undo' = [undo EXCEPT ![c] = <<<<op, c>>>> \o @], cleanup(c)[1] \in ToSet(undo'[c])
  PROVE  /\ Allocated(c)
         /\ op # "release" => \A r \in RuleSet : r.tag = c => Covered(undo'[c], r)
<1>1. c \in Process /\ undo = [p \in Process |-> undo[p]] /\ undo[c] \in Seq(Item)
  BY ProcessIs DEF Kinds, Fits
<1>2. <<op, c>> \in Item /\ <<<<op, c>>>> \in Seq(Item)
  BY UndoOne, ItemsAre, OpsAre, ArgsAre
<1>3. undo'[c] = <<<<op, c>>>> \o undo[c]
  BY <1>1
<1>4. ToSet(undo'[c]) = {<<op, c>>} \cup ToSet(undo[c])
  <2> DEFINE a == <<<<op, c>>>>
             w == undo[c]
  <2>1. ToSet(a) = {<<op, c>>}
    BY ONLY SetOfOne
  <2>2. a \in Seq(Item) /\ w \in Seq(Item) /\ undo'[c] = a \o w
    BY <1>1, <1>2, <1>3
  <2> HIDE DEF a, w
  <2>3. ToSet(undo'[c]) = ToSet(a) \cup ToSet(w)
    BY <2>2, JoinedSeq
  <2> QED
    BY <2>1, <2>3 DEF w
<1>5. cleanup(c)[1] # <<op, c>>
  BY CleanupItem DEF UndoOps
<1>6. Allocated(c) /\ \A r \in RuleSet : r.tag = c => Covered(undo[c], r)
  BY <1>4, <1>5 DEF Publishing
<1>7. ASSUME op # "release", NEW r \in RuleSet, r.tag = c PROVE Covered(undo'[c], r)
  <2>1. <<op, c>> # <<"release", r.tag>> /\ Covered(undo[c], r)
    BY <1>6, <1>7
  <2> QED
    BY <1>1, <1>2, <1>3, <2>1, CoveredLonger
<1> QED
  BY <1>6, <1>7

(* A launch that publishes has its address.                                *)
LEMMA PublishingLate ==
  ASSUME Kinds, NEW c \in Container, Ready(c), NEW op \in {"publish", "published"}, At(c, op)
  PROVE  Allocated(c)
<1>1. c \in Process /\ script[c] # <<>> /\ Launching(c) /\ Head(script[c])[1] = op
  BY ProcessIs, LaunchItem DEF At, Launching, LaunchOps
<1>2. script[c] \in Seq(Item) /\ Sorted(script[c])
  BY <1>1 DEF Kinds, Fits, Ready, Ahead, Launching
<1>3. \A x \in ToSet(script[c]) : Stage(Head(script[c])) <= Stage(x)
  BY <1>1, <1>2, SortedTail
<1>4. Stage(Head(script[c])) = 6
  BY <1>1 DEF Stage
<1>5. Stage(<<"allocate", c>>) = 3
  BY DEF Stage
<1> QED
  BY <1>3, <1>4, <1>5 DEF Allocated, Todo

LEMMA PublishingOwn ==
  ASSUME Kinds, Filter, Typed, NEW c \in Container, Launching(c), Ready(c), Publishing(c), Moves(c)
  PROVE  Publishing(c)'
<1>0. /\ c \in Process /\ phase = [p \in Process |-> phase[p]] /\ script = [p \in Process |-> script[p]]
      /\ undo = [p \in Process |-> undo[p]] /\ missing \in [Process -> BOOLEAN]
      /\ ip \in [Container -> Addr \cup {0}] /\ script[c] \in Seq(Item) /\ undo[c] \in Seq(Item)
  BY ProcessIs DEF Kinds, Fits, Typed
<1>1. CASE Fails(c) \/ Starts(c)
  <2>1. phase'[c] \in {"unwind", "wait"} /\ undo'[c] = <<>>
    BY <1>0, <1>1 DEF Fails, Starts, Unwind
  <2> QED
    BY <2>1 DEF Publishing, Launching
<1>2. CASE Allocates(c)
  <2>1. PICK a : /\ At(c, "allocate") /\ ip' = [ip EXCEPT ![c] = a]
                 /\ (a = lease[c] /\ lease[c] # 0) \/ (a = Min(Free) /\ Free # {})
                 /\ DoneAndPush(c, <<<<"release", c>>>>)
    BY <1>2 DEF Allocates
  <2>2. ip'[c] # 0
    <3>1. a # 0
      BY <2>1, FreeIs, HostAssumption
    <3> QED
      BY <1>0, <2>1, <3>1
  <2>3. script[c] # <<>> /\ Head(script[c]) = <<"allocate", c>>
    <3>1. script[c] # <<>> /\ Head(script[c])[1] = "allocate"
      BY <2>1 DEF At
    <3>2. Arg(c) = c
      BY <2>1, LaunchItem DEF LaunchOps
    <3> QED
      BY <1>0, <3>1, <3>2, HeadIs
  <2>4. <<"allocate", c>> \in Todo(c) /\ Todo(c) = {Head(script[c])} \cup ToSet(Tail(script[c]))
    BY <1>0, <2>3, HeadIs
  <2>5. script'[c] = Tail(script[c]) /\ missing'[c] = FALSE /\ Launching(c)'
    BY <1>0, <2>1 DEF DoneAndPush, Continue, Launching
  <2>6. \A x \in Todo(c)' : x[1] = "rule" => x[2] \in SharedRules(On[c])
    BY <2>4, <2>5 DEF Publishing, Allocated, Todo
  <2>7. cleanup(c)[1] \notin ToSet(undo'[c])
    BY <2>1, <2>4, PushedOne DEF Allocated, UndoOps, DoneAndPush
  <2>8. SharedRules(On[c])' = SharedRules(On[c])
    BY DEF SharedRules, Jumps, Guard, BridgeRules
  <2> QED
    BY <2>2, <2>5, <2>6, <2>7, <2>8 DEF Publishing
<1>3. CASE Adds(c) \/ Passes(c)
  <2>1. Busy(c) /\ Done(c) /\ ip' = ip
    BY <1>3 DEF Adds, Passes, Busy, At, Quiet
  <2>2. script'[c] = Tail(script[c]) /\ missing'[c] = FALSE /\ undo' = undo /\ phase' = phase
    BY <1>0, <2>1 DEF Done, Continue
  <2>3. cleanup(c)[1] \in ToSet(undo'[c])
          => Allocated(c) /\ \A r \in RuleSet : r.tag = c => Covered(undo'[c], r)
    BY <2>2 DEF Publishing
  <2> QED
    BY <2>1, <2>2, <2>3, PublishingDone
<1>4. CASE Misses(c)
  <2>1. /\ UNCHANGED <<phase, script, undo, ip>> /\ fw'.rules = fw.rules
        /\ At(c, "rule") => ~rule_exists(fw, Arg(c))
    BY <1>4 DEF Misses, NotThere, Quiet, SameRules
  <2>2. At(c, "rule")' => Arg(c)' \notin BagToSet(fw'.rules)
    BY <2>1 DEF At, Arg, rule_exists, BagIn
  <2>3. SharedRules(On[c])' = SharedRules(On[c])
    BY DEF SharedRules, Jumps, Guard, BridgeRules
  <2>4. Allocated(c)' = Allocated(c) /\ Todo(c)' = Todo(c) /\ Launching(c)' = Launching(c)
    BY <2>1 DEF Allocated, Todo, Launching
  <2> QED
    BY <2>1, <2>2, <2>3, <2>4 DEF Publishing
<1>5. CASE Pushes(c)
  <2>1. PICK op \in {"rmdir", "kill", "veth"} : DoneAndPush(c, <<<<op, c>>>>)
    BY <1>5 DEF Pushes
  <2>2. Busy(c) /\ ip' = ip /\ script'[c] = Tail(script[c]) /\ missing'[c] = FALSE /\ phase' = phase
    BY <1>0, <1>5, <2>1 DEF Pushes, Quiet, DoneAndPush, Continue
  <2>3. op \in UndoOps /\ op # "release"
    BY DEF UndoOps
  <2>4. cleanup(c)[1] \in ToSet(undo'[c])
          => Allocated(c) /\ \A r \in RuleSet : r.tag = c => Covered(undo'[c], r)
    BY <2>1, <2>3, PushedOne DEF DoneAndPush
  <2> QED
    BY <2>2, <2>4, PublishingDone
<1>6. CASE Creates(c) \/ Forks(c)
  <2> DEFINE t == Tail(script[c])
  <2>1. PICK op \in {"bridge_index", "add_pid"} : script' = [script EXCEPT ![c] = <<<<op, c>>>> \o t]
    BY <1>6 DEF Creates, Forks, Continue
  <2> DEFINE b == <<<<op, c>>>>
             N == {<<op, c>>}
  <2>2. Busy(c) /\ ip' = ip /\ script'[c] = b \o t /\ missing'[c] = FALSE /\ phase' = phase
    BY <1>0, <1>6, <2>1 DEF Creates, Forks, Quiet, Continue
  <2>3. b \in Seq(Item) /\ t \in Seq(Item) /\ ToSet(b) = N
    <3>1. <<op, c>> \in Item
      BY ItemsAre, OpsAre, ArgsAre DEF LaunchOps
    <3>2. t \in Seq(Item)
      BY <1>0, <2>2, HeadIs DEF Busy
    <3>3. ToSet(b) = N
      BY ONLY SetOfOne
    <3> QED
      BY <3>1, <3>2, <3>3
  <2>4. <<"allocate", c>> \notin N /\ \A x \in N : x[1] # "rule"
    OBVIOUS
  <2> HIDE DEF b, N
  <2>5. ToSet(script'[c]) = N \cup ToSet(Tail(script[c]))
    <3> HIDE DEF t
    <3>1. ToSet(script'[c]) = ToSet(b) \cup ToSet(t)
      BY <2>2, <2>3, JoinedSeq
    <3> QED
      BY <2>3, <3>1 DEF t
  <2>6. phase'[c] = phase[c] /\ ip'[c] = ip[c]
    BY <2>2
  <2>7. cleanup(c)[1] \in ToSet(undo'[c])
          => Allocated(c) /\ \A r \in RuleSet : r.tag = c => Covered(undo'[c], r)
    <3>1. CASE undo' = undo
      BY <3>1 DEF Publishing
    <3>2. CASE undo' = [undo EXCEPT ![c] = <<<<"kill", c>>>> \o @]
      <4>1. "kill" \in UndoOps /\ "kill" # "release"
        BY DEF UndoOps
      <4> QED
        BY <3>2, <4>1, PushedOne
    <3> QED
      BY <1>6, <3>1, <3>2 DEF Creates, Forks
  <2> QED
    BY <2>2, <2>4, <2>5, <2>6, <2>7, PublishingPop
<1>7. CASE Publish(c) /\ Quiet
  <2> DEFINE u == publish(c, ip[c])
             d == <<<<"published", c>>>>
             t == Tail(script[c])
             v == u \o d
  <2>1. Busy(c) /\ ip' = ip /\ script'[c] = v \o t /\ missing'[c] = FALSE /\ phase' = phase /\ undo' = undo
    BY <1>0, <1>7 DEF Publish, Quiet, Continue, Busy, At
  <2>2. /\ u \in Seq(Item) /\ \A x \in ToSet(u) : SetsUp(x)
        /\ \A x \in ToSet(u) : x[1] = "rule" => x[2] \in SharedRules(On[c]) \cup ToSet(PublishRules(c, ip[c]))
    BY <1>0, PublishIs
  <2>3. d \in Seq(Item) /\ t \in Seq(Item) /\ ToSet(d) = {<<"published", c>>}
    <3>1. <<"published", c>> \in Item
      BY ItemsAre, OpsAre, ArgsAre DEF LaunchOps
    <3> QED
      BY <1>0, <2>1, <3>1, HeadIs DEF Busy, ToSet
  <2>4. Allocated(c)
    BY <1>7, PublishingLate DEF Publish
  <2> HIDE DEF u, d
  <2>5. v \in Seq(Item) /\ ToSet(v) = ToSet(u) \cup {<<"published", c>>}
    BY <2>2, <2>3, JoinedSeq
  <2> HIDE DEF v
  <2>6. ToSet(script'[c]) = ToSet(v) \cup ToSet(Tail(script[c]))
    <3> HIDE DEF t
    <3>1. ToSet(script'[c]) = ToSet(v) \cup ToSet(t)
      BY <2>1, <2>3, <2>5, JoinedSeq
    <3> QED
      BY <3>1 DEF t
  <2>7. <<"allocate", c>> \notin ToSet(v)
    BY <2>2, <2>5 DEF SetsUp
  <2>8. \A x \in ToSet(v) : x[1] = "rule" =>
          x[2] \in SharedRules(On[c]) \/ (x[2] \in ToSet(PublishRules(c, ip[c])) /\ Allocated(c))
    BY <2>2, <2>4, <2>5
  <2> QED
    BY <2>1, <2>6, <2>7, <2>8, PublishingPop DEF Publishing
<1>8. CASE Published(c) /\ Quiet
  <2> DEFINE n == NetTeardown(c)
             k == cleanup(c)
             v == n \o k
             w == undo[c]
  <2>1. /\ Busy(c) /\ ip' = ip /\ script'[c] = Tail(script[c]) /\ missing'[c] = FALSE /\ phase' = phase
        /\ undo'[c] = v \o w
    BY <1>0, <1>8 DEF Published, Quiet, DoneAndPush, Continue, Busy, At
  <2>2. Allocated(c)
    BY <1>8, PublishingLate DEF Published
  <2>3. n \in Seq(Item) /\ k \in Seq(Item) /\ w \in Seq(Item) /\ n[1] = k[1] /\ Len(n) >= 1
    BY <1>0, TeardownIs, CleanupIs, TeardownBegins
  <2>4. ASSUME NEW r \in RuleSet, r.tag = c PROVE Covered(undo'[c], r)
    <3>1. Covers(k[1], r) /\ k[1] # <<"release", r.tag>>
      BY <2>4, CleanupCovers
    <3> HIDE DEF n, k, w
    <3>2. v \in Seq(Item) /\ 1 \in 1 .. Len(v) /\ v[1] = k[1]
      <4>1. n \in Seq(Item) /\ k \in Seq(Item) /\ Len(n) \in Nat /\ Len(k) \in Nat
        BY <2>3, LenProperties
      <4>2. /\ v \in Seq(Item) /\ Len(v) = Len(n) + Len(k)
            /\ \A i \in 1 .. Len(n) + Len(k) : v[i] = IF i <= Len(n) THEN n[i] ELSE k[i - Len(n)]
        BY <4>1, ConcatProperties
      <4> HIDE DEF v
      <4>3. 1 \in 1 .. Len(n) + Len(k) /\ 1 <= Len(n)
        BY <2>3, <4>1
      <4> QED
        BY <2>3, <4>2, <4>3
    <3> HIDE DEF v
    <3>3. \A i \in 1 .. 1 : v[i] # <<"release", r.tag>>
      BY <3>1, <3>2
    <3>4. Covers(v[1], r)
      BY <3>1, <3>2
    <3> QED
      BY <2>1, <2>3, <3>2, <3>3, <3>4, CoveredFirst
  <2> QED
    BY <2>1, <2>2, <2>4, PublishingDone
<1> QED
  BY <1>1, <1>2, <1>3, <1>4, <1>5, <1>6, <1>7, <1>8 DEF Moves

-----------------------------------------------------------------------------
(* What steps do to the rules of the containers.                           *)

LEMMA PublishRulesHome ==
  /\ \A b \in Bridge : \A r \in SharedRules(b) : r.to # "DNAT" /\ r.tag \notin Container
  /\ \A c \in Container : \A a \in Addr \cup {0} : \A r \in ToSet(PublishRules(c, a)) :
       r \in RuleSet /\ r.tag = c /\ r.about = a /\ (r.to = "DNAT" => r.chain = "MYRUN-PRE")
<1>1. ASSUME NEW b \in Bridge PROVE \A r \in SharedRules(b) : r.to # "DNAT"
  <2>1. ToSet(Jumps) = {Rule("PREROUTING", "MYRUN-PRE", "none", 0),
                        Rule("POSTROUTING", "MYRUN-POST", "none", 0), Rule("FORWARD", "MYRUN-FWD", "none", 0)}
    BY DEF Jumps, ToSet
  <2>2. ToSet(BridgeRules(b)) = {Rule("MYRUN-POST", "MASQUERADE", "base", b), Rule("MYRUN-FWD", "ACCEPT", "base", b)}
    BY DEF BridgeRules, ToSet
  <2> QED
    BY <2>1, <2>2 DEF SharedRules, Guard, Rule
<1>2. \A b \in Bridge : \A r \in SharedRules(b) : r.tag \notin Container
  BY SharedRulesAre, TagsDiffer
<1>3. ASSUME NEW c \in Container, NEW a \in Addr \cup {0}, NEW r \in ToSet(PublishRules(c, a))
      PROVE  r.about = a /\ (r.to = "DNAT" => r.chain = "MYRUN-PRE")
  <2>1. r \in {Rule("MYRUN-PRE", "DNAT", c, a), Rule("MYRUN-POST", "MASQUERADE", c, a),
               Rule("MYRUN-FWD", "ACCEPT", c, a)}
    BY <1>3 DEF PublishRules, ToSet
  <2> QED
    BY <2>1 DEF Rule
<1> QED
  BY <1>1, <1>2, <1>3, PublishRulesAre

(* A rule that a launch adds is shared, or is its own and was not there.   *)
LEMMA AddedRule ==
  ASSUME Kinds, Typed, NEW c \in Container, Publishing(c), Adds(c)
  PROVE  /\ Launching(c) /\ Arg(c) \in RuleSet
         /\ Arg(c).to = "DNAT" => Arg(c).tag \in Container /\ Arg(c).chain = "MYRUN-PRE"
         /\ \/ Arg(c) \in SharedRules(On[c]) /\ Arg(c).tag \notin Container
            \/ /\ Arg(c) \in ToSet(PublishRules(c, ip[c])) /\ Arg(c).tag = c
               /\ Allocated(c) /\ Arg(c) \notin BagToSet(fw.rules)
<1>1. At(c, "rule") /\ missing[c]
  BY DEF Adds
<1>2. Launching(c) /\ Arg(c) \in RuleSet /\ script[c] # <<>>
  BY <1>1, LaunchItem DEF Launching, LaunchOps
<1>3. Head(script[c]) \in Todo(c) /\ Head(script[c])[1] = "rule" /\ Head(script[c])[2] = Arg(c)
  BY <1>1, <1>2, HeadIs, ProcessIs DEF At, Arg
<1>4. Arg(c) \in SharedRules(On[c]) \/ (Arg(c) \in ToSet(PublishRules(c, ip[c])) /\ Allocated(c))
  BY <1>2, <1>3 DEF Publishing
<1>5. Arg(c).tag = c => Arg(c) \notin BagToSet(fw.rules)
  BY <1>1, <1>2 DEF Publishing
<1>6. ip[c] \in Addr \cup {0}
  BY DEF Typed
<1> QED
  BY <1>2, <1>4, <1>5, <1>6, BridgeIs, PublishRulesHome

LEMMA LaunchOrderly ==
  ASSUME Kinds, Filter, Typed, Orderly, NEW c \in Container, Publishing(c), Moves(c)
  PROVE  /\ Orderly'
         /\ \A r \in BagToSet(fw'.rules) : r \in BagToSet(fw.rules) \/ (Adds(c) /\ r = Arg(c))
<1>1. CASE Adds(c)
  <2>1. Arg(c) \in RuleSet /\ fw' = Add(fw, Arg(c))
    BY <1>1, AddedRule DEF Adds
  <2>2. BagToSet(fw'.rules) = BagToSet(fw.rules) \cup {Arg(c)}
    BY <2>1, AddKeeps
  <2>3. Orderly'
    BY <1>1, <2>1, AddedRule, OrderlyAdd
  <2> QED
    BY <1>1, <2>2, <2>3
<1>2. CASE ~Adds(c)
  <2>1. SameRules
    BY <1>2 DEF Moves, Fails, Allocates, Misses, Passes, Pushes, Creates, Forks, Starts, Quiet
  <2> QED
    BY <2>1, OrderlySame DEF SameRules
<1> QED
  BY <1>1, <1>2

LEMMA UndoOrderly ==
  ASSUME Kinds, Filter, Orderly, NEW p \in Process, UndoStep(p)
  PROVE  /\ Orderly' /\ BagToSet(fw'.rules) \subseteq BagToSet(fw.rules)
         /\ At(p, "delete") /\ Arg(p).tag \in Container => Arg(p) \notin BagToSet(fw'.rules)
<1>1. CASE DeleteRule(p)
  <2>1. Arg(p) \in RuleSet /\ fw' = Delete(fw, Arg(p))
    BY <1>1, UndoItem DEF DeleteRule
  <2> QED
    BY <2>1, OrderlyDelete
<1>2. CASE FlushChain(p)
  <2>1. fw' = Flush(fw, Arg(p)) /\ ~At(p, "delete")
    BY <1>2 DEF FlushChain, At
  <2> QED
    BY <2>1, OrderlyFlush
<1>3. CASE DeleteChain(p)
  <2>1. fw' = DropChain(fw, Arg(p)) /\ ~At(p, "delete")
    BY <1>3 DEF DeleteChain, At
  <2>2. SameRules
    BY <2>1 DEF DropChain, SameRules, Filter
  <2> QED
    BY <2>1, <2>2, OrderlySame DEF SameRules
<1>4. CASE Kill(p) \/ RemoveCgroup(p) \/ ListTagged(p) \/ DeleteVeth(p) \/ Release(p) \/ Finish(p)
  <2>1. fw' = fw /\ ~At(p, "delete")
    <3>1. fw' = fw
      BY <1>4 DEF Kill, RemoveCgroup, ListTagged, DeleteVeth, Release, Finish, fwVars
    <3> QED
      BY <1>4, <3>1 DEF Kill, RemoveCgroup, ListTagged, DeleteVeth, Release, Finish, At
  <2> QED
    BY <2>1, OrderlySame
<1> QED
  BY <1>1, <1>2, <1>3, <1>4 DEF UndoStep

Bystander(c) ==
  /\ phase'[c] = phase[c] /\ script'[c] = script[c] /\ undo'[c] = undo[c]
  /\ missing'[c] = missing[c] /\ ip'[c] = ip[c]
  /\ \A r \in BagToSet(fw'.rules) : r.tag = c => r \in BagToSet(fw.rules)

LEMMA PublishingOther ==
  ASSUME NEW c, Publishing(c), Bystander(c)
  PROVE  Publishing(c)'
<1>1. /\ Launching(c)' = Launching(c) /\ Todo(c)' = Todo(c) /\ Allocated(c)' = Allocated(c)
      /\ At(c, "rule")' = At(c, "rule") /\ Arg(c)' = Arg(c) /\ SharedRules(On[c])' = SharedRules(On[c])
      /\ ToSet(PublishRules(c, ip[c]))' = ToSet(PublishRules(c, ip[c]))
  BY DEF Bystander, Launching, Todo, Allocated, At, Arg, SharedRules, Jumps, Guard, BridgeRules
<1>2. Launching(c) /\ missing'[c] /\ At(c, "rule") /\ Arg(c).tag = c => Arg(c) \notin BagToSet(fw'.rules)
  BY DEF Bystander, Publishing
<1> QED
  BY <1>1, <1>2 DEF Publishing, Bystander

LEMMA BystandersOfLaunch ==
  ASSUME Kinds, Filter, Typed, Orderly, NEW d \in Container, Publishing(d), LaunchStep(d) \/ CallFails(d),
         NEW c \in Container, c # d
  PROVE  Bystander(c) /\ lease'[c] = lease[c]
<1>1. Moves(d)
  BY LaunchMoves
<1>2. Kept(c)
  BY OtherLaunch
<1>3. undo'[c] = undo[c] /\ missing'[c] = missing[c]
  BY <1>1, MovesLocal, ProcessIs
<1>4. \A r \in BagToSet(fw'.rules) : r.tag = c => r \in BagToSet(fw.rules)
  <2>1. Adds(d) => Arg(d).tag # c
    BY AddedRule
  <2> QED
    BY <1>1, <2>1, LaunchOrderly
<1> QED
  BY <1>2, <1>3, <1>4 DEF Bystander, Kept

LEMMA BystandersOfUndo ==
  ASSUME Kinds, Filter, Typed, Orderly, NEW p \in Process, UndoStep(p), NEW c \in Container, c # p
  PROVE  Bystander(c)
<1>1. phase'[c] = phase[c] /\ script'[c] = script[c] /\ c \in Process
  BY UndoActor, ProcessIs DEF Others
<1>2. undo' = undo /\ ip' = ip /\ (UNCHANGED missing \/ missing' = [missing EXCEPT ![p] = FALSE])
  <2>1. undo' = undo /\ ip' = ip
    BY DEF UndoStep, Kill, RemoveCgroup, ListTagged, DeleteRule, FlushChain, DeleteChain, DeleteVeth,
       Release, Finish, Done, recVars
  <2>2. CASE ListTagged(p)
    <3>1. \E t : Continue(p, t)
      BY <2>2 DEF ListTagged
    <3> QED
      BY <2>1, <3>1 DEF Continue
  <2>3. CASE ~ListTagged(p)
    BY <2>1, <2>3 DEF UndoStep, Kill, RemoveCgroup, DeleteRule, FlushChain, DeleteChain, DeleteVeth,
       Release, Finish, Done, Continue
  <2> QED
    BY <2>2, <2>3
<1>3. missing'[c] = missing[c]
  BY <1>1, <1>2 DEF Typed
<1> QED
  BY <1>1, <1>2, <1>3, UndoOrderly DEF Bystander

LEMMA BystandersOfGc ==
  ASSUME Kinds, Typed, GcStep \/ StartGc, NEW c \in Container
  PROVE  Bystander(c) /\ UNCHANGED <<undo, fw>>
<1>0. c \in Process /\ c # "gc" /\ script = [p \in Process |-> script[p]] /\ phase = [p \in Process |-> phase[p]]
  BY ProcessIs DEF Kinds
<1>1. CASE GcStep
  <2>1. phase'[c] = phase[c] /\ script'[c] = script[c]
    BY <1>0, <1>1, GcActor DEF Others
  <2>2. undo' = undo /\ ip' = ip /\ fw' = fw /\ missing' = [missing EXCEPT !["gc"] = FALSE]
    BY <1>1 DEF GcStep, Scan, TeardownDead, gc_empty, IpamGc, orphaned_veths, BridgeUsed, BridgeLinks,
       DeleteBridge, CountBaseRules, Done, Continue, recVars, fwVars
  <2>3. missing'[c] = missing[c]
    BY <1>0, <2>2 DEF Typed
  <2> QED
    BY <2>1, <2>2, <2>3 DEF Bystander
<1>2. CASE StartGc
  <2>1. /\ phase' = [phase EXCEPT !["gc"] = "collect"] /\ \E s : script' = [script EXCEPT !["gc"] = s]
        /\ UNCHANGED <<undo, missing, ip, fw>>
    BY <1>2 DEF StartGc, recVars, fwVars
  <2> QED
    BY <1>0, <2>1 DEF Bystander
<1> QED
  BY <1>1, <1>2

LEMMA BystandersOfEnd ==
  ASSUME Kinds, Typed, NEW d \in Container, Start(d) \/ Exit(d) \/ Reap(d) \/ Crash(d),
         NEW c \in Container, c # d
  PROVE  Bystander(c)
<1>0. /\ c \in Process /\ d \in Process /\ c # "gc" /\ phase = [p \in Process |-> phase[p]]
      /\ script = [p \in Process |-> script[p]] /\ undo = [p \in Process |-> undo[p]]
      /\ missing \in [Process -> BOOLEAN]
  BY ProcessIs DEF Kinds, Typed
<1>1. /\ UNCHANGED <<ip, fw>>
      /\ UNCHANGED script \/ \E s : script' = [script EXCEPT ![d] = s]
      /\ UNCHANGED undo \/ undo' = [undo EXCEPT ![d] = <<>>]
      /\ UNCHANGED missing \/ missing' = [missing EXCEPT ![d] = FALSE]
  BY DEF Start, Exit, Reap, Crash, Continue, recVars, procVars, fwVars
<1>2. phase'[c] = phase[c]
  BY <1>0 DEF Start, Exit, Reap, Crash, procVars
<1> QED
  BY <1>0, <1>1, <1>2 DEF Bystander

LEMMA PublishingStart ==
  ASSUME Kinds, Typed, NEW c \in Container, Publishing(c), Start(c)
  PROVE  Publishing(c)' /\ script'[c] = launch(c) /\ Launching(c)'
<1>0. c \in Process /\ phase = [p \in Process |-> phase[p]] /\ script = [p \in Process |-> script[p]]
  BY ProcessIs DEF Kinds
<1>1. script'[c] = launch(c) /\ undo'[c] = undo[c] /\ phase[c] = "idle" /\ Launching(c)'
  <2>1. c # "gc"
    BY ProcessIs
  <2> QED
    BY <1>0, <2>1 DEF Start, Launching
<1>2. /\ launch(c) \in Seq(Item) /\ launch(c) # <<>> /\ <<"allocate", c>> \in ToSet(launch(c))
      /\ \A x \in ToSet(launch(c)) : x[1] = "rule" => x[2] \in SharedRules(On[c])
  BY LaunchIs
<1>3. undo'[c] = <<>> /\ ToSet(<<>>) = {}
  BY <1>1 DEF Publishing, Launching, ToSet
<1>4. SharedRules(On[c])' = SharedRules(On[c]) /\ Todo(c)' = ToSet(launch(c)) /\ ~Allocated(c)'
  BY <1>1, <1>2 DEF SharedRules, Jumps, Guard, BridgeRules, Todo, Allocated
<1>5. At(c, "rule")' => Arg(c)'.tag # c
  <2>1. Head(launch(c)) \in ToSet(launch(c))
    BY <1>2, PoppedSeq
  <2>2. At(c, "rule")' => Arg(c)' \in SharedRules(On[c])
    BY <1>1, <1>2, <2>1 DEF At, Arg
  <2> QED
    BY <2>2, PublishRulesHome, BridgeIs
<1> QED
  BY <1>1, <1>2, <1>3, <1>4, <1>5 DEF Publishing

LEMMA PublishingNext ==
  ASSUME Kinds, Filter, Typed, Provided, Orderly, \A c \in Container : Publishing(c), [Next]_vars,
         NEW c \in Container
  PROVE  Publishing(c)'
<1>0. c \in Process /\ c # "gc" /\ Publishing(c)
  BY ProcessIs
<1>1. CASE LaunchStep(c) \/ CallFails(c)
  <2>1. Moves(c) /\ Launching(c) /\ Ready(c)
    BY <1>1, LaunchMoves, LaunchActor DEF Launching, Provided
  <2> QED
    BY <1>0, <2>1, PublishingOwn
<1>2. CASE Start(c)
  BY <1>0, <1>2, PublishingStart
<1>3. ASSUME ~Launching(c)' /\ undo'[c] = <<>> PROVE Publishing(c)'
  BY <1>3 DEF Publishing
<1>4. CASE Exit(c) \/ Reap(c) \/ Crash(c)
  <2>1. ~Launching(c)'
    BY <1>4, EndActor DEF Launching
  <2>2. undo'[c] = <<>>
    <3>1. CASE Exit(c) \/ Reap(c)
      <4>1. phase[c] = "wait" /\ undo' = undo
        BY <3>1 DEF Exit, Reap, procVars
      <4> QED
        BY <1>0, <4>1 DEF Publishing, Launching
    <3>2. CASE Crash(c)
      BY <1>0, <3>2 DEF Crash, Kinds
    <3> QED
      BY <1>4, <3>1, <3>2
  <2> QED
    BY <1>3, <2>1, <2>2
<1>5. CASE UndoStep(c)
  <2>1. ~Launching(c)'
    BY <1>0, <1>5, UndoActor DEF Launching
  <2>2. undo' = undo
    BY <1>5 DEF UndoStep, Kill, RemoveCgroup, ListTagged, DeleteRule, FlushChain, DeleteChain, DeleteVeth,
     Release, Finish, Done
  <2>3. ~Launching(c)
    <3>1. CASE Finish(c)
      BY <3>1 DEF Finish, Launching
    <3>2. CASE ~Finish(c)
      <4>1. \E op \in UndoOps \cup {"list", "delete", "flush", "drop"} : At(c, op)
        BY <1>5, <3>2 DEF UndoStep, Kill, RemoveCgroup, ListTagged, DeleteRule, FlushChain, DeleteChain,
           DeleteVeth, Release, UndoOps
      <4> QED
        BY <1>0, <4>1, UndoItem DEF Launching
    <3> QED
      BY <3>1, <3>2
  <2> QED
    BY <1>0, <1>3, <2>1, <2>2, <2>3 DEF Publishing
<1>6. ASSUME NEW d \in Container, d # c, LaunchStep(d) \/ CallFails(d) PROVE Publishing(c)'
  BY <1>0, <1>6, BystandersOfLaunch, PublishingOther
<1>7. ASSUME NEW d \in Container, d # c, Start(d) \/ Exit(d) \/ Reap(d) \/ Crash(d) PROVE Publishing(c)'
  BY <1>0, <1>7, BystandersOfEnd, PublishingOther
<1>8. ASSUME NEW p \in Process, p # c, UndoStep(p) PROVE Publishing(c)'
  BY <1>0, <1>8, BystandersOfUndo, PublishingOther
<1>9. CASE GcStep \/ StartGc
  BY <1>0, <1>9, BystandersOfGc, PublishingOther
<1>10. CASE UNCHANGED vars
  <2>1. Bystander(c)
    BY <1>10 DEF vars, procVars, recVars, fwVars, Bystander
  <2> QED
    BY <1>0, <2>1, PublishingOther
<1> QED
  BY <1>1, <1>2, <1>4, <1>5, <1>6, <1>7, <1>8, <1>9, <1>10 DEF Next

LEMMA OrderlyNext ==
  ASSUME Kinds, Filter, Typed, Orderly, \A c \in Container : Publishing(c), [Next]_vars
  PROVE  Orderly'
<1>1. ASSUME NEW c \in Container, LaunchStep(c) \/ CallFails(c) PROVE Orderly'
  BY <1>1, LaunchMoves, LaunchOrderly
<1>2. ASSUME NEW p \in Process, UndoStep(p) PROVE Orderly'
  BY <1>2, UndoOrderly
<1>3. ASSUME fw' = fw PROVE Orderly'
  BY <1>3, OrderlySame
<1>4. ASSUME NEW c \in Container, Start(c) \/ Exit(c) \/ Reap(c) \/ Crash(c) PROVE fw' = fw
  BY <1>4 DEF Start, Exit, Reap, Crash, fwVars
<1>5. CASE GcStep \/ StartGc
  <2>1. fw' = fw
    BY <1>5 DEF GcStep, Scan, TeardownDead, gc_empty, IpamGc, orphaned_veths, BridgeUsed, BridgeLinks,
       DeleteBridge, CountBaseRules, StartGc, fwVars
  <2> QED
    BY <1>3, <2>1
<1>6. CASE UNCHANGED vars
  BY <1>3, <1>6 DEF vars, fwVars
<1> QED
  BY <1>1, <1>2, <1>3, <1>4, <1>5, <1>6 DEF Next

LEMMA ApartNext ==
  ASSUME Kinds, Filter, Typed, Apart, [Next]_vars
  PROVE  Apart'
<1>0. lease \in [Container -> Addr \cup {0}]
  BY DEF Typed
<1>1. ASSUME \A c \in Container : lease'[c] \in {0, lease[c]} PROVE Apart'
  BY <1>1 DEF Apart
<1>2. ASSUME lease' = lease PROVE Apart'
  BY <1>2 DEF Apart
<1>3. ASSUME NEW c \in Container, LaunchStep(c) \/ CallFails(c) PROVE Apart'
  <2>1. CASE Allocates(c)
    <3>1. PICK a : /\ lease' = [lease EXCEPT ![c] = a]
                   /\ (a = lease[c] /\ lease[c] # 0) \/ (a = Min(Free) /\ Free # {})
      BY <2>1 DEF Allocates
    <3>2. CASE a = lease[c]
      BY <1>0, <1>1, <3>1, <3>2
    <3>3. CASE a = Min(Free) /\ Free # {}
      <4>1. Free \in SUBSET Nat
        BY HostAssumption DEF Free
      <4>2. a \in Free
        BY <3>3, <4>1, MinOf
      <4>3. \A d \in Container : lease[d] # a
        BY <4>2 DEF Free
      <4> QED
        BY <1>0, <3>1, <4>3 DEF Apart
    <3> QED
      BY <3>1, <3>2, <3>3
  <2>2. CASE ~Allocates(c)
    <3>1. lease' = lease
      BY <1>3, <2>2, LaunchMoves DEF Moves, Fails, Adds, Misses, Passes, Pushes, Creates, Forks, Starts, Quiet
    <3> QED
      BY <1>2, <3>1
  <2> QED
    BY <2>1, <2>2
<1>4. ASSUME NEW p \in Process, UndoStep(p) PROVE Apart'
  <2>1. UNCHANGED lease \/ lease' = [lease EXCEPT ![Arg(p)] = 0]
    BY <1>4 DEF UndoStep, Kill, RemoveCgroup, ListTagged, DeleteRule, FlushChain, DeleteChain, DeleteVeth,
       Release, Finish, netVars
  <2> QED
    BY <1>0, <1>1, <2>1
<1>5. ASSUME NEW c \in Container, Start(c) \/ Exit(c) \/ Reap(c) \/ Crash(c) PROVE lease' = lease
  BY <1>5 DEF Start, Exit, Reap, Crash, netVars
<1>6. CASE GcStep \/ StartGc
  <2>1. UNCHANGED lease \/ lease' = [c \in Container |-> IF c \in live THEN lease[c] ELSE 0]
    BY <1>6 DEF GcStep, Scan, TeardownDead, gc_empty, IpamGc, orphaned_veths, BridgeUsed, BridgeLinks,
       DeleteBridge, CountBaseRules, StartGc, netVars
  <2> QED
    BY <1>0, <1>1, <2>1
<1>7. CASE UNCHANGED vars
  BY <1>2, <1>7 DEF vars, netVars
<1> QED
  BY <1>2, <1>3, <1>4, <1>5, <1>6, <1>7 DEF Next

-----------------------------------------------------------------------------
(* Rules go before the address does.                                       *)

(* What a step of others leaves of the hold of c on its address.           *)
LEMMA OwnsStays ==
  ASSUME NEW c \in Container, NEW r, Owns(c, r), ip'[c] = ip[c], lease'[c] = lease[c],
         phase'[c] # "idle", Launching(c)' => Allocated(c)',
         \A p \in Process : Covered(script'[p], r)
  PROVE  Owns(c, r)'
  BY DEF Owns

(* Where covering has to be shown: gc, and the supervisor itself.          *)
LEMMA CoveredEverywhere ==
  ASSUME Kinds', NEW r, r.tag \in Container, Covered(script'["gc"], r), Covered(script'[r.tag], r)
  PROVE  \A p \in Process : Covered(script'[p], r)
<1>1. ASSUME NEW q \in Process, q # "gc", q # r.tag PROVE Covered(script'[q], r)
  <2>1. Fits(q, phase'[q], script'[q], undo'[q])
    BY DEF Kinds
  <2> QED
    BY <1>1, <2>1, CoveredElsewhere
<1> QED
  BY <1>1

LEMMA StaysAllocated ==
  ASSUME Kinds, Typed, NEW c \in Container, Moves(c), Launching(c), Allocated(c), Launching(c)'
  PROVE  Allocated(c)'
<1>0. /\ c \in Process /\ phase = [p \in Process |-> phase[p]] /\ script = [p \in Process |-> script[p]]
      /\ ip[c] \in Addr \cup {0}
  BY ProcessIs DEF Kinds, Typed
<1>1. ASSUME NEW N, ToSet(script'[c]) \subseteq N \cup Todo(c), <<"allocate", c>> \notin N
      PROVE  Allocated(c)'
  BY <1>1 DEF Allocated, Todo
<1> DEFINE t == Tail(script[c])
<1>2. script[c] # <<>> => t \in Seq(Item) /\ ToSet(t) \subseteq Todo(c)
  BY <1>0, HeadIs
<1> HIDE DEF t
<1>3. ASSUME NEW s \in Seq(Item), script[c] # <<>>, script'[c] = s \o t, <<"allocate", c>> \notin ToSet(s)
      PROVE  Allocated(c)'
  <2>1. ToSet(s \o t) = ToSet(s) \cup ToSet(t)
    BY <1>2, <1>3, JoinedSeq
  <2> QED
    BY <1>1, <1>2, <1>3, <2>1
<1>4. CASE Fails(c) \/ Starts(c)
  BY <1>0, <1>4 DEF Fails, Starts, Unwind, Launching
<1>5. CASE Misses(c)
  BY <1>5 DEF Misses, NotThere, Allocated, Todo
<1>6. CASE Allocates(c) \/ Adds(c) \/ Passes(c) \/ Pushes(c) \/ (Published(c) /\ Quiet)
  <2>1. script'[c] = t /\ script[c] # <<>>
    BY <1>0, <1>6 DEF Allocates, Adds, Passes, Pushes, Published, Busy, At, DoneAndPush, Done, Continue, t
  <2> QED
    BY <1>2, <2>1 DEF Allocated, Todo
<1>7. CASE Creates(c) \/ Forks(c)
  <2>1. PICK op \in {"bridge_index", "add_pid"} : script' = [script EXCEPT ![c] = <<<<op, c>>>> \o t]
    BY <1>7 DEF Creates, Forks, Continue, t
  <2> DEFINE b == <<<<op, c>>>>
  <2>2. script'[c] = b \o t /\ script[c] # <<>>
    BY <1>0, <1>7, <2>1 DEF Creates, Forks, Busy
  <2>3. b \in Seq(Item) /\ <<"allocate", c>> \notin ToSet(b)
    <3>1. <<op, c>> \in Item
      BY ItemsAre, OpsAre, ArgsAre DEF LaunchOps
    <3> QED
      BY <3>1 DEF ToSet
  <2> HIDE DEF b
  <2> QED
    BY <1>3, <2>2, <2>3
<1>8. CASE Publish(c)
  <2> DEFINE u == publish(c, ip[c])
             d == <<<<"published", c>>>>
             v == u \o d
  <2>1. script'[c] = v \o t /\ script[c] # <<>>
    BY <1>0, <1>8 DEF Publish, At, Continue, t
  <2>2. u \in Seq(Item) /\ \A x \in ToSet(u) : SetsUp(x)
    BY <1>0, PublishIs
  <2>3. d \in Seq(Item) /\ <<"allocate", c>> \notin ToSet(d)
    <3>1. <<"published", c>> \in Item
      BY ItemsAre, OpsAre, ArgsAre DEF LaunchOps
    <3> QED
      BY <3>1 DEF ToSet
  <2>4. <<"allocate", c>> \notin ToSet(u)
    BY <2>2 DEF SetsUp
  <2> HIDE DEF u, d
  <2>5. v \in Seq(Item) /\ <<"allocate", c>> \notin ToSet(v)
    BY <2>2, <2>3, <2>4, JoinedSeq
  <2> HIDE DEF v
  <2> QED
    BY <1>3, <2>1, <2>5
<1> QED
  BY <1>4, <1>5, <1>6, <1>7, <1>8 DEF Moves

LEMMA OwnedLaunch ==
  ASSUME Kinds, Kinds', Filter, Typed, Aware, Provided, Orderly, \A c \in Container : Publishing(c), Owned,
         NEW d \in Container, LaunchStep(d) \/ CallFails(d), leftRules' = {},
         NEW c \in Container, NEW r \in RulesOf(c)'
  PROVE  Owns(c, r)'
<1>0. /\ c \in Process /\ d \in Process /\ c # "gc" /\ d # "gc" /\ "gc" \in Process
      /\ script = [p \in Process |-> script[p]] /\ undo = [p \in Process |-> undo[p]]
  BY ProcessIs DEF Kinds
<1>1. Moves(d) /\ Launching(d) /\ Others(d) /\ phase'[d] \in {"launch", "unwind", "wait"}
  BY LaunchMoves, LaunchActor DEF Launching
<1>2. leftRules = {}
  BY <1>1 DEF Moves, Fails, Unwind, Allocates, Adds, Misses, Passes, Pushes, Creates, Forks, Starts, Quiet
<1>3. r \in BagToSet(fw'.rules) /\ r.tag = c
  BY DEF RulesOf
<1>4. script'["gc"] = script["gc"]
  BY <1>0, <1>1 DEF Others
<1>5. CASE c # d
  <2>1. Bystander(c) /\ lease'[c] = lease[c]
    BY <1>5, BystandersOfLaunch
  <2>2. r \in RulesOf(c)
    BY <1>3, <2>1 DEF Bystander, RulesOf
  <2>3. Owns(c, r)
    BY <1>2, <2>2 DEF Owned
  <2>4. \A p \in Process : Covered(script'[p], r)
    BY <1>0, <1>3, <1>4, <2>1, <2>3, CoveredEverywhere DEF Bystander, Owns
  <2> QED
    BY <2>1, <2>3, <2>4, OwnsStays DEF Owns, Bystander, Launching, Allocated, Todo
<1>6. ASSUME phase'[c] \in {"launch", "wait"} PROVE Covered(script'[c], r)
  <2>1. Fits(c, phase'[c], script'[c], undo'[c])
    BY <1>0 DEF Kinds
  <2> QED
    BY <1>0, <1>3, <1>6, <2>1, CoveredElsewhere
<1>7. CASE c = d /\ r \in BagToSet(fw.rules)
  <2>1. Owns(c, r)
    BY <1>2, <1>3, <1>7 DEF Owned, RulesOf
  <2>2. Allocated(c)
    BY <1>1, <1>7, <2>1 DEF Owns
  <2>3. ~Allocates(c)
    <3>1. ASSUME At(c, "allocate") PROVE FALSE
      <4>1. script[c] # <<>> /\ Arg(c) = c /\ Head(script[c])[1] = "allocate"
        BY <3>1, LaunchItem DEF LaunchOps, At
      <4>2. <<"allocate", c>> \in Todo(c)
        BY <1>0, <4>1, HeadIs
      <4> QED
        BY <2>2, <4>2 DEF Allocated
    <3> QED
      BY <3>1 DEF Allocates
  <2>4. lease' = lease /\ ip' = ip
    BY <1>1, <1>7, <2>3 DEF Moves, Fails, Adds, Misses, Passes, Pushes, Creates, Forks, Starts, Quiet
  <2>5. Launching(c)' => Allocated(c)'
    BY <1>1, <1>7, <2>2, StaysAllocated
  <2>6. Covered(script'[c], r)
    <3>1. CASE Fails(c)
      <4>1. HasRules(c)
        BY <1>3, <1>7 DEF HasRules
      <4>2. Contains(undo[c], cleanup(c)[1])
        BY <3>1, <4>1 DEF Fails, Unwind
      <4>3. undo[c] \in Seq(Item)
        BY <1>0 DEF Kinds, Fits
      <4>4. cleanup(c)[1] \in ToSet(undo[c])
        BY <4>2, <4>3, LenProperties DEF Contains, ToSet
      <4>5. r \in RuleSet
        BY <1>7 DEF Filter, BagToSet
      <4>6. Covered(undo[c], r)
        BY <1>1, <1>3, <1>7, <4>4, <4>5 DEF Publishing
      <4>7. script'[c] = undo[c]
        BY <1>0, <3>1 DEF Fails, Unwind, Continue
      <4> QED
        BY <4>6, <4>7
    <3>2. CASE ~Fails(c)
      <4>1. phase'[c] \in {"launch", "wait"}
        <5>1. UNCHANGED phase \/ phase' = [phase EXCEPT ![c] = "wait"]
          BY <1>1, <1>7, <3>2 DEF Moves, Allocates, Adds, Misses, Passes, Pushes, Creates, Forks, Starts, Publish,
             Published, Done, NotThere, DoneAndPush
        <5> QED
          BY <1>0, <1>1, <1>7, <5>1 DEF Launching, Kinds
      <4> QED
        BY <1>6, <4>1
    <3> QED
      BY <3>1, <3>2
  <2>7. \A p \in Process : Covered(script'[p], r)
    BY <1>0, <1>3, <1>4, <2>1, <2>6, CoveredEverywhere DEF Owns
  <2> QED
    BY <1>1, <1>7, <2>1, <2>4, <2>5, <2>7, OwnsStays
<1>8. CASE c = d /\ r \notin BagToSet(fw.rules)
  <2>1. Adds(c) /\ r = Arg(c)
    BY <1>1, <1>3, <1>8, LaunchOrderly
  <2>2. r \in ToSet(PublishRules(c, ip[c])) /\ Allocated(c) /\ Launching(c)
    BY <1>3, <2>1, AddedRule
  <2>3. lease[c] = ip[c]
    BY <2>2 DEF Provided, Ready, Engaged, Launching, OnBridge, Allocated
  <2>4. ip[c] # 0
    BY <2>2 DEF Publishing
  <2>5. lease' = lease /\ ip' = ip /\ phase' = phase
    BY <2>1 DEF Adds, Done
  <2>6. phase'[c] = "launch" /\ Allocated(c)'
    BY <1>1, <1>8, <2>2, <2>5, StaysAllocated DEF Launching
  <2>7. Covered(script'["gc"], r)
    <3>1. phase'["gc"] # "collect"
      BY <2>2, <2>5 DEF Aware, Launching
    <3>2. Fits("gc", phase'["gc"], script'["gc"], undo'["gc"])
      BY <1>0 DEF Kinds
    <3> QED
      BY <1>0, <1>3, <3>1, <3>2, CoveredElsewhere
  <2>8. \A p \in Process : Covered(script'[p], r)
    BY <1>3, <1>6, <2>6, <2>7, CoveredEverywhere
  <2> QED
    BY <2>2, <2>3, <2>4, <2>5, <2>6, <2>8 DEF Owns
<1> QED
  BY <1>5, <1>7, <1>8

(* A listing that is read further finds the rules that are there.          *)
LEMMA ListingFinds ==
  ASSUME Filter, NEW q \in Listing, q.tables # <<>>, NEW new,
         LET found == SetToSeq(tagged_rules(fw, Head(q.tables), q.tag)) IN
           new = [q EXCEPT !.tables = Tail(@),
                           !.found  = @ \o [i \in DOMAIN found |-> found[i][1]]],
         NEW r \in BagToSet(fw.rules), Covers(<<"list", q>>, r)
  PROVE  Covers(<<"list", new>>, r)
<1> DEFINE T == tagged_rules(fw, Head(q.tables), q.tag)
           f == SetToSeq(T)
           g == [i \in DOMAIN f |-> f[i][1]]
           m == q.found
<1>1. q.tag = r.tag /\ (Table(r.chain) \in ToSet(q.tables) \/ r \in ToSet(m))
  BY DEF Covers
<1>2. IsFiniteSet(T) /\ \A x \in T : x[1] \in RuleSet
  BY TaggedAre
<1>3. Table(r.chain) = Head(q.tables) => <<r, 1>> \in T
  <2>1. r \in DOMAIN fw.rules /\ 1 \in 1 .. fw.rules[r]
    BY DEF Filter, IsABag, BagToSet
  <2>2. <<r, 1>> \in Lines(fw, r)
    BY <2>1 DEF Lines
  <2> QED
    BY <1>1, <2>2 DEF tagged_rules
<1> HIDE DEF T
<1>4. f \in Seq(T) /\ ToSet(f) = T
  BY <1>2, SetToSeqOfSet
<1> HIDE DEF f
<1>5. Len(f) \in Nat /\ DOMAIN f = 1 .. Len(f) /\ \A i \in 1 .. Len(f) : f[i] \in T
  BY <1>4, LenProperties
<1>6. g \in Seq(RuleSet)
  <2>1. g \in [1 .. Len(f) -> RuleSet]
    BY <1>2, <1>5
  <2> QED
    BY <1>5, <2>1
<1>7. Table(r.chain) = Head(q.tables) => r \in ToSet(g)
  <2>1. ASSUME <<r, 1>> \in T PROVE r \in ToSet(g)
    <3>1. PICK i \in DOMAIN f : f[i] = <<r, 1>>
      BY <1>4, <2>1 DEF ToSet
    <3>2. i \in DOMAIN g /\ g[i] = r
      BY <3>1
    <3> HIDE DEF g
    <3> QED
      BY <3>2 DEF ToSet
  <2> QED
    BY <1>3, <2>1
<1>8. m \in Seq(RuleSet) /\ q.tables \in Seq({"nat", "filter"})
  BY DEF Listing
<1>9. new = [q EXCEPT !.tables = Tail(@), !.found = @ \o g]
  BY DEF T, f
<1> HIDE DEF g
<1>10. new.tables = Tail(q.tables) /\ new.found = m \o g /\ new.tag = q.tag
  BY <1>9 DEF Listing
<1> HIDE DEF m
<1>11. ToSet(m \o g) = ToSet(m) \cup ToSet(g)
  BY <1>6, <1>8, JoinedSeq
<1> DEFINE w == q.tables
<1>12. w \in Seq({"nat", "filter"}) /\ w # <<>>
  BY <1>8
<1> HIDE DEF w
<1>13. ToSet(w) = {Head(w)} \cup ToSet(Tail(w))
  BY <1>12, PoppedSeq
<1>14. Table(r.chain) \in ToSet(new.tables) \/ r \in ToSet(new.found)
  BY <1>1, <1>7, <1>10, <1>11, <1>13 DEF w
<1> QED
  BY <1>1, <1>10, <1>14 DEF Covers

LEMMA CoveredList ==
  ASSUME Kinds, Filter, NEW p \in Process, ListTagged(p), NEW r \in BagToSet(fw.rules),
         Covered(script[p], r)
  PROVE  Covered(script'[p], r)
<1> DEFINE q == Arg(p)
<1>0. script[p] \in Seq(Item) /\ script[p] # <<>> /\ script = [x \in Process |-> script[x]]
  BY UndoItem DEF Kinds, Fits, ListTagged
<1>1. q \in Listing /\ Head(script[p]) = <<"list", q>>
  <2>1. q \in Listing
    BY UndoItem DEF ListTagged
  <2> QED
    BY <1>0, <2>1, HeadIs DEF ListTagged, At
<1> HIDE DEF q
<1>2. CASE q.tables = <<>>
  <2> DEFINE f == q.found
             s == Each("delete", f)
  <2>1. f \in Seq(RuleSet)
    BY <1>1 DEF Listing
  <2>2. script'[p] = s \o Tail(script[p])
    BY <1>0, <1>2 DEF ListTagged, Continue, q
  <2>3. Covers(Head(script[p]), r) => r \in ToSet(f)
    <3>1. ToSet(<<>>) = {}
      BY DEF ToSet
    <3> QED
      BY <1>1, <1>2, <3>1 DEF Covers
  <2> HIDE DEF f
  <2>4. f \in Seq(Args) /\ "delete" \in Ops
    BY <2>1, SeqMonotonic, ArgsAre, OpsAre DEF RuleOps
  <2>5. /\ s \in Seq(Item) /\ \A x \in ToSet(s) : \E a \in ToSet(f) : x = <<"delete", a>>
        /\ \A a \in ToSet(f) : <<"delete", a>> \in ToSet(s)
    BY <2>4, EachIs
  <2> HIDE DEF s
  <2>6. <<"release", r.tag>> \notin ToSet(s)
    BY <2>5
  <2>7. Covers(Head(script[p]), r) => \E x \in ToSet(s) : Covers(x, r)
    BY <2>3, <2>5 DEF Covers
  <2> QED
    BY <1>0, <2>2, <2>5, <2>6, <2>7, CoveredNext
<1>3. CASE q.tables # <<>>
  <2> DEFINE found == SetToSeq(tagged_rules(fw, Head(q.tables), q.tag))
             new == [q EXCEPT !.tables = Tail(@), !.found = @ \o [i \in DOMAIN found |-> found[i][1]]]
             s == <<<<"list", new>>>>
             tags == Container \cup {"base", "none"}
  <2>1. script'[p] = s \o Tail(script[p])
    <3>1. script' = [script EXCEPT ![p] = s \o Tail(script[p])]
      BY <1>3 DEF ListTagged, Continue, q
    <3> QED
      BY <1>0, <3>1
  <2>2. OfCleanup(tags, <<"list", q>>)
    <3>1. q.tag \in tags /\ q.found \in Seq(RuleSet)
      BY <1>1 DEF Listing
    <3>2. \A x \in RuleSet : x.tag \in tags
      BY DEF RuleSet
    <3>3. \A x \in ToSet(q.found) : x \in RuleSet
      BY <3>1, SeqOfSet
    <3> QED
      BY <1>1, <3>1, <3>2, <3>3 DEF OfCleanup
  <2> HIDE DEF new, tags
  <2>3. LET f == SetToSeq(tagged_rules(fw, Head(q.tables), q.tag)) IN
          new = [q EXCEPT !.tables = Tail(@), !.found  = @ \o [i \in DOMAIN f |-> f[i][1]]]
    BY DEF new
  <2>4. new \in Listing
    BY <1>1, <1>3, <2>2, <2>3, ListingRead
  <2>5. s \in Seq(Item) /\ ToSet(s) = {<<"list", new>>}
    <3>1. <<"list", new>> \in Item
      BY <2>4, ItemsAre, OpsAre, ArgsAre DEF RuleOps
    <3> QED
      BY <3>1 DEF ToSet
  <2>6. Covers(<<"list", q>>, r) => Covers(<<"list", new>>, r)
    <3> SUFFICES ASSUME Covers(<<"list", q>>, r) PROVE Covers(<<"list", new>>, r)
      OBVIOUS
    <3> QED
      BY <1>1, <1>3, <2>3, ListingFinds
  <2> HIDE DEF s
  <2>7. <<"release", r.tag>> \notin ToSet(s)
    BY <2>5
  <2>8. Covers(Head(script[p]), r) => \E x \in ToSet(s) : Covers(x, r)
    BY <1>1, <2>5, <2>6
  <2> QED
    BY <1>0, <2>1, <2>5, <2>7, <2>8, CoveredNext
<1> QED
  BY <1>2, <1>3

LEMMA OwnedUndo ==
  ASSUME Kinds, Kinds', Filter, Typed, Orderly, Owned, NEW p \in Process, UndoStep(p), leftRules' = {},
         NEW c \in Container, NEW r \in RulesOf(c)'
  PROVE  Owns(c, r)'
<1>0. /\ c \in Process /\ c # "gc" /\ script = [q \in Process |-> script[q]] /\ script[p] \in Seq(Item)
      /\ phase = [q \in Process |-> phase[q]]
  BY ProcessIs DEF Kinds, Fits
<1>1. leftRules' = leftRules /\ ip' = ip
  BY DEF UndoStep, Kill, RemoveCgroup, ListTagged, DeleteRule, FlushChain, DeleteChain, DeleteVeth, Release,
     Finish, recVars, hist
<1>2. r \in BagToSet(fw'.rules) /\ r.tag = c /\ r \in BagToSet(fw.rules)
  BY UndoOrderly DEF RulesOf
<1>3. Owns(c, r)
  BY <1>1, <1>2 DEF Owned, RulesOf
<1>4. ~(At(p, "release") /\ Arg(p) = c)
  <2>1. ASSUME At(p, "release"), Arg(p) = c PROVE FALSE
    <3>1. script[p] # <<>> /\ Head(script[p]) = <<"release", r.tag>>
      BY <1>2, <2>1, HeadIs DEF At
    <3> QED
      BY <1>0, <1>3, <3>1, CoveredRelease DEF Owns
  <2> QED
    BY <2>1
<1>5. lease'[c] = lease[c]
  <2>1. UNCHANGED lease \/ (At(p, "release") /\ lease' = [lease EXCEPT ![Arg(p)] = 0])
    BY DEF UndoStep, Kill, RemoveCgroup, ListTagged, DeleteRule, FlushChain, DeleteChain, DeleteVeth, Release,
       Finish, netVars
  <2> QED
    BY <1>4, <2>1 DEF Typed
<1>6. Covered(script'[p], r)
  <2>1. CASE Finish(p)
    BY <1>3, <2>1 DEF Finish, Owns
  <2>2. CASE ListTagged(p)
    BY <1>2, <1>3, <2>2, CoveredList DEF Owns
  <2>3. CASE \/ Kill(p) \/ RemoveCgroup(p) \/ DeleteRule(p) \/ FlushChain(p) \/ DeleteChain(p)
             \/ DeleteVeth(p) \/ Release(p)
    <3>1. Done(p) /\ script[p] # <<>> /\ ~At(p, "list")
      BY <2>3 DEF Kill, RemoveCgroup, DeleteRule, FlushChain, DeleteChain, DeleteVeth, Release, At
    <3>2. At(p, "delete") => Arg(p) # r
      BY <1>2, UndoOrderly
    <3>3. ~Covers(Head(script[p]), r)
      BY <3>1, <3>2 DEF Covers, At, Arg
    <3>4. script'[p] = Tail(script[p])
      BY <1>0, <3>1 DEF Done, Continue
    <3> QED
      BY <1>0, <1>3, <3>1, <3>3, <3>4, CoveredTail DEF Owns
  <2> QED
    BY <2>1, <2>2, <2>3 DEF UndoStep
<1>7. \A q \in Process : Covered(script'[q], r)
  BY <1>3, <1>6, UndoActor DEF Others, Owns
<1>8. phase'[c] # "idle" /\ (Launching(c)' => Allocated(c)')
  <2>1. CASE c = p
    <3>1. phase'[c] # "launch"
      BY <2>1, UndoActor
    <3>2. UNCHANGED phase \/ \E f \in {"done", "ended"} : phase' = [phase EXCEPT ![p] = f]
      BY DEF UndoStep, Kill, RemoveCgroup, ListTagged, DeleteRule, FlushChain, DeleteChain, DeleteVeth,
         Release, Finish, Done
    <3> QED
      BY <1>0, <1>3, <2>1, <3>1, <3>2 DEF Owns, Launching
  <2>2. CASE c # p
    BY <1>3, <2>2, BystandersOfUndo DEF Bystander, Owns, Launching, Allocated, Todo
  <2> QED
    BY <2>1, <2>2
<1> QED
  BY <1>1, <1>3, <1>5, <1>7, <1>8, OwnsStays

LEMMA OwnedEnd ==
  ASSUME Kinds, Kinds', Typed, Owned, NEW d \in Container, Start(d) \/ Exit(d) \/ Reap(d) \/ Crash(d),
         leftRules' = {}, NEW c \in Container, NEW r \in RulesOf(c)'
  PROVE  Owns(c, r)'
<1>0. /\ c \in Process /\ c # "gc" /\ d # "gc" /\ "gc" \in Process /\ script = [q \in Process |-> script[q]]
      /\ phase = [q \in Process |-> phase[q]]
  BY ProcessIs DEF Kinds
<1>1. /\ leftRules = {} /\ ip' = ip /\ lease' = lease /\ fw' = fw
      /\ UNCHANGED script \/ \E s : script' = [script EXCEPT ![d] = s]
  BY DEF Start, Exit, Reap, Crash, Continue, recVars, procVars, netVars, fwVars, hist
<1>2. r \in BagToSet(fw.rules) /\ r.tag = c
  BY <1>1 DEF RulesOf
<1>3. Owns(c, r)
  BY <1>1, <1>2 DEF Owned, RulesOf
<1>4. Covered(script'["gc"], r)
  <2>1. script'["gc"] = script["gc"]
    BY <1>0, <1>1
  <2> QED
    BY <1>0, <1>3, <2>1 DEF Owns
<1>5. ASSUME phase'[c] # "idle", Launching(c)' => Allocated(c)', Covered(script'[c], r)
      PROVE  Owns(c, r)'
  <2>1. \A p \in Process : Covered(script'[p], r)
    BY <1>2, <1>4, <1>5, CoveredEverywhere
  <2> QED
    BY <1>1, <1>3, <1>5, <2>1, OwnsStays
<1>6. CASE c # d
  <2>1. Bystander(c)
    BY <1>6, BystandersOfEnd
  <2> QED
    BY <1>0, <1>3, <1>5, <2>1 DEF Bystander, Owns, Launching, Allocated, Todo
<1>7. CASE c = d /\ Start(d)
  BY <1>3, <1>7 DEF Start, Owns
<1>8. CASE c = d /\ Exit(d)
  <2>1. phase' = phase /\ script' = script
    BY <1>8 DEF Exit, procVars
  <2> QED
    BY <1>0, <1>3, <1>5, <2>1 DEF Owns, Launching, Allocated, Todo
<1>9. CASE c = d /\ Reap(d)
  <2>1. phase'[c] = "teardown" /\ script'[c] = teardown(c)
    BY <1>0, <1>9 DEF Reap
  <2>2. Covered(teardown(c), r)
    <3>1. <<>> \in Seq(Item)
      OBVIOUS
    <3> QED
      BY <1>2, <3>1, TeardownCovers
  <2> QED
    BY <1>5, <2>1, <2>2 DEF Launching
<1>10. CASE c = d /\ Crash(d)
  <2>1. HasRules(c)
    BY <1>2 DEF HasRules
  <2>2. status[c] = "Running"
    BY <1>10, <2>1 DEF Crash
  <2>3. phase'[c] = "ended"
    BY <1>0, <1>10, <2>2 DEF Crash
  <2>4. Fits(c, phase'[c], script'[c], undo'[c])
    BY <1>0 DEF Kinds
  <2>5. Covered(script'[c], r)
    BY <1>0, <1>2, <2>3, <2>4, CoveredElsewhere
  <2> QED
    BY <1>5, <2>3, <2>5 DEF Launching
<1> QED
  BY <1>6, <1>7, <1>8, <1>9, <1>10

LEMMA OwnedGc ==
  ASSUME Kinds, Kinds', Typed, Owned, GcStep \/ StartGc, leftRules' = {},
         NEW c \in Container, NEW r \in RulesOf(c)'
  PROVE  Owns(c, r)'
<1>0. /\ c \in Process /\ c # "gc" /\ "gc" \in Process /\ script = [q \in Process |-> script[q]]
      /\ script["gc"] \in Seq(Item) /\ script'["gc"] \in Seq(Item)
  BY ProcessIs DEF Kinds, Fits
<1>1. Bystander(c) /\ fw' = fw
  BY BystandersOfGc
<1>2. leftRules = {}
  BY DEF GcStep, Scan, TeardownDead, gc_empty, IpamGc, orphaned_veths, BridgeUsed, BridgeLinks, DeleteBridge,
     CountBaseRules, StartGc, hist
<1>3. r \in BagToSet(fw.rules) /\ r.tag = c
  BY <1>1 DEF RulesOf
<1>4. Owns(c, r) /\ Covered(script["gc"], r)
  BY <1>0, <1>2, <1>3 DEF Owned, RulesOf, Owns
<1>5. lease'[c] = lease[c]
  <2>1. CASE IpamGc
    <3>1. HasRules(c)
      BY <1>3 DEF HasRules
    <3>2. c \in live
      BY <2>1, <3>1 DEF IpamGc
    <3> QED
      BY <2>1, <3>2 DEF IpamGc
  <2>2. CASE ~IpamGc
    BY <2>2 DEF GcStep, Scan, TeardownDead, gc_empty, orphaned_veths, BridgeUsed, BridgeLinks, DeleteBridge,
       CountBaseRules, StartGc, netVars
  <2> QED
    BY <2>1, <2>2
<1>6. ASSUME <<"release", c>> \notin ToSet(script'["gc"]) PROVE Covered(script'["gc"], r)
  BY <1>0, <1>3, <1>6, CoveredNone
<1>7. Covered(script'["gc"], r)
  <2>1. CASE Scan
    BY <1>6, <2>1, ScanIs DEF GcOps
  <2>2. CASE orphaned_veths
    <3>1. ~OfBase(<<"release", c>>)
      BY DEF OfBase, OfCleanup, BaseOps
    <3> QED
      BY <1>6, <2>2, <3>1, OrphansAre
  <2>3. CASE CountBaseRules
    <3>1. script'["gc"] = <<>> \/ script'["gc"] = teardown_base
      BY <1>0, <2>3 DEF CountBaseRules, Continue
    <3>2. ToSet(<<>>) = {} /\ \A x \in ToSet(teardown_base) : OfBase(x)
      BY BaseTeardownIs DEF ToSet
    <3>3. ~OfBase(<<"release", c>>)
      BY DEF OfBase, OfCleanup, BaseOps
    <3> QED
      BY <1>6, <3>1, <3>2, <3>3
  <2>4. CASE StartGc
    <3>1. script'["gc"] = <<<<"scan", 0>>>>
      BY <1>0, <2>4 DEF StartGc
    <3>2. <<"release", c>> \notin ToSet(script'["gc"])
      BY <3>1 DEF ToSet
    <3> QED
      BY <1>6, <3>2
  <2> DEFINE t == Tail(script["gc"])
  <2>5. CASE TeardownDead
    <3> DEFINE d == Arg("gc")
    <3>1. script["gc"] # <<>> /\ script'["gc"] = teardown(d) \o t /\ Head(script["gc"])[1] = "teardown"
      BY <1>0, <2>5 DEF TeardownDead, At, Continue
    <3>2. d \in Container
      <4>1. OfGc(Head(script["gc"]))
        BY <2>5, GcItem DEF TeardownDead
      <4> QED
        BY <3>1, <4>1 DEF OfGc, OfBase, OfUndo, OfCleanup, Arg, BaseOps, GcOps, UndoOps
    <3>3. t \in Seq(Item) /\ teardown(d) \in Seq(Item)
      BY <1>0, <3>1, <3>2, HeadIs, TeardownIs
    <3>4. CASE d = c
      BY <1>3, <3>1, <3>3, <3>4, TeardownCovers
    <3>5. CASE d # c
      <4>1. ~OfUndo(d, <<"release", c>>)
        BY <3>5 DEF OfUndo, OfCleanup
      <4>2. <<"release", r.tag>> \notin ToSet(teardown(d))
        BY <1>3, <3>2, <4>1, TeardownIs
      <4>3. ~Covers(Head(script["gc"]), r)
        BY <3>1 DEF Covers
      <4> QED
        BY <1>0, <1>4, <3>1, <3>3, <4>2, <4>3, CoveredNext
    <3> QED
      BY <3>4, <3>5
  <2>6. CASE gc_empty \/ IpamGc \/ BridgeUsed \/ DeleteBridge \/ BridgeLinks
    <3>1. /\ script["gc"] # <<>> /\ Head(script["gc"])[1] \notin {"list", "delete"}
      BY <2>6 DEF gc_empty, IpamGc, BridgeUsed, DeleteBridge, BridgeLinks, At
    <3>2. script'["gc"] = t \/ script'["gc"] = <<<<"delete_bridge", 0>>>> \o t
      BY <1>0, <2>6 DEF gc_empty, IpamGc, BridgeUsed, DeleteBridge, BridgeLinks, Done, Continue
    <3>3. ~Covers(Head(script["gc"]), r)
      BY <3>1 DEF Covers
    <3>4. CASE script'["gc"] = t
      BY <1>0, <1>4, <3>1, <3>3, <3>4, CoveredTail
    <3>5. CASE script'["gc"] = <<<<"delete_bridge", 0>>>> \o t
      <4> DEFINE b == <<<<"delete_bridge", 0>>>>
      <4>1. b \in Seq(Item) /\ <<"release", r.tag>> \notin ToSet(b)
        BY GcItemsAre DEF ToSet
      <4>2. script'["gc"] = b \o t
        BY <3>5
      <4> HIDE DEF b
      <4> QED
        BY <1>0, <1>4, <3>1, <3>3, <4>1, <4>2, CoveredNext
    <3> QED
      BY <3>2, <3>4, <3>5
  <2> QED
    BY <2>1, <2>2, <2>3, <2>4, <2>5, <2>6 DEF GcStep
<1>8. \A p \in Process : Covered(script'[p], r)
  BY <1>0, <1>1, <1>3, <1>4, <1>7, CoveredEverywhere DEF Owns, Bystander
<1> QED
  BY <1>1, <1>4, <1>5, <1>8, OwnsStays DEF Owns, Bystander, Launching, Allocated, Todo

LEMMA OwnedNext ==
  ASSUME Kinds, Kinds', Filter, Typed, Aware, Provided, Orderly, \A c \in Container : Publishing(c), Owned,
         [Next]_vars
  PROVE  Owned'
<1> SUFFICES ASSUME leftRules' = {}, NEW c \in Container, NEW r \in RulesOf(c)' PROVE Owns(c, r)'
  BY DEF Owned
<1>1. ASSUME NEW d \in Container, LaunchStep(d) \/ CallFails(d) PROVE Owns(c, r)'
  BY <1>1, OwnedLaunch
<1>2. ASSUME NEW d \in Container, Start(d) \/ Exit(d) \/ Reap(d) \/ Crash(d) PROVE Owns(c, r)'
  BY <1>2, OwnedEnd
<1>3. ASSUME NEW p \in Process, UndoStep(p) PROVE Owns(c, r)'
  BY <1>3, OwnedUndo
<1>4. CASE GcStep \/ StartGc
  BY <1>4, OwnedGc
<1>5. CASE UNCHANGED vars
  <2>1. /\ UNCHANGED <<leftRules, fw, ip, lease, phase, script>>
    BY <1>5 DEF vars, procVars, recVars, netVars, fwVars, hist
  <2>2. leftRules = {} /\ r \in RulesOf(c)
    BY <2>1 DEF RulesOf
  <2>3. Owns(c, r)
    BY <2>2 DEF Owned
  <2> QED
    BY <2>1, <2>3 DEF Owns, Launching, Allocated, Todo
<1> QED
  BY <1>1, <1>2, <1>3, <1>4, <1>5 DEF Next

(* The inductive invariant of the published ports.                         *)
Homing == Orderly /\ Apart /\ Owned /\ \A c \in Container : Publishing(c)

LEMMA HomingLeads ==
  ASSUME \A c, d \in Container : Port[c] = Port[d] => c = d, Inv, Homing
  PROVE  PortLeadsHomeUnlessLeft
<1> SUFFICES ASSUME leftRules = {}, NEW c \in Container, Up(c)
             PROVE  /\ \E i \in DOMAIN fw.dnat :
                         /\ Port[fw.dnat[i].tag] = Port[c] /\ fw.dnat[i].about = ip[c]
                         /\ \A j \in 1 .. i - 1 : Port[fw.dnat[j].tag] # Port[c]
                    /\ \A r \in ToSet(fw.dnat) : r.about = ip[c] => r.tag = c
  BY DEF PortLeadsHomeUnlessLeft, PortLeadsHome
<1> DEFINE s == fw.dnat
           h == Rule("MYRUN-PRE", "DNAT", c, ip[c])
<1>1. /\ s \in Seq(RuleSet) /\ \A i, j \in 1 .. Len(s) : s[i] = s[j] => i = j
      /\ ToSet(s) = {r \in BagToSet(fw.rules) : r.to = "DNAT"}
      /\ \A r \in BagToSet(fw.rules) : r.to = "DNAT" => r.tag \in Container
  BY DEF Homing, Orderly
<1>2. lease[c] = ip[c] /\ ToSet(PublishRules(c, ip[c])) \subseteq BagToSet(fw.rules)
  BY InvReachable DEF RunningReachable
<1>3. h \in ToSet(s) /\ h.tag = c /\ h.about = ip[c]
  <2>1. h \in ToSet(PublishRules(c, ip[c]))
    BY DEF PublishRules, ToSet
  <2>2. h.to = "DNAT" /\ h.tag = c /\ h.about = ip[c]
    BY DEF Rule
  <2> HIDE DEF h
  <2> QED
    BY <1>1, <1>2, <2>1, <2>2
<1>4. ASSUME NEW r \in ToSet(s)
      PROVE  r.tag \in Container /\ Owns(r.tag, r) /\ r = Rule("MYRUN-PRE", "DNAT", r.tag, ip[r.tag])
  <2> DEFINE d == r.tag
  <2>1. r \in BagToSet(fw.rules) /\ r.to = "DNAT" /\ d \in Container
    BY <1>1, <1>4
  <2>2. Owns(d, r)
    BY <2>1 DEF Homing, Owned, RulesOf
  <2>3. r \in {Rule("MYRUN-PRE", "DNAT", d, ip[d]), Rule("MYRUN-POST", "MASQUERADE", d, ip[d]),
               Rule("MYRUN-FWD", "ACCEPT", d, ip[d])}
    BY <2>2 DEF Owns, PublishRules, ToSet
  <2>4. r = Rule("MYRUN-PRE", "DNAT", d, ip[d])
    BY <2>1, <2>3 DEF Rule
  <2> QED
    BY <2>1, <2>2, <2>4
<1>5. ASSUME NEW r \in ToSet(s), r.about = ip[c] PROVE r.tag = c
  <2>1. r.tag \in Container /\ Owns(r.tag, r) /\ r.about = ip[r.tag]
    BY <1>4, <1>5 DEF Rule
  <2>2. lease[r.tag] = ip[r.tag] /\ ip[r.tag] # 0
    BY <2>1 DEF Owns
  <2> QED
    BY <1>2, <1>5, <2>1, <2>2 DEF Homing, Apart
<1> HIDE DEF s
<1>6. PICK i \in DOMAIN s : s[i] = h
  BY <1>3 DEF ToSet
<1>7. Len(s) \in Nat /\ DOMAIN s = 1 .. Len(s)
  BY <1>1, LenProperties
<1>8. ASSUME NEW j \in 1 .. i - 1, Port[s[j].tag] = Port[c] PROVE FALSE
  <2>1. j \in 1 .. Len(s) /\ i \in 1 .. Len(s) /\ j # i
    BY <1>6, <1>7, <1>8
  <2>2. s[j] \in ToSet(s)
    BY <1>7, <2>1 DEF ToSet
  <2>3. s[j].tag = c
    BY <1>4, <1>8, <2>2
  <2>4. s[j] = h
    BY <1>4, <2>2, <2>3
  <2> QED
    BY <1>1, <1>6, <2>1, <2>4
<1>9. /\ i \in DOMAIN s /\ Port[s[i].tag] = Port[c] /\ s[i].about = ip[c]
      /\ \A j \in 1 .. i - 1 : Port[s[j].tag] # Port[c]
  <2>1. s[i].tag = c /\ s[i].about = ip[c]
    BY <1>3, <1>6
  <2> QED
    BY <1>6, <1>8, <2>1
<1> QED
  BY <1>5, <1>9 DEF s

LEMMA HomingInit ==
  ASSUME Init
  PROVE  Homing
<1>2. /\ fw = Untouched /\ \A p \in Process : phase[p] = "idle" /\ undo[p] = <<>>
      /\ \A c \in Container : lease[c] = 0
  BY DEF Init
<1>3. fw.dnat = <<>> /\ fw.rules = EmptyBag
  BY <1>2 DEF Untouched
<1>4. BagToSet(fw.rules) = {} /\ ToSet(fw.dnat) = {}
  BY <1>3 DEF BagToSet, EmptyBag, SetToBag, ToSet
<1>5. Orderly
  BY <1>3, <1>4 DEF Orderly
<1>6. Apart /\ Owned
  BY <1>2, <1>4 DEF Apart, Owned, RulesOf
<1>7. \A c \in Container : Publishing(c)
  BY <1>2, ProcessIs DEF Publishing, Launching
<1> QED
  BY <1>5, <1>6, <1>7 DEF Homing

LEMMA HomingNext ==
  ASSUME GcRaces = FALSE, Inv, Homing, [Next]_vars
  PROVE  Homing'
<1>1. Kinds /\ Filter /\ Typed /\ Recorded /\ Aware /\ Provided
  BY DEF Inv
<1>2. Orderly /\ Apart /\ Owned /\ \A c \in Container : Publishing(c)
  BY DEF Homing
<1>3. Inv'
  BY InvNext
<1>4. Orderly' /\ Apart'
  BY <1>1, <1>2, OrderlyNext, ApartNext
<1>5. Owned'
  BY <1>1, <1>2, <1>3, OwnedNext DEF Inv
<1>6. \A c \in Container : Publishing(c)'
  BY <1>1, <1>2, PublishingNext
<1> QED
  BY <1>4, <1>5, <1>6 DEF Homing

(* The first DNAT rule for the port of a running container leads to it and *)
(* no rule of another container does: whichever launches fail and are      *)
(* rolled back, supervisors are killed and gc collects, an address is      *)
(* given away again only when the rules for it are gone, as long as nobody *)
(* ended short of removing its rules and gc freed no address of a          *)
(* container still being torn down, no two containers publish one port     *)
(* (Host_same_port.cfg) and gc does not overlap with a launch.             *)
THEOREM PortsLeadHome ==
  ASSUME GcRaces = FALSE, \A c, d \in Container : Port[c] = Port[d] => c = d
  PROVE  Spec => []PortLeadsHomeUnlessLeft
<1>1. Init => Inv /\ Homing
  BY InvInit, HomingInit
<1>2. Inv /\ Homing /\ [Next]_vars => Inv' /\ Homing'
  BY InvNext, HomingNext
<1>3. Inv /\ Homing => PortLeadsHomeUnlessLeft
  BY HomingLeads
<1> QED
  BY <1>1, <1>2, <1>3, PTL DEF Spec

-----------------------------------------------------------------------------
(* gc leaves the host clean.                                               *)

(* The copies of the rules that are there.                                 *)
LEMMA CopiesAre ==
  ASSUME Filter
  PROVE  /\ BagToSet(fw.rules) = DOMAIN fw.rules
         /\ \A r \in BagToSet(fw.rules) : fw.rules[r] \in Nat \ {0} /\ r \in RuleSet
  BY DEF Filter, BagToSet, IsABag

(* A rule is in a chain of myrun or jumps to one, and that chain exists;   *)
(* only the guard is not.  Nothing but the jumps leads to a chain.         *)
Linking(r) == (r = Guard \/ {r.chain, r.to} \cap Chain # {}) /\ (r.to \in Chain => r \in ToSet(Jumps))

Chained ==
  \A r \in BagToSet(fw.rules) : Linking(r) /\ {r.chain, r.to} \cap Chain \subseteq fw.chains

(* No jump is there twice, and how often the guard is.                     *)
Once == \A r \in BagToSet(fw.rules) : r \in ToSet(Jumps) => fw.rules[r] = 1

Guards == IF BagIn(Guard, fw.rules) THEN fw.rules[Guard] ELSE 0

LEMMA GuardsAre ==
  ASSUME Filter
  PROVE  /\ Guards \in Nat /\ (Guards = 0 <=> Guard \notin BagToSet(fw.rules))
         /\ Guard \in BagToSet(fw.rules) => Guards = fw.rules[Guard]
  BY CopiesAre DEF Guards, BagIn

LEMMA GuardsCount == Filter => Guards \in Nat
  BY GuardsAre

LEMMA AddedOnce ==
  ASSUME Filter, Once, NEW r \in RuleSet, r \in ToSet(Jumps) => r \notin BagToSet(fw.rules), fw' = Add(fw, r)
  PROVE  Once'
<1> DEFINE B == fw.rules
           C == fw'.rules
           J == ToSet(Jumps)
<1>1. /\ IsABag(B) /\ C = B (+) SetToBag({r}) /\ (r \in J => r \notin DOMAIN B)
      /\ \A s \in DOMAIN B : s \in J => B[s] = 1
  BY DEF Filter, Add, BagToSet, Once
<1> HIDE DEF B, C, J
<1>2. \A s \in DOMAIN C : s \in J => C[s] = 1
  BY <1>1 DEF IsABag, SetToBag, (+)
<1> QED
  BY <1>2 DEF Once, BagToSet, C, J

LEMMA DeletedOnce ==
  ASSUME Filter, NEW r \in RuleSet, fw' = Delete(fw, r)
  PROVE  /\ BagToSet(fw'.rules) \subseteq BagToSet(fw.rules)
         /\ Once => Once' /\ (r \in ToSet(Jumps) => r \notin BagToSet(fw'.rules))
         /\ r # Guard => Guards' = Guards
         /\ r = Guard => Guards' = IF Guards = 0 THEN 0 ELSE Guards - 1
<1> DEFINE B == fw.rules
           C == fw'.rules
           J == ToSet(Jumps)
           G == Guard
<1>1. IsABag(B) /\ C = B (-) SetToBag({r}) /\ (Once => \A s \in DOMAIN B : s \in J => B[s] = 1)
  BY DEF Filter, Delete, BagToSet, Once
<1> HIDE DEF B, C, J, G
<1>2. \A s \in DOMAIN B : B[s] \in Nat \ {0}
  BY <1>1 DEF IsABag
<1>3. /\ DOMAIN C = {s \in DOMAIN B : s = r => B[s] > 1}
      /\ \A s \in DOMAIN C : C[s] = IF s = r THEN B[s] - 1 ELSE B[s]
  BY <1>1, <1>2 DEF IsABag, SetToBag, (-)
<1>4. Once => (\A s \in DOMAIN C : s \in J => C[s] = 1) /\ (r \in J => r \notin DOMAIN C)
  BY <1>1, <1>2, <1>3
<1>5. Guards = IF G \in DOMAIN B THEN B[G] ELSE 0
  BY DEF Guards, BagIn, BagToSet, B, G
<1>6. Guards' = IF G \in DOMAIN C THEN C[G] ELSE 0
  BY DEF Guards, BagIn, BagToSet, C, G, Guard
<1>7. r # G => Guards' = Guards
  BY <1>3, <1>5, <1>6
<1>8. r = G => Guards' = IF Guards = 0 THEN 0 ELSE Guards - 1
  BY <1>2, <1>3, <1>5, <1>6
<1>9. Once => Once' /\ (r \in ToSet(Jumps) => r \notin BagToSet(fw'.rules))
  BY <1>4 DEF Once, BagToSet, C, J
<1>10. BagToSet(fw'.rules) \subseteq BagToSet(fw.rules)
  BY <1>3 DEF BagToSet, B, C
<1> QED
  BY <1>7, <1>8, <1>9, <1>10 DEF G

LEMMA FlushedOnce ==
  ASSUME Filter, NEW n \in Chain, fw' = Flush(fw, n)
  PROVE  /\ Once => Once'
         /\ BagToSet(fw'.rules) = {r \in BagToSet(fw.rules) : r.chain # n}
         /\ Guards' = Guards
<1>1. fw'.rules = [r \in {t \in DOMAIN fw.rules : t.chain # n} |-> fw.rules[r]]
  BY DEF Flush, Filter
<1>2. Guard.chain # n /\ Guard' = Guard
  BY DEF Guard, Rule, Chain
<1>3. Guards' = Guards
  BY <1>1, <1>2 DEF Guards, BagIn, BagToSet
<1> QED
  BY <1>1, <1>3 DEF BagToSet, Once

-----------------------------------------------------------------------------
(* The end of gc: what is left of the packet filter goes.                  *)

(* An item after which r is gone, if jumps are there once.                 *)
Clears(x, r) == (r \in ToSet(Jumps) /\ x = <<"delete", r>>) \/ x = <<"flush", r.chain>>

(* The script removes the chains C, each after the rules of R in it and    *)
(* the jumps to it.                                                        *)
Ends(C, R, s) ==
  \A n \in C : \E j \in 1 .. Len(s) :
    /\ s[j] = <<"drop", n>>
    /\ \A r \in R : n \in {r.chain, r.to} => \E i \in 1 .. j - 1 : Clears(s[i], r)

(* An item that is only about the packet filter.                           *)
Removal(x) == OfBase(x) /\ x[1] \notin BaseOps

LEMMA EndsFewer ==
  ASSUME NEW C, NEW R, NEW D \in SUBSET C, NEW Q \in SUBSET R, NEW s, Ends(C, R, s)
  PROVE  Ends(D, Q, s)
  BY DEF Ends

(* The first item is done, and perhaps replaced by others.                 *)
LEMMA EndsNext ==
  ASSUME NEW s \in Seq(Item), s # <<>>, NEW t \in Seq(Item),
         NEW C, NEW R, NEW D \in SUBSET C, NEW Q \in SUBSET R, Ends(C, R, s),
         \A r \in Q : ~Clears(Head(s), r),
         \A n \in D : Head(s) = <<"drop", n>> => \E r \in R : n \in {r.chain, r.to}
  PROVE  Ends(D, Q, t \o Tail(s))
<1> DEFINE u == Tail(s)
           w == t \o u
           m == Len(t)
<1>1. /\ Len(s) \in Nat /\ Len(s) > 0 /\ Head(s) = s[1] /\ u \in Seq(Item) /\ Len(u) = Len(s) - 1
      /\ \A i \in 1 .. Len(u) : u[i] = s[i + 1]
  BY HeadTailProperties, LenProperties, EmptySeq
<1>2. m \in Nat
  BY LenProperties
<1> HIDE DEF u
<1>3. Len(w) = m + Len(u) /\ \A i \in 1 .. m + Len(u) : w[i] = IF i <= m THEN t[i] ELSE u[i - m]
  BY <1>1, ConcatProperties
<1> HIDE DEF w, m
<1>4. ASSUME NEW i \in 1 .. Len(s), i # 1
      PROVE  (i - 1) + m \in 1 .. Len(w) /\ w[(i - 1) + m] = s[i]
  <2>1. i - 1 \in 1 .. Len(u) /\ (i - 1) + 1 = i /\ u[i - 1] = s[i]
    BY <1>1, <1>4
  <2>2. /\ (i - 1) + m \in 1 .. m + Len(u) /\ ~((i - 1) + m <= m) /\ ((i - 1) + m) - m = i - 1
    BY <1>1, <1>2, <2>1
  <2> QED
    BY <1>3, <2>1, <2>2
<1>5. ASSUME NEW n \in D
      PROVE  \E j \in 1 .. Len(w) :
               /\ w[j] = <<"drop", n>>
               /\ \A r \in Q : n \in {r.chain, r.to} => \E i \in 1 .. j - 1 : Clears(w[i], r)
  <2>1. PICK j \in 1 .. Len(s) :
          /\ s[j] = <<"drop", n>>
          /\ \A r \in R : n \in {r.chain, r.to} => \E i \in 1 .. j - 1 : Clears(s[i], r)
    BY <1>5 DEF Ends
  <2>2. j # 1
    BY <1>1, <1>5, <2>1
  <2>3. ASSUME NEW r \in Q, n \in {r.chain, r.to}
        PROVE  \E i \in 1 .. ((j - 1) + m) - 1 : Clears(w[i], r)
    <3>1. PICK i \in 1 .. j - 1 : Clears(s[i], r)
      BY <2>1, <2>3
    <3>2. i \in 1 .. Len(s) /\ i # 1
      BY <1>1, <2>1, <2>3, <3>1
    <3>3. (i - 1) + m \in 1 .. ((j - 1) + m) - 1
      BY <1>2, <3>1, <3>2
    <3> QED
      BY <1>4, <3>1, <3>2, <3>3
  <2>4. (j - 1) + m \in 1 .. Len(w) /\ w[(j - 1) + m] = <<"drop", n>>
    BY <1>4, <2>1, <2>2
  <2> QED
    BY <2>3, <2>4
<1> QED
  BY <1>5 DEF Ends, w, u

LEMMA EndsDone ==
  ASSUME NEW s \in Seq(Item), s # <<>>,
         NEW C, NEW R, NEW D \in SUBSET C, NEW Q \in SUBSET R, Ends(C, R, s),
         \A r \in Q : ~Clears(Head(s), r),
         \A n \in D : Head(s) = <<"drop", n>> => \E r \in R : n \in {r.chain, r.to}
  PROVE  Ends(D, Q, Tail(s))
<1>1. <<>> \in Seq(Item)
  OBVIOUS
<1>2. <<>> \o Tail(s) = Tail(s)
  BY HeadTailProperties, ConcatEmptySeq
<1> QED
  BY <1>1, <1>2, EndsNext

(* Jumps are the only rules that lead to a chain of myrun.                 *)
LEMMA BaseEnds ==
  ASSUME NEW C \in SUBSET Chain, NEW R, \A r \in R : r.to \in Chain => r \in ToSet(Jumps)
  PROVE  Ends(C, R, teardown_base) /\ \A x \in ToSet(teardown_base) : Removal(x)
<1> DEFINE j1 == Rule("PREROUTING", "MYRUN-PRE", "none", 0)
           j2 == Rule("POSTROUTING", "MYRUN-POST", "none", 0)
           j3 == Rule("FORWARD", "MYRUN-FWD", "none", 0)
           d  == <<Guard>> \o Jumps
           e  == <<<<"flush", "MYRUN-PRE">>, <<"drop", "MYRUN-PRE">>,
                   <<"flush", "MYRUN-POST">>, <<"drop", "MYRUN-POST">>,
                   <<"flush", "MYRUN-FWD">>, <<"drop", "MYRUN-FWD">>>>
           l  == cleanup("base")
           g  == Each("delete", d)
           s  == teardown_base
<1>1. /\ Jumps = <<j1, j2, j3>> /\ ToSet(Jumps) = {j1, j2, j3}
      /\ j1.to = "MYRUN-PRE" /\ j2.to = "MYRUN-POST" /\ j3.to = "MYRUN-FWD"
  BY DEF Jumps, Rule, ToSet
<1> HIDE DEF j1, j2, j3
<1>2. /\ d \in Seq(RuleSet) /\ d \in Seq(Args) /\ Len(d) = 4
      /\ d[1] = Guard /\ d[2] = j1 /\ d[3] = j2 /\ d[4] = j3
  <2> DEFINE b == <<Guard>>
  <2>1. Jumps \in Seq(RuleSet) /\ b \in Seq(RuleSet) /\ Len(b) = 1 /\ b[1] = Guard /\ Len(Jumps) = 3
        /\ Jumps[1] = j1 /\ Jumps[2] = j2 /\ Jumps[3] = j3
    BY <1>1, SharedRulesAre
  <2> HIDE DEF b
  <2>2. /\ b \o Jumps \in Seq(RuleSet) /\ Len(b \o Jumps) = Len(b) + Len(Jumps)
        /\ \A i \in 1 .. Len(b) + Len(Jumps) :
             (b \o Jumps)[i] = IF i <= Len(b) THEN b[i] ELSE Jumps[i - Len(b)]
    BY <2>1, ConcatProperties
  <2>3. d = b \o Jumps
    BY DEF b
  <2> HIDE DEF d
  <2>4. d \in Seq(RuleSet) /\ Len(d) = 4 /\ \A i \in 1 .. 4 : d[i] = IF i <= 1 THEN b[i] ELSE Jumps[i - 1]
    BY <2>1, <2>2, <2>3
  <2>5. d \in Seq(Args)
    BY <2>4, SeqMonotonic, ArgsAre
  <2> QED
    BY <2>1, <2>4, <2>5
<1>3. /\ g \in Seq(Item) /\ Len(g) = 4 /\ g[1] = <<"delete", Guard>> /\ g[2] = <<"delete", j1>>
      /\ g[3] = <<"delete", j2>> /\ g[4] = <<"delete", j3>>
  <2> HIDE DEF d
  <2>1. "delete" \in Ops
    BY OpsAre DEF RuleOps
  <2> QED
    BY <1>2, <2>1, EachIs
<1>4. Len(l) = 1 /\ l[1][1] = "list" /\ l \in Seq(Item)
  BY CleanupIs DEF cleanup
<1>5. s = (l \o g) \o e
  BY DEF teardown_base
<1> HIDE DEF l, g, d
<1>6. /\ l \o g \in Seq(Item) /\ Len(l \o g) = 5
      /\ \A i \in 1 .. 5 : (l \o g)[i] = IF i <= 1 THEN l[i] ELSE g[i - 1]
  <2>1. /\ l \o g \in Seq(Item) /\ Len(l \o g) = Len(l) + Len(g)
        /\ \A i \in 1 .. Len(l) + Len(g) : (l \o g)[i] = IF i <= Len(l) THEN l[i] ELSE g[i - Len(l)]
    BY <1>3, <1>4, ConcatProperties
  <2> QED
    BY <1>3, <1>4, <2>1
<1>7. e \in Seq(Item) /\ Len(e) = 6
  <2>1. \A n \in Chain : <<"flush", n>> \in Item /\ <<"drop", n>> \in Item
    BY ItemsAre, OpsAre, ArgsAre DEF RuleOps
  <2>2. /\ "MYRUN-PRE" \in Chain /\ "MYRUN-POST" \in Chain /\ "MYRUN-FWD" \in Chain
    BY DEF Chain
  <2> QED
    BY <2>1, <2>2
<1> DEFINE p == l \o g
<1>8. Len(s) = 11 /\ \A i \in 1 .. 11 : s[i] = IF i <= 5 THEN p[i] ELSE e[i - 5]
  <2> HIDE DEF p, e, s
  <2>1. p \in Seq(Item) /\ e \in Seq(Item) /\ Len(p) = 5 /\ Len(e) = 6 /\ s = p \o e
    BY <1>5, <1>6, <1>7 DEF p
  <2>2. /\ Len(p \o e) = Len(p) + Len(e)
        /\ \A i \in 1 .. Len(p) + Len(e) : (p \o e)[i] = IF i <= Len(p) THEN p[i] ELSE e[i - Len(p)]
    BY <2>1, ConcatProperties
  <2>3. Len(p) + Len(e) = 11
    BY <2>1
  <2>4. \A i \in 1 .. 11 : s[i] = IF i <= Len(p) THEN p[i] ELSE e[i - Len(p)]
    BY <2>1, <2>2, <2>3
  <2> QED
    BY <2>1, <2>2, <2>3, <2>4
<1> HIDE DEF s
<1>13. /\ Len(s) = 11 /\ s[1] = l[1] /\ s[2] = <<"delete", Guard>> /\ s[3] = <<"delete", j1>>
       /\ s[4] = <<"delete", j2>> /\ s[5] = <<"delete", j3>>
  <2> HIDE DEF p, e
  <2>1. \A i \in 1 .. 5 : p[i] = IF i <= 1 THEN l[i] ELSE g[i - 1]
    BY <1>6 DEF p
  <2>2. \A i \in 1 .. 5 : i \in 1 .. 11 /\ s[i] = p[i]
    BY <1>8
  <2>3. \A i \in 1 .. 5 : s[i] = IF i <= 1 THEN l[i] ELSE g[i - 1]
    BY <2>1, <2>2
  <2> QED
    BY <1>3, <1>8, <2>3
<1>14. /\ s[6] = <<"flush", "MYRUN-PRE">> /\ s[7] = <<"drop", "MYRUN-PRE">>
       /\ s[8] = <<"flush", "MYRUN-POST">> /\ s[9] = <<"drop", "MYRUN-POST">>
       /\ s[10] = <<"flush", "MYRUN-FWD">> /\ s[11] = <<"drop", "MYRUN-FWD">>
  <2> HIDE DEF p
  <2>1. \A i \in 6 .. 11 : s[i] = e[i - 5]
    BY <1>8
  <2> QED
    BY <2>1
<1>9. ASSUME NEW n \in C
      PROVE  \E j \in 1 .. Len(s) :
               /\ s[j] = <<"drop", n>>
               /\ \A r \in R : n \in {r.chain, r.to} => \E i \in 1 .. j - 1 : Clears(s[i], r)
  <2>1. \A r \in R : r.to = n => r \in {j1, j2, j3}
    BY <1>1, <1>9
  <2>2. CASE n = "MYRUN-PRE"
    <3>1. \A r \in R : n \in {r.chain, r.to} => r.chain = n \/ r = j1
      BY <1>1, <2>1, <2>2
    <3>2. 7 \in 1 .. Len(s) /\ 6 \in 1 .. 7 - 1 /\ 3 \in 1 .. 7 - 1
      BY <1>13, <1>14
    <3> QED
      BY <1>1, <1>13, <1>14, <2>2, <3>1, <3>2 DEF Clears
  <2>3. CASE n = "MYRUN-POST"
    <3>1. \A r \in R : n \in {r.chain, r.to} => r.chain = n \/ r = j2
      BY <1>1, <2>1, <2>3
    <3>2. 9 \in 1 .. Len(s) /\ 8 \in 1 .. 9 - 1 /\ 4 \in 1 .. 9 - 1
      BY <1>13, <1>14
    <3> QED
      BY <1>1, <1>13, <1>14, <2>3, <3>1, <3>2 DEF Clears
  <2>4. CASE n = "MYRUN-FWD"
    <3>1. \A r \in R : n \in {r.chain, r.to} => r.chain = n \/ r = j3
      BY <1>1, <2>1, <2>4
    <3>2. 11 \in 1 .. Len(s) /\ 10 \in 1 .. 11 - 1 /\ 5 \in 1 .. 11 - 1
      BY <1>13, <1>14
    <3> QED
      BY <1>1, <1>13, <1>14, <2>4, <3>1, <3>2 DEF Clears
  <2> QED
    BY <1>9, <2>2, <2>3, <2>4 DEF Chain
<1>11. \A x \in ToSet(s) : x[1] \in {"list", "delete", "flush", "drop"}
  <2>1. s \in Seq(Item)
    BY BaseTeardownIs DEF s
  <2>2. ToSet(s) = {s[i] : i \in 1 .. 11}
    BY <1>13, <2>1, LenProperties DEF ToSet
  <2>3. \A i \in 1 .. 11 : s[i][1] \in {"list", "delete", "flush", "drop"}
    BY <1>4, <1>13, <1>14
  <2> QED
    BY <2>2, <2>3
<1>12. \A x \in ToSet(s) : Removal(x)
  BY <1>11, BaseTeardownIs DEF Removal, BaseOps, s
<1> QED
  BY <1>9, <1>12 DEF Ends, s

-----------------------------------------------------------------------------
(* The copies of the guard: each is listed, and what is listed is deleted. *)

(* x is at n places of the sequence s at least.                            *)
Holds(n, s, x) ==
  \E f \in [1 .. n -> 1 .. Len(s)] :
    (\A i \in 1 .. n : s[f[i]] = x) /\ \A i, j \in 1 .. n : f[i] = f[j] => i = j

LEMMA HoldsFewer ==
  ASSUME NEW n \in Nat, NEW m \in Nat, m <= n, NEW S, NEW s \in Seq(S), NEW x, Holds(n, s, x)
  PROVE  Holds(m, s, x)
<1>1. PICK f \in [1 .. n -> 1 .. Len(s)] :
        (\A i \in 1 .. n : s[f[i]] = x) /\ \A i, j \in 1 .. n : f[i] = f[j] => i = j
  BY DEF Holds
<1> DEFINE g == [i \in 1 .. m |-> f[i]]
<1>2. \A i \in 1 .. m : i \in 1 .. n /\ g[i] = f[i]
  OBVIOUS
<1>3. g \in [1 .. m -> 1 .. Len(s)]
  BY <1>2
<1> HIDE DEF g
<1>4. (\A i \in 1 .. m : s[g[i]] = x) /\ \A i, j \in 1 .. m : g[i] = g[j] => i = j
  BY <1>1, <1>2
<1> QED
  BY <1>3, <1>4 DEF Holds

LEMMA HoldsNone ==
  ASSUME NEW n \in Nat, NEW x, Holds(n, <<>>, x)
  PROVE  n = 0
<1>1. Len(<<>>) = 0
  OBVIOUS
<1>2. PICK f \in [1 .. n -> 1 .. 0] : TRUE
  BY <1>1 DEF Holds
<1>3. ASSUME n # 0 PROVE FALSE
  <2>1. 1 \in 1 .. n
    BY <1>3
  <2>2. f[1] \in 1 .. 0
    BY <1>2, <2>1
  <2> QED
    BY <2>2
<1> QED
  BY <1>3

(* After, and before, other items.                                         *)
LEMMA HoldsJoin ==
  ASSUME NEW S, NEW s \in Seq(S), NEW t \in Seq(S), NEW n \in Nat, NEW x
  PROVE  /\ Holds(n, s, x) => Holds(n, s \o t, x)
         /\ Holds(n, t, x) => Holds(n, s \o t, x)
<1> DEFINE w == s \o t
<1>1. Len(s) \in Nat /\ Len(t) \in Nat
  BY LenProperties
<1>2. Len(w) = Len(s) + Len(t) /\ \A i \in 1 .. Len(s) + Len(t) : w[i] = IF i <= Len(s) THEN s[i] ELSE t[i - Len(s)]
  BY ConcatProperties
<1> HIDE DEF w
<1>3. ASSUME Holds(n, s, x) PROVE Holds(n, w, x)
  <2>1. PICK f \in [1 .. n -> 1 .. Len(s)] :
          (\A i \in 1 .. n : s[f[i]] = x) /\ \A i, j \in 1 .. n : f[i] = f[j] => i = j
    BY <1>3 DEF Holds
  <2>2. \A k \in 1 .. Len(s) : k \in 1 .. Len(w) /\ w[k] = s[k]
    BY <1>1, <1>2
  <2>3. f \in [1 .. n -> 1 .. Len(w)] /\ \A i \in 1 .. n : w[f[i]] = x
    BY <2>1, <2>2
  <2> QED
    BY <2>1, <2>3 DEF Holds
<1>4. ASSUME Holds(n, t, x) PROVE Holds(n, w, x)
  <2>1. PICK f \in [1 .. n -> 1 .. Len(t)] :
          (\A i \in 1 .. n : t[f[i]] = x) /\ \A i, j \in 1 .. n : f[i] = f[j] => i = j
    BY <1>4 DEF Holds
  <2> DEFINE g == [i \in 1 .. n |-> f[i] + Len(s)]
  <2>2. \A k \in 1 .. Len(t) : k + Len(s) \in 1 .. Len(w) /\ w[k + Len(s)] = t[k]
    <3> SUFFICES ASSUME NEW k \in 1 .. Len(t) PROVE k + Len(s) \in 1 .. Len(w) /\ w[k + Len(s)] = t[k]
      OBVIOUS
    <3>1. k + Len(s) \in 1 .. Len(s) + Len(t) /\ ~(k + Len(s) <= Len(s)) /\ (k + Len(s)) - Len(s) = k
      BY <1>1
    <3> QED
      BY <1>2, <3>1
  <2>3. \A i \in 1 .. n : f[i] \in 1 .. Len(t) /\ g[i] = f[i] + Len(s)
    BY <2>1
  <2>4. g \in [1 .. n -> 1 .. Len(w)]
    BY <2>2, <2>3
  <2> HIDE DEF g
  <2>5. \A i \in 1 .. n : w[g[i]] = x
    BY <2>1, <2>2, <2>3
  <2>6. \A i, j \in 1 .. n : g[i] = g[j] => i = j
    BY <1>1, <2>1, <2>3
  <2> QED
    BY <2>4, <2>5, <2>6 DEF Holds
<1> QED
  BY <1>3, <1>4 DEF w

(* The first item is done: one place fewer, if it was one.                 *)
LEMMA HoldsTail ==
  ASSUME NEW S, NEW s \in Seq(S), s # <<>>, NEW n \in Nat, NEW x, Holds(n, s, x)
  PROVE  /\ Head(s) # x => Holds(n, Tail(s), x)
         /\ n # 0 => Holds(n - 1, Tail(s), x)
<1> DEFINE t == Tail(s)
<1>1. /\ Len(s) \in Nat \ {0} /\ Head(s) = s[1] /\ Len(t) = Len(s) - 1
      /\ \A i \in 1 .. Len(t) : t[i] = s[i + 1]
  BY HeadTailProperties, LenProperties, EmptySeq
<1> HIDE DEF t
<1>2. PICK f \in [1 .. n -> 1 .. Len(s)] :
        (\A i \in 1 .. n : s[f[i]] = x) /\ \A i, j \in 1 .. n : f[i] = f[j] => i = j
  BY DEF Holds
<1>3. \A k \in 1 .. Len(s) : k # 1 => k - 1 \in 1 .. Len(t) /\ t[k - 1] = s[k]
  <2> SUFFICES ASSUME NEW k \in 1 .. Len(s), k # 1 PROVE k - 1 \in 1 .. Len(t) /\ t[k - 1] = s[k]
    OBVIOUS
  <2>1. k - 1 \in 1 .. Len(t) /\ (k - 1) + 1 = k
    BY <1>1
  <2> QED
    BY <1>1, <2>1
<1>4. ASSUME NEW m \in Nat, NEW h \in [1 .. m -> 1 .. Len(s)], \A i \in 1 .. m : h[i] # 1 /\ s[h[i]] = x,
             \A i, j \in 1 .. m : h[i] = h[j] => i = j
      PROVE  Holds(m, t, x)
  <2> DEFINE g == [i \in 1 .. m |-> h[i] - 1]
  <2>1. \A i \in 1 .. m : h[i] \in 1 .. Len(s) /\ h[i] # 1 /\ g[i] = h[i] - 1
    BY <1>4
  <2>2. g \in [1 .. m -> 1 .. Len(t)]
    BY <1>3, <2>1
  <2> HIDE DEF g
  <2>3. \A i \in 1 .. m : t[g[i]] = x
    BY <1>3, <1>4, <2>1
  <2>4. \A i, j \in 1 .. m : g[i] = g[j] => i = j
    BY <1>1, <1>4, <2>1
  <2> QED
    BY <2>2, <2>3, <2>4 DEF Holds
<1>5. ASSUME Head(s) # x PROVE Holds(n, t, x)
  <2>1. \A i \in 1 .. n : f[i] # 1
    BY <1>1, <1>2, <1>5
  <2> QED
    BY <1>2, <1>4, <2>1
<1>6. ASSUME n # 0 PROVE Holds(n - 1, t, x)
  <2> DEFINE m == n - 1
             h == [i \in 1 .. m |-> IF f[i] = 1 THEN f[n] ELSE f[i]]
  <2>1. m \in Nat /\ n \in 1 .. n /\ \A i \in 1 .. m : i \in 1 .. n /\ i # n
    BY <1>6
  <2> HIDE DEF m
  <2>2. \A i \in 1 .. m : h[i] = IF f[i] = 1 THEN f[n] ELSE f[i]
    OBVIOUS
  <2>3. h \in [1 .. m -> 1 .. Len(s)]
    BY <1>2, <2>1
  <2> HIDE DEF h
  <2>4. \A i \in 1 .. m : h[i] # 1 /\ s[h[i]] = x
    BY <1>2, <2>1, <2>2
  <2>5. \A i, j \in 1 .. m : h[i] = h[j] => i = j
    BY <1>2, <2>1, <2>2
  <2>6. Holds(m, t, x)
    BY <1>4, <2>1, <2>3, <2>4, <2>5
  <2> QED
    BY <2>6 DEF m
<1> QED
  BY <1>5, <1>6 DEF t

LEMMA HoldsEach ==
  ASSUME NEW s \in Seq(RuleSet), NEW n \in Nat, NEW r, Holds(n, s, r)
  PROVE  Each("delete", s) \in Seq(Item) /\ Holds(n, Each("delete", s), <<"delete", r>>)
<1> DEFINE t == Each("delete", s)
<1>1. s \in Seq(Args) /\ "delete" \in Ops
  BY SeqMonotonic, ArgsAre, OpsAre DEF RuleOps
<1>2. t \in Seq(Item) /\ Len(t) = Len(s) /\ \A i \in 1 .. Len(s) : t[i] = <<"delete", s[i]>>
  BY <1>1, EachIs
<1> HIDE DEF t
<1>3. PICK f \in [1 .. n -> 1 .. Len(s)] :
        (\A i \in 1 .. n : s[f[i]] = r) /\ \A i, j \in 1 .. n : f[i] = f[j] => i = j
  BY DEF Holds
<1>4. \A i \in 1 .. n : t[f[i]] = <<"delete", r>>
  BY <1>2, <1>3
<1>5. Holds(n, t, <<"delete", r>>)
  BY <1>2, <1>3, <1>4 DEF Holds
<1> QED
  BY <1>2, <1>5 DEF t

(* Every copy of the guard is among the lines of the filter table.         *)
LEMMA HoldsListed ==
  ASSUME Filter
  PROVE  LET found == SetToSeq(tagged_rules(fw, "filter", "base")) IN
         Holds(Guards, [i \in DOMAIN found |-> found[i][1]], Guard)
<1> DEFINE T == tagged_rules(fw, "filter", "base")
           F == SetToSeq(T)
           L == [i \in DOMAIN F |-> F[i][1]]
           n == Guards
<1>1. IsFiniteSet(T)
  BY TaggedAre
<1>2. F \in Seq(T) /\ ToSet(F) = T
  BY <1>1, SetToSeqOfSet
<1>3. n \in Nat
  BY GuardsAre
<1>4. \A i \in 1 .. n : <<Guard, i>> \in T
  <2> SUFFICES ASSUME NEW i \in 1 .. n PROVE <<Guard, i>> \in T
    OBVIOUS
  <2>1. Guard \in BagToSet(fw.rules) /\ fw.rules[Guard] = n
    BY <1>3, GuardsAre
  <2>2. Guard.tag = "base" /\ Table(Guard.chain) = "filter"
    BY DEF Guard, Rule, Table
  <2>3. <<Guard, i>> \in Lines(fw, Guard)
    BY <2>1 DEF Lines
  <2> QED
    BY <2>1, <2>2, <2>3 DEF tagged_rules
<1> HIDE DEF T, F, n
<1>5. Len(F) \in Nat /\ DOMAIN F = 1 .. Len(F) /\ Len(L) = Len(F) /\ \A i \in 1 .. Len(F) : L[i] = F[i][1]
  BY <1>2, LenProperties
<1> HIDE DEF L
<1>6. \A i \in 1 .. n : \E k \in 1 .. Len(F) : F[k] = <<Guard, i>>
  BY <1>2, <1>4, <1>5 DEF ToSet
<1> DEFINE f == [i \in 1 .. n |-> CHOOSE k \in 1 .. Len(F) : F[k] = <<Guard, i>>]
<1>7. \A i \in 1 .. n : f[i] \in 1 .. Len(F) /\ F[f[i]] = <<Guard, i>>
  BY <1>6
<1>8. f \in [1 .. n -> 1 .. Len(L)]
  BY <1>5, <1>7
<1> HIDE DEF f
<1>9. \A i \in 1 .. n : L[f[i]] = Guard
  BY <1>5, <1>7
<1>10. \A i, j \in 1 .. n : f[i] = f[j] => i = j
  <2> SUFFICES ASSUME NEW i \in 1 .. n, NEW j \in 1 .. n, f[i] = f[j] PROVE i = j
    OBVIOUS
  <2>1. <<Guard, i>> = <<Guard, j>>
    BY <1>7
  <2> QED
    BY <2>1
<1>11. Holds(n, L, Guard)
  BY <1>8, <1>9, <1>10 DEF Holds
<1> QED
  BY <1>11 DEF n, L, F, T

(* The script deletes n copies of the guard, or what it is going to delete *)
(* instead of its first item has them, or it has yet to look for them.     *)
Guarded(n, s) ==
  \/ Holds(n, s, <<"delete", Guard>>)
  \/ /\ s # <<>> /\ Head(s)[1] = "list" /\ Head(s)[2].tag = "base"
     /\ "filter" \in ToSet(Head(s)[2].tables) \/ Holds(n, Head(s)[2].found, Guard)

LEMMA GuardedFewer ==
  ASSUME NEW n \in Nat, NEW m \in Nat, m <= n, NEW s \in Seq(Item), \A x \in ToSet(s) : Removal(x), Guarded(n, s)
  PROVE  Guarded(m, s)
<1>1. CASE Holds(n, s, <<"delete", Guard>>)
  BY <1>1, HoldsFewer DEF Guarded
<1>2. CASE ~Holds(n, s, <<"delete", Guard>>)
  <2>1. s # <<>> /\ Head(s)[1] = "list"
    BY <1>2 DEF Guarded
  <2>2. Removal(Head(s))
    BY <2>1, PoppedSeq
  <2>3. Head(s)[2].found \in Seq(RuleSet)
    BY <2>1, <2>2 DEF Removal, OfBase, OfCleanup, Listing, BaseOps
  <2>4. Holds(n, Head(s)[2].found, Guard) => Holds(m, Head(s)[2].found, Guard)
    BY <2>3, HoldsFewer
  <2> QED
    BY <1>2, <2>4 DEF Guarded
<1> QED
  BY <1>1, <1>2

LEMMA HoldsZero == \A s, x : Holds(0, s, x)
<1> SUFFICES ASSUME NEW s, NEW x PROVE Holds(0, s, x)
  OBVIOUS
<1> DEFINE f == [i \in 1 .. 0 |-> 1]
<1>1. 1 .. 0 = {}
  OBVIOUS
<1>2. f \in [1 .. 0 -> 1 .. Len(s)]
  BY <1>1
<1>3. (\A i \in 1 .. 0 : s[f[i]] = x) /\ \A i, j \in 1 .. 0 : f[i] = f[j] => i = j
  BY <1>1
<1> HIDE DEF f
<1> QED
  BY <1>2, <1>3 DEF Holds

(* The first item is done, and takes one copy with it at most.             *)
LEMMA GuardedDone ==
  ASSUME NEW s \in Seq(Item), s # <<>>, NEW n \in Nat, NEW m \in Nat, Head(s)[1] # "list", Guarded(n, s), m <= n,
         Head(s) = <<"delete", Guard>> /\ n # 0 => m <= n - 1
  PROVE  Guarded(m, Tail(s))
<1> DEFINE x == <<"delete", Guard>>
<1> HIDE DEF x
<1>1. Holds(n, s, x)
  BY DEF Guarded, x
<1>2. Tail(s) \in Seq(Item)
  BY PoppedSeq
<1>3. CASE Head(s) # x
  <2>1. Holds(n, Tail(s), x)
    BY <1>1, <1>3, HoldsTail
  <2>2. Holds(m, Tail(s), x)
    BY <1>2, <2>1, HoldsFewer
  <2> QED
    BY <2>2 DEF Guarded, x
<1>4. CASE Head(s) = x /\ n # 0
  <2>1. Holds(n - 1, Tail(s), x)
    BY <1>1, <1>4, HoldsTail
  <2>2. n - 1 \in Nat /\ m <= n - 1
    BY <1>4 DEF x
  <2>3. Holds(m, Tail(s), x)
    BY <1>2, <2>1, <2>2, HoldsFewer
  <2> QED
    BY <2>3 DEF Guarded, x
<1>5. CASE n = 0
  <2>1. m = 0
    BY <1>5
  <2> QED
    BY <2>1, HoldsZero DEF Guarded
<1> QED
  BY <1>3, <1>4, <1>5

(* A listing is read further, or done.                                     *)
LEMMA GuardedListed ==
  ASSUME Kinds, Filter, ListTagged("gc"), Removal(Head(script["gc"])), Guarded(Guards, script["gc"])
  PROVE  Guarded(Guards, script'["gc"])
<1> DEFINE q == Arg("gc")
           g == script["gc"]
           t == Tail(g)
           n == Guards
           x == <<"delete", Guard>>
<1>0. "gc" \in Process /\ script = [p \in Process |-> script[p]] /\ n \in Nat
  BY ProcessIs, GuardsAre DEF Kinds
<1>1. g # <<>> /\ g \in Seq(Item) /\ q \in Listing /\ Head(g) = <<"list", q>> /\ t \in Seq(Item)
  <2>1. q \in Listing /\ g # <<>>
    BY <1>0, UndoItem DEF ListTagged
  <2> QED
    BY <1>0, <2>1, HeadIs DEF ListTagged, At, Kinds, Fits
<1>2. q.tables \in Seq({"nat", "filter"}) /\ q.found \in Seq(RuleSet)
  BY <1>1 DEF Listing
<1>3. PICK s \in Seq(Item) : script' = [script EXCEPT !["gc"] = s \o t]
  <2>1. Head(g)[1] = "list"
    BY <1>1
  <2>2. OfCleanup({"base", "none"}, Head(g))
    BY <2>1 DEF Removal, OfBase, BaseOps
  <2> QED
    BY <1>0, <2>2, ListedAre
<1>4. script'["gc"] = s \o t
  BY <1>0, <1>3
<1>5. CASE Holds(n, g, x)
  <2>1. Head(g) # x
    BY <1>1
  <2> HIDE DEF g, x, n
  <2>2. Holds(n, Tail(g), x)
    BY <1>0, <1>1, <1>5, <2>1, HoldsTail
  <2>3. Holds(n, s \o t, x)
    BY <1>0, <1>1, <1>3, <2>2, HoldsJoin
  <2> QED
    BY <1>4, <2>3 DEF Guarded, x, n
<1>6. CASE ~Holds(n, g, x)
  <2>1. q.tag = "base" /\ ("filter" \in ToSet(q.tables) \/ Holds(n, q.found, Guard))
    BY <1>1, <1>6 DEF Guarded
  <2>2. CASE q.tables = <<>>
    <3>1. ToSet(q.tables) = {}
      BY <2>2 DEF ToSet
    <3>2. Holds(n, q.found, Guard)
      BY <2>1, <3>1
    <3> DEFINE e == Each("delete", q.found)
    <3>3. script'["gc"] = e \o t
      BY <1>0, <2>2 DEF ListTagged, Continue
    <3>4. e \in Seq(Item) /\ Holds(n, e, x)
      <4> HIDE DEF n
      <4> QED
        BY <1>0, <1>2, <3>2, HoldsEach
    <3> HIDE DEF e, t, n, x
    <3>5. Holds(n, e \o t, x)
      BY <1>0, <1>1, <3>4, HoldsJoin
    <3> QED
      BY <3>3, <3>5 DEF Guarded, x, n
  <2>3. CASE q.tables # <<>>
    <3> DEFINE T == tagged_rules(fw, Head(q.tables), q.tag)
               F == SetToSeq(T)
               L == [i \in DOMAIN F |-> F[i][1]]
               new == [q EXCEPT !.tables = Tail(@), !.found = @ \o L]
               l == <<<<"list", new>>>>
    <3>1. script'["gc"] = l \o t
      BY <1>0, <2>3 DEF ListTagged, Continue
    <3>2. L \in Seq(RuleSet)
      <4>1. IsFiniteSet(T) /\ \A y \in T : y[1] \in RuleSet
        BY TaggedAre
      <4>2. F \in Seq(T)
        BY <4>1, SetToSeqOfSet
      <4> HIDE DEF F, T
      <4>3. Len(F) \in Nat /\ DOMAIN F = 1 .. Len(F) /\ \A i \in 1 .. Len(F) : F[i] \in T
        BY <4>2, LenProperties
      <4>4. L \in [1 .. Len(F) -> RuleSet]
        BY <4>1, <4>3
      <4> QED
        BY <4>3, <4>4
    <3>3. ToSet(q.tables) = {Head(q.tables)} \cup ToSet(Tail(q.tables))
      BY <1>2, <2>3, PoppedSeq
    <3>4. Head(q.tables) = "filter" => Holds(n, L, Guard)
      BY <2>1, HoldsListed
    <3> HIDE DEF L, n
    <3>5. "filter" \in ToSet(Tail(q.tables)) \/ Holds(n, q.found \o L, Guard)
      <4>1. Holds(n, L, Guard) \/ Holds(n, q.found, Guard) => Holds(n, q.found \o L, Guard)
        BY <1>0, <1>2, <3>2, HoldsJoin
      <4> QED
        BY <2>1, <3>3, <3>4, <4>1
    <3>6. new.tag = "base" /\ new.tables = Tail(q.tables) /\ new.found = q.found \o L
      BY <1>1, <2>1 DEF Listing
    <3>7. new \in Listing
      <4>1. Tail(q.tables) \in Seq({"nat", "filter"}) /\ q.found \o L \in Seq(RuleSet)
        BY <1>2, <2>3, <3>2, PoppedSeq, JoinedSeq
      <4> QED
        BY <1>1, <4>1 DEF Listing
    <3> HIDE DEF new
    <3>8. l \in Seq(Item) /\ l # <<>> /\ Head(l) = <<"list", new>>
      <4>1. <<"list", new>> \in Item
        BY <3>7, ItemsAre, OpsAre, ArgsAre DEF RuleOps
      <4> QED
        BY <4>1
    <3> HIDE DEF l, t
    <3>9. l \o t # <<>> /\ Head(l \o t) = <<"list", new>>
      BY <1>1, <3>8, JoinedHead
    <3>10. script'["gc"] # <<>> /\ Head(script'["gc"]) = <<"list", new>>
      BY <3>1, <3>9
    <3> HIDE DEF q, g, x, T, F
    <3>11. Head(script'["gc"])[1] = "list" /\ Head(script'["gc"])[2] = new
      BY <3>10
    <3>12. /\ Head(script'["gc"])[2].tag = "base"
           /\ "filter" \in ToSet(Head(script'["gc"])[2].tables) \/ Holds(n, Head(script'["gc"])[2].found, Guard)
      BY <3>5, <3>6, <3>11, Zenon
    <3>13. Guarded(n, script'["gc"])
      BY <3>10, <3>11, <3>12, Zenon DEF Guarded
    <3> QED
      BY <3>13 DEF n
  <2> QED
    BY <2>2, <2>3
<1> QED
  BY <1>5, <1>6

(* The teardown of the shared rules begins with the listing of both tables.*)
LEMMA BaseGuarded == \A n : Guarded(n, teardown_base)
<1> DEFINE q == [tables |-> <<"nat", "filter">>, tag |-> "base", found |-> <<>>]
           l == cleanup("base")
           g == Each("delete", <<Guard>> \o Jumps)
           e == <<<<"flush", "MYRUN-PRE">>, <<"drop", "MYRUN-PRE">>,
                  <<"flush", "MYRUN-POST">>, <<"drop", "MYRUN-POST">>,
                  <<"flush", "MYRUN-FWD">>, <<"drop", "MYRUN-FWD">>>>
<1>1. q.tag = "base" /\ "filter" \in ToSet(q.tables)
  BY DEF ToSet
<1> HIDE DEF q
<1>2. l = <<<<"list", q>>>> /\ l \in Seq(Item)
  BY CleanupIs DEF cleanup, q
<1>3. l # <<>> /\ Head(l) = <<"list", q>>
  BY <1>2
<1>4. g \in Seq(Item) /\ e \in Seq(Item)
  <2>1. <<Guard>> \in Seq(RuleSet) /\ Jumps \in Seq(RuleSet)
    BY SharedRulesAre
  <2> DEFINE b == <<Guard>>
             d == b \o Jumps
  <2> HIDE DEF b
  <2>2. d \in Seq(RuleSet)
    BY <2>1, JoinedSeq DEF b
  <2>3. d = <<Guard>> \o Jumps
    BY DEF b
  <2> HIDE DEF d
  <2>4. d \in Seq(Args) /\ "delete" \in Ops
    BY <2>2, SeqMonotonic, ArgsAre, OpsAre DEF RuleOps
  <2>5. Each("delete", d) \in Seq(Item)
    BY <2>4, EachIs
  <2>6. \A n \in Chain : <<"flush", n>> \in Item /\ <<"drop", n>> \in Item
    BY ItemsAre, OpsAre, ArgsAre DEF RuleOps
  <2>7. /\ "MYRUN-PRE" \in Chain /\ "MYRUN-POST" \in Chain /\ "MYRUN-FWD" \in Chain
    BY DEF Chain
  <2>8. e \in Seq(Item)
    BY <2>6, <2>7
  <2> QED
    BY <2>3, <2>5, <2>8
<1>5. teardown_base = (l \o g) \o e
  BY DEF teardown_base
<1> HIDE DEF l, g, e
<1>6. l \o g \in Seq(Item) /\ l \o g # <<>> /\ Head(l \o g) = Head(l)
  BY <1>2, <1>3, <1>4, JoinedSeq, JoinedHead
<1> DEFINE p == l \o g
<1> HIDE DEF p
<1>7. p \in Seq(Item) /\ p # <<>> /\ Head(p) = <<"list", q>> /\ teardown_base = p \o e
  BY <1>3, <1>5, <1>6 DEF p
<1>8. p \o e # <<>> /\ Head(p \o e) = Head(p)
  BY <1>4, <1>7, JoinedHead
<1>9. teardown_base # <<>> /\ Head(teardown_base) = <<"list", q>>
  BY <1>7, <1>8
<1> QED
  BY <1>1, <1>9 DEF Guarded

-----------------------------------------------------------------------------
(* The packet filter, step by step.                                        *)

LEMMA RulesLink ==
  /\ \A b : \A r \in SharedRules(b) : Linking(r)
  /\ \A c \in Container : \A a : \A r \in ToSet(PublishRules(c, a)) : Linking(r)
<1>1. \A r \in ToSet(Jumps) : Linking(r)
  <2>1. \A r \in ToSet(Jumps) : r.to \in Chain
    BY DEF Jumps, Rule, ToSet, Chain
  <2> QED
    BY <2>1 DEF Linking
<1>2. \A ch \in Chain, to \in {"MASQUERADE", "ACCEPT", "DNAT"} : \A t, a : Linking(Rule(ch, to, t, a))
  <2> SUFFICES ASSUME NEW ch \in Chain, NEW to \in {"MASQUERADE", "ACCEPT", "DNAT"}, NEW t, NEW a
               PROVE  Linking(Rule(ch, to, t, a))
    OBVIOUS
  <2>1. Rule(ch, to, t, a).chain = ch /\ Rule(ch, to, t, a).to = to /\ to \notin Chain
    BY DEF Rule, Chain
  <2> QED
    BY <2>1 DEF Linking
<1>3. Linking(Guard)
  BY DEF Linking, Guard, Rule, Chain
<1>4. "MYRUN-PRE" \in Chain /\ "MYRUN-POST" \in Chain /\ "MYRUN-FWD" \in Chain
  BY DEF Chain
<1>5. \A b : \A r \in ToSet(BridgeRules(b)) : Linking(r)
  BY <1>2, <1>4 DEF BridgeRules, ToSet
<1>6. \A c \in Container : \A a : \A r \in ToSet(PublishRules(c, a)) : Linking(r)
  BY <1>2, <1>4 DEF PublishRules, ToSet
<1> QED
  BY <1>1, <1>3, <1>5, <1>6 DEF SharedRules

LEMMA LaunchFilter ==
  ASSUME Kinds, Filter, Typed, NEW c \in Container, Publishing(c), LaunchStep(c) \/ CallFails(c)
  PROVE  \/ fw' = fw
         \/ /\ phase' = phase
            /\ \/ \E n \in Chain : fw' = [fw EXCEPT !.chains = @ \cup {n}]
               \/ \E r \in RuleSet : /\ fw' = Add(fw, r) /\ CanAdd(fw, r) /\ Linking(r)
                                     /\ rule_exists(fw, r) /\ r \in ToSet(Jumps) => disturbed'
<1>1. CASE EnsureChain(c)
  <2>1. Arg(c) \in Chain
    BY <1>1, LaunchItem DEF EnsureChain
  <2>2. fw' = fw \/ (phase' = phase /\ fw' = [fw EXCEPT !.chains = @ \cup {Arg(c)}])
    BY <1>1 DEF EnsureChain, Done
  <2> QED
    BY <2>1, <2>2
<1>2. CASE append_unique(c)
  <2>1. \/ fw' = fw
        \/ /\ phase' = phase /\ Adds(c) /\ CanAdd(fw, Arg(c)) /\ fw' = Add(fw, Arg(c))
           /\ rule_exists(fw, Arg(c)) /\ Arg(c) \in ToSet(Jumps) => disturbed'
    BY <1>2 DEF append_unique, Done, Adds, recVars, netVars
  <2>2. Adds(c) => Arg(c) \in RuleSet /\ Linking(Arg(c))
    BY AddedRule, RulesLink
  <2> QED
    BY <2>1, <2>2
<1>3. CASE ~EnsureChain(c) /\ ~append_unique(c)
  <2>1. fw' = fw
    BY <1>3 DEF LaunchStep, CgroupBase, CreateCgroup, Clone, CloneWithCgroup, CloneThenMove, CloneWithoutCgroup, AddPid, LookUpBridge, CreateBridge, BridgeIndex,
       BridgeAddress, Allocate, DeleteLeftover, CreateVeth, SetMaster, MovePeer, enable_ip_forwarding,
       Publish, Published, Started, CallFails, fwVars
  <2> QED
    BY <2>1
<1> QED
  BY <1>1, <1>2, <1>3

LEMMA UndoFilter ==
  ASSUME Kinds, Filter, NEW p \in Process, UndoStep(p)
  PROVE  /\ fw'.chains \subseteq fw.chains /\ BagToSet(fw'.rules) \subseteq BagToSet(fw.rules)
         /\ (Once => Once') /\ Guards' <= Guards
         /\ \A n \in fw.chains \ fw'.chains : \A r \in BagToSet(fw.rules) : n \notin {r.chain, r.to}
         /\ p # "gc" => /\ fw'.chains = fw.chains
                        /\ \A r \in BagToSet(fw.rules) : r.tag = "base" => r \in BagToSet(fw'.rules)
<1>1. CASE DeleteRule(p)
  <2>1. Arg(p) \in RuleSet /\ fw' = Delete(fw, Arg(p)) /\ At(p, "delete")
    BY <1>1, UndoItem DEF DeleteRule
  <2>2. p # "gc" => Arg(p).tag # "base"
    <3> SUFFICES ASSUME p # "gc" PROVE Arg(p).tag # "base"
      OBVIOUS
    <3>1. p \in Container /\ OfUndo(p, Head(script[p])) /\ Head(script[p])[1] = "delete"
      BY <2>1, UndoItem, ProcessIs DEF At
    <3>2. Arg(p).tag = p
      BY <3>1 DEF OfUndo, OfCleanup, UndoOps, Arg
    <3> QED
      BY <3>1, <3>2, TagsDiffer
  <2>3. fw'.chains = fw.chains /\ \A s \in BagToSet(fw.rules) : s # Arg(p) => s \in BagToSet(fw'.rules)
    BY <2>1, DeleteKeeps
  <2>4. BagToSet(fw'.rules) \subseteq BagToSet(fw.rules) /\ (Once => Once') /\ Guards' <= Guards
    BY <2>1, DeletedOnce, GuardsAre
  <2> QED
    BY <2>1, <2>2, <2>3, <2>4
<1>2. CASE FlushChain(p)
  <2>1. fw' = Flush(fw, Arg(p)) /\ p = "gc" /\ fw'.chains = fw.chains /\ Arg(p) \in Chain
    BY <1>2, UndoItem DEF FlushChain, Flush, Filter
  <2> QED
    BY <2>1, FlushedOnce, GuardsAre
<1>3. CASE DeleteChain(p)
  <2>1. fw' = DropChain(fw, Arg(p)) /\ p = "gc"
    BY <1>3, UndoItem DEF DeleteChain
  <2>2. fw'.rules = fw.rules
    BY <2>1 DEF DropChain, Filter
  <2>3. \/ fw' = fw
        \/ /\ fw'.chains = fw.chains \ {Arg(p)}
           /\ \A r \in BagToSet(fw.rules) : Arg(p) \notin {r.chain, r.to}
    BY <2>1 DEF DropChain, Filter
  <2>4. Once' = Once /\ Guards' = Guards
    BY <2>2 DEF Once, Guards, Guard, Jumps
  <2> QED
    BY <2>1, <2>2, <2>3, <2>4, GuardsAre
<1>4. CASE Kill(p) \/ RemoveCgroup(p) \/ ListTagged(p) \/ DeleteVeth(p) \/ Release(p) \/ Finish(p)
  <2>1. fw' = fw
    BY <1>4 DEF Kill, RemoveCgroup, ListTagged, DeleteVeth, Release, Finish, fwVars
  <2>2. Once' = Once /\ Guards' = Guards
    BY <2>1 DEF Once, Guards, Guard, Jumps
  <2> QED
    BY <2>1, <2>2, GuardsAre
<1> QED
  BY <1>1, <1>2, <1>3, <1>4 DEF UndoStep

(* No other step touches the packet filter.                                *)
LEMMA OtherFilter ==
  ASSUME \/ UNCHANGED vars \/ StartGc \/ GcStep
         \/ \E c \in Container : Start(c) \/ Exit(c) \/ Reap(c) \/ Crash(c)
  PROVE  fw' = fw
<1>1. CASE UNCHANGED vars \/ StartGc \/ GcStep
  BY <1>1 DEF vars, fwVars, StartGc, GcStep, Scan, TeardownDead, gc_empty, IpamGc, orphaned_veths, BridgeUsed,
     BridgeLinks, DeleteBridge, CountBaseRules
<1>2. ASSUME NEW c \in Container, Start(c) \/ Exit(c) \/ Reap(c) \/ Crash(c) PROVE fw' = fw
  BY <1>2 DEF Start, Exit, Reap, Crash, fwVars
<1> QED
  BY <1>1, <1>2

(* What was disturbed remains so.                                          *)
LEMMA StaysDisturbed ==
  ASSUME [Next]_vars, disturbed
  PROVE  disturbed'
<1>1. ASSUME NEW c \in Container, LaunchStep(c) \/ CallFails(c) PROVE disturbed'
  BY <1>1 DEF LaunchStep, CgroupBase, CreateCgroup, Clone, CloneWithCgroup, CloneThenMove, CloneWithoutCgroup, AddPid, LookUpBridge, CreateBridge, BridgeIndex,
     BridgeAddress, Allocate, DeleteLeftover, CreateVeth, SetMaster, MovePeer, enable_ip_forwarding,
     EnsureChain, append_unique, Publish, Published, Started, CallFails, FailLaunch, Unwind, hist
<1>2. ASSUME NEW c \in Container, Start(c) \/ Exit(c) \/ Reap(c) \/ Crash(c) PROVE disturbed'
  BY <1>2 DEF Start, Exit, Reap, Crash, hist
<1>3. ASSUME NEW p \in Process, UndoStep(p) PROVE disturbed'
  BY <1>3 DEF UndoStep, Kill, RemoveCgroup, ListTagged, DeleteRule, FlushChain, DeleteChain, DeleteVeth,
     Release, Finish, hist
<1>4. CASE UNCHANGED vars \/ StartGc \/ GcStep
  BY <1>4 DEF vars, hist, StartGc, GcStep, Scan, TeardownDead, gc_empty, IpamGc, orphaned_veths, BridgeUsed,
     BridgeLinks, DeleteBridge, CountBaseRules
<1> QED
  BY <1>1, <1>2, <1>3, <1>4 DEF Next

(* Rules are in chains that exist, and jumps once unless launches          *)
(* overlapped.                                                             *)
Wired == Chained /\ (~disturbed => Once)

LEMMA WiredNext ==
  ASSUME Kinds, Filter, Typed, \A c \in Container : Publishing(c), Wired, [Next]_vars
  PROVE  Wired'
<1>1. ASSUME NEW c \in Container, LaunchStep(c) \/ CallFails(c) PROVE Wired'
  <2>1. CASE fw' = fw
    BY <2>1, StaysDisturbed DEF Wired, Chained, Once
  <2>2. ASSUME NEW n \in Chain, fw' = [fw EXCEPT !.chains = @ \cup {n}] PROVE Wired'
    <3>1. fw'.rules = fw.rules /\ fw'.chains = fw.chains \cup {n}
      BY <2>2, ChainsKeep
    <3> QED
      BY <3>1, StaysDisturbed DEF Wired, Chained, Once
  <2>3. ASSUME NEW r \in RuleSet, fw' = Add(fw, r), CanAdd(fw, r), Linking(r),
               rule_exists(fw, r) /\ r \in ToSet(Jumps) => disturbed'
        PROVE  Wired'
    <3>1. BagToSet(fw'.rules) = BagToSet(fw.rules) \cup {r} /\ fw'.chains = fw.chains
      BY <2>3, AddKeeps
    <3>2. Chained'
      BY <2>3, <3>1 DEF Wired, Chained, CanAdd
    <3>3. ~disturbed' => Once'
      BY <2>3, AddedOnce, StaysDisturbed DEF Wired, rule_exists, BagIn
    <3> QED
      BY <3>2, <3>3 DEF Wired
  <2> QED
    BY <1>1, <2>1, <2>2, <2>3, LaunchFilter
<1>2. ASSUME NEW p \in Process, UndoStep(p) PROVE Wired'
  <2>1. Chained'
    <3> SUFFICES ASSUME NEW r \in BagToSet(fw'.rules)
                 PROVE  Linking(r) /\ {r.chain, r.to} \cap Chain \subseteq fw'.chains
      BY DEF Chained
    <3>1. r \in BagToSet(fw.rules)
      BY <1>2, UndoFilter
    <3> QED
      BY <1>2, <3>1, UndoFilter DEF Wired, Chained
  <2> QED
    BY <1>2, <2>1, UndoFilter, StaysDisturbed DEF Wired
<1>3. CASE \/ UNCHANGED vars \/ StartGc \/ GcStep
           \/ \E c \in Container : Start(c) \/ Exit(c) \/ Reap(c) \/ Crash(c)
  BY <1>3, OtherFilter, StaysDisturbed DEF Wired, Chained, Once
<1> QED
  BY <1>1, <1>2, <1>3 DEF Next

-----------------------------------------------------------------------------
(* Cgroups that are still to be removed.                                   *)

Rmdir(c) == <<"rmdir", c>>

(* Up to the creation of its cgroup a launch has nothing to undo; a child  *)
(* in it that is not running is one whose cgroup is going to be removed.   *)
Boxed(c) ==
  cgroup2 =>
    /\ Launching(c) => Rmdir(c) \in ToSet(undo[c]) \/ script[c] \in {launch(c), Tail(launch(c))}
    /\ Inside(c) => \/ Launching(c) /\ Rmdir(c) \in ToSet(undo[c])
                    \/ phase[c] = "wait"
                    \/ phase[c] = "unwind" /\ Rmdir(c) \in Todo(c)

(* Without a hierarchy there are no cgroups.                               *)
Uncaged == cgroup2 \/ \A c \in Container : cg[c] = None

LEMMA UncagedNext ==
  ASSUME Typed, Uncaged, [Next]_vars
  PROVE  Uncaged' /\ cgroup2' = cgroup2
<1>0. DOMAIN cg = Container
  BY DEF Typed
<1>1. ASSUME NEW c \in Container, CreateCgroup(c) PROVE Uncaged' /\ cgroup2' = cgroup2
  BY <1>1 DEF CreateCgroup, Uncaged
<1>2. ASSUME NEW c \in Container, LaunchStep(c) \/ CallFails(c), ~CreateCgroup(c) PROVE UNCHANGED <<cg, cgroup2>>
  BY <1>2 DEF LaunchStep, CgroupBase, Clone, AddPid, LookUpBridge, CreateBridge, BridgeIndex, BridgeAddress, Allocate,
     DeleteLeftover, CreateVeth, SetMaster, MovePeer, enable_ip_forwarding, EnsureChain, append_unique, Publish,
     Published, Started, CallFails, cgVars
<1>3. ASSUME NEW c \in Container, Start(c) \/ Exit(c) \/ Reap(c) \/ Crash(c) PROVE UNCHANGED <<cg, cgroup2>>
  BY <1>3 DEF Start, Exit, Reap, Crash, cgVars
<1>4. ASSUME NEW p \in Process, UndoStep(p) PROVE Uncaged' /\ cgroup2' = cgroup2
  BY <1>0, <1>4 DEF UndoStep, Kill, RemoveCgroup, ListTagged, DeleteRule, FlushChain, DeleteChain, DeleteVeth,
     Release, Finish, cgVars, Uncaged
<1>5. CASE GcStep \/ StartGc \/ UNCHANGED vars
  BY <1>5 DEF GcStep, StartGc, Scan, TeardownDead, gc_empty, IpamGc, orphaned_veths, BridgeUsed, BridgeLinks,
     DeleteBridge, CountBaseRules, vars, cgVars, Uncaged
<1>6. ASSUME UNCHANGED <<cg, cgroup2>> PROVE Uncaged' /\ cgroup2' = cgroup2
  BY <1>6 DEF Uncaged
<1> QED
  BY <1>1, <1>2, <1>3, <1>4, <1>5, <1>6 DEF Next

LEMMA LaunchBegins ==
  ASSUME NEW c \in Container
  PROVE  Head(launch(c))[1] = "cgroup_base" /\ Head(Tail(launch(c)))[1] = "cgroup"
<1> DEFINE a == <<<<"cgroup_base", c>>, <<"cgroup", c>>, <<"clone", c>>>>
           b == setup_host(c) \o <<<<"started", c>>>>
           s == launch(c)
<1>1. s \in Seq(Item) /\ s # <<>>
  BY LaunchIs
<1>2. s[1] = <<"cgroup_base", c>> /\ s[2] = <<"cgroup", c>> /\ Len(s) >= 3
  <2> DEFINE m == Len(setup_bridge(On[c]))
  <2>1. setup_bridge(On[c]) \in Seq(Item) /\ a \in Seq(Item)
    <3>1. /\ <<"cgroup_base", c>> \in Item /\ <<"cgroup", c>> \in Item /\ <<"clone", c>> \in Item
      BY ItemsAre, OpsAre, ArgsAre DEF LaunchOps
    <3> QED
      BY <3>1, SetupBridgeIs, BridgeIs
  <2>2. b \in Seq(Item)
    <3> DEFINE e == <<<<"bridge", c>>, <<"address", c>>, <<"allocate", c>>, <<"leftover", c>>,
                      <<"create_veth", c>>, <<"set_master", c>>, <<"move", c>>>>
               f == <<<<"publish", c>>>>
               g == <<<<"started", c>>>>
    <3>1. \A op \in LaunchOps : <<op, c>> \in Item
      BY ItemsAre, OpsAre, ArgsAre
    <3>2. e \in Seq(Item) /\ f \in Seq(Item) /\ g \in Seq(Item)
      BY <3>1 DEF LaunchOps
    <3> HIDE DEF e, f, g
    <3>3. b = ((e \o setup_bridge(On[c])) \o f) \o g
      BY DEF setup_host, e, f, g
    <3>4. e \o setup_bridge(On[c]) \in Seq(Item)
      BY <2>1, <3>2, JoinedSeq
    <3>5. (e \o setup_bridge(On[c])) \o f \in Seq(Item)
      BY <3>2, <3>4, JoinedSeq
    <3> HIDE DEF b
    <3> QED
      BY <3>2, <3>3, <3>5, JoinedSeq
  <2>3. s = a \o b
    <3>1. s = (a \o setup_host(c)) \o <<<<"started", c>>>>
      BY DEF launch
    <3>2. setup_host(c) \in Seq(Item) /\ <<<<"started", c>>>> \in Seq(Item)
      <4> DEFINE e == <<<<"bridge", c>>, <<"address", c>>, <<"allocate", c>>, <<"leftover", c>>,
                        <<"create_veth", c>>, <<"set_master", c>>, <<"move", c>>>>
                 f == <<<<"publish", c>>>>
      <4>1. \A op \in LaunchOps : <<op, c>> \in Item
        BY ItemsAre, OpsAre, ArgsAre
      <4>2. e \in Seq(Item) /\ f \in Seq(Item) /\ <<<<"started", c>>>> \in Seq(Item)
        BY <4>1 DEF LaunchOps
      <4> HIDE DEF e, f
      <4>3. setup_host(c) = (e \o setup_bridge(On[c])) \o f
        BY DEF setup_host, e, f
      <4>4. e \o setup_bridge(On[c]) \in Seq(Item)
        BY <2>1, <4>2, JoinedSeq
      <4> QED
        BY <4>2, <4>3, <4>4, JoinedSeq
    <3> QED
      BY <2>1, <3>1, <3>2, ConcatAssociative
  <2>4. Len(a) = 3 /\ a[1] = <<"cgroup_base", c>> /\ a[2] = <<"cgroup", c>>
    OBVIOUS
  <2> HIDE DEF a, b, s
  <2>5. Len(b) \in Nat /\ Len(s) = Len(a) + Len(b) /\ \A i \in 1 .. Len(a) : s[i] = a[i]
    <3>1. Len(a) \in Nat /\ Len(b) \in Nat
      BY <2>1, <2>2, LenProperties
    <3>2. Len(a \o b) = Len(a) + Len(b)
          /\ \A i \in 1 .. Len(a) + Len(b) : (a \o b)[i] = IF i <= Len(a) THEN a[i] ELSE b[i - Len(a)]
      BY <2>1, <2>2, ConcatProperties
    <3> QED
      BY <2>3, <3>1, <3>2
  <2> QED
    BY <2>4, <2>5
<1> HIDE DEF s
<1>3. /\ Head(s) = s[1] /\ Tail(s) \in Seq(Item) /\ Len(Tail(s)) = Len(s) - 1
      /\ \A i \in 1 .. Len(s) - 1 : Tail(s)[i] = s[i + 1]
  BY <1>1, HeadTailProperties
<1>4. Len(s) \in Nat
  BY <1>1, LenProperties
<1>5. Tail(s) # <<>> /\ Tail(s)[1] = s[2]
  <2>1. 1 \in 1 .. Len(s) - 1 /\ 1 + 1 = 2 /\ Len(Tail(s)) # 0
    BY <1>2, <1>3, <1>4
  <2>2. Tail(s)[1] = s[1 + 1]
    BY <1>3, <2>1
  <2>3. Tail(s) # <<>>
    BY <1>3, <2>1, EmptySeq
  <2> QED
    BY <2>1, <2>2, <2>3
<1>6. Head(Tail(s)) = Tail(s)[1]
  BY <1>3, <1>5, HeadTailProperties
<1>7. s[1][1] = "cgroup_base" /\ s[2][1] = "cgroup"
  BY <1>2
<1>8. Head(s)[1] = "cgroup_base" /\ Head(Tail(s))[1] = "cgroup"
  BY <1>3, <1>5, <1>6, <1>7, Zenon
<1> QED
  BY <1>8, Zenon DEF s

LEMMA BoxedLaunch ==
  ASSUME Kinds, Filter, Typed, NEW c \in Container, Boxed(c), LaunchStep(c) \/ CallFails(c), cgroup2' = cgroup2
  PROVE  Boxed(c)'
<1> SUFFICES ASSUME cgroup2 PROVE Boxed(c)'
  BY DEF Boxed
<1>0. /\ c \in Process /\ phase = [p \in Process |-> phase[p]] /\ script = [p \in Process |-> script[p]]
      /\ undo = [p \in Process |-> undo[p]] /\ undo[c] \in Seq(Item)
  BY ProcessIs DEF Kinds, Fits
<1>1. phase[c] = "launch" /\ Moves(c)
  BY LaunchActor, LaunchMoves
<1>2. CASE Rmdir(c) \in ToSet(undo[c])
  <2>1. CASE Fails(c)
    <3>1. phase'[c] = "unwind" /\ script'[c] = undo[c]
      BY <1>0, <2>1 DEF Fails, Unwind, Continue
    <3> QED
      BY <1>2, <3>1 DEF Boxed, Launching, Todo
  <2>2. CASE Starts(c)
    BY <1>0, <2>2 DEF Starts, Boxed, Launching
  <2>3. ASSUME NEW u \in Seq(Item), phase' = phase, undo' = [undo EXCEPT ![c] = u \o @] PROVE Boxed(c)'
    <3>1. phase'[c] = "launch" /\ undo'[c] = u \o undo[c]
      BY <1>0, <1>1, <2>3
    <3>2. Rmdir(c) \in ToSet(u \o undo[c])
      BY <1>0, <1>2, JoinedSeq
    <3> QED
      BY <3>1, <3>2 DEF Boxed, Launching
  <2>4. CASE UNCHANGED <<phase, undo>>
    BY <1>1, <1>2, <2>4 DEF Boxed, Launching
  <2>5. /\ \A op \in UndoOps : <<<<op, c>>>> \in Seq(Item)
        /\ NetTeardown(c) \o cleanup(c) \in Seq(Item)
    BY UndoOne, TeardownIs, CleanupIs, JoinedSeq
  <2> QED
    BY <1>1, <2>1, <2>2, <2>3, <2>4, <2>5
       DEF Moves, Allocates, Adds, Misses, Passes, Pushes, Creates, Forks, Publish, Published, Done, DoneAndPush, NotThere,
           UndoOps
<1>3. CASE Rmdir(c) \notin ToSet(undo[c])
  <2>1. ~Inside(c) /\ script[c] \in {launch(c), Tail(launch(c))}
    BY <1>1, <1>3 DEF Boxed, Launching
  <2>2. CASE CgroupBase(c)
    <3>1. script[c] = launch(c)
      <4>1. Head(script[c])[1] = "cgroup_base"
        BY <2>2 DEF CgroupBase, At
      <4>2. Head(Tail(launch(c)))[1] = "cgroup"
        BY LaunchBegins
      <4> QED
        BY <2>1, <4>1, <4>2
    <3>2. Inside(c)' = Inside(c)
      BY <2>2 DEF CgroupBase, recVars, Inside
    <3>3. \/ phase'[c] = "unwind"
          \/ phase'[c] = "launch" /\ script'[c] \in {launch(c), Tail(launch(c))}
      BY <1>0, <1>1, <2>2, <3>1 DEF CgroupBase, Done, Continue, NotThere, FailLaunch, Unwind
    <3> QED
      BY <2>1, <3>2, <3>3 DEF Boxed, Launching
  <2>3. CASE CreateCgroup(c)
    <3>1. Inside(c)' = Inside(c)
      BY <2>3 DEF CreateCgroup, recVars, Inside
    <3> DEFINE u == <<<<"rmdir", c>>>>
    <3>2. phase'[c] = "unwind" \/ (phase'[c] = "launch" /\ undo'[c] = u \o undo[c])
      <4>1. Unwind(c) \/ DoneAndPush(c, u)
        BY <2>3 DEF CreateCgroup, FailLaunch
      <4> HIDE DEF u
      <4> QED
        BY <1>0, <1>1, <4>1 DEF DoneAndPush, Unwind
    <3>3. Rmdir(c) \in ToSet(u \o undo[c])
      <4>1. u \in Seq(Item)
        BY UndoOne DEF UndoOps
      <4>2. Rmdir(c) \in ToSet(u)
        BY DEF ToSet, Rmdir
      <4> HIDE DEF u
      <4> QED
        BY <1>0, <4>1, <4>2, JoinedSeq
    <3> HIDE DEF u
    <3> QED
      BY <2>1, <3>1, <3>2, <3>3 DEF Boxed, Launching
  <2>4. CASE CallFails(c)
    BY <1>0, <2>1, <2>4 DEF CallFails, Unwind, recVars, cgVars, Boxed, Launching, Inside
  <2>5. ASSUME ~CgroupBase(c), ~CreateCgroup(c), ~CallFails(c) PROVE FALSE
    <3>1. Head(script[c])[1] \in {"cgroup_base", "cgroup"}
      <4>1. Head(launch(c))[1] = "cgroup_base" /\ Head(Tail(launch(c)))[1] = "cgroup"
        BY LaunchBegins
      <4> QED
        BY <2>1, <4>1
    <3> QED
      BY <2>5, <3>1 DEF LaunchStep, Clone, CloneWithCgroup, CloneThenMove, CloneWithoutCgroup, AddPid, LookUpBridge, CreateBridge, BridgeIndex, BridgeAddress, Allocate,
         DeleteLeftover, CreateVeth, SetMaster, MovePeer, enable_ip_forwarding, EnsureChain, append_unique,
         Publish, Published, Started, At
  <2> QED
    BY <2>2, <2>3, <2>4, <2>5
<1> QED
  BY <1>2, <1>3

(* Only the removal itself takes the item away.                            *)
LEMMA RmdirStays ==
  ASSUME Kinds, Filter, Typed, NEW c \in Container, UndoStep(c), ~RemoveCgroup(c), Rmdir(c) \in Todo(c)
  PROVE  Rmdir(c) \in Todo(c)' /\ phase' = phase /\ ~Finish(c)
<1>0. c \in Process /\ c # "gc" /\ script = [p \in Process |-> script[p]]
  BY ProcessIs DEF Kinds
<1>1. ~Finish(c)
  BY DEF Finish, Todo, ToSet
<1>2. /\ phase' = phase /\ script[c] # <<>> /\ Head(script[c])[1] # "rmdir"
      /\ Kill(c) \/ DeleteRule(c) \/ FlushChain(c) \/ DeleteChain(c) \/ DeleteVeth(c) \/ Release(c) \/ ListTagged(c)
  BY <1>1 DEF UndoStep, Kill, ListTagged, DeleteRule, FlushChain, DeleteChain, DeleteVeth, Release, Done, At
<1>3. Todo(c) = {Head(script[c])} \cup ToSet(Tail(script[c])) /\ Tail(script[c]) \in Seq(Item)
  BY <1>0, <1>2, HeadIs
<1>4. ToSet(Tail(script[c])) \subseteq ToSet(script'[c])
  <2>1. CASE ~ListTagged(c)
    <3>1. script'[c] = Tail(script[c])
      BY <1>0, <1>2, <2>1 DEF Kill, DeleteRule, FlushChain, DeleteChain, DeleteVeth, Release, Done, Continue
    <3> QED
      BY <3>1
  <2>2. CASE ListTagged(c)
    <3>1. OfCleanup({c}, Head(script[c]))
      <4>1. OfUndo(c, Head(script[c])) /\ Head(script[c])[1] = "list"
        BY <1>0, <2>2, UndoItem DEF ListTagged, At
      <4> QED
        BY <4>1 DEF OfUndo, UndoOps
    <3>2. PICK s \in Seq(Item) : script' = [script EXCEPT ![c] = s \o Tail(script[c])]
      BY <1>0, <2>2, <3>1, ListedAre
    <3> DEFINE t == Tail(script[c])
    <3>3. script'[c] = s \o t /\ t \in Seq(Item)
      BY <1>0, <1>3, <3>2
    <3> HIDE DEF t
    <3>4. ToSet(s \o t) = ToSet(s) \cup ToSet(t)
      BY <3>2, <3>3, JoinedSeq
    <3> QED
      BY <3>3, <3>4 DEF t
  <2> QED
    BY <2>1, <2>2
<1> QED
  BY <1>1, <1>2, <1>3, <1>4 DEF Rmdir, Todo

LEMMA BoxedUndo ==
  ASSUME Kinds, Filter, Typed, NEW c \in Container, Boxed(c), UndoStep(c), cgroup2' = cgroup2
  PROVE  Boxed(c)'
<1> SUFFICES ASSUME cgroup2 PROVE Boxed(c)'
  BY DEF Boxed
<1>0. c \in Process /\ c # "gc" /\ child \in [Container -> BOOLEAN]
  BY ProcessIs DEF Typed
<1>1. phase'[c] \notin {"launch", "wait"}
  BY <1>0, UndoActor
<1>2. CASE Kill(c)
  <2>1. OfUndo(c, Head(script[c])) /\ Head(script[c])[1] = "kill"
    BY <1>0, <1>2, UndoItem DEF Kill, At, UndoOps
  <2>2. Arg(c) = c
    BY <2>1 DEF OfUndo, OfCleanup, Arg
  <2>3. ~Inside(c)'
    BY <1>0, <1>2, <2>2 DEF Kill, Dies, Inside
  <2> QED
    BY <1>1, <2>3 DEF Boxed, Launching
<1>3. CASE RemoveCgroup(c)
  <2>1. OfUndo(c, Head(script[c])) /\ Head(script[c])[1] = "rmdir"
    BY <1>0, <1>3, UndoItem DEF RemoveCgroup, At, UndoOps
  <2>2. Arg(c) = c
    BY <2>1 DEF OfUndo, OfCleanup, Arg
  <2>3. ~Inside(c)'
    BY <1>3, <2>2 DEF RemoveCgroup, recVars, Inside
  <2> QED
    BY <1>1, <2>3 DEF Boxed, Launching
<1>4. CASE ~Kill(c) /\ ~RemoveCgroup(c)
  <2>1. Inside(c)' = Inside(c)
    BY <1>4 DEF UndoStep, ListTagged, DeleteRule, FlushChain, DeleteChain, DeleteVeth, Release, Finish, recVars,
       cgVars, Inside
  <2>2. phase[c] \notin {"launch", "wait"}
    <3>1. CASE Finish(c)
      BY <3>1 DEF Finish
    <3>2. CASE ~Finish(c)
      <4>1. \E op \in UndoOps \cup {"list", "delete", "flush", "drop"} : At(c, op)
        BY <1>4, <3>2 DEF UndoStep, ListTagged, DeleteRule, FlushChain, DeleteChain, DeleteVeth, Release, UndoOps
      <4> QED
        BY <1>0, <4>1, UndoItem
    <3> QED
      BY <3>1, <3>2
  <2>3. Inside(c) => phase[c] = "unwind" /\ Rmdir(c) \in Todo(c)
    BY <2>2 DEF Boxed, Launching
  <2>4. Inside(c) => phase' = phase /\ Rmdir(c) \in Todo(c)'
    BY <1>4, <2>3, RmdirStays
  <2> QED
    BY <1>1, <2>1, <2>3, <2>4 DEF Boxed, Launching
<1> QED
  BY <1>2, <1>3, <1>4

LEMMA BoxedOther ==
  ASSUME NEW c, Boxed(c), phase'[c] = phase[c], script'[c] = script[c], undo'[c] = undo[c], Inside(c)' => Inside(c),
         cgroup2' = cgroup2
  PROVE  Boxed(c)'
<1>1. Rmdir(c)' = Rmdir(c) /\ launch(c)' = launch(c)
  BY DEF Rmdir, launch, setup_host
<1> QED
  BY <1>1 DEF Boxed, Launching, Todo

LEMMA BoxedNext ==
  ASSUME Kinds, Filter, Typed, Orderly, \A c \in Container : Publishing(c), Uncaged, NEW c \in Container, Boxed(c),
         [Next]_vars
  PROVE  Boxed(c)'
<1>0. /\ c \in Process /\ c # "gc" /\ phase = [p \in Process |-> phase[p]] /\ script = [p \in Process |-> script[p]]
      /\ child \in [Container -> BOOLEAN] /\ placed \in [Container -> BOOLEAN]
  BY ProcessIs DEF Kinds, Typed
<1>11. cgroup2' = cgroup2
  BY UncagedNext
<1>1. ASSUME Bystander(c), child'[c] => child[c], placed'[c] => placed[c] PROVE Boxed(c)'
  BY <1>1, <1>11, BoxedOther DEF Bystander, Inside
<1>2. CASE LaunchStep(c) \/ CallFails(c)
  BY <1>2, <1>11, BoxedLaunch
<1>3. CASE UndoStep(c)
  BY <1>3, <1>11, BoxedUndo
<1>4. CASE Start(c)
  <2>1. phase'[c] = "launch" /\ script'[c] = launch(c) /\ Inside(c)' = Inside(c) /\ phase[c] = "idle"
    BY <1>0, <1>4 DEF Start, recVars, cgVars, Inside
  <2> QED
    BY <1>11, <2>1 DEF Boxed, Launching
<1>5. CASE Exit(c) \/ Reap(c) \/ Crash(c)
  <2>1. ~Inside(c)'
    BY <1>0, <1>5 DEF Exit, Reap, Crash, Dies, Inside
  <2>2. phase'[c] # "launch"
    BY <1>5, EndActor
  <2> QED
    BY <2>1, <2>2 DEF Boxed, Launching
<1>6. ASSUME NEW d \in Container, d # c, LaunchStep(d) \/ CallFails(d) PROVE Boxed(c)'
  <2>1. Bystander(c) /\ child'[c] = child[c]
    BY <1>6, BystandersOfLaunch, OtherLaunch
  <2>2. placed'[c] = placed[c]
    BY <1>0, <1>6 DEF LaunchStep, CgroupBase, CreateCgroup, Clone, CloneWithCgroup, CloneThenMove, CloneWithoutCgroup,
       AddPid, LookUpBridge, CreateBridge, BridgeIndex, BridgeAddress, Allocate, DeleteLeftover, CreateVeth, SetMaster,
       MovePeer, enable_ip_forwarding, EnsureChain, append_unique, Publish, Published, Started, CallFails, cgVars
  <2> QED
    BY <1>1, <2>1, <2>2
<1>7. ASSUME NEW d \in Container, d # c, Start(d) \/ Exit(d) \/ Reap(d) \/ Crash(d) PROVE Boxed(c)'
  <2>1. Bystander(c)
    BY <1>7, BystandersOfEnd
  <2>2. child'[c] = child[c] /\ placed' = placed
    BY <1>0, <1>7 DEF Start, Exit, Reap, Crash, Dies, recVars, cgVars
  <2> QED
    BY <1>1, <2>1, <2>2
<1>8. ASSUME NEW p \in Process, p # c, UndoStep(p) PROVE Boxed(c)'
  <2>1. Bystander(c)
    BY <1>8, BystandersOfUndo
  <2>2. child'[c] => child[c]
    <3>1. child' = child \/ Dies(Arg(p))
      BY <1>8 DEF UndoStep, Kill, RemoveCgroup, ListTagged, DeleteRule, FlushChain, DeleteChain, DeleteVeth,
         Release, Finish, recVars
    <3> QED
      BY <1>0, <3>1 DEF Dies
  <2>3. placed' = placed
    BY <1>8 DEF UndoStep, Kill, RemoveCgroup, ListTagged, DeleteRule, FlushChain, DeleteChain, DeleteVeth,
       Release, Finish, cgVars
  <2> QED
    BY <1>1, <2>1, <2>2, <2>3
<1>9. CASE GcStep \/ StartGc
  <2>1. Bystander(c)
    BY <1>9, BystandersOfGc
  <2>2. child' = child
    BY <1>9, GcActor DEF StartGc, recVars
  <2>3. placed' = placed
    BY <1>9 DEF GcStep, StartGc, Scan, TeardownDead, gc_empty, IpamGc, orphaned_veths, BridgeUsed, BridgeLinks,
       DeleteBridge, CountBaseRules, cgVars
  <2> QED
    BY <1>1, <2>1, <2>2, <2>3
<1>10. CASE UNCHANGED vars
  BY <1>10, BoxedOther DEF vars, procVars, recVars, cgVars, Inside
<1> QED
  BY <1>2, <1>3, <1>4, <1>5, <1>6, <1>7, <1>8, <1>9, <1>10 DEF Next

-----------------------------------------------------------------------------
(* A bridge that is not there has no address.                              *)

Bare == \A b \in Bridge : bridge[b].index = 0 => bridge[b] = NoBridge

LEMMA BareNext ==
  ASSUME Kinds, Typed, Provided, Bare, [Next]_vars
  PROVE  Bare'
<1>1. ASSUME NEW c \in Container, CreateBridge(c) PROVE Bare'
  <2> DEFINE n == create_bridge(FreshIndex)
  <2>1. bridge' = bridge \/ bridge' = [bridge EXCEPT ![On[c]] = n]
    BY <1>1 DEF CreateBridge
  <2>2. n.index # 0
    BY FreshIs DEF create_bridge, NoBridge
  <2> HIDE DEF n
  <2>3. NoBridge' = NoBridge /\ bridge \in [Bridge -> [index : Nat, address : BOOLEAN, up : BOOLEAN]]
    BY DEF NoBridge, Typed
  <2> QED
    BY <2>1, <2>2, <2>3 DEF Bare
<1>2. ASSUME NEW c \in Container, BridgeAddress(c) PROVE Bare'
  <2>1. phase[c] = "launch" /\ script[c] # <<>> /\ Head(script[c]) = <<"address", c>>
    BY <1>2, OwnItem DEF BridgeAddress, LaunchOps
  <2>2. Ready(c) /\ c \in Process /\ script[c] \in Seq(Item)
    BY ProcessIs DEF Provided, Kinds, Fits
  <2>3. Sorted(script[c])
    BY <2>1, <2>2 DEF Ready, Ahead
  <2>4. \A x \in Todo(c) : Stage(Head(script[c])) <= Stage(x)
    BY <2>1, <2>2, <2>3, SortedTail DEF Todo
  <2>5. Stage(Head(script[c])) = 2 /\ Stage(<<"bridge", c>>) = 1 /\ Stage(<<"bridge_index", c>>) = 1
    BY <2>1, StageIs
  <2>6. {<<"bridge", c>>, <<"bridge_index", c>>} \cap Todo(c) = {}
    BY <2>4, <2>5
  <2>7. bridge[On[c]].index # 0
    BY <2>1, <2>2, <2>6 DEF Ready, Engaged, OnBridge
  <2>8. \/ bridge' = bridge
        \/ bridge'[On[c]].index = bridge[On[c]].index /\ \A b \in Bridge : b # On[c] => bridge'[b] = bridge[b]
    BY <1>2, AddressIs DEF BridgeAddress
  <2>9. NoBridge' = NoBridge
    BY DEF NoBridge
  <2> QED
    BY <2>7, <2>8, <2>9 DEF Bare
<1>3. CASE DeleteBridge
  <2>1. NoBridge' = NoBridge /\ bridge \in [Bridge -> [index : Nat, address : BOOLEAN, up : BOOLEAN]]
    BY DEF NoBridge, Typed
  <2> QED
    BY <1>3, <2>1 DEF DeleteBridge, Bare
<1>4. CASE bridge' = bridge
  BY <1>4 DEF Bare, NoBridge
<1>5. ASSUME NEW c \in Container, LaunchStep(c) \/ CallFails(c), ~CreateBridge(c), ~BridgeAddress(c)
      PROVE  bridge' = bridge
  BY <1>5 DEF LaunchStep, CgroupBase, CreateCgroup, Clone, CloneWithCgroup, CloneThenMove, CloneWithoutCgroup, AddPid, LookUpBridge, BridgeIndex, Allocate, DeleteLeftover,
     CreateVeth, SetMaster, MovePeer, enable_ip_forwarding, EnsureChain, append_unique, Publish, Published,
     Started, CallFails, netVars
<1>6. ASSUME NEW c \in Container, Start(c) \/ Exit(c) \/ Reap(c) \/ Crash(c) PROVE bridge' = bridge
  BY <1>6 DEF Start, Exit, Reap, Crash, netVars
<1>7. ASSUME NEW p \in Process, UndoStep(p) PROVE bridge' = bridge
  BY <1>7 DEF UndoStep, Kill, RemoveCgroup, ListTagged, DeleteRule, FlushChain, DeleteChain, DeleteVeth,
     Release, Finish, netVars
<1>8. ASSUME GcStep \/ StartGc \/ UNCHANGED vars, ~DeleteBridge PROVE bridge' = bridge
  BY <1>8 DEF GcStep, StartGc, Scan, TeardownDead, gc_empty, IpamGc, orphaned_veths, BridgeUsed, BridgeLinks,
     CountBaseRules, netVars, vars
<1> QED
  BY <1>1, <1>2, <1>3, <1>4, <1>5, <1>6, <1>7, <1>8 DEF Next

-----------------------------------------------------------------------------
(* How far gc has got, and what is gone by then.                           *)

Opening == <<<<"scan", 0>>>>
Closing == <<<<"gc_empty", 0>>, <<"ipam_gc", 0>>, <<"orphaned_veths", 0>>>>
Sharing == <<<<"bridge_used", 0>>, <<"bridge_links", 0>>, <<"base_rules", 0>>>>

(* An item about one container.                                            *)
Own(x) == \E c \in Container : OfUndo(c, x) \/ x = <<"teardown", c>>

(* The cgroup of c is gone, or its supervisor is about to remove it.       *)
Doomed(c) == cg[c] = None \/ (phase[c] \in {"unwind", "teardown"} /\ Rmdir(c) \in Todo(c))

NoCgroups == \A c \in Container : Doomed(c)
NoLeases  == \A c \in Container : lease[c] = 0
NoVeths   == \A c \in Container : veth[c] = "none"
Gone      == NoCgroups /\ NoLeases /\ NoVeths /\ bridge[DEFAULT_BRIDGE] = NoBridge

(* gc found nobody alive, and nothing disturbed it.                        *)
Rid == ~disturbed /\ live = {}

AtScan   == script["gc"] = Opening
AtOwn    == \E a \in Seq(Item) : script["gc"] = a \o Closing /\ \A x \in ToSet(a) : Own(x)
AtLeases == script["gc"] = <<<<"ipam_gc", 0>>, <<"orphaned_veths", 0>>>> /\ (Rid => NoCgroups)
AtLinks  == script["gc"] = <<<<"orphaned_veths", 0>>>> /\ (Rid => NoCgroups /\ NoLeases)
AtVeths  ==
  \E v \in Seq(Item) :
    /\ script["gc"] = v \o (IF live = {} THEN Sharing ELSE <<>>) /\ \A x \in ToSet(v) : x[1] = "veth"
    /\ Rid => /\ NoCgroups /\ NoLeases
              /\ \A c \in Container : veth[c] = "none" \/ <<"veth", c>> \in ToSet(v)
AtBridge == /\ live = {} /\ script["gc"] = <<<<"bridge_links", 0>>, <<"base_rules", 0>>>>
            /\ Rid => NoCgroups /\ NoLeases /\ NoVeths /\ seen["gc"] = bridge[DEFAULT_BRIDGE].index
AtDelete == /\ live = {} /\ script["gc"] = <<<<"delete_bridge", 0>>, <<"base_rules", 0>>>>
            /\ Rid => NoCgroups /\ NoLeases /\ NoVeths
AtRules  == live = {} /\ script["gc"] = <<<<"base_rules", 0>>>> /\ (Rid => Gone)
AtEnd    == /\ live = {} /\ \A x \in Todo("gc") : Removal(x)
            /\ Rid => /\ Gone /\ Ends(fw.chains, BagToSet(fw.rules), script["gc"])
                      /\ Guarded(Guards, script["gc"])

Swept ==
  /\ phase["gc"] = "collect" =>
       AtScan \/ AtOwn \/ AtLeases \/ AtLinks \/ AtVeths \/ AtBridge \/ AtDelete \/ AtRules \/ AtEnd
  /\ phase["gc"] = "done" /\ Rid => Gone /\ Ends(fw.chains, BagToSet(fw.rules), <<>>) /\ Guards = 0

(* Nobody launches while gc collects, and gc is done only until somebody   *)
(* does.                                                                   *)
Calm == phase["gc"] # "idle" => \A c \in Container : ~Launching(c)

(* What is gone stays so while nobody launches.                            *)
Waning ==
  /\ ~disturbed /\ \A c \in Container : Doomed(c) => Doomed(c)'
  /\ \A c \in Container : (lease[c] = 0 => lease'[c] = 0) /\ (veth[c] = "none" => veth'[c] = "none")
  /\ bridge' = bridge \/ DeleteBridge
  /\ fw'.chains \subseteq fw.chains /\ BagToSet(fw'.rules) \subseteq BagToSet(fw.rules)
  /\ Guards \in Nat /\ Guards' \in Nat /\ Guards' <= Guards

LEMMA DoomedUndo ==
  ASSUME Kinds, Filter, Typed, Orderly, NEW p \in Process, UndoStep(p), NEW c \in Container, Doomed(c)
  PROVE  Doomed(c)'
<1>0. c \in Process /\ c # "gc" /\ DOMAIN cg = Container
  BY ProcessIs DEF Typed
<1>1. cg'[c] = cg[c] \/ cg'[c] = None
  BY <1>0 DEF UndoStep, Kill, RemoveCgroup, ListTagged, DeleteRule, FlushChain, DeleteChain, DeleteVeth,
     Release, Finish, cgVars
<1>2. CASE cg[c] = None
  BY <1>1, <1>2 DEF Doomed
<1>3. CASE cg[c] # None
  <2>1. phase[c] \in {"unwind", "teardown"} /\ Rmdir(c) \in Todo(c)
    BY <1>3 DEF Doomed
  <2>2. CASE p # c
    BY <1>1, <2>1, <2>2, BystandersOfUndo DEF Bystander, Doomed, Todo, Rmdir
  <2>3. CASE p = c /\ ~RemoveCgroup(c)
    BY <1>1, <2>1, <2>3, RmdirStays DEF Doomed
  <2>4. CASE p = c /\ RemoveCgroup(c)
    <3>1. OfUndo(c, Head(script[c])) /\ Head(script[c])[1] = "rmdir"
      BY <1>0, <2>4, UndoItem DEF RemoveCgroup, At, UndoOps
    <3>2. Arg(c) = c
      BY <3>1 DEF OfUndo, OfCleanup, Arg
    <3> QED
      BY <1>0, <2>4, <3>2 DEF RemoveCgroup, Doomed
  <2> QED
    BY <2>2, <2>3, <2>4
<1> QED
  BY <1>2, <1>3

LEMMA WaningNext ==
  ASSUME GcRaces = FALSE, Kinds, Filter, Filter', Typed, Orderly, Calm, phase["gc"] # "idle", phase'["gc"] # "idle",
         ~disturbed', [Next]_vars
  PROVE  Waning
<1>8. Guards \in Nat /\ Guards' \in Nat
  <2>1. Filter' => (Guards \in Nat)'
    BY GuardsCount, PTL
  <2> QED
    BY <2>1, GuardsCount
<1>9. ASSUME fw' = fw PROVE Guards' <= Guards
  <2>1. Guards' = Guards
    BY <1>9 DEF Guards, Guard
  <2> QED
    BY <1>8, <2>1
<1>0. /\ "gc" \in Process /\ phase = [p \in Process |-> phase[p]] /\ phase["gc"] \in {"idle", "collect", "done"}
      /\ lease \in [Container -> Addr \cup {0}] /\ veth \in [Container -> {"none", "host", "moved"}]
      /\ DOMAIN cg = Container
  BY ProcessIs DEF Kinds, Fits, Typed
<1>1. ~disturbed
  BY StaysDisturbed
<1>2. ASSUME NEW c \in Container, LaunchStep(c) \/ CallFails(c) PROVE Waning
  BY <1>2, LaunchActor DEF Calm, Launching
<1>3. ASSUME NEW c \in Container, Start(c) PROVE Waning
  <2>1. phase["gc"] = "done" /\ c # "gc"
    BY <1>0, <1>3, ProcessIs DEF Start
  <2>2. phase'["gc"] = "idle"
    BY <1>0, <1>3, <2>1 DEF Start
  <2> QED
    BY <2>2
<1>4. ASSUME NEW c \in Container, Exit(c) \/ Reap(c) \/ Crash(c) PROVE Waning
  <2>1. ~Crash(c)
    BY DEF Crash
  <2>2. phase[c] = "wait" /\ UNCHANGED <<lease, bridge, cg>> /\ fw' = fw
    BY <1>4, <2>1 DEF Exit, Reap, netVars, cgVars, fwVars
  <2>3. \A d \in Container : veth[d] = "none" => veth'[d] = "none"
    BY <1>0, <1>4, <2>1 DEF Exit, Reap, Dies, netVars
  <2>4. ASSUME NEW d \in Container, Doomed(d) PROVE Doomed(d)'
    <3>1. CASE d = c
      BY <2>2, <2>4, <3>1 DEF Doomed
    <3>2. CASE d # c
      <4>1. Bystander(d)
        BY <1>4, <3>2, BystandersOfEnd
      <4> QED
        BY <2>2, <2>4, <4>1 DEF Bystander, Doomed, Todo, Rmdir
    <3> QED
      BY <3>1, <3>2
  <2> QED
    BY <1>1, <1>8, <1>9, <2>2, <2>3, <2>4 DEF Waning
<1>5. ASSUME NEW p \in Process, UndoStep(p) PROVE Waning
  <2>1. bridge' = bridge
    BY <1>5 DEF UndoStep, Kill, RemoveCgroup, ListTagged, DeleteRule, FlushChain, DeleteChain, DeleteVeth,
       Release, Finish, netVars
  <2>2. lease' = lease \/ lease' = [lease EXCEPT ![Arg(p)] = 0]
    BY <1>5 DEF UndoStep, Kill, RemoveCgroup, ListTagged, DeleteRule, FlushChain, DeleteChain, DeleteVeth,
       Release, Finish, netVars
  <2>3. veth' = veth \/ delete_link(Arg(p)) \/ Dies(Arg(p))
    BY <1>5 DEF UndoStep, Kill, RemoveCgroup, ListTagged, DeleteRule, FlushChain, DeleteChain, DeleteVeth,
       Release, Finish, netVars
  <2>4. \A d \in Container : veth[d] = "none" => veth'[d] = "none"
    BY <1>0, <2>3 DEF delete_link, Dies
  <2>5. \A d \in Container : lease[d] = 0 => lease'[d] = 0
    BY <1>0, <2>2
  <2>6. \A d \in Container : Doomed(d) => Doomed(d)'
    BY <1>5, DoomedUndo
  <2> QED
    BY <1>1, <1>5, <1>8, <2>1, <2>4, <2>5, <2>6, UndoFilter DEF Waning
<1>6. CASE GcStep \/ StartGc
  <2>1. fw' = fw /\ \A c \in Container : Bystander(c)
    BY <1>6, BystandersOfGc, OtherFilter
  <2>2. bridge' = bridge \/ DeleteBridge
    BY <1>6 DEF GcStep, StartGc, Scan, TeardownDead, gc_empty, IpamGc, orphaned_veths, BridgeUsed, BridgeLinks,
       CountBaseRules, netVars
  <2>3. UNCHANGED <<lease, veth>> \/ (IpamGc /\ UNCHANGED veth)
    BY <1>6 DEF GcStep, StartGc, Scan, TeardownDead, gc_empty, IpamGc, orphaned_veths, BridgeUsed, BridgeLinks,
       DeleteBridge, CountBaseRules, netVars
  <2>4. \A c \in Container : lease[c] = 0 => lease'[c] = 0
    BY <2>3 DEF IpamGc
  <2>5. \A c \in Container : cg'[c] = cg[c] \/ cg'[c] = None
    BY <1>6 DEF GcStep, StartGc, Scan, TeardownDead, gc_empty, IpamGc, orphaned_veths, BridgeUsed, BridgeLinks,
       DeleteBridge, CountBaseRules, cgVars
  <2>6. \A c \in Container : Doomed(c) => Doomed(c)'
    BY <2>1, <2>5 DEF Bystander, Doomed, Todo, Rmdir
  <2> QED
    BY <1>1, <1>8, <1>9, <2>1, <2>2, <2>3, <2>4, <2>6 DEF Waning
<1>7. CASE UNCHANGED vars
  <2>1. UNCHANGED <<cg, phase, script, lease, veth, bridge, fw>>
    BY <1>7 DEF vars, procVars, netVars, fwVars, cgVars
  <2>2. \A c \in Container : Doomed(c) => Doomed(c)'
    BY <2>1 DEF Doomed, Todo, Rmdir
  <2> QED
    BY <1>1, <1>8, <1>9, <2>1, <2>2 DEF Waning
<1> QED
  BY <1>2, <1>3, <1>4, <1>5, <1>6, <1>7 DEF Next

LEMMA CalmNext ==
  ASSUME GcRaces = FALSE, Kinds, Typed, Aware', Calm, [Next]_vars
  PROVE  Calm'
<1>0. /\ "gc" \in Process /\ phase = [p \in Process |-> phase[p]] /\ phase["gc"] \in {"idle", "collect", "done"}
  BY ProcessIs DEF Kinds, Fits
<1> SUFFICES ASSUME phase'["gc"] # "idle", phase'["gc"] # "collect", NEW c \in Container, Launching(c)' PROVE FALSE
  BY DEF Calm, Aware, Launching
<1>1. c \in Process /\ c # "gc"
  BY ProcessIs
<1>2. ASSUME NEW d \in Container, Start(d) PROVE FALSE
  <2>1. d # "gc"
    BY ProcessIs
  <2>2. phase["gc"] # "collect"
    BY <1>2 DEF Start
  <2>3. phase'["gc"] = "idle"
    BY <1>0, <1>2, <2>1, <2>2 DEF Start
  <2> QED
    BY <2>3
<1>3. ASSUME NEW d \in Container, LaunchStep(d) \/ CallFails(d) PROVE FALSE
  <2>1. phase'["gc"] = phase["gc"] /\ phase[d] = "launch"
    BY <1>0, <1>3, LaunchActor, ProcessIs DEF Others
  <2> QED
    BY <2>1 DEF Calm, Launching
<1>4. ASSUME NEW d \in Container, Exit(d) \/ Reap(d) \/ Crash(d) PROVE FALSE
  <2>1. phase'["gc"] = phase["gc"] /\ (c # d => phase'[c] = phase[c]) /\ phase'[d] # "launch"
    BY <1>0, <1>1, <1>4, EndActor, ProcessIs DEF Others
  <2> QED
    BY <2>1 DEF Calm, Launching
<1>5. ASSUME NEW p \in Process, UndoStep(p) PROVE FALSE
  <2>1. (c # p => phase'[c] = phase[c]) /\ phase'[p] # "launch"
    BY <1>1, <1>5, UndoActor DEF Others
  <2>2. phase[c] = "launch"
    BY <2>1 DEF Launching
  <2>3. phase["gc"] # "idle"
    <3>1. CASE p # "gc"
      BY <1>0, <1>5, <3>1, UndoActor DEF Others
    <3>2. CASE p = "gc"
      <4>1. UNCHANGED phase \/ phase["gc"] = "collect"
        BY <1>5, <3>2 DEF UndoStep, Kill, RemoveCgroup, ListTagged, DeleteRule, FlushChain, DeleteChain,
           DeleteVeth, Release, Finish, Done, Kinds, Fits
      <4> QED
        BY <4>1
    <3> QED
      BY <3>1, <3>2
  <2> QED
    BY <2>2, <2>3 DEF Calm, Launching
<1>6. CASE StartGc
  BY <1>0, <1>6 DEF StartGc
<1>7. CASE GcStep \/ UNCHANGED vars
  <2>1. phase' = phase
    BY <1>7, GcActor DEF vars, procVars
  <2> QED
    BY <2>1 DEF Calm, Launching
<1> QED
  BY <1>2, <1>3, <1>4, <1>5, <1>6, <1>7 DEF Next

-----------------------------------------------------------------------------
(* Steps of others: gc stays where it is.                                  *)

LEMMA SweptOther ==
  ASSUME Kinds, Swept, phase'["gc"] = phase["gc"], script'["gc"] = script["gc"], live' = live,
         seen'["gc"] = seen["gc"], bridge' = bridge, phase["gc"] # "idle" /\ ~disturbed' => Waning
  PROVE  Swept' /\ (phase["gc"] = "collect" /\ AtEnd => AtEnd')
<1>1. ASSUME phase["gc"] # "idle", Rid'
      PROVE  /\ Rid /\ (NoCgroups => NoCgroups') /\ (NoLeases => NoLeases') /\ (NoVeths => NoVeths')
             /\ (Gone => Gone')
             /\ \A c \in Container : veth[c] = "none" => veth'[c] = "none"
             /\ \A s : Ends(fw.chains, BagToSet(fw.rules), s) => Ends(fw'.chains, BagToSet(fw'.rules), s)
             /\ Guards \in Nat /\ Guards' \in Nat /\ Guards' <= Guards
  <2>1. Waning /\ Rid
    BY <1>1 DEF Rid, Waning
  <2>2. /\ (NoCgroups => NoCgroups') /\ (NoLeases => NoLeases') /\ (NoVeths => NoVeths')
        /\ \A c \in Container : veth[c] = "none" => veth'[c] = "none"
    BY <2>1 DEF Waning, NoCgroups, NoLeases, NoVeths
  <2>3. NoBridge' = NoBridge
    BY DEF NoBridge
  <2>4. \A s : Ends(fw.chains, BagToSet(fw.rules), s) => Ends(fw'.chains, BagToSet(fw'.rules), s)
    BY <2>1, EndsFewer DEF Waning
  <2>5. Guards \in Nat /\ Guards' \in Nat /\ Guards' <= Guards
    BY <2>1 DEF Waning
  <2> QED
    BY <2>1, <2>2, <2>3, <2>4, <2>5 DEF Gone
<1>5. ASSUME phase["gc"] = "collect", AtEnd PROVE AtEnd'
  <2>1. \A x \in Todo("gc")' : Removal(x)'
    BY <1>5 DEF AtEnd, Todo, Removal, OfBase, OfCleanup, BaseOps
  <2>2. ASSUME Rid' PROVE Guarded(Guards', script["gc"])
    <3>1. /\ Rid /\ Guards \in Nat /\ Guards' \in Nat /\ Guards' <= Guards
      BY <1>1, <1>5, <2>2
    <3>2. script["gc"] \in Seq(Item) /\ (\A x \in ToSet(script["gc"]) : Removal(x)) /\ Guarded(Guards, script["gc"])
      BY <1>5, <3>1, ProcessIs DEF AtEnd, Todo, Kinds, Fits
    <3> DEFINE n == Guards
               m == Guards'
               s == script["gc"]
    <3> HIDE DEF n, m, s
    <3>3. n \in Nat /\ m \in Nat /\ m <= n /\ s \in Seq(Item) /\ (\A x \in ToSet(s) : Removal(x)) /\ Guarded(n, s)
      BY <3>1, <3>2 DEF n, m, s
    <3>4. Guarded(m, s)
      BY <3>3, GuardedFewer
    <3> QED
      BY <3>4 DEF m, s
  <2>3. Rid' => Guarded(Guards, script["gc"])'
    BY <2>2 DEF Guarded, Guard
  <2>4. Rid' => Gone' /\ Ends(fw'.chains, BagToSet(fw'.rules), script["gc"])
    BY <1>1, <1>5 DEF AtEnd
  <2> QED
    BY <1>5, <2>1, <2>3, <2>4 DEF AtEnd
<1> SUFFICES Swept'
  BY <1>5
<1>2. CASE phase["gc"] = "done"
  <2>1. ASSUME Rid' PROVE Gone' /\ Ends(fw'.chains, BagToSet(fw'.rules), <<>>) /\ Guards' = 0
    <3>1. Gone /\ Ends(fw.chains, BagToSet(fw.rules), <<>>) /\ Guards = 0
      BY <1>1, <1>2, <2>1 DEF Swept
    <3> QED
      BY <1>1, <1>2, <2>1, <3>1
  <2> QED
    BY <1>2, <2>1 DEF Swept
<1>3. CASE phase["gc"] = "collect"
  <2>1. CASE AtScan
    BY <1>3, <2>1 DEF Swept, AtScan, Opening
  <2>2. CASE AtOwn
    <3>1. Closing' = Closing /\ \A x : Own(x) => Own(x)'
      BY DEF Closing, Own, OfUndo, OfCleanup, UndoOps
    <3>2. AtOwn'
      BY <2>2, <3>1 DEF AtOwn
    <3> QED
      BY <1>3, <3>2 DEF Swept
  <2>3. CASE AtLeases
    <3>1. AtLeases'
      BY <1>1, <1>3, <2>3 DEF AtLeases
    <3> QED
      BY <1>3, <3>1 DEF Swept
  <2>4. CASE AtLinks
    <3>1. AtLinks'
      BY <1>1, <1>3, <2>4 DEF AtLinks
    <3> QED
      BY <1>3, <3>1 DEF Swept
  <2>5. CASE AtVeths
    <3>1. PICK v \in Seq(Item) :
            /\ script["gc"] = v \o (IF live = {} THEN Sharing ELSE <<>>) /\ \A x \in ToSet(v) : x[1] = "veth"
            /\ Rid => /\ NoCgroups /\ NoLeases
                      /\ \A c \in Container : veth[c] = "none" \/ <<"veth", c>> \in ToSet(v)
      BY <2>5 DEF AtVeths
    <3>2. Sharing' = Sharing
      BY DEF Sharing
    <3>3. Rid' => /\ NoCgroups' /\ NoLeases'
                  /\ \A c \in Container : veth'[c] = "none" \/ <<"veth", c>> \in ToSet(v)
      BY <1>1, <1>3, <3>1
    <3>4. script'["gc"] = v \o (IF live' = {} THEN Sharing ELSE <<>>)
      BY <3>1
    <3>5. AtVeths'
      BY <3>1, <3>2, <3>3, <3>4 DEF AtVeths
    <3> QED
      BY <1>3, <3>5 DEF Swept
  <2>6. CASE AtBridge
    <3>1. AtBridge'
      BY <1>1, <1>3, <2>6 DEF AtBridge
    <3> QED
      BY <1>3, <3>1 DEF Swept
  <2>7. CASE AtDelete
    <3>1. AtDelete'
      BY <1>1, <1>3, <2>7 DEF AtDelete
    <3> QED
      BY <1>3, <3>1 DEF Swept
  <2>8. CASE AtRules
    <3>1. AtRules'
      BY <1>1, <1>3, <2>8 DEF AtRules
    <3> QED
      BY <1>3, <3>1 DEF Swept
  <2>9. CASE AtEnd
    BY <1>3, <1>5, <2>9 DEF Swept
  <2> QED
    BY <1>3, <2>1, <2>2, <2>3, <2>4, <2>5, <2>6, <2>7, <2>8, <2>9 DEF Swept
<1>4. CASE phase["gc"] \notin {"collect", "done"}
  BY <1>4 DEF Swept
<1> QED
  BY <1>2, <1>3, <1>4, <1>5

-----------------------------------------------------------------------------
(* What gc does next, and where that leads.                                *)

LEMMA ScriptsOfGc ==
  LET i == <<"ipam_gc", 0>>
      o == <<"orphaned_veths", 0>>
      l == <<"bridge_links", 0>>
      d == <<"delete_bridge", 0>>
      b == <<"base_rules", 0>> IN
  /\ Opening \in Seq(Item) /\ Opening # <<>> /\ Head(Opening)[1] = "scan"
  /\ Closing \in Seq(Item) /\ Closing # <<>> /\ Head(Closing)[1] = "gc_empty" /\ Tail(Closing) = <<i, o>>
  /\ Sharing \in Seq(Item) /\ Sharing # <<>> /\ Head(Sharing)[1] = "bridge_used" /\ Tail(Sharing) = <<l, b>>
  /\ <<i, o>> # <<>> /\ Head(<<i, o>>)[1] = "ipam_gc" /\ Tail(<<i, o>>) = <<o>>
  /\ <<o>> # <<>> /\ Head(<<o>>)[1] = "orphaned_veths"
  /\ <<l, b>> # <<>> /\ Head(<<l, b>>)[1] = "bridge_links" /\ Tail(<<l, b>>) = <<b>>
  /\ <<d, b>> # <<>> /\ Head(<<d, b>>)[1] = "delete_bridge" /\ Tail(<<d, b>>) = <<b>>
  /\ <<b>> # <<>> /\ Head(<<b>>)[1] = "base_rules"
<1> DEFINE s == <<"scan", 0>>
           g == <<"gc_empty", 0>>
           i == <<"ipam_gc", 0>>
           o == <<"orphaned_veths", 0>>
           u == <<"bridge_used", 0>>
           l == <<"bridge_links", 0>>
           d == <<"delete_bridge", 0>>
           b == <<"base_rules", 0>>
<1>1. /\ s \in Item /\ g \in Item /\ i \in Item /\ o \in Item /\ u \in Item /\ l \in Item /\ d \in Item /\ b \in Item
  BY ItemsAre, OpsAre, ArgsAre DEF GcOps, BaseOps
<1>2. /\ s[1] = "scan" /\ g[1] = "gc_empty" /\ i[1] = "ipam_gc" /\ o[1] = "orphaned_veths" /\ u[1] = "bridge_used"
      /\ l[1] = "bridge_links" /\ d[1] = "delete_bridge" /\ b[1] = "base_rules"
  OBVIOUS
<1>3. Opening = <<s>> /\ Closing = <<g, i, o>> /\ Sharing = <<u, l, b>>
  BY DEF Opening, Closing, Sharing
<1> HIDE DEF s, g, i, o, u, l, d, b
<1>4. /\ Opening \in Seq(Item) /\ Opening # <<>> /\ Head(Opening) = s
  BY <1>1, <1>3
<1>5. /\ Closing \in Seq(Item) /\ Closing # <<>> /\ Head(Closing) = g /\ Tail(Closing) = <<i, o>>
  BY <1>1, <1>3
<1>6. /\ Sharing \in Seq(Item) /\ Sharing # <<>> /\ Head(Sharing) = u /\ Tail(Sharing) = <<l, b>>
  BY <1>1, <1>3
<1>7. /\ <<i, o>> # <<>> /\ Head(<<i, o>>) = i /\ Tail(<<i, o>>) = <<o>> /\ <<o>> # <<>> /\ Head(<<o>>) = o
  BY <1>1
<1>8. /\ <<l, b>> # <<>> /\ Head(<<l, b>>) = l /\ Tail(<<l, b>>) = <<b>>
      /\ <<d, b>> # <<>> /\ Head(<<d, b>>) = d /\ Tail(<<d, b>>) = <<b>>
      /\ <<b>> # <<>> /\ Head(<<b>>) = b
  BY <1>1
<1>9. /\ Head(Opening)[1] = "scan" /\ Head(Closing)[1] = "gc_empty" /\ Head(Sharing)[1] = "bridge_used"
      /\ Head(<<i, o>>)[1] = "ipam_gc" /\ Head(<<o>>)[1] = "orphaned_veths"
      /\ Head(<<l, b>>)[1] = "bridge_links" /\ Head(<<d, b>>)[1] = "delete_bridge" /\ Head(<<b>>)[1] = "base_rules"
  BY <1>2, <1>4, <1>5, <1>6, <1>7, <1>8, Zenon
<1>10. /\ Opening \in Seq(Item) /\ Opening # <<>> /\ Head(Opening)[1] = "scan"
       /\ Closing \in Seq(Item) /\ Closing # <<>> /\ Head(Closing)[1] = "gc_empty" /\ Tail(Closing) = <<i, o>>
       /\ Sharing \in Seq(Item) /\ Sharing # <<>> /\ Head(Sharing)[1] = "bridge_used" /\ Tail(Sharing) = <<l, b>>
       /\ <<i, o>> # <<>> /\ Head(<<i, o>>)[1] = "ipam_gc" /\ Tail(<<i, o>>) = <<o>>
       /\ <<o>> # <<>> /\ Head(<<o>>)[1] = "orphaned_veths"
       /\ <<l, b>> # <<>> /\ Head(<<l, b>>)[1] = "bridge_links" /\ Tail(<<l, b>>) = <<b>>
       /\ <<d, b>> # <<>> /\ Head(<<d, b>>)[1] = "delete_bridge" /\ Tail(<<d, b>>) = <<b>>
       /\ <<b>> # <<>> /\ Head(<<b>>)[1] = "base_rules"
  BY <1>4, <1>5, <1>6, <1>7, <1>8, <1>9, Zenon
<1> QED
  BY <1>10, Zenon DEF i, o, l, d, b

OwnOps == UndoOps \cup {"list", "delete", "teardown"}

LEMMA OwnIs ==
  ASSUME NEW x, Own(x)
  PROVE  x[1] \in OwnOps
  BY DEF Own, OfUndo, OfCleanup, OwnOps

LEMMA RemovalIs ==
  ASSUME NEW x, Removal(x)
  PROVE  x[1] \in {"list", "delete", "flush", "drop"}
  BY DEF Removal, OfBase, OfCleanup

(* gc has items about containers left to do.                               *)
OwnNext ==
  /\ Own(Head(script["gc"]))
  /\ \E a \in Seq(Item) : Tail(script["gc"]) = a \o Closing /\ \A x \in ToSet(a) : Own(x)

(* gc has interfaces left to delete.                                       *)
VethNext ==
  /\ Head(script["gc"])[1] = "veth"
  /\ \E v \in Seq(Item) :
       /\ Tail(script["gc"]) = v \o (IF live = {} THEN Sharing ELSE <<>>) /\ \A x \in ToSet(v) : x[1] = "veth"
       /\ Rid => /\ NoCgroups /\ NoLeases
                 /\ \A c \in Container : \/ veth[c] = "none" \/ <<"veth", c>> = Head(script["gc"])
                                         \/ <<"veth", c>> \in ToSet(v)

LEMMA OwnHead ==
  ASSUME AtOwn
  PROVE  script["gc"] # <<>> /\ (script["gc"] = Closing \/ OwnNext)
<1>1. PICK a \in Seq(Item) : script["gc"] = a \o Closing /\ \A x \in ToSet(a) : Own(x)
  BY DEF AtOwn
<1>2. Closing \in Seq(Item) /\ Closing # <<>>
  BY ScriptsOfGc
<1>3. CASE a = <<>>
  <2>1. script["gc"] = Closing
    BY <1>1, <1>2, <1>3, ConcatEmptySeq
  <2> QED
    BY <1>2, <2>1
<1>4. CASE a # <<>>
  <2>1. a \o Closing # <<>> /\ Head(a \o Closing) = Head(a) /\ Tail(a \o Closing) = Tail(a) \o Closing
    BY <1>2, <1>4, JoinedHead
  <2>2. Tail(a) \in Seq(Item) /\ ToSet(a) = {Head(a)} \cup ToSet(Tail(a))
    BY <1>4, PoppedSeq
  <2> QED
    BY <1>1, <2>1, <2>2, Zenon DEF OwnNext
<1> QED
  BY <1>3, <1>4

LEMMA VethHead ==
  ASSUME AtVeths
  PROVE  \/ script["gc"] = <<>> /\ live # {}
         \/ script["gc"] = Sharing /\ live = {} /\ (Rid => NoCgroups /\ NoLeases /\ NoVeths)
         \/ script["gc"] # <<>> /\ VethNext
<1> DEFINE R == IF live = {} THEN Sharing ELSE <<>>
<1>1. PICK v \in Seq(Item) :
        /\ script["gc"] = v \o R /\ \A x \in ToSet(v) : x[1] = "veth"
        /\ Rid => /\ NoCgroups /\ NoLeases
                  /\ \A c \in Container : veth[c] = "none" \/ <<"veth", c>> \in ToSet(v)
  BY DEF AtVeths
<1>2. R \in Seq(Item) /\ (live = {} => R = Sharing) /\ (live # {} => R = <<>>)
  BY ScriptsOfGc
<1>3. CASE v = <<>>
  <2>1. script["gc"] = R
    <3> HIDE DEF R
    <3> QED
      BY <1>1, <1>2, <1>3, ConcatEmptySeq
  <2>2. ToSet(v) = {}
    BY <1>3 DEF ToSet
  <2>3. Rid => NoCgroups /\ NoLeases /\ NoVeths
    BY <1>1, <2>2 DEF NoVeths
  <2> QED
    BY <1>2, <2>1, <2>3
<1>4. CASE v # <<>>
  <2> HIDE DEF R
  <2>1. v \o R # <<>> /\ Head(v \o R) = Head(v) /\ Tail(v \o R) = Tail(v) \o R
    BY <1>2, <1>4, JoinedHead
  <2>2. Tail(v) \in Seq(Item) /\ ToSet(v) = {Head(v)} \cup ToSet(Tail(v))
    BY <1>4, PoppedSeq
  <2>3. /\ script["gc"] # <<>> /\ Head(script["gc"]) = Head(v) /\ Tail(script["gc"]) = Tail(v) \o R
    BY <1>1, <2>1
  <2>4. Head(script["gc"])[1] = "veth" /\ \A x \in ToSet(Tail(v)) : x[1] = "veth"
    BY <1>1, <2>2, <2>3, Zenon
  <2>5. Rid => /\ NoCgroups /\ NoLeases
               /\ \A c \in Container : \/ veth[c] = "none" \/ <<"veth", c>> = Head(script["gc"])
                                       \/ <<"veth", c>> \in ToSet(Tail(v))
    BY <1>1, <2>2, <2>3, Zenon
  <2> QED
    BY <2>2, <2>3, <2>4, <2>5, Zenon DEF VethNext, R
<1> QED
  BY <1>3, <1>4

(* The operation that gc does next tells how far it has got.               *)
LEMMA GcAt ==
  ASSUME Kinds, phase["gc"] = "collect", Swept, NEW op, At("gc", op)
  PROVE  /\ op = "scan" => AtScan
         /\ op = "teardown" => OwnNext
         /\ op = "gc_empty" => script["gc"] = Closing
         /\ op = "ipam_gc" => AtLeases
         /\ op = "orphaned_veths" => AtLinks
         /\ op = "bridge_used" => script["gc"] = Sharing /\ live = {} /\ (Rid => NoCgroups /\ NoLeases /\ NoVeths)
         /\ op = "bridge_links" => AtBridge
         /\ op = "delete_bridge" => AtDelete
         /\ op = "base_rules" => AtRules
         /\ op \in {"kill", "rmdir", "release"} => OwnNext
         /\ op = "veth" => OwnNext \/ VethNext
         /\ op \in {"list", "delete"} => OwnNext \/ AtEnd
         /\ op \in {"flush", "drop"} => AtEnd
<1> DEFINE h == Head(script["gc"])[1]
<1>0. h = op /\ script["gc"] # <<>>
  BY DEF At
<1>1. AtScan => h = "scan"
  BY ScriptsOfGc DEF AtScan
<1>2. AtOwn => (script["gc"] = Closing /\ h = "gc_empty") \/ (OwnNext /\ h \in OwnOps)
  BY OwnHead, ScriptsOfGc, OwnIs DEF OwnNext
<1>3. /\ AtLeases => h = "ipam_gc"
      /\ AtLinks => h = "orphaned_veths"
      /\ AtBridge => h = "bridge_links"
      /\ AtDelete => h = "delete_bridge"
      /\ AtRules => h = "base_rules"
  BY ScriptsOfGc DEF AtLeases, AtLinks, AtBridge, AtDelete, AtRules
<1>4. AtVeths => \/ /\ script["gc"] = Sharing /\ h = "bridge_used" /\ live = {}
                    /\ Rid => NoCgroups /\ NoLeases /\ NoVeths
                 \/ VethNext /\ h = "veth"
  BY <1>0, VethHead, ScriptsOfGc DEF VethNext
<1>5. AtEnd => h \in {"list", "delete", "flush", "drop"}
  <2>1. Head(script["gc"]) \in Todo("gc")
    BY <1>0, HeadIs, ProcessIs
  <2> QED
    BY <2>1, RemovalIs DEF AtEnd
<1> HIDE DEF h
<1>6. AtScan \/ AtOwn \/ AtLeases \/ AtLinks \/ AtVeths \/ AtBridge \/ AtDelete \/ AtRules \/ AtEnd
  BY DEF Swept
<1> QED
  BY <1>0, <1>1, <1>2, <1>3, <1>4, <1>5, <1>6 DEF OwnOps, UndoOps

(* Every container of the set gets its item.                               *)
LEMMA EachOneOf ==
  ASSUME NEW S \in SUBSET Container, NEW op \in Ops
  PROVE  \A c \in S : <<op, c>> \in ToSet(Each(op, SetToSeq(S)))
<1> DEFINE s == SetToSeq(S)
<1>1. IsFiniteSet(S)
  BY HostAssumption, FS_Subset
<1>2. s \in Seq(S) /\ ToSet(s) = S
  BY <1>1, SetToSeqOfSet
<1> HIDE DEF s
<1>3. s \in Seq(Args)
  <2>1. S \subseteq Args
    BY ArgsAre
  <2> QED
    BY <1>2, <2>1, SeqMonotonic
<1>4. \A a \in ToSet(s) : <<op, a>> \in ToSet(Each(op, s))
  BY <1>3, EachIs
<1> QED
  BY <1>2, <1>4 DEF s

LEMMA JoinedOnes ==
  ASSUME NEW S, NEW x \in S, NEW y \in S
  PROVE  <<x>> \o <<y>> = <<x, y>>
<1> DEFINE a == <<x>>
           b == <<y>>
           s == a \o b
           t == <<x, y>>
<1>1. a \in Seq(S) /\ b \in Seq(S) /\ Len(a) = 1 /\ Len(b) = 1 /\ a[1] = x /\ b[1] = y
  OBVIOUS
<1>2. t \in Seq(S) /\ Len(t) = 2 /\ t[1] = x /\ t[2] = y
  OBVIOUS
<1> HIDE DEF a, b, t
<1>3. /\ s \in Seq(S) /\ Len(s) = Len(a) + Len(b)
      /\ \A i \in 1 .. Len(a) + Len(b) : s[i] = IF i <= Len(a) THEN a[i] ELSE b[i - Len(a)]
  BY <1>1, ConcatProperties
<1> HIDE DEF s
<1>4. Len(s) = 2 /\ s[1] = x /\ s[2] = y
  BY <1>1, <1>3
<1>5. ASSUME NEW i \in 1 .. 2 PROVE s[i] = t[i]
  BY <1>2, <1>4
<1>6. s = t
  BY <1>2, <1>3, <1>4, <1>5, SeqEqual
<1> QED
  BY <1>6 DEF s, a, b, t

LEMMA ToOwn ==
  ASSUME NEW a \in Seq(Item), script'["gc"] = a \o Closing, \A x \in ToSet(a) : Own(x)
  PROVE  AtOwn'
<1>1. Closing' = Closing /\ \A x : Own(x) => Own(x)'
  BY DEF Closing, Own, OfUndo, OfCleanup, UndoOps
<1> QED
  BY <1>1 DEF AtOwn

LEMMA MoreOwn ==
  ASSUME OwnNext, NEW s \in Seq(Item), \A x \in ToSet(s) : Own(x), script'["gc"] = s \o Tail(script["gc"])
  PROVE  AtOwn'
<1>1. PICK a \in Seq(Item) : Tail(script["gc"]) = a \o Closing /\ \A x \in ToSet(a) : Own(x)
  BY DEF OwnNext
<1>2. Closing \in Seq(Item)
  BY ScriptsOfGc
<1>3. s \o (a \o Closing) = (s \o a) \o Closing
  BY <1>2, ConcatAssociative
<1>4. s \o a \in Seq(Item) /\ ToSet(s \o a) = ToSet(s) \cup ToSet(a)
  BY JoinedSeq
<1>5. \A x \in ToSet(s \o a) : Own(x)
  BY <1>1, <1>4
<1>6. script'["gc"] = (s \o a) \o Closing
  BY <1>1, <1>3
<1> QED
  BY <1>4, <1>5, <1>6, ToOwn

LEMMA LessOwn ==
  ASSUME OwnNext, script'["gc"] = Tail(script["gc"])
  PROVE  AtOwn'
  BY ToOwn DEF OwnNext

-----------------------------------------------------------------------------
(* The steps of gc itself.                                                 *)

LEMMA SweptScan ==
  ASSUME Kinds, Scan
  PROVE  AtOwn'
<1> DEFINE d == {c \in Container : status[c] = "Running" /\ ~child[c]}
           a == Each("teardown", SetToSeq(d))
<1>1. script'["gc"] = a \o Closing
  BY ProcessIs DEF Scan, Continue, Kinds, Closing
<1>2. "teardown" \in Ops /\ d \in SUBSET Container
  BY OpsAre
<1>3. a \in Seq(Item) /\ \A x \in ToSet(a) : \E c \in d : x = <<"teardown", c>>
  <2> HIDE DEF d
  <2> QED
    BY <1>2, EachContainer
<1>4. \A x \in ToSet(a) : Own(x)
  <2> HIDE DEF a
  <2> QED
    BY <1>2, <1>3 DEF Own
<1> QED
  BY <1>1, <1>3, <1>4, ToOwn

LEMMA SweptTeardown ==
  ASSUME Kinds, OwnNext, TeardownDead
  PROVE  AtOwn'
<1> DEFINE d == Arg("gc")
<1>1. Own(Head(script["gc"])) /\ Head(script["gc"])[1] = "teardown"
  BY DEF OwnNext, TeardownDead, At
<1>2. d \in Container
  BY <1>1 DEF Own, OfUndo, OfCleanup, UndoOps, Arg
<1>3. script'["gc"] = teardown(d) \o Tail(script["gc"])
  BY ProcessIs DEF TeardownDead, Continue, Kinds
<1>4. teardown(d) \in Seq(Item) /\ \A x \in ToSet(teardown(d)) : Own(x)
  BY <1>2, TeardownIs DEF Own
<1> QED
  BY <1>3, <1>4, MoreOwn

LEMMA SweptCgroups ==
  ASSUME Kinds, Typed, Aware, Calm, Uncaged, \A c \in Container : Boxed(c), script["gc"] = Closing, gc_empty
  PROVE  AtLeases'
<1>1. phase["gc"] = "collect" /\ phase' = phase /\ child' = child /\ "gc" \in Process
  BY GcActor, ProcessIs DEF GcStep
<1>2. script'["gc"] = Tail(Closing) /\ live' = live
  BY <1>1 DEF gc_empty, Done, Continue, Kinds
<1>3. \A c \in Container : Up(c) => c \in live
  <2>1. script["gc"] # Opening
    BY ScriptsOfGc
  <2> QED
    BY <1>1, <2>1 DEF Aware, Opening
<1>4. ASSUME live = {}, NEW c \in Container PROVE Doomed(c)'
  <2>1. CASE ~Inside(c) \/ ~cgroup2
    BY <1>4, <2>1 DEF gc_empty, Doomed, Uncaged
  <2>2. CASE Inside(c) /\ cgroup2
    <3>1. phase[c] = "unwind" /\ Rmdir(c) \in Todo(c)
      BY <1>1, <1>3, <1>4, <2>2 DEF Boxed, Calm, Up, Inside
    <3>2. Bystander(c)
      BY BystandersOfGc DEF GcStep
    <3> QED
      BY <3>1, <3>2 DEF Bystander, Doomed, Todo, Rmdir
  <2> QED
    BY <2>1, <2>2
<1>5. Rid' => NoCgroups'
  BY <1>2, <1>4 DEF Rid, NoCgroups
<1> QED
  BY <1>2, <1>5, ScriptsOfGc DEF AtLeases

LEMMA SweptLeases ==
  ASSUME Kinds, AtLeases, IpamGc, ~disturbed' => Waning
  PROVE  AtLinks'
<1>1. script'["gc"] = <<<<"orphaned_veths", 0>>>> /\ live' = live
  <2>1. script'["gc"] = Tail(script["gc"]) /\ live' = live
    BY ProcessIs DEF IpamGc, Done, Continue, Kinds
  <2> QED
    BY <2>1, ScriptsOfGc DEF AtLeases
<1>2. Rid' => NoCgroups' /\ NoLeases'
  <2> SUFFICES ASSUME Rid' PROVE NoCgroups' /\ NoLeases'
    OBVIOUS
  <2>1. Rid /\ live = {} /\ Waning
    BY <1>1 DEF Rid, Waning
  <2>2. NoCgroups'
    BY <2>1 DEF AtLeases, NoCgroups, Waning
  <2>3. NoLeases'
    BY <2>1 DEF IpamGc, NoLeases
  <2> QED
    BY <2>2, <2>3
<1> QED
  BY <1>1, <1>2 DEF AtLinks

LEMMA SweptLinks ==
  ASSUME Kinds, Typed, AtLinks, orphaned_veths, ~disturbed' => Waning
  PROVE  AtVeths'
<1> DEFINE o == {c \in list_links : c \notin live}
           v == Each("veth", SetToSeq(o))
           R == IF live = {} THEN Sharing ELSE <<>>
<1>1. script'["gc"] = v \o R /\ live' = live /\ veth' = veth
  BY ProcessIs DEF orphaned_veths, Continue, Kinds, Sharing, netVars
<1>2. "veth" \in Ops /\ o \in SUBSET Container
  BY OpsAre DEF list_links, UndoOps
<1>3. /\ v \in Seq(Item) /\ \A x \in ToSet(v) : \E c \in o : x = <<"veth", c>>
      /\ \A c \in o : <<"veth", c>> \in ToSet(v)
  <2> HIDE DEF o
  <2> QED
    BY <1>2, EachContainer, EachOneOf
<1>4. \A x \in ToSet(v) : x[1] = "veth"
  <2> HIDE DEF v, o
  <2> QED
    BY <1>3
<1>5. Rid' => NoCgroups' /\ NoLeases' /\ \A c \in Container : veth'[c] = "none" \/ <<"veth", c>> \in ToSet(v)
  <2> SUFFICES ASSUME Rid'
               PROVE  NoCgroups' /\ NoLeases' /\ \A c \in Container : veth'[c] = "none" \/ <<"veth", c>> \in ToSet(v)
    OBVIOUS
  <2>1. Rid /\ live = {} /\ Waning
    BY <1>1 DEF Rid, Waning
  <2>2. NoCgroups' /\ NoLeases'
    BY <2>1 DEF AtLinks, NoCgroups, NoLeases, Waning
  <2>3. \A c \in Container : veth[c] # "none" => c \in o
    BY <2>1 DEF list_links
  <2> HIDE DEF v, o
  <2> QED
    BY <1>1, <1>3, <2>2, <2>3
<1>6. Sharing' = Sharing /\ R = IF live' = {} THEN Sharing ELSE <<>>
  BY <1>1 DEF Sharing
<1> HIDE DEF v
<1> QED
  BY <1>1, <1>3, <1>4, <1>5, <1>6 DEF AtVeths

LEMMA SweptBridge ==
  ASSUME Kinds, Typed, Bare, ~disturbed' => Waning
  PROVE  /\ BridgeUsed /\ script["gc"] = Sharing /\ live = {} /\ (Rid => NoCgroups /\ NoLeases /\ NoVeths) => AtBridge'
         /\ BridgeLinks /\ AtBridge => AtDelete' \/ AtRules'
         /\ DeleteBridge /\ AtDelete => AtRules'
<1>0. "gc" \in Process /\ script = [p \in Process |-> script[p]] /\ seen \in [Process -> Nat]
  BY ProcessIs DEF Kinds, Typed
<1>1. ASSUME live' = live, Rid'
      PROVE  Rid /\ (NoCgroups => NoCgroups') /\ (NoLeases => NoLeases') /\ (NoVeths => NoVeths')
  <2>1. Rid /\ Waning
    BY <1>1 DEF Rid, Waning
  <2> QED
    BY <2>1 DEF Waning, NoCgroups, NoLeases, NoVeths
<1>2. ASSUME BridgeUsed, script["gc"] = Sharing, live = {}, Rid => NoCgroups /\ NoLeases /\ NoVeths PROVE AtBridge'
  <2>1. script'["gc"] = Tail(Sharing) /\ live' = live /\ seen'["gc"] = bridge[DEFAULT_BRIDGE].index /\ bridge' = bridge
    BY <1>0, <1>2 DEF BridgeUsed, Done, Continue, netVars
  <2>2. Rid' => NoCgroups' /\ NoLeases' /\ NoVeths' /\ seen'["gc"] = bridge'[DEFAULT_BRIDGE].index
    BY <1>1, <1>2, <2>1
  <2> QED
    BY <1>2, <2>1, <2>2, ScriptsOfGc DEF AtBridge
<1>3. ASSUME BridgeLinks, AtBridge PROVE AtDelete' \/ AtRules'
  <2> DEFINE d == <<"delete_bridge", 0>>
             b == <<"base_rules", 0>>
  <2>1. live' = live /\ bridge' = bridge /\ live = {} /\ Tail(script["gc"]) = <<b>>
    BY <1>3, ScriptsOfGc DEF BridgeLinks, AtBridge, netVars
  <2>2. CASE seen["gc"] # 0 /\ list_links = {}
    <3>1. script'["gc"] = <<d>> \o <<b>>
      BY <1>0, <1>3, <2>1, <2>2 DEF BridgeLinks, Continue
    <3>2. script'["gc"] = <<d, b>>
      <4>1. d \in Item /\ b \in Item
        BY ItemsAre, OpsAre, ArgsAre DEF BaseOps
      <4> HIDE DEF d, b
      <4> QED
        BY <3>1, <4>1, JoinedOnes
    <3>3. Rid' => NoCgroups' /\ NoLeases' /\ NoVeths'
      BY <1>1, <1>3, <2>1 DEF AtBridge
    <3> QED
      BY <2>1, <3>2, <3>3 DEF AtDelete
  <2>3. CASE ~(seen["gc"] # 0 /\ list_links = {})
    <3>1. script'["gc"] = <<b>>
      BY <1>0, <1>3, <2>1, <2>3 DEF BridgeLinks, Continue
    <3>2. ASSUME Rid' PROVE Gone'
      <4>1. Rid /\ NoCgroups' /\ NoLeases' /\ NoVeths'
        BY <1>1, <1>3, <2>1, <3>2 DEF AtBridge
      <4>2. NoVeths /\ seen["gc"] = bridge[DEFAULT_BRIDGE].index
        BY <1>3, <4>1 DEF AtBridge
      <4>3. bridge[DEFAULT_BRIDGE].index = 0
        BY <2>3, <4>2 DEF NoVeths, list_links
      <4>4. bridge[DEFAULT_BRIDGE] = NoBridge
        BY <4>3, BridgeIs DEF Bare
      <4>5. bridge'[DEFAULT_BRIDGE] = NoBridge'
        BY <2>1, <4>4 DEF NoBridge
      <4> QED
        BY <4>1, <4>5 DEF Gone
    <3> QED
      BY <2>1, <3>1, <3>2 DEF AtRules
  <2> QED
    BY <2>2, <2>3
<1>4. ASSUME DeleteBridge, AtDelete PROVE AtRules'
  <2>1. /\ script'["gc"] = Tail(script["gc"]) /\ live' = live /\ bridge'[DEFAULT_BRIDGE] = NoBridge /\ live = {}
    BY <1>0, <1>4, BridgeIs DEF DeleteBridge, Done, Continue, AtDelete, Typed
  <2>2. script'["gc"] = <<<<"base_rules", 0>>>>
    BY <1>4, <2>1, ScriptsOfGc DEF AtDelete
  <2>3. Rid' => Gone'
    BY <1>1, <1>4, <2>1 DEF AtDelete, Gone, NoBridge
  <2> QED
    BY <2>1, <2>2, <2>3 DEF AtRules
<1> QED
  BY <1>2, <1>3, <1>4

(* Chains without a tagged rule are there only while somebody sets them up *)
(* or gc removes them.                                                     *)
Marked ==
  ~disturbed /\ Untagged(fw) => (phase["gc"] = "collect" /\ AtEnd) \/ \E c \in Container : Launching(c)

LEMMA SweptRules ==
  ASSUME Kinds, Filter, Calm, Wired, Marked, phase["gc"] = "collect", AtRules, CountBaseRules, ~disturbed' => Waning
  PROVE  AtEnd'
<1> DEFINE base == tagged_rules(fw, "nat", "base") \cup tagged_rules(fw, "filter", "base")
<1>1. /\ fw' = fw /\ live' = live /\ live = {} /\ bridge' = bridge
      /\ script'["gc"] = IF base = {} THEN <<>> ELSE teardown_base
  BY ProcessIs DEF CountBaseRules, AtRules, Continue, Kinds, fwVars, netVars
<1> HIDE DEF base
<1>2. \A x : Removal(x) => Removal(x)'
  BY DEF Removal, OfBase, OfCleanup, BaseOps
<1>3. Rid' => Rid /\ Gone /\ Gone'
  <2> SUFFICES ASSUME Rid' PROVE Rid /\ Gone /\ Gone'
    OBVIOUS
  <2>1. Rid /\ Waning /\ Gone
    BY <1>1 DEF Rid, Waning, AtRules
  <2> QED
    BY <1>1, <2>1 DEF Waning, Gone, NoCgroups, NoLeases, NoVeths, NoBridge
<1>4. CASE base # {}
  <2>1. Ends(fw.chains, BagToSet(fw.rules), teardown_base) /\ \A x \in ToSet(teardown_base) : Removal(x)
    <3>1. fw.chains \in SUBSET Chain /\ \A r \in BagToSet(fw.rules) : r.to \in Chain => r \in ToSet(Jumps)
      BY DEF Filter, Wired, Chained, Linking
    <3> QED
      BY <3>1, BaseEnds
  <2>2. script'["gc"] = teardown_base
    BY <1>1, <1>4
  <2>3. \A n : Guarded(n, teardown_base)'
    BY BaseGuarded DEF Guarded, Guard
  <2> QED
    BY <1>1, <1>2, <1>3, <2>1, <2>2, <2>3 DEF AtEnd, Todo
<1>5. CASE base = {}
  <2>1. script'["gc"] = <<>> /\ ToSet(<<>>) = {}
    BY <1>1, <1>5 DEF ToSet
  <2>2. ASSUME NEW r \in BagToSet(fw.rules), r.tag = "base" PROVE FALSE
    <3>1. fw.rules[r] \in Nat \ {0}
      BY CopiesAre
    <3>2. 1 \in 1 .. fw.rules[r]
      BY <3>1
    <3>3. <<r, 1>> \in Lines(fw, r)
      BY <3>2 DEF Lines
    <3>4. Table(r.chain) \in {"nat", "filter"}
      BY DEF Table
    <3>5. <<r, 1>> \in tagged_rules(fw, Table(r.chain), "base")
      BY <2>2, <3>3 DEF tagged_rules
    <3> QED
      BY <1>5, <3>4, <3>5 DEF base
  <2>3. Rid' => Ends(fw.chains, BagToSet(fw.rules), <<>>) /\ Guards' = 0
    <3> SUFFICES ASSUME Rid' PROVE Ends(fw.chains, BagToSet(fw.rules), <<>>) /\ Guards' = 0
      OBVIOUS
    <3>1. ~AtEnd
      <4>1. script["gc"] # <<>> /\ Head(script["gc"])[1] = "base_rules"
        BY ScriptsOfGc DEF AtRules
      <4>2. Head(script["gc"]) \in Todo("gc")
        BY <4>1, HeadIs, ProcessIs
      <4> QED
        BY <4>1, <4>2, RemovalIs DEF AtEnd
    <3>2. ~Untagged(fw)
      BY <1>3, <3>1 DEF Marked, Calm, Rid
    <3>3. fw.chains = {}
      BY <2>2, <3>2 DEF Untagged
    <3>4. Guard \notin BagToSet(fw.rules)
      BY <2>2, SharedRulesAre
    <3>5. Guards' = Guards /\ Guards = 0
      BY <1>1, <3>4, GuardsAre DEF Guards, Guard
    <3> QED
      BY <3>3, <3>5 DEF Ends
  <2>4. Guarded(0, <<>>)'
    BY HoldsZero DEF Guarded, Guard
  <2> QED
    BY <1>1, <1>3, <2>1, <2>3, <2>4 DEF AtEnd, Todo
<1> QED
  BY <1>4, <1>5

(* The last commands take the packet filter down.                          *)
LEMMA SweptEnd ==
  ASSUME Kinds, Filter, Wired, AtEnd, ~disturbed' => Waning,
         ListTagged("gc") \/ DeleteRule("gc") \/ FlushChain("gc") \/ DeleteChain("gc")
  PROVE  AtEnd'
<1> DEFINE g == script["gc"]
           h == Head(g)
           C == fw.chains
           R == BagToSet(fw.rules)
           D == fw'.chains
           Q == BagToSet(fw'.rules)
<1>0. /\ "gc" \in Process /\ script = [p \in Process |-> script[p]] /\ UndoStep("gc") /\ g # <<>> /\ g \in Seq(Item)
      /\ live' = live /\ bridge' = bridge
  BY ProcessIs DEF UndoStep, ListTagged, DeleteRule, FlushChain, DeleteChain, At, Kinds, Fits, netVars
<1>1. \A x : Removal(x) => Removal(x)'
  BY DEF Removal, OfBase, OfCleanup, BaseOps
<1>2. /\ h \in Todo("gc") /\ Todo("gc") = {h} \cup ToSet(Tail(g)) /\ Tail(g) \in Seq(Item)
      /\ h = <<h[1], Arg("gc")>>
  BY <1>0, HeadIs
<1>3. Removal(h) /\ \A x \in ToSet(Tail(g)) : Removal(x)
  BY <1>2 DEF AtEnd
<1>4. ASSUME Rid' PROVE /\ Rid /\ Gone' /\ Once /\ Ends(C, R, g) /\ D \subseteq C /\ Q \subseteq R
                        /\ Guarded(Guards, g) /\ Guards \in Nat /\ Guards' \in Nat /\ Guards' <= Guards
  <2>1. Rid /\ Waning
    BY <1>0, <1>4 DEF Rid, Waning
  <2>2. Gone /\ Ends(C, R, g) /\ Guarded(Guards, g)
    BY <2>1 DEF AtEnd
  <2> QED
    BY <1>0, <2>1, <2>2 DEF Waning, Gone, NoCgroups, NoLeases, NoVeths, NoBridge, Wired, Rid
<1>5. ASSUME NEW s \in Seq(Item), script'["gc"] = s \o Tail(g), \A x \in ToSet(s) : Removal(x),
             Rid' => Ends(D, Q, s \o Tail(g)) /\ Guarded(Guards', script'["gc"])
      PROVE  AtEnd'
  <2> DEFINE t == Tail(g)
  <2>1. t \in Seq(Item) /\ script'["gc"] = s \o t
    BY <1>2, <1>5
  <2> HIDE DEF t
  <2>2. ToSet(s \o t) = ToSet(s) \cup ToSet(t)
    BY <2>1, JoinedSeq
  <2>3. \A x \in Todo("gc")' : Removal(x)'
    BY <1>1, <1>3, <1>5, <2>1, <2>2 DEF Todo, t
  <2>4. live' = {}
    BY <1>0 DEF AtEnd
  <2>5. Rid' => Guarded(Guards, script["gc"])'
    BY <1>5 DEF Guarded, Guard
  <2> QED
    BY <1>4, <1>5, <2>3, <2>4, <2>5 DEF AtEnd
<1>6. ASSUME script'["gc"] = Tail(g), Rid' => Ends(D, Q, Tail(g)) /\ Guarded(Guards', Tail(g)) PROVE AtEnd'
  <2>1. \A x \in Todo("gc")' : Removal(x)'
    BY <1>1, <1>3, <1>6 DEF Todo
  <2>2. live' = {}
    BY <1>0 DEF AtEnd
  <2>3. Rid' => Guarded(Guards, script["gc"])'
    BY <1>6 DEF Guarded, Guard
  <2> QED
    BY <1>4, <1>6, <2>1, <2>2, <2>3 DEF AtEnd
<1>7. CASE ListTagged("gc")
  <2>1. h[1] = "list" /\ fw' = fw
    BY <1>7 DEF ListTagged, At, fwVars
  <2>2. OfCleanup({"base", "none"}, h)
    BY <1>3, <2>1 DEF Removal, OfBase, BaseOps
  <2>3. PICK s \in Seq(Item) : /\ script' = [script EXCEPT !["gc"] = s \o Tail(g)]
                               /\ \A x \in ToSet(s) : OfCleanup({"base", "none"}, x)
    BY <1>0, <1>7, <2>2, ListedAre
  <2>4. script'["gc"] = s \o Tail(g) /\ \A x \in ToSet(s) : Removal(x)
    <3>1. \A x : OfCleanup({"base", "none"}, x) => Removal(x)
      BY DEF OfCleanup, Removal, OfBase, BaseOps
    <3> QED
      BY <1>0, <2>3, <3>1
  <2>5. \A r \in Q : ~Clears(h, r)
    BY <2>1 DEF Clears
  <2>6. \A n \in D : h # <<"drop", n>>
    BY <2>1
  <2>7. Rid' => Ends(D, Q, s \o Tail(g))
    <3> HIDE DEF g, h, C, R, D, Q
    <3>1. h = Head(g)
      BY DEF h
    <3> QED
      BY <1>0, <1>4, <2>5, <2>6, <3>1, EndsNext
  <2>8. Guards' = Guards
    BY <2>1 DEF Guards, Guard
  <2>9. Rid' => Guarded(Guards', script'["gc"])
    BY <1>3, <1>4, <1>7, <2>8, GuardedListed
  <2> QED
    BY <1>5, <2>4, <2>7, <2>9
<1>8. ASSUME ~ListTagged("gc"), ~disturbed => \A r \in Q : ~Clears(h, r),
             \A n \in D : h = <<"drop", n>> => \E r \in R : n \in {r.chain, r.to},
             h[1] # "list", h = <<"delete", Guard>> /\ Guards # 0 => Guards' = Guards - 1
      PROVE  AtEnd'
  <2>1. script'["gc"] = Tail(g)
    BY <1>0, <1>8 DEF DeleteRule, FlushChain, DeleteChain, Done, Continue
  <2>2. Rid' => Ends(D, Q, Tail(g))
    <3> SUFFICES ASSUME Rid' PROVE Ends(D, Q, Tail(g))
      OBVIOUS
    <3>1. \A r \in Q : ~Clears(h, r)
      BY <1>4, <1>8 DEF Rid
    <3> HIDE DEF g, h, C, R, D, Q
    <3>2. h = Head(g)
      BY DEF h
    <3> QED
      BY <1>0, <1>4, <1>8, <3>1, <3>2, EndsDone
  <2>3. Rid' => Guarded(Guards', Tail(g))
    <3> DEFINE n == Guards
               m == Guards'
    <3> SUFFICES ASSUME Rid' PROVE Guarded(m, Tail(g))
      OBVIOUS
    <3>1. /\ n \in Nat /\ m \in Nat /\ m <= n /\ Guarded(n, g) /\ g \in Seq(Item) /\ g # <<>> /\ Head(g)[1] # "list"
          /\ Head(g) = <<"delete", Guard>> /\ n # 0 => m <= n - 1
      BY <1>0, <1>4, <1>8
    <3> HIDE DEF n, m, g
    <3> QED
      BY <3>1, GuardedDone
  <2> QED
    BY <1>6, <2>1, <2>2, <2>3
<1>9. CASE DeleteRule("gc")
  <2>1. h[1] = "delete" /\ fw' = Delete(fw, Arg("gc")) /\ Arg("gc") \in RuleSet /\ h[2] = Arg("gc")
    BY <1>0, <1>9, UndoItem DEF DeleteRule, At, Arg
  <2>2. ASSUME ~disturbed, NEW r \in Q, Clears(h, r) PROVE FALSE
    <3>1. r = Arg("gc") /\ r \in ToSet(Jumps)
      BY <2>1, <2>2 DEF Clears
    <3>2. Arg("gc") \in ToSet(Jumps) => Arg("gc") \notin Q
      BY <2>1, <2>2, DeletedOnce DEF Wired
    <3> QED
      BY <2>2, <3>1, <3>2
  <2>3. h = <<"delete", Guard>> /\ Guards # 0 => Guards' = Guards - 1
    <3> SUFFICES ASSUME h = <<"delete", Guard>>, Guards # 0 PROVE Guards' = Guards - 1
      OBVIOUS
    <3>1. Arg("gc") = Guard
      BY DEF Arg
    <3> QED
      BY <2>1, <3>1, DeletedOnce
  <2> QED
    BY <1>8, <2>1, <2>2, <2>3, <1>9 DEF ListTagged, At
<1>10. CASE FlushChain("gc")
  <2>1. h[1] = "flush" /\ fw' = Flush(fw, Arg("gc")) /\ h[2] = Arg("gc") /\ Arg("gc") \in Chain
    BY <1>0, <1>10, UndoItem DEF FlushChain, At, Arg
  <2>2. ASSUME NEW r \in Q, Clears(h, r) PROVE FALSE
    <3>1. r.chain = Arg("gc")
      BY <2>1, <2>2 DEF Clears
    <3>2. Q = {x \in R : x.chain # Arg("gc")}
      BY <2>1, FlushedOnce
    <3> QED
      BY <2>2, <3>1, <3>2
  <2> QED
    BY <1>8, <2>1, <2>2, <1>10 DEF ListTagged, At
<1>11. CASE DeleteChain("gc")
  <2>1. h[1] = "drop" /\ fw' = DropChain(fw, Arg("gc")) /\ h[2] = Arg("gc") /\ Arg("gc") \in Chain
    BY <1>0, <1>11, UndoItem DEF DeleteChain, At, Arg
  <2>2. \A r \in Q : ~Clears(h, r)
    BY <2>1 DEF Clears
  <2>3. ASSUME NEW n \in D, h = <<"drop", n>> PROVE \E r \in R : n \in {r.chain, r.to}
    <3>1. n = Arg("gc")
      BY <2>1, <2>3
    <3>2. ASSUME \A r \in R : n \notin {r.chain, r.to} PROVE FALSE
      <4>1. D = C \ {n}
        BY <2>1, <3>1, <3>2 DEF DropChain, Filter
      <4> QED
        BY <2>3, <4>1
    <3> QED
      BY <3>2
  <2> QED
    BY <1>8, <2>1, <2>2, <2>3, <1>11 DEF ListTagged, At
<1> QED
  BY <1>7, <1>9, <1>10, <1>11

LEMMA SweptUndo ==
  ASSUME Kinds, Filter, Typed, Wired, Swept, phase["gc"] = "collect", UndoStep("gc"), ~disturbed' => Waning
  PROVE  Swept'
<1>0. /\ "gc" \in Process /\ script = [p \in Process |-> script[p]] /\ phase = [p \in Process |-> phase[p]]
      /\ script["gc"] \in Seq(Item) /\ live' = live /\ bridge' = bridge /\ DOMAIN veth = Container
  <2>1. live' = live /\ bridge' = bridge
    BY DEF UndoStep, Kill, RemoveCgroup, ListTagged, DeleteRule, FlushChain, DeleteChain, DeleteVeth, Release,
       Finish, netVars
  <2> QED
    BY <2>1, ProcessIs DEF Kinds, Fits, Typed
<1>1. CASE Finish("gc")
  <2>1. phase'["gc"] = "done" /\ script["gc"] = <<>> /\ fw' = fw
    BY <1>0, <1>1 DEF Finish, fwVars
  <2>2. AtEnd \/ live # {}
    <3>1. ~AtScan /\ ~AtLeases /\ ~AtLinks /\ ~AtBridge /\ ~AtDelete /\ ~AtRules
      BY <2>1, ScriptsOfGc DEF AtScan, AtLeases, AtLinks, AtBridge, AtDelete, AtRules
    <3>2. ~AtOwn
      BY <2>1, OwnHead
    <3>3. AtVeths => live # {}
      BY <2>1, VethHead, ScriptsOfGc
    <3> QED
      BY <3>1, <3>2, <3>3 DEF Swept
  <2>3. ASSUME Rid' PROVE Gone' /\ Ends(fw'.chains, BagToSet(fw'.rules), <<>>) /\ Guards' = 0
    <3>1. Rid /\ Waning /\ AtEnd
      BY <1>0, <2>2, <2>3 DEF Rid, Waning
    <3>2. Gone /\ Ends(fw.chains, BagToSet(fw.rules), <<>>) /\ Guarded(Guards, <<>>)
      BY <2>1, <3>1 DEF AtEnd
    <3>4. Guards = 0
      BY <3>2, GuardsAre, HoldsNone DEF Guarded
    <3>5. Guards' = Guards
      BY <2>1 DEF Guards, Guard
    <3>3. Gone'
      BY <1>0, <3>1, <3>2 DEF Waning, Gone, NoCgroups, NoLeases, NoVeths, NoBridge
    <3> QED
      BY <2>1, <3>2, <3>3, <3>4, <3>5
  <2> QED
    BY <2>1, <2>3 DEF Swept
<1>2. ASSUME phase' = phase, AtOwn' \/ AtVeths' \/ AtEnd' PROVE Swept'
  BY <1>2 DEF Swept
<1>3. CASE Kill("gc") \/ RemoveCgroup("gc") \/ Release("gc")
  <2>1. phase' = phase /\ script'["gc"] = Tail(script["gc"])
    BY <1>0, <1>3 DEF Kill, RemoveCgroup, Release, Done, Continue
  <2>2. OwnNext
    BY <1>3, GcAt DEF Kill, RemoveCgroup, Release
  <2> QED
    BY <1>2, <2>1, <2>2, LessOwn
<1>4. CASE DeleteVeth("gc")
  <2>1. /\ phase' = phase /\ script'["gc"] = Tail(script["gc"]) /\ script["gc"] # <<>>
        /\ veth' = [veth EXCEPT ![Arg("gc")] = "none"] /\ Head(script["gc"]) = <<"veth", Arg("gc")>>
    <3>1. Head(script["gc"]) = <<Head(script["gc"])[1], Arg("gc")>>
      BY <1>0, <1>4, HeadIs DEF DeleteVeth, At
    <3> QED
      BY <1>0, <1>4, <3>1 DEF DeleteVeth, delete_link, Done, Continue, At
  <2>2. OwnNext \/ VethNext
    BY <1>4, GcAt DEF DeleteVeth
  <2>3. CASE OwnNext
    BY <1>2, <2>1, <2>3, LessOwn
  <2>4. CASE VethNext
    <3>1. PICK v \in Seq(Item) :
            /\ Tail(script["gc"]) = v \o (IF live = {} THEN Sharing ELSE <<>>) /\ \A x \in ToSet(v) : x[1] = "veth"
            /\ Rid => /\ NoCgroups /\ NoLeases
                      /\ \A c \in Container : \/ veth[c] = "none" \/ <<"veth", c>> = Head(script["gc"])
                                              \/ <<"veth", c>> \in ToSet(v)
      BY <2>4 DEF VethNext
    <3>2. Rid' => NoCgroups' /\ NoLeases' /\ \A c \in Container : veth'[c] = "none" \/ <<"veth", c>> \in ToSet(v)
      <4> SUFFICES ASSUME Rid'
                   PROVE  NoCgroups' /\ NoLeases'
                          /\ \A c \in Container : veth'[c] = "none" \/ <<"veth", c>> \in ToSet(v)
        OBVIOUS
      <4>1. Rid /\ Waning
        BY <1>0 DEF Rid, Waning
      <4>2. NoCgroups' /\ NoLeases'
        BY <3>1, <4>1 DEF Waning, NoCgroups, NoLeases
      <4>3. ASSUME NEW c \in Container PROVE veth'[c] = "none" \/ <<"veth", c>> \in ToSet(v)
        <5>1. CASE veth[c] = "none"
          BY <4>1, <5>1 DEF Waning
        <5>2. CASE <<"veth", c>> = Head(script["gc"])
          <6>1. c = Arg("gc")
            BY <2>1, <5>2
          <6> QED
            BY <1>0, <2>1, <6>1
        <5> QED
          BY <3>1, <4>1, <5>1, <5>2
      <4> QED
        BY <4>2, <4>3
    <3>3. Sharing' = Sharing /\ script'["gc"] = v \o (IF live' = {} THEN Sharing ELSE <<>>)
      BY <1>0, <2>1, <3>1 DEF Sharing
    <3>4. AtVeths'
      BY <3>1, <3>2, <3>3 DEF AtVeths
    <3> QED
      BY <1>2, <2>1, <3>4
  <2> QED
    BY <2>2, <2>3, <2>4
<1>5. CASE ListTagged("gc") \/ DeleteRule("gc") \/ FlushChain("gc") \/ DeleteChain("gc")
  <2>1. phase' = phase
    BY <1>5 DEF ListTagged, DeleteRule, FlushChain, DeleteChain, Done
  <2>2. CASE AtEnd
    BY <1>2, <1>5, <2>1, <2>2, SweptEnd
  <2>3. CASE OwnNext /\ DeleteRule("gc")
    <3>1. script'["gc"] = Tail(script["gc"])
      BY <1>0, <2>3 DEF DeleteRule, Done, Continue
    <3> QED
      BY <1>2, <2>1, <2>3, <3>1, LessOwn
  <2>4. CASE OwnNext /\ ListTagged("gc")
    <3>1. Own(Head(script["gc"])) /\ Head(script["gc"])[1] = "list"
      BY <2>4 DEF OwnNext, ListTagged, At
    <3>2. PICK c \in Container : OfCleanup({c}, Head(script["gc"]))
      <4>1. \A x : Own(x) /\ x[1] = "list" => \E c \in Container : OfCleanup({c}, x)
        BY DEF Own, OfUndo, UndoOps
      <4> QED
        BY <3>1, <4>1
    <3>3. PICK s \in Seq(Item) : /\ script' = [script EXCEPT !["gc"] = s \o Tail(script["gc"])]
                                 /\ \A x \in ToSet(s) : OfCleanup({c}, x)
      BY <1>0, <2>4, <3>2, ListedAre
    <3>4. script'["gc"] = s \o Tail(script["gc"]) /\ \A x \in ToSet(s) : Own(x)
      BY <1>0, <3>3 DEF Own, OfUndo
    <3> QED
      BY <1>2, <2>1, <2>4, <3>4, MoreOwn
  <2> QED
    BY <1>5, <2>2, <2>3, <2>4, GcAt DEF ListTagged, DeleteRule, FlushChain, DeleteChain
<1> QED
  BY <1>1, <1>3, <1>4, <1>5 DEF UndoStep

LEMMA SweptNext ==
  ASSUME GcRaces = FALSE, Inv, Filter', Orderly, Calm, Uncaged, \A c \in Container : Boxed(c), Bare, Wired, Marked, Swept,
         [Next]_vars
  PROVE  Swept'
<1>0. /\ Kinds /\ Filter /\ Typed /\ Aware /\ "gc" \in Process /\ phase = [p \in Process |-> phase[p]]
      /\ script = [p \in Process |-> script[p]] /\ phase["gc"] \in {"idle", "collect", "done"}
  BY ProcessIs DEF Inv, Kinds, Fits
<1>1. ASSUME phase["gc"] # "idle", phase'["gc"] # "idle", ~disturbed' PROVE Waning
  BY <1>0, <1>1, WaningNext
<1>2. ASSUME phase'["gc"] = phase["gc"], script'["gc"] = script["gc"], live' = live, seen'["gc"] = seen["gc"],
             phase["gc"] = "idle" \/ bridge' = bridge
      PROVE  Swept'
  <2>1. CASE phase["gc"] = "idle"
    BY <1>2, <2>1 DEF Swept
  <2>2. CASE phase["gc"] # "idle"
    BY <1>0, <1>1, <1>2, <2>2, SweptOther
  <2> QED
    BY <2>1, <2>2
<1>3. ASSUME NEW c \in Container, LaunchStep(c) \/ CallFails(c) PROVE Swept'
  <2>1. Others(c) /\ live' = live /\ phase[c] = "launch" /\ c # "gc"
    BY <1>0, <1>3, LaunchActor, ProcessIs
  <2>2. phase["gc"] = "idle"
    BY <2>1 DEF Calm, Launching
  <2> QED
    BY <1>0, <1>2, <2>1, <2>2 DEF Others
<1>4. ASSUME NEW c \in Container, Start(c) PROVE Swept'
  <2>1. c # "gc" /\ phase["gc"] # "collect"
    BY <1>0, <1>4, ProcessIs DEF Start
  <2>2. phase'["gc"] = "idle"
    BY <1>0, <1>4, <2>1 DEF Start
  <2> QED
    BY <2>2 DEF Swept
<1>5. ASSUME NEW c \in Container, Exit(c) \/ Reap(c) \/ Crash(c) PROVE Swept'
  <2>1. Others(c) /\ live' = live /\ c # "gc"
    BY <1>0, <1>5, EndActor, ProcessIs
  <2>2. bridge' = bridge
    BY <1>5 DEF Exit, Reap, Crash, netVars
  <2> QED
    BY <1>0, <1>2, <2>1, <2>2 DEF Others
<1>6. ASSUME NEW p \in Process, UndoStep(p), p # "gc" PROVE Swept'
  <2>1. Others(p) /\ live' = live
    BY <1>0, <1>6, UndoActor
  <2>2. bridge' = bridge
    BY <1>6 DEF UndoStep, Kill, RemoveCgroup, ListTagged, DeleteRule, FlushChain, DeleteChain, DeleteVeth,
       Release, Finish, netVars
  <2> QED
    BY <1>0, <1>2, <1>6, <2>1, <2>2 DEF Others
<1>7. CASE UndoStep("gc")
  <2>1. phase["gc"] = "collect"
    <3>1. CASE Finish("gc")
      BY <1>0, <3>1 DEF Finish
    <3>2. CASE ~Finish("gc")
      <4>1. \E op \in UndoOps \cup {"list", "delete", "flush", "drop"} : At("gc", op)
        BY <1>7, <3>2 DEF UndoStep, Kill, RemoveCgroup, ListTagged, DeleteRule, FlushChain, DeleteChain,
           DeleteVeth, Release, UndoOps
      <4> QED
        BY <1>0, <4>1, UndoItem
    <3> QED
      BY <3>1, <3>2
  <2>2. phase'["gc"] # "idle"
    <3>1. phase' = phase \/ phase' = [phase EXCEPT !["gc"] = "done"]
      BY <1>7 DEF UndoStep, Kill, RemoveCgroup, ListTagged, DeleteRule, FlushChain, DeleteChain, DeleteVeth,
         Release, Finish, Done
    <3> QED
      BY <1>0, <2>1, <3>1
  <2> QED
    BY <1>0, <1>1, <1>7, <2>1, <2>2, SweptUndo
<1>8. CASE StartGc
  <2>1. phase'["gc"] = "collect" /\ script'["gc"] = Opening
    BY <1>0, <1>8 DEF StartGc, Opening
  <2>2. AtScan'
    BY <2>1 DEF AtScan, Opening
  <2> QED
    BY <2>1, <2>2 DEF Swept
<1>9. CASE GcStep
  <2>1. phase' = phase /\ phase["gc"] = "collect"
    BY <1>0, <1>9, GcActor
  <2>2. ~disturbed' => Waning
    BY <1>1, <2>1
  <2>3. ASSUME AtOwn' \/ AtLeases' \/ AtLinks' \/ AtVeths' \/ AtBridge' \/ AtDelete' \/ AtRules' \/ AtEnd'
        PROVE  Swept'
    BY <2>1, <2>3 DEF Swept
  <2>4. CASE Scan
    BY <1>0, <2>3, <2>4, SweptScan
  <2>5. CASE TeardownDead
    <3>1. OwnNext
      BY <1>0, <2>1, <2>5, GcAt DEF TeardownDead
    <3> QED
      BY <1>0, <2>3, <2>5, <3>1, SweptTeardown
  <2>6. CASE gc_empty
    <3>1. script["gc"] = Closing
      BY <1>0, <2>1, <2>6, GcAt DEF gc_empty
    <3> QED
      BY <1>0, <2>3, <2>6, <3>1, SweptCgroups
  <2>7. CASE IpamGc
    <3>1. AtLeases
      BY <1>0, <2>1, <2>7, GcAt DEF IpamGc
    <3> QED
      BY <1>0, <2>2, <2>3, <2>7, <3>1, SweptLeases
  <2>8. CASE orphaned_veths
    <3>1. AtLinks
      BY <1>0, <2>1, <2>8, GcAt DEF orphaned_veths
    <3> QED
      BY <1>0, <2>2, <2>3, <2>8, <3>1, SweptLinks
  <2>9. CASE BridgeUsed
    <3>1. script["gc"] = Sharing /\ live = {} /\ (Rid => NoCgroups /\ NoLeases /\ NoVeths)
      BY <1>0, <2>1, <2>9, GcAt DEF BridgeUsed
    <3> QED
      BY <1>0, <2>2, <2>3, <2>9, <3>1, SweptBridge
  <2>10. CASE BridgeLinks
    <3>1. AtBridge
      BY <1>0, <2>1, <2>10, GcAt DEF BridgeLinks
    <3> QED
      BY <1>0, <2>2, <2>3, <2>10, <3>1, SweptBridge
  <2>11. CASE DeleteBridge
    <3>1. AtDelete
      BY <1>0, <2>1, <2>11, GcAt DEF DeleteBridge
    <3> QED
      BY <1>0, <2>2, <2>3, <2>11, <3>1, SweptBridge
  <2>12. CASE CountBaseRules
    <3>1. AtRules
      BY <1>0, <2>1, <2>12, GcAt DEF CountBaseRules
    <3> QED
      BY <1>0, <2>1, <2>2, <2>3, <2>12, <3>1, SweptRules
  <2> QED
    BY <1>9, <2>4, <2>5, <2>6, <2>7, <2>8, <2>9, <2>10, <2>11, <2>12 DEF GcStep
<1>10. CASE UNCHANGED vars
  BY <1>2, <1>10 DEF vars, procVars, netVars
<1> QED
  BY <1>3, <1>4, <1>5, <1>6, <1>7, <1>8, <1>9, <1>10 DEF Next

(* A step that leaves whoever sets the chains up, or takes them down.      *)
LEMMA MarkedOther ==
  ASSUME Marked, Untagged(fw') => Untagged(fw), disturbed => disturbed',
         phase["gc"] = "collect" /\ AtEnd /\ Untagged(fw') /\ ~disturbed' => phase'["gc"] = "collect" /\ AtEnd',
         Untagged(fw') /\ ~disturbed' => \A c \in Container : Launching(c) => Launching(c)'
  PROVE  Marked'
<1>1. Untagged(fw)' = Untagged(fw')
  BY DEF Untagged
<1>2. ASSUME ~disturbed', Untagged(fw')
      PROVE  (phase'["gc"] = "collect" /\ AtEnd') \/ \E c \in Container : Launching(c)'
  <2>1. (phase["gc"] = "collect" /\ AtEnd) \/ \E c \in Container : Launching(c)
    BY <1>2 DEF Marked
  <2> QED
    BY <1>2, <2>1
<1> QED
  BY <1>1, <1>2 DEF Marked

LEMMA ReachableThen == Inv => RunningReachable
  BY InvReachable

LEMMA MarkedLaunch ==
  ASSUME Kinds, Filter, Typed, Inv', NEW c \in Container, Publishing(c), LaunchStep(c) \/ CallFails(c)
  PROVE  Marked'
<1>0. c \in Process /\ phase = [p \in Process |-> phase[p]] /\ phase[c] = "launch"
  BY ProcessIs, LaunchActor DEF Kinds
<1>1. CASE Launching(c)'
  BY <1>1 DEF Marked
<1>2. CASE Unwind(c)
  <2>1. phase' # phase
    BY <1>0, <1>2 DEF Unwind
  <2>2. fw' = fw
    BY <2>1, LaunchFilter
  <2>3. Untagged(fw)' => disturbed'
    BY <1>2, <2>2 DEF Unwind, Untagged
  <2> QED
    BY <2>3 DEF Marked
<1>3. ASSUME ~Launching(c)', ~Unwind(c) PROVE Marked'
  <2>1. Started(c) /\ child[c]
    BY <1>0, <1>3 DEF LaunchStep, CgroupBase, CreateCgroup, Clone, CloneWithCgroup, CloneThenMove, CloneWithoutCgroup, AddPid, LookUpBridge, CreateBridge, BridgeIndex,
     BridgeAddress, Allocate, DeleteLeftover, CreateVeth, SetMaster, MovePeer, enable_ip_forwarding,
     EnsureChain, append_unique, Publish, Published, Started, CallFails, FailLaunch, Done, DoneAndPush, NotThere,
     Launching
  <2>2. Up(c)'
    BY <1>0, <2>1 DEF Started, Up
  <2>3. RunningReachable'
    BY ReachableThen, PTL
  <2>4. Guard \in BagToSet(fw'.rules)
    <3>1. SharedRules(On[c])' \subseteq BagToSet(fw'.rules)
      BY <2>2, <2>3 DEF RunningReachable
    <3> QED
      BY <3>1 DEF SharedRules, Guard
  <2>5. ~Untagged(fw)'
    BY <2>4, SharedRulesAre DEF Untagged
  <2> QED
    BY <2>5 DEF Marked
<1> QED
  BY <1>1, <1>2, <1>3

LEMMA MarkedGc ==
  ASSUME Kinds, Filter, Typed, Calm, Wired, Swept, Marked, phase["gc"] = "collect", UndoStep("gc"),
         ~disturbed' => Waning, disturbed => disturbed'
  PROVE  Marked'
<1>0. \A c \in Container : ~Launching(c)
  BY DEF Calm
<1>1. CASE Finish("gc")
  <2>1. fw' = fw /\ script["gc"] = <<>>
    BY <1>1 DEF Finish, fwVars
  <2>2. ASSUME AtEnd, Untagged(fw), ~disturbed' PROVE FALSE
    <3>1. Rid
      BY <2>2 DEF AtEnd, Rid
    <3>2. Ends(fw.chains, BagToSet(fw.rules), <<>>)
      BY <2>1, <2>2, <3>1 DEF AtEnd
    <3>3. fw.chains = {}
      BY <3>2 DEF Ends
    <3> QED
      BY <2>2, <3>3 DEF Untagged
  <2> QED
    BY <1>0, <2>1, <2>2, MarkedOther
<1>2. CASE AtEnd /\ ~Finish("gc")
  <2>1. \E op \in UndoOps \cup {"list", "delete", "flush", "drop"} : At("gc", op)
    BY <1>2 DEF UndoStep, Kill, RemoveCgroup, ListTagged, DeleteRule, FlushChain, DeleteChain,
       DeleteVeth, Release, UndoOps
  <2>2. script["gc"] # <<>>
    BY <2>1 DEF At
  <2>3. Head(script["gc"])[1] \in {"list", "delete", "flush", "drop"}
    <3>1. Head(script["gc"]) \in Todo("gc")
      BY <2>2, HeadIs, ProcessIs
    <3> QED
      BY <1>2, <3>1, RemovalIs DEF AtEnd
  <2>4. ListTagged("gc") \/ DeleteRule("gc") \/ FlushChain("gc") \/ DeleteChain("gc")
    BY <1>2, <2>3 DEF UndoStep, Kill, RemoveCgroup, DeleteVeth, Release, At
  <2>5. phase' = phase /\ AtEnd'
    BY <1>2, <2>4, SweptEnd DEF ListTagged, DeleteRule, FlushChain, DeleteChain, Done
  <2> QED
    BY <2>5 DEF Marked
<1>3. CASE ~AtEnd /\ ~Finish("gc")
  <2>1. Untagged(fw') => Untagged(fw)
    <3>1. CASE DeleteRule("gc")
      <4>1. /\ Arg("gc") \in RuleSet /\ fw' = Delete(fw, Arg("gc")) /\ Head(script["gc"])[1] = "delete" /\ OwnNext
        BY <1>3, <3>1, UndoItem, GcAt, ProcessIs DEF DeleteRule, At
      <4>2. Arg("gc").tag # "base"
        <5>1. \A x : Own(x) /\ x[1] = "delete" => x[2].tag \in Container
          BY DEF Own, OfUndo, OfCleanup, UndoOps
        <5>2. Arg("gc").tag \in Container
          BY <4>1, <5>1 DEF OwnNext, Arg
        <5> QED
          BY <5>2, TagsDiffer
      <4>3. fw'.chains = fw.chains /\ \A s \in BagToSet(fw.rules) : s # Arg("gc") => s \in BagToSet(fw'.rules)
        BY <4>1, DeleteKeeps
      <4> QED
        BY <4>2, <4>3 DEF Untagged
    <3>2. CASE FlushChain("gc") \/ DeleteChain("gc")
      BY <1>3, <3>2, GcAt DEF FlushChain, DeleteChain
    <3>3. CASE ~DeleteRule("gc") /\ ~FlushChain("gc") /\ ~DeleteChain("gc")
      <4>1. fw' = fw
        BY <3>3 DEF UndoStep, Kill, RemoveCgroup, ListTagged, DeleteVeth, Release, Finish, fwVars
      <4> QED
        BY <4>1
    <3> QED
      BY <3>1, <3>2, <3>3
  <2> QED
    BY <1>0, <1>3, <2>1, MarkedOther
<1> QED
  BY <1>1, <1>2, <1>3

LEMMA MarkedNext ==
  ASSUME GcRaces = FALSE, Inv, Inv', Orderly, \A c \in Container : Publishing(c), Calm, Wired, Marked, Swept,
         [Next]_vars
  PROVE  Marked'
<1>0. /\ Kinds /\ Filter /\ Typed /\ Aware /\ "gc" \in Process /\ phase = [p \in Process |-> phase[p]]
      /\ script = [p \in Process |-> script[p]] /\ phase["gc"] \in {"idle", "collect", "done"} /\ Filter'
  BY ProcessIs DEF Inv, Kinds, Fits
<1>1. disturbed => disturbed'
  BY StaysDisturbed
<1>2. ASSUME phase["gc"] # "idle", phase'["gc"] # "idle", ~disturbed' PROVE Waning
  BY <1>0, <1>2, WaningNext
<1>3. ASSUME phase'["gc"] = phase["gc"], script'["gc"] = script["gc"], live' = live, seen'["gc"] = seen["gc"],
             bridge' = bridge, phase["gc"] = "collect", AtEnd
      PROVE  AtEnd'
  BY <1>0, <1>2, <1>3, SweptOther
<1>4. ASSUME NEW c \in Container, LaunchStep(c) \/ CallFails(c) PROVE Marked'
  BY <1>0, <1>4, MarkedLaunch
<1>5. ASSUME NEW c \in Container, Start(c) PROVE Marked'
  <2>1. Launching(c)'
    BY <1>0, <1>5, ProcessIs DEF Start, Launching
  <2> QED
    BY <2>1 DEF Marked
<1>6. ASSUME NEW c \in Container, Exit(c) \/ Reap(c) \/ Crash(c) PROVE Marked'
  <2>1. Others(c) /\ live' = live /\ c # "gc"
    BY <1>0, <1>6, EndActor, ProcessIs
  <2>2. bridge' = bridge /\ fw' = fw
    BY <1>6 DEF Exit, Reap, Crash, netVars, fwVars
  <2>3. ASSUME Untagged(fw), ~disturbed', NEW d \in Container, Launching(d) PROVE Launching(d)'
    <3>1. d # c
      BY <1>6, <2>3 DEF Exit, Reap, Crash, Launching
    <3> QED
      BY <2>1, <2>3, <3>1, ProcessIs DEF Others, Launching
  <2>4. phase["gc"] = "collect" /\ AtEnd => phase'["gc"] = "collect" /\ AtEnd'
    BY <1>0, <1>3, <2>1, <2>2 DEF Others
  <2> QED
    BY <1>1, <2>2, <2>3, <2>4, MarkedOther
<1>7. ASSUME NEW p \in Process, UndoStep(p), p # "gc" PROVE Marked'
  <2>1. Others(p) /\ live' = live
    BY <1>0, <1>7, UndoActor
  <2>2. bridge' = bridge
    BY <1>7 DEF UndoStep, Kill, RemoveCgroup, ListTagged, DeleteRule, FlushChain, DeleteChain, DeleteVeth,
       Release, Finish, netVars
  <2>3. Untagged(fw') => Untagged(fw)
    BY <1>0, <1>7, UndoFilter DEF Untagged
  <2>4. phase[p] # "launch"
    <3>1. CASE Finish(p)
      BY <3>1 DEF Finish
    <3>2. CASE ~Finish(p)
      <4>1. \E op \in UndoOps \cup {"list", "delete", "flush", "drop"} : At(p, op)
        BY <1>7, <3>2 DEF UndoStep, Kill, RemoveCgroup, ListTagged, DeleteRule, FlushChain, DeleteChain,
           DeleteVeth, Release, UndoOps
      <4> QED
        BY <1>0, <1>7, <4>1, UndoItem
    <3> QED
      BY <3>1, <3>2
  <2>5. \A d \in Container : Launching(d) => Launching(d)'
    BY <2>1, <2>4, ProcessIs DEF Others, Launching
  <2>6. phase["gc"] = "collect" /\ AtEnd => phase'["gc"] = "collect" /\ AtEnd'
    BY <1>0, <1>3, <1>7, <2>1, <2>2 DEF Others
  <2> QED
    BY <1>1, <2>3, <2>5, <2>6, MarkedOther
<1>8. CASE UndoStep("gc")
  <2>1. phase["gc"] = "collect"
    <3>1. CASE Finish("gc")
      BY <1>0, <3>1 DEF Finish
    <3>2. CASE ~Finish("gc")
      <4>1. \E op \in UndoOps \cup {"list", "delete", "flush", "drop"} : At("gc", op)
        BY <1>8, <3>2 DEF UndoStep, Kill, RemoveCgroup, ListTagged, DeleteRule, FlushChain, DeleteChain,
           DeleteVeth, Release, UndoOps
      <4> QED
        BY <1>0, <4>1, UndoItem
    <3> QED
      BY <3>1, <3>2
  <2>2. phase'["gc"] # "idle"
    <3>1. phase' = phase \/ phase' = [phase EXCEPT !["gc"] = "done"]
      BY <1>8 DEF UndoStep, Kill, RemoveCgroup, ListTagged, DeleteRule, FlushChain, DeleteChain, DeleteVeth,
         Release, Finish, Done
    <3> QED
      BY <1>0, <2>1, <3>1
  <2> QED
    BY <1>0, <1>1, <1>2, <1>8, <2>1, <2>2, MarkedGc
<1>9. CASE GcStep \/ StartGc \/ UNCHANGED vars
  <2>1. fw' = fw
    BY <1>9, OtherFilter
  <2>2. \A d \in Container : Launching(d) => Launching(d)'
    <3>1. CASE GcStep \/ StartGc
      BY <1>0, <3>1, BystandersOfGc DEF Bystander, Launching
    <3>2. CASE UNCHANGED vars
      BY <3>2 DEF vars, procVars, Launching
    <3> QED
      BY <1>9, <3>1, <3>2
  <2>3. ASSUME phase["gc"] = "collect", AtEnd PROVE phase'["gc"] = "collect" /\ AtEnd'
    <3>1. CASE GcStep
      <4>1. /\ script["gc"] # <<>>
            /\ Head(script["gc"])[1] \in {"scan", "teardown", "gc_empty", "ipam_gc", "orphaned_veths", "bridge_used",
                                          "bridge_links", "delete_bridge", "base_rules"}
        BY <3>1 DEF GcStep, Scan, TeardownDead, gc_empty, IpamGc, orphaned_veths, BridgeUsed, BridgeLinks,
           DeleteBridge, CountBaseRules, At
      <4>2. Head(script["gc"]) \in Todo("gc")
        BY <1>0, <4>1, HeadIs
      <4> QED
        BY <2>3, <4>1, <4>2, RemovalIs DEF AtEnd
    <3>2. CASE StartGc
      BY <2>3, <3>2 DEF StartGc
    <3>3. CASE UNCHANGED vars
      BY <1>3, <2>3, <3>3 DEF vars, procVars, netVars
    <3> QED
      BY <1>9, <3>1, <3>2, <3>3
  <2> QED
    BY <1>1, <2>1, <2>2, <2>3, MarkedOther
<1> QED
  BY <1>4, <1>5, <1>6, <1>7, <1>8, <1>9 DEF Next

(* The inductive invariant of gc.                                          *)
Tidy == Calm /\ Uncaged /\ (\A c \in Container : Boxed(c)) /\ Bare /\ Wired /\ Marked /\ Swept

LEMMA TidyInit ==
  ASSUME Init
  PROVE  Tidy
<1>1. /\ fw = Untouched /\ \A p \in Process : phase[p] = "idle"
      /\ \A c \in Container : ~child[c] /\ cg[c] = None
      /\ "gc" \in Process /\ \A c \in Container : c \in Process
  BY ProcessIs DEF Init
<1>2. fw.chains = {} /\ BagToSet(fw.rules) = {}
  BY <1>1 DEF Untouched, BagToSet, EmptyBag, SetToBag
<1>3. Calm /\ Uncaged /\ \A c \in Container : Boxed(c)
  BY <1>1 DEF Calm, Uncaged, Boxed, Launching, Inside
<1>4. Bare
  BY DEF Init, Bare
<1>5. Wired
  BY <1>2 DEF Wired, Chained, Once
<1>6. Marked
  BY <1>2 DEF Marked, Untagged
<1>7. Swept
  BY <1>1 DEF Swept
<1> QED
  BY <1>3, <1>4, <1>5, <1>6, <1>7 DEF Tidy

LEMMA TidyNext ==
  ASSUME GcRaces = FALSE, Inv, Homing, Tidy, [Next]_vars
  PROVE  Tidy'
<1>1. Kinds /\ Filter /\ Typed /\ Aware /\ Provided /\ Orderly /\ \A c \in Container : Publishing(c)
  BY DEF Inv, Homing
<1>2. Inv' /\ Aware' /\ Filter'
  BY InvNext DEF Inv
<1>3. Calm /\ Uncaged /\ (\A c \in Container : Boxed(c)) /\ Bare /\ Wired /\ Marked /\ Swept
  BY DEF Tidy
<1>4. Calm'
  BY <1>1, <1>2, <1>3, CalmNext
<1>5. Uncaged' /\ \A c \in Container : Boxed(c)'
  BY <1>1, <1>3, UncagedNext, BoxedNext
<1>6. Bare' /\ Wired'
  BY <1>1, <1>3, BareNext, WiredNext
<1>7. Marked'
  BY <1>1, <1>2, <1>3, MarkedNext
<1>8. Swept'
  BY <1>1, <1>2, <1>3, SweptNext
<1> QED
  BY <1>4, <1>5, <1>6, <1>7, <1>8 DEF Tidy

LEMMA TidyCleans ==
  ASSUME Inv, Homing, Tidy
  PROVE  GcLeavesHostCleanUndisturbed
<1> SUFFICES ASSUME ~disturbed, phase["gc"] = "done", live = {}, AllAtRest PROVE HostIsClean
  BY DEF GcLeavesHostCleanUndisturbed, GcLeavesHostClean, GcIsDone
<1>1. Filter /\ Orderly /\ Chained
  BY DEF Inv, Homing, Tidy, Wired
<1>2. Gone /\ Ends(fw.chains, BagToSet(fw.rules), <<>>) /\ Guards = 0
  BY DEF Tidy, Swept, Rid
<1>3. fw.chains = {} /\ Guard \notin BagToSet(fw.rules)
  BY <1>1, <1>2, GuardsAre DEF Ends
<1>4. BagToSet(fw.rules) = {}
  BY <1>1, <1>3 DEF Chained, Linking
<1>5. fw.rules = EmptyBag
  <2>1. DOMAIN fw.rules = {} /\ fw.rules = [r \in DOMAIN fw.rules |-> fw.rules[r]]
    BY <1>1, <1>4 DEF Filter, IsABag, BagToSet
  <2> QED
    BY <2>1 DEF EmptyBag, SetToBag
<1>6. fw.dnat = <<>>
  <2>1. fw.dnat \in Seq(RuleSet) /\ ToSet(fw.dnat) = {}
    BY <1>1, <1>4 DEF Orderly
  <2> DEFINE s == fw.dnat
  <2> HIDE DEF s
  <2>2. s \in Seq(RuleSet) /\ ToSet(s) = {}
    BY <2>1 DEF s
  <2>3. s = <<>>
    BY <2>2, PoppedSeq
  <2> QED
    BY <2>3 DEF s
<1>7. fw = Untouched
  BY <1>1, <1>3, <1>5, <1>6 DEF Filter, Untouched
<1>8. \A c \in Container : cg[c] = None
  BY <1>2 DEF Gone, NoCgroups, Doomed, AllAtRest
<1> QED
  BY <1>2, <1>7, <1>8 DEF HostIsClean, Gone, NoLeases, NoVeths

(* When gc is done, found nobody alive and every supervisor is at rest,    *)
(* nothing of myrun is left on the host but the bridges that --bridge      *)
(* named: no rule, chain, interface, lease or cgroup, whichever bridges    *)
(* the containers were on, whichever launches failed and were rolled back, *)
(* however often launches that overlapped added a rule that is not a jump, *)
(* and whichever supervisors were killed before gc.  No launch may be cut  *)
(* off while it sets up the shared rules (Host_gc_chains.cfg), no two may  *)
(* add the same jump (Host_gc_jumps.cfg), no supervisor be killed during   *)
(* or after gc, and gc not overlap with a launch (Host_gc_launch.cfg).     *)
THEOREM GcCleansUp ==
  ASSUME GcRaces = FALSE
  PROVE  Spec => []GcLeavesHostCleanUndisturbed
<1>1. Init => Inv /\ Homing /\ Tidy
  BY InvInit, HomingInit, TidyInit
<1>2. Inv /\ Homing /\ Tidy /\ [Next]_vars => Inv' /\ Homing' /\ Tidy'
  BY InvNext, HomingNext, TidyNext
<1>3. Inv /\ Homing /\ Tidy => GcLeavesHostCleanUndisturbed
  BY TidyCleans
<1> QED
  BY <1>1, <1>2, <1>3, PTL DEF Spec
=============================================================================
