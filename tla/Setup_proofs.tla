----------------------------- MODULE Setup_proofs -----------------------------
(***************************************************************************)
(* Proofs about Setup, for every host, every configuration and any failing *)
(* calls: no mount reaches the host, the workload runs with the            *)
(* capabilities, the filter and the user it was given and without the      *)
(* host's root, and its calls are decided as its filter's lists say.       *)
(*                                                                         *)
(* The argument follows the script.  Whatever has been made of it, what is *)
(* left is a list of harmless calls of the kind of the phase, and then the *)
(* script of the next phase; what a phase has established is no longer     *)
(* touched by the calls that are left.                                     *)
(***************************************************************************)
EXTENDS Setup, Seccomp_proofs, SequenceTheorems, NaturalsInduction, WellFoundedInduction

-----------------------------------------------------------------------------
(* Counting up, and the greatest of finitely many numbers.                 *)

LEMMA LeastOf ==
  ASSUME NEW S \in SUBSET Nat, S # {}
  PROVE  \E x \in S : \A y \in S : x <= y
<1> DEFINE R == {ss \in Nat \X Nat : ss[1] < ss[2]}
<1>1. IsWellFoundedOn(R, Nat)
  BY NatLessThanWellFounded, Zenon DEF OpToRel
<1>2. \E x \in S : \A y \in S : ~(<<y, x>> \in R)
  <2> HIDE DEF R
  <2> QED
    BY <1>1, WFMin
<1>3. PICK x \in S : \A y \in S : ~(<<y, x>> \in R)
  BY <1>2
<1>4. ASSUME NEW y \in S PROVE x <= y
  <2>1. x \in Nat /\ y \in Nat
    OBVIOUS
  <2>2. ~(<<y, x>>[1] < <<y, x>>[2])
    BY <1>3, <2>1
  <2> QED
    BY <2>1, <2>2
<1> QED
  BY <1>4

LEMMA UpTo ==
  ASSUME NEW n \in Nat, NEW S, 0 \in S, \A k \in 1 .. n : k - 1 \in S => k \in S
  PROVE  0 .. n \subseteq S
<1> DEFINE Bad == (0 .. n) \ S
<1>1. SUFFICES ASSUME Bad # {} PROVE FALSE
  OBVIOUS
<1>2. PICK k \in Bad : \A y \in Bad : k <= y
  <2>1. Bad \in SUBSET Nat
    OBVIOUS
  <2> HIDE DEF Bad
  <2> QED
    BY <1>1, <2>1, LeastOf
<1>3. k \in 1 .. n /\ k \notin S
  BY <1>2
<1>4. k - 1 \in S
  <2>1. k - 1 \in 0 .. n /\ ~(k <= k - 1)
    BY <1>3
  <2> QED
    BY <1>2, <2>1
<1> QED
  BY <1>3, <1>4

LEMMA GreatestOf ==
  ASSUME NEW n \in Nat, NEW S, S \subseteq 1 .. n, S # {}
  PROVE  Max(S) \in S
<1> DEFINE Down == {n - x : x \in S}
<1>0. \A x \in S : x \in 1 .. n /\ n - x \in Nat
  OBVIOUS
<1>1. Down \in SUBSET Nat /\ Down # {}
  BY <1>0, Zenon
<1>2. PICK d \in Down : \A e \in Down : d <= e
  <2> HIDE DEF Down
  <2> QED
    BY <1>1, LeastOf
<1>3. PICK x \in S : d = n - x
  BY <1>2
<1>4. ASSUME NEW y \in S PROVE x >= y
  <2>1. n - y \in Down
    BY Zenon
  <2>2. n - x <= n - y
    BY <1>2, <1>3, <2>1
  <2> QED
    BY <1>0, <2>2
<1> QED
  BY <1>4 DEF Max

-----------------------------------------------------------------------------
(* Lists put together.                                                     *)

LEMMA FlattenIs ==
  ASSUME NEW s, Len(s) \in Nat, s # <<>>
  PROVE  \E g : /\ FlattenSeq(s) = g[Len(s)]
                /\ \A i \in 1 .. Len(s) : g[i] = IF i = 1 THEN s[i] ELSE g[i - 1] \o s[i]
<1> DEFINE n == Len(s)
           flatten[i \in 1 .. n] == IF i = 1 THEN s[i] ELSE flatten[i - 1] \o s[i]
           Is(g, m) == g = [i \in 1 .. m |-> IF i = 1 THEN s[i] ELSE g[i - 1] \o s[i]]
           Has == {m \in 0 .. n : \E g : Is(g, m)}
<1>1. FlattenSeq(s) = flatten[n]
  BY DEF FlattenSeq
<1>2. 0 \in Has
  <2> DEFINE g == [i \in 1 .. 0 |-> s[i]]
  <2>1. Is(g, 0)
    OBVIOUS
  <2> HIDE DEF g, Is
  <2> QED
    BY <2>1
<1>3. ASSUME NEW m \in 1 .. n, m - 1 \in Has PROVE m \in Has
  <2>1. PICK g : Is(g, m - 1)
    <3> HIDE DEF Is
    <3> QED
      BY <1>3
  <2> DEFINE h == [i \in 1 .. m |-> IF i <= m - 1 THEN g[i] ELSE IF m = 1 THEN s[m] ELSE g[m - 1] \o s[m]]
  <2>2. ASSUME NEW i \in 1 .. m PROVE h[i] = IF i = 1 THEN s[i] ELSE h[i - 1] \o s[i]
    <3>1. CASE i <= m - 1
      <4>1. i \in 1 .. m - 1 /\ (i # 1 => i - 1 \in 1 .. m /\ i - 1 <= m - 1)
        BY <3>1
      <4>2. g[i] = IF i = 1 THEN s[i] ELSE g[i - 1] \o s[i]
        BY <2>1, <4>1
      <4> QED
        BY <3>1, <4>1, <4>2
    <3>2. CASE i = m
      <4>1. ~(i <= m - 1) /\ (i # 1 => i - 1 \in 1 .. m /\ i - 1 <= m - 1)
        BY <3>2
      <4> QED
        BY <3>2, <4>1
    <3> QED
      BY <3>1, <3>2
  <2>3. Is(h, m)
    <3>1. h = [i \in 1 .. m |-> h[i]]
      OBVIOUS
    <3> HIDE DEF h
    <3> QED
      BY <2>2, <3>1
  <2> HIDE DEF h, Is
  <2> QED
    BY <2>3
<1>4. n \in Has
  <2>1. n \in Nat /\ n \in 0 .. n
    OBVIOUS
  <2> HIDE DEF Has, n
  <2> QED
    BY <1>2, <1>3, <2>1, UpTo
<1>5. flatten = [i \in 1 .. n |-> IF i = 1 THEN s[i] ELSE flatten[i - 1] \o s[i]]
  BY <1>4
<1> HIDE DEF flatten
<1>6. \A i \in 1 .. n : flatten[i] = IF i = 1 THEN s[i] ELSE flatten[i - 1] \o s[i]
  BY <1>5
<1> QED
  BY <1>1, <1>6

LEMMA FlattenIsSeq ==
  ASSUME NEW S, NEW s \in Seq(Seq(S))
  PROVE  FlattenSeq(s) \in Seq(S)
<1>0. Len(s) \in Nat /\ \A i \in 1 .. Len(s) : s[i] \in Seq(S)
  BY LenProperties, ElementOfSeq
<1>1. CASE s = <<>>
  BY <1>1 DEF FlattenSeq
<1>2. CASE s # <<>>
  <2>1. PICK g : /\ FlattenSeq(s) = g[Len(s)]
                 /\ \A i \in 1 .. Len(s) : g[i] = IF i = 1 THEN s[i] ELSE g[i - 1] \o s[i]
    BY <1>0, <1>2, FlattenIs
  <2> DEFINE Good == {0} \cup {i \in 1 .. Len(s) : g[i] \in Seq(S)}
  <2>2. ASSUME NEW m \in 1 .. Len(s), m - 1 \in Good PROVE m \in Good
    <3>1. CASE m = 1
      BY <1>0, <2>1, <3>1
    <3>2. CASE m # 1
      <4>1. m - 1 \in 1 .. Len(s) /\ g[m - 1] \in Seq(S) /\ s[m] \in Seq(S)
        BY <1>0, <2>2, <3>2
      <4>2. g[m - 1] \o s[m] \in Seq(S)
        BY <4>1, ConcatProperties
      <4> QED
        BY <2>1, <3>2, <4>2
    <3> QED
      BY <3>1, <3>2
  <2>3. 0 \in Good
    OBVIOUS
  <2>4. 0 .. Len(s) \subseteq Good
    <3> HIDE DEF Good
    <3> QED
      BY <1>0, <2>2, <2>3, UpTo
  <2>5. Len(s) \in 1 .. Len(s)
    BY <1>0, <1>2, EmptySeq
  <2>6. Len(s) \in Good /\ Len(s) # 0
    <3> HIDE DEF Good
    <3> QED
      BY <1>0, <2>4, <2>5
  <2> QED
    BY <2>1, <2>6
<1> QED
  BY <1>1, <1>2

LEMMA ConcatLeft ==
  ASSUME NEW S, NEW a \in Seq(S), NEW b \in Seq(S), NEW l \in 1 .. Len(a)
  PROVE  l \in 1 .. Len(a \o b) /\ (a \o b)[l] = a[l]
<1>1. /\ Len(a) \in Nat /\ Len(b) \in Nat /\ Len(a \o b) = Len(a) + Len(b)
      /\ \A i \in 1 .. Len(a) + Len(b) : (a \o b)[i] = IF i <= Len(a) THEN a[i] ELSE b[i - Len(a)]
  BY ConcatProperties, LenProperties
<1> QED
  BY <1>1

LEMMA ConcatRight ==
  ASSUME NEW S, NEW a \in Seq(S), NEW b \in Seq(S), Len(b) = 1
  PROVE  \E l \in 1 .. Len(a \o b) : (a \o b)[l] = b[1]
<1>1. /\ Len(a) \in Nat /\ Len(b) \in Nat /\ Len(a \o b) = Len(a) + Len(b)
      /\ \A i \in 1 .. Len(a) + Len(b) : (a \o b)[i] = IF i <= Len(a) THEN a[i] ELSE b[i - Len(a)]
  BY ConcatProperties, LenProperties
<1>2. Len(a) + 1 \in 1 .. Len(a) + Len(b) /\ ~(Len(a) + 1 <= Len(a)) /\ (Len(a) + 1) - Len(a) = 1
  BY <1>1
<1>3. (a \o b)[Len(a) + 1] = b[(Len(a) + 1) - Len(a)]
  BY <1>1, <1>2
<1> QED
  BY <1>1, <1>2, <1>3

(* Every part is in the whole.                                             *)
LEMMA FlattenHas ==
  ASSUME NEW S, NEW s \in Seq(Seq(S)), NEW k \in 1 .. Len(s), NEW x, s[k] = <<x>>
  PROVE  \E l \in 1 .. Len(FlattenSeq(s)) : FlattenSeq(s)[l] = x
<1>0. /\ Len(s) \in Nat /\ s # <<>> /\ \A i \in 1 .. Len(s) : s[i] \in Seq(S)
  BY LenProperties, ElementOfSeq, EmptySeq
<1>1. PICK g : /\ FlattenSeq(s) = g[Len(s)]
               /\ \A i \in 1 .. Len(s) : g[i] = IF i = 1 THEN s[i] ELSE g[i - 1] \o s[i]
  BY <1>0, FlattenIs
<1> DEFINE Has(i) == g[i] \in Seq(S) /\ (i >= k => \E l \in 1 .. Len(g[i]) : g[i][l] = x)
           Good == {0} \cup {i \in 1 .. Len(s) : Has(i)}
<1>2. ASSUME NEW m \in 1 .. Len(s), m - 1 \in Good PROVE m \in Good
  <2>0. s[m] \in Seq(S) /\ (m = k => s[m][1] = x /\ Len(s[m]) = 1)
    <3>1. s[m] \in Seq(S)
      BY <1>0
    <3>2. CASE m = k
      <4>1. s[m] = <<x>>
        BY <3>2
      <4> QED
        BY <3>1, <4>1
    <3> QED
      BY <3>1, <3>2
  <2>1. CASE m = 1
    <3>1. g[m] = s[m] /\ (m >= k => m = k)
      BY <1>1, <2>1
    <3> QED
      BY <2>0, <3>1
  <2>2. CASE m # 1
    <3>1. m - 1 \in 1 .. Len(s) /\ Has(m - 1)
      BY <1>2, <2>2
    <3>2. g[m] = g[m - 1] \o s[m] /\ g[m - 1] \in Seq(S)
      BY <1>1, <2>2, <3>1
    <3>a. g[m - 1] \in Seq(S)
      BY <3>2
    <3>3. g[m] \in Seq(S)
      BY <2>0, <3>2, ConcatProperties
    <3> DEFINE a == g[m - 1]
               b == s[m]
    <3>4. CASE m > k
      <4>1. PICK l \in 1 .. Len(a) : a[l] = x
        BY <3>1, <3>4
      <4>2. a \in Seq(S) /\ b \in Seq(S)
        BY <2>0, <3>a
      <4>3. l \in 1 .. Len(a \o b) /\ (a \o b)[l] = x
        <5> HIDE DEF a, b
        <5> QED
          BY <4>1, <4>2, ConcatLeft
      <4> QED
        BY <3>2, <3>3, <4>3
    <3>5. CASE m = k
      <4>2. a \in Seq(S) /\ b \in Seq(S) /\ Len(b) = 1 /\ b[1] = x
        BY <2>0, <3>a, <3>5
      <4>3. \E l \in 1 .. Len(a \o b) : (a \o b)[l] = x
        <5> HIDE DEF a, b
        <5> QED
          BY <4>2, ConcatRight
      <4> QED
        BY <3>2, <3>3, <4>3
    <3>6. CASE m < k
      BY <3>3, <3>6
    <3> QED
      BY <3>4, <3>5, <3>6
  <2> QED
    BY <2>1, <2>2
<1>3. 0 \in Good
  OBVIOUS
<1>4. 0 .. Len(s) \subseteq Good
  <2> HIDE DEF Good
  <2> QED
    BY <1>0, <1>2, <1>3, UpTo
<1>5. Len(s) \in 1 .. Len(s) /\ Len(s) >= k
  BY <1>0
<1>6. Has(Len(s))
  <2>1. Len(s) \in Good /\ Len(s) # 0
    <3> HIDE DEF Good
    <3> QED
      BY <1>0, <1>4, <1>5
  <2> HIDE DEF Has
  <2> QED
    BY <2>1
<1> QED
  BY <1>1, <1>5, <1>6

-----------------------------------------------------------------------------
(* Paths and mount tables.  The provers do not know of a literal that it   *)
(* is a string, hence the list.                                            *)

Text ==
  STRING \cup {"rootfs", "dev", "null", "tty", "ptmx", "fd", "pts", "shm", "mqueue", "sys", "proc",
               "tmp", "etc", "hosts", "resolv.conf", "hostname", "lo", "address", "eth0", "route",
               "host", "devices", "sysfs", "tmpfs", "empty", "nosuid", "noexec", "nodev", "ro",
               "unconfined", "default", "strict"}

TPath == Seq(Text)

TMount == [at : TPath, fs : Text, sub : TPath, flags : SUBSET Text]

LEMMA SeqOfMore ==
  ASSUME NEW S, NEW T, S \subseteq T
  PROVE  Seq(S) \subseteq Seq(T)
  OBVIOUS

LEMMA PathIsTPath == Path \subseteq TPath
<1>1. STRING \subseteq Text
  BY DEF Text
<1> QED
  BY <1>1, SeqOfMore, Zenon DEF Path, TPath

LEMMA ConcatIsPath ==
  ASSUME NEW p \in TPath, NEW q \in TPath
  PROVE  p \o q \in TPath
  BY ConcatProperties DEF TPath

LEMMA DropIsPath ==
  ASSUME NEW p \in TPath, NEW n \in Nat
  PROVE  Drop(p, n) \in TPath
  BY DEF Drop, TPath

LEMMA UnderEmpty ==
  ASSUME NEW p \in TPath
  PROVE  Under(p, <<>>)
  BY DEF Under, IsPrefix, TPath

LEMMA UnderItself ==
  ASSUME NEW p \in TPath
  PROVE  Under(p, p)
  BY DEF Under, IsPrefix, TPath

LEMMA EmptyUnder ==
  ASSUME NEW p \in TPath, Under(<<>>, p)
  PROVE  p = <<>>
  BY EmptySeq DEF Under, IsPrefix, TPath

LEMMA UnderLonger ==
  ASSUME NEW p \in TPath, NEW q \in TPath, NEW r \in TPath, Under(p, q)
  PROVE  Under(p \o r, q)
<1>1. Len(p) \in Nat /\ Len(q) \in Nat /\ Len(r) \in Nat /\ Len(q) <= Len(p)
  BY LenProperties DEF Under, IsPrefix, TPath
<1>2. Len(p \o r) = Len(p) + Len(r)
  BY ConcatProperties DEF TPath
<1>3. SubSeq(p \o r, 1, Len(q)) = SubSeq(p, 1, Len(q))
  BY <1>1 DEF TPath
<1> QED
  BY <1>1, <1>2, <1>3 DEF Under, IsPrefix

Rooted(table) == \E i \in DOMAIN table : table[i].at = <<>>

LEMMA MountIs ==
  ASSUME NEW table \in Seq(TMount), Rooted(table), NEW p \in TPath
  PROVE  /\ Top(table, p) \in DOMAIN table /\ Under(p, MountOf(table, p).at)
         /\ MountOf(table, p) = table[Top(table, p)] /\ MountOf(table, p) \in TMount
<1> DEFINE S == {i \in DOMAIN table : Under(p, table[i].at)}
<1>1. Len(table) \in Nat /\ DOMAIN table = 1 .. Len(table)
  BY LenProperties
<1>2. S # {}
  <2>1. PICK i \in DOMAIN table : table[i].at = <<>>
    BY DEF Rooted
  <2>2. Under(p, table[i].at)
    BY <2>1, UnderEmpty
  <2> QED
    BY <2>2
<1>3. S \subseteq 1 .. Len(table)
  BY <1>1
<1>4. Max(S) \in S
  <2> HIDE DEF S
  <2> QED
    BY <1>1, <1>2, <1>3, GreatestOf
<1>5. Top(table, p) \in S
  BY <1>4 DEF Top
<1>6. table[Top(table, p)] \in TMount
  BY <1>1, <1>5, ElementOfSeq
<1> QED
  BY <1>5, <1>6 DEF MountOf

LEMMA SelectedIsSeq ==
  ASSUME NEW S, NEW table \in Seq(TMount), NEW indices \in SUBSET (DOMAIN table),
         \A i \in indices : table[i] \in S
  PROVE  Selected(table, indices) \in Seq(S)
<1> DEFINE s == [i \in DOMAIN table |-> IF i \in indices THEN <<table[i]>> ELSE <<>>]
<1>1. Len(table) \in Nat /\ DOMAIN table = 1 .. Len(table)
  BY LenProperties
<1>2. \A i \in DOMAIN table : (IF i \in indices THEN <<table[i]>> ELSE <<>>) \in Seq(S)
  OBVIOUS
<1>3. s \in Seq(Seq(S))
  BY <1>1, <1>2
<1> HIDE DEF s
<1>4. FlattenSeq(s) \in Seq(S)
  BY <1>3, FlattenIsSeq
<1> QED
  BY <1>4 DEF Selected, s

LEMMA SelectedHas ==
  ASSUME NEW table \in Seq(TMount), NEW indices \in SUBSET (DOMAIN table), NEW k \in indices
  PROVE  \E l \in 1 .. Len(Selected(table, indices)) : Selected(table, indices)[l] = table[k]
<1> DEFINE s == [i \in DOMAIN table |-> IF i \in indices THEN <<table[i]>> ELSE <<>>]
<1>1. Len(table) \in Nat /\ DOMAIN table = 1 .. Len(table)
  BY LenProperties
<1>2. \A i \in DOMAIN table : (IF i \in indices THEN <<table[i]>> ELSE <<>>) \in Seq(TMount)
  BY <1>1, ElementOfSeq
<1>3. s \in Seq(Seq(TMount)) /\ Len(s) = Len(table)
  BY <1>1, <1>2
<1>4. k \in 1 .. Len(s) /\ s[k] = <<table[k]>>
  BY <1>1, <1>3
<1> HIDE DEF s
<1>5. \E l \in 1 .. Len(FlattenSeq(s)) : FlattenSeq(s)[l] = table[k]
  BY <1>3, <1>4, FlattenHas
<1> QED
  BY <1>5 DEF Selected, s

LEMMA ShortLists ==
  ASSUME NEW S, NEW a \in S, NEW b \in S
  PROVE  <<>> \in Seq(S) /\ <<a>> \in Seq(S) /\ <<a, b>> \in Seq(S)
  OBVIOUS

LEMMA ShortPaths ==
  ASSUME NEW a \in Text, NEW b \in Text
  PROVE  <<>> \in TPath /\ <<a>> \in TPath /\ <<a, b>> \in TPath
  BY ShortLists, Zenon DEF TPath

(* A mount that shows nothing of the host's root but what it may.          *)
Proper(c) ==
  {m \in TMount : m.fs = "host" => \E p \in Sources(c) : Under(m.sub, p)}

LEMMA SourcesArePaths ==
  ASSUME NEW c \in Request
  PROVE  Sources(c) \subseteq TPath
<1>0. "rootfs" \in Text /\ "sys" \in Text /\ "dev" \in Text /\ "null" \in Text /\ "tty" \in Text
  BY DEF Text
<1>1. Root \in TPath /\ <<"sys">> \in TPath
  BY <1>0, ShortPaths DEF Root
<1>2. \A i \in DOMAIN DEVICES : <<"dev", DEVICES[i]>> \in TPath
  <2>1. \A i \in DOMAIN DEVICES : DEVICES[i] \in {"null", "tty"}
    BY DEF DEVICES
  <2>2. \A i \in DOMAIN DEVICES : DEVICES[i] \in Text
    BY <1>0, <2>1
  <2> QED
    BY <1>0, <2>2, ShortPaths
<1>3. \A i \in DOMAIN c.mounts : c.mounts[i].source \in TPath
  <2>1. c.mounts \in Seq(VolumeRecord)
    BY DEF Request
  <2>2. \A i \in DOMAIN c.mounts : c.mounts[i] \in VolumeRecord
    BY <2>1
  <2> QED
    BY <2>2, PathIsTPath DEF VolumeRecord
<1> QED
  BY <1>1, <1>2, <1>3 DEF Sources

(* The host's own mount of its root.                                       *)
IsHostRoot(m) == m.at = <<>> /\ m.fs = "host" /\ m.sub = <<>>

LEMMA MountIsProper ==
  ASSUME NEW c, NEW fs \in Text \ {"host"}, NEW p \in TPath, NEW flags \in SUBSET Text
  PROVE  Mount(p, fs, <<>>, flags) \in Proper(c)
<1>1. <<>> \in TPath
  BY DEF TPath
<1> QED
  BY <1>1 DEF Mount, Proper, TMount

(* The mount that a bind makes shows what may be shown.                    *)
LEMMA CopyIsProper ==
  ASSUME NEW c \in Request, NEW t \in Seq(TMount), Rooted(t), NEW p \in TPath, NEW q \in TPath,
         \A i \in DOMAIN t : t[i] \in Proper(c) \/ (IsHostRoot(t[i]) /\ p \in Sources(c))
  PROVE  LET n == Locate(t, p) IN Mount(q, n.fs, n.path, MountOf(t, p).flags) \in Proper(c)
<1> DEFINE m == MountOf(t, p)
           d == Drop(p, Len(m.at))
           n == Locate(t, p)
           k == Mount(q, n.fs, n.path, m.flags)
<1>1. m \in TMount /\ m = t[Top(t, p)] /\ Top(t, p) \in DOMAIN t
  BY MountIs
<1>2. m.at \in TPath /\ m.sub \in TPath /\ m.fs \in Text /\ m.flags \in SUBSET Text
  BY <1>1 DEF TMount
<1>3. d \in TPath
  <2>1. Len(m.at) \in Nat
    BY <1>2 DEF TPath
  <2> HIDE DEF m
  <2> QED
    BY <2>1, DropIsPath
<1>4. n.fs = m.fs /\ n.path = m.sub \o d
  BY DEF Locate, Node
<1>5. m.sub \o d \in TPath
  <2> HIDE DEF m, d
  <2> QED
    BY <1>2, <1>3, ConcatIsPath
<1>6. k \in TMount /\ k.fs = m.fs /\ k.sub = m.sub \o d
  <2> HIDE DEF m, d, n
  <2> QED
    BY <1>2, <1>4, <1>5 DEF Mount, TMount
<1>7. ASSUME k.fs = "host" PROVE \E s \in Sources(c) : Under(k.sub, s)
  <2>1. CASE t[Top(t, p)] \in Proper(c)
    <3>1. PICK s \in Sources(c) : Under(m.sub, s)
      <4> HIDE DEF m, k
      <4> QED
        BY <1>1, <1>6, <1>7, <2>1 DEF Proper
    <3>2. s \in TPath
      BY SourcesArePaths
    <3>3. Under(m.sub \o d, s)
      <4> HIDE DEF m, d
      <4> QED
        BY <1>2, <1>3, <3>1, <3>2, UnderLonger
    <3> QED
      BY <1>6, <3>3
  <2>2. CASE IsHostRoot(t[Top(t, p)]) /\ p \in Sources(c)
    <3>1. m.at = <<>> /\ m.sub = <<>>
      BY <1>1, <2>2 DEF IsHostRoot
    <3>2. d = p
      <4>1. Len(m.at) = 0
        BY <3>1
      <4>2. d = SubSeq(p, 1, Len(p))
        <5> HIDE DEF m
        <5> QED
          BY <4>1 DEF Drop
      <4> QED
        BY <4>2 DEF TPath
    <3>3. k.sub = p
      <4>1. m.sub \o d = <<>> \o p
        <5> HIDE DEF m, d
        <5> QED
          BY <3>1, <3>2
      <4>2. <<>> \o p = p
        BY DEF TPath
      <4> QED
        BY <1>6, <4>1, <4>2
    <3> QED
      BY <2>2, <3>3, UnderItself
  <2> QED
    BY <1>1, <2>1, <2>2
<1>8. k \in Proper(c)
  <2> HIDE DEF k
  <2> QED
    BY <1>6, <1>7 DEF Proper
<1> QED
  BY <1>8

(* A mount seen elsewhere.                                                 *)
LEMMA MovedOne ==
  ASSUME NEW c, NEW m \in Proper(c), NEW p \in TPath
  PROVE  [m EXCEPT !.at = p] \in Proper(c) /\ [m EXCEPT !.at = p].at = p
<1>1. m \in TMount
  BY DEF Proper
<1>2. /\ [m EXCEPT !.at = p] \in TMount /\ [m EXCEPT !.at = p].at = p
      /\ [m EXCEPT !.at = p].fs = m.fs /\ [m EXCEPT !.at = p].sub = m.sub
  BY <1>1 DEF TMount
<1> QED
  BY <1>2 DEF Proper

LEMMA BindAdds ==
  ASSUME NEW c \in Request, NEW t \in Seq(TMount), Rooted(t), NEW p \in TPath, NEW q \in TPath,
         NEW rec \in BOOLEAN,
         \A i \in DOMAIN t : t[i] \in Proper(c) \/ (IsHostRoot(t[i]) /\ p \in Sources(c))
  PROVE  \E x \in Seq(Proper(c)) : bind(t, p, q, rec) = t \o x
<1> DEFINE m == Mount(q, Locate(t, p).fs, Locate(t, p).path, MountOf(t, p).flags)
           I == {i \in DOMAIN t : Under(t[i].at, p) /\ t[i].at # p /\ Top(t, t[i].at) = i}
           subs == Selected(t, I)
           moved == [i \in DOMAIN subs |-> [subs[i] EXCEPT !.at = q \o Drop(@, Len(p))]]
           more == IF rec THEN moved ELSE <<>>
<1>1. m \in Proper(c)
  BY CopyIsProper
<1>2. ASSUME NEW i \in I PROVE t[i] \in Proper(c)
  <2>1. CASE IsHostRoot(t[i])
    <3>1. Under(<<>>, p) /\ p # <<>>
      BY <2>1 DEF IsHostRoot
    <3> QED
      BY <3>1, EmptyUnder
  <2> QED
    BY <2>1
<1>3. I \in SUBSET (DOMAIN t)
  OBVIOUS
<1>4. subs \in Seq(Proper(c))
  <2> HIDE DEF I
  <2> QED
    BY <1>2, <1>3, SelectedIsSeq
<1> HIDE DEF subs
<1>5. moved \in Seq(Proper(c))
  <2>1. ASSUME NEW i \in DOMAIN subs PROVE [subs[i] EXCEPT !.at = q \o Drop(@, Len(p))] \in Proper(c)
    <3>1. subs[i] \in Proper(c)
      BY <1>4
    <3>2. subs[i].at \in TPath /\ Len(p) \in Nat
      BY <3>1 DEF Proper, TMount, TPath
    <3>3. q \o Drop(subs[i].at, Len(p)) \in TPath
      BY <3>2, DropIsPath, ConcatIsPath
    <3> QED
      BY <3>1, <3>3, MovedOne
  <2>2. Len(subs) \in Nat /\ DOMAIN subs = 1 .. Len(subs)
    BY <1>4, LenProperties
  <2> QED
    BY <2>1, <2>2
<1>6. more \in Seq(Proper(c))
  <2> HIDE DEF moved
  <2> QED
    BY <1>5
<1>7. bind(t, p, q, rec) = Append(t, m) \o more
  BY DEF bind, Moved, Submounts, subs, I
<1>8. Proper(c) \subseteq TMount
  BY DEF Proper
<1> HIDE DEF m, more
<1>9. Append(t, m) \o more = t \o (<<m>> \o more)
  <2>1. m \in TMount /\ more \in Seq(TMount)
    BY <1>1, <1>6, <1>8, SeqOfMore
  <2>2. <<m>> \in Seq(TMount) /\ Append(t, m) = t \o <<m>>
    BY <2>1, AppendIsConcat
  <2> QED
    BY <2>1, <2>2, ConcatAssociative
<1>10. <<m>> \o more \in Seq(Proper(c))
  <2>1. <<m>> \in Seq(Proper(c))
    BY <1>1
  <2> QED
    BY <1>6, <2>1, ConcatProperties
<1> QED
  BY <1>7, <1>9, <1>10

-----------------------------------------------------------------------------
(* The table before the pivot, between it and the detaching of the old     *)
(* root, and afterwards.                                                   *)

Settling(c, t) ==
  /\ t \in Seq(TMount) /\ t # <<>> /\ IsHostRoot(t[1])
  /\ \A i \in DOMAIN t \ {1} : t[i] \in Proper(c)

Pivoted(c, t) ==
  /\ t \in Seq(TMount)
  /\ \A i \in 1 .. Len(t) - 1 : t[i] \in Proper(c)
  /\ \E i \in 1 .. Len(t) - 1 : t[i].at = <<>>

Settled(c, t) == t \in Seq(Proper(c)) /\ Rooted(t)

LEMMA ProperIsTMount ==
  ASSUME NEW c
  PROVE  Proper(c) \subseteq TMount /\ Seq(Proper(c)) \subseteq Seq(TMount)
<1>1. Proper(c) \subseteq TMount
  BY DEF Proper
<1> QED
  BY <1>1, SeqOfMore

LEMMA SettlingRooted ==
  ASSUME NEW c, NEW t, Settling(c, t)
  PROVE  Rooted(t) /\ 1 \in DOMAIN t
<1>1. 1 \in DOMAIN t
  BY EmptySeq, LenProperties DEF Settling
<1> QED
  BY <1>1 DEF Settling, Rooted, IsHostRoot

LEMMA SettlingLonger ==
  ASSUME NEW c, NEW t, Settling(c, t), NEW x \in Seq(Proper(c))
  PROVE  Settling(c, t \o x)
<1>0. t \in Seq(TMount) /\ t # <<>> /\ IsHostRoot(t[1]) /\ \A i \in DOMAIN t \ {1} : t[i] \in Proper(c)
  BY DEF Settling
<1>1. x \in Seq(TMount)
  BY ProperIsTMount
<1>2. /\ Len(t) \in Nat /\ DOMAIN t = 1 .. Len(t) /\ Len(t) # 0 /\ Len(x) \in Nat
      /\ \A i \in 1 .. Len(x) : x[i] \in Proper(c)
  BY <1>0, LenProperties, ElementOfSeq, EmptySeq
<1>3. /\ t \o x \in Seq(TMount) /\ Len(t \o x) = Len(t) + Len(x)
      /\ \A i \in 1 .. Len(t) + Len(x) : (t \o x)[i] = IF i <= Len(t) THEN t[i] ELSE x[i - Len(t)]
  BY <1>0, <1>1, ConcatProperties
<1>4. DOMAIN (t \o x) = 1 .. Len(t) + Len(x)
  BY <1>3, LenProperties
<1>5. (t \o x)[1] = t[1] /\ t \o x # <<>>
  <2>1. 1 \in 1 .. Len(t) + Len(x) /\ 1 <= Len(t)
    BY <1>2
  <2> QED
    BY <1>3, <1>4, <2>1
<1>6. ASSUME NEW i \in DOMAIN (t \o x) \ {1} PROVE (t \o x)[i] \in Proper(c)
  <2>1. CASE i <= Len(t)
    BY <1>0, <1>2, <1>3, <1>4, <2>1
  <2>2. CASE ~(i <= Len(t))
    <3>1. i - Len(t) \in 1 .. Len(x) /\ i \in 1 .. Len(t) + Len(x)
      BY <1>2, <1>4, <2>2
    <3> QED
      BY <1>2, <1>3, <2>2, <3>1
  <2> QED
    BY <2>1, <2>2
<1> QED
  BY <1>0, <1>3, <1>5, <1>6 DEF Settling

LEMMA SettledLonger ==
  ASSUME NEW c, NEW t, Settled(c, t), NEW x \in Seq(Proper(c))
  PROVE  Settled(c, t \o x)
<1>1. t \in Seq(Proper(c)) /\ Rooted(t)
  BY DEF Settled
<1>2. t \o x \in Seq(Proper(c))
  BY <1>1, ConcatProperties
<1>3. PICK i \in DOMAIN t : t[i].at = <<>>
  BY <1>1 DEF Rooted
<1>4. i \in 1 .. Len(t)
  BY <1>1, LenProperties
<1>5. i \in 1 .. Len(t \o x) /\ (t \o x)[i] = t[i]
  BY <1>1, <1>4, ConcatLeft
<1>6. DOMAIN (t \o x) = 1 .. Len(t \o x)
  BY <1>2, LenProperties
<1> QED
  BY <1>2, <1>3, <1>5, <1>6 DEF Settled, Rooted

(* A change of flags.                                                      *)
LEMMA RemountKeeps ==
  ASSUME NEW c, NEW t \in Seq(TMount), NEW p
  PROVE  /\ Settling(c, t) => Settling(c, remount_ro(t, p))
         /\ Settled(c, t) => Settled(c, remount_ro(t, p))
<1> DEFINE k == Top(t, p)
           u == [t EXCEPT ![k].flags = {"ro"}]
           Ro(m) == [m EXCEPT !.flags = {"ro"}]
<1>0. "ro" \in Text
  BY DEF Text
<1>1. Len(t) \in Nat /\ DOMAIN t = 1 .. Len(t) /\ DOMAIN u = DOMAIN t /\ \A i \in DOMAIN t : t[i] \in TMount
  BY LenProperties, ElementOfSeq
<1>2. \A i \in DOMAIN t : u[i] = IF i = k THEN Ro(t[i]) ELSE t[i]
  OBVIOUS
<1>3. ASSUME NEW m \in TMount
      PROVE  Ro(m) \in TMount /\ Ro(m).at = m.at /\ Ro(m).fs = m.fs /\ Ro(m).sub = m.sub
  BY <1>0 DEF TMount
<1> HIDE DEF Ro, k
<1>4. \A i \in DOMAIN t : u[i] \in TMount /\ u[i].at = t[i].at /\ u[i].fs = t[i].fs /\ u[i].sub = t[i].sub
  <2> HIDE DEF u
  <2> QED
    BY <1>1, <1>2, <1>3
<1>5. u = [i \in 1 .. Len(t) |-> u[i]]
  BY <1>1
<1> HIDE DEF u
<1>6. u \in Seq(TMount) /\ Len(u) = Len(t)
  BY <1>1, <1>4, <1>5
<1>7. \A i \in DOMAIN t : t[i] \in Proper(c) => u[i] \in Proper(c)
  BY <1>4 DEF Proper
<1>8. remount_ro(t, p) = u
  BY DEF remount_ro, u, k
<1>9. ASSUME Settling(c, t) PROVE Settling(c, u)
  <2>1. 1 \in DOMAIN t /\ IsHostRoot(t[1])
    BY <1>9, SettlingRooted DEF Settling
  <2>2. IsHostRoot(u[1])
    BY <1>4, <2>1 DEF IsHostRoot
  <2>3. u # <<>>
    BY <1>1, <2>1
  <2> QED
    BY <1>1, <1>6, <1>7, <1>9, <2>2, <2>3 DEF Settling
<1>10. ASSUME Settled(c, t) PROVE Settled(c, u)
  <2>1. \A i \in 1 .. Len(t) : u[i] \in Proper(c)
    BY <1>1, <1>7, <1>10, ElementOfSeq DEF Settled
  <2>2. u \in Seq(Proper(c))
    BY <1>1, <1>5, <2>1
  <2>3. Rooted(u)
    BY <1>1, <1>4, <1>10 DEF Settled, Rooted
  <2> QED
    BY <2>2, <2>3 DEF Settled
<1> QED
  BY <1>8, <1>9, <1>10

LEMMA PivotKeeps ==
  ASSUME NEW c, NEW t, Settling(c, t), IsMountPoint(t, Root)
  PROVE  Pivoted(c, pivot_root(t, Root))
<1> DEFINE I == {i \in DOMAIN t : Under(t[i].at, Root)}
           k == Top(t, Root)
           inside == Selected(t, I)
           moved == [i \in DOMAIN inside |-> [inside[i] EXCEPT !.at = Drop(@, Len(Root))]]
<1>0. t \in Seq(TMount) /\ IsHostRoot(t[1]) /\ \A i \in DOMAIN t \ {1} : t[i] \in Proper(c)
  BY DEF Settling
<1>r. Root \in TPath /\ Len(Root) = 1 /\ Root # <<>> /\ Drop(Root, Len(Root)) = <<>>
  <2>1. "rootfs" \in Text
    BY DEF Text
  <2>2. Root \in TPath /\ Len(Root) = 1 /\ Root # <<>>
    BY <2>1, ShortPaths DEF Root
  <2>3. Drop(Root, 1) = <<>>
    BY <2>2 DEF Drop, TPath
  <2> QED
    BY <2>2, <2>3
<1>1. ASSUME NEW i \in I PROVE t[i] \in Proper(c)
  <2>1. i # 1
    <3>1. ~Under(<<>>, Root)
      BY <1>r, EmptyUnder
    <3> QED
      BY <1>0, <3>1 DEF IsHostRoot
  <2> QED
    BY <1>0, <2>1
<1>2. I \in SUBSET (DOMAIN t)
  OBVIOUS
<1>3. k \in I /\ t[k].at = Root
  <2>1. k \in DOMAIN t /\ MountOf(t, Root) = t[k]
    BY <1>0, <1>r, SettlingRooted, MountIs
  <2>2. t[k].at = Root
    BY <2>1 DEF IsMountPoint
  <2> QED
    BY <1>r, <2>1, <2>2, UnderItself
<1>4. inside \in Seq(Proper(c)) /\ \E l \in 1 .. Len(inside) : inside[l] = t[k]
  <2> HIDE DEF I, k
  <2> QED
    BY <1>0, <1>1, <1>2, <1>3, SelectedIsSeq, SelectedHas
<1> HIDE DEF inside, k, I
<1>5. Len(inside) \in Nat /\ DOMAIN inside = 1 .. Len(inside) /\ \A i \in 1 .. Len(inside) : inside[i] \in Proper(c)
  BY <1>4, LenProperties, ElementOfSeq
<1>6. ASSUME NEW i \in 1 .. Len(inside)
      PROVE  /\ [inside[i] EXCEPT !.at = Drop(@, Len(Root))] \in Proper(c)
             /\ [inside[i] EXCEPT !.at = Drop(@, Len(Root))].at = Drop(inside[i].at, Len(Root))
  <2>1. inside[i] \in Proper(c) /\ inside[i].at \in TPath
    BY <1>5 DEF Proper, TMount
  <2>2. Drop(inside[i].at, Len(Root)) \in TPath
    BY <1>r, <2>1, DropIsPath
  <2> QED
    BY <2>1, <2>2, MovedOne
<1>7. moved \in Seq(Proper(c)) /\ Len(moved) = Len(inside)
  BY <1>5, <1>6
<1>8. \E l \in 1 .. Len(inside) : moved[l].at = <<>>
  <2>1. PICK l \in 1 .. Len(inside) : inside[l] = t[k]
    BY <1>4
  <2>2. moved[l].at = Drop(inside[l].at, Len(Root))
    BY <1>5, <1>6
  <2> QED
    BY <1>3, <1>r, <2>1, <2>2
<1>9. pivot_root(t, Root) = Append(moved, t[1])
  BY DEF pivot_root, Moved, inside, I
<1> HIDE DEF moved
<1>10. t[1] \in TMount
  BY <1>0, SettlingRooted, ElementOfSeq, LenProperties
<1>11. moved \in Seq(TMount)
  BY <1>7, ProperIsTMount
<1>12. /\ Append(moved, t[1]) \in Seq(TMount) /\ Len(Append(moved, t[1])) = Len(moved) + 1
       /\ \A i \in 1 .. Len(moved) : Append(moved, t[1])[i] = moved[i]
  BY <1>10, <1>11, AppendProperties
<1>13. \A i \in 1 .. Len(moved) : moved[i] \in Proper(c)
  BY <1>7, ElementOfSeq
<1>14. Len(Append(moved, t[1])) - 1 = Len(moved) /\ Len(moved) = Len(inside)
  BY <1>5, <1>7, <1>12
<1> QED
  BY <1>8, <1>9, <1>12, <1>13, <1>14 DEF Pivoted

LEMMA UmountKeeps ==
  ASSUME NEW c, NEW t, Pivoted(c, t)
  PROVE  Settled(c, umount_top(t))
<1> DEFINE n == Len(t) - 1
           u == SubSeq(t, 1, n)
<1>1. t \in Seq(TMount) /\ Len(t) \in Nat /\ n \in Nat /\ n <= Len(t)
  <2>1. t \in Seq(TMount) /\ Len(t) \in Nat
    BY LenProperties DEF Pivoted
  <2>2. \E i \in 1 .. Len(t) - 1 : TRUE
    BY DEF Pivoted
  <2> QED
    BY <2>1, <2>2
<1>2. DOMAIN u = 1 .. n /\ \A i \in 1 .. n : u[i] = t[i]
  <2>1. u = [i \in 1 .. n |-> t[i]]
    BY <1>1
  <2> HIDE DEF n, u
  <2> QED
    BY <2>1
<1>3. \A i \in 1 .. n : t[i] \in Proper(c)
  BY DEF Pivoted
<1>4. u \in Seq(Proper(c))
  <2>1. u = [i \in 1 .. n |-> t[i]]
    BY <1>1
  <2> HIDE DEF n, u
  <2> QED
    BY <1>1, <1>3, <2>1
<1>5. \E i \in 1 .. n : t[i].at = <<>>
  BY DEF Pivoted
<1> QED
  BY <1>2, <1>4, <1>5 DEF Settled, Rooted, umount_top

-----------------------------------------------------------------------------
(* The calls of the script by their kinds.                                 *)

Kind(ops, args, S) == [op : ops, arg : args, then : S, hard : BOOLEAN, otherwise : S]

(* Calls that change neither credentials nor what is mounted where.        *)
Gentle == {"mkdir", "mknod", "touch", "symlink", "write", "stat", "chdir", "link", "remount"}

Fresh == [fs : Text \ {"host"}, at : TPath, flags : SUBSET Text]

Copy(c) == [from : Sources(c), at : TPath, rec : BOOLEAN]

EarlyOf(c, S) ==
  Kind(Gentle, TPath \cup Text, S) \cup Kind({"mount"}, Fresh, S) \cup Kind({"bind"}, Copy(c), S)

LateOf(S) == Kind(Gentle, TPath \cup Text, S) \cup Kind({"mask", "self_bind"}, TPath, S)

(* Calls before and after the pivot; what follows one is short.            *)
Early(c) == EarlyOf(c, Seq(EarlyOf(c, {<<>>})))

Late == LateOf(Seq(LateOf({<<>>})))

LEMMA CallIs ==
  ASSUME NEW c, NEW S, <<>> \in S, NEW p \in TPath \cup Text, NEW op \in Gentle
  PROVE  Call(op, p) \in EarlyOf(c, S) /\ Call(op, p) \in LateOf(S)
<1>1. Call(op, p) \in Kind(Gentle, TPath \cup Text, S)
  BY DEF Call, Kind
<1> QED
  BY <1>1 DEF EarlyOf, LateOf

LEMMA MkdirIs ==
  ASSUME NEW c, NEW S, <<>> \in S, NEW p \in TPath
  PROVE  MkdirP(p) \in EarlyOf(c, S) /\ MkdirP(p) \in LateOf(S)
  BY CallIs DEF MkdirP, Gentle

LEMMA RemountIs ==
  ASSUME NEW c, NEW S, <<>> \in S, NEW p \in TPath
  PROVE  RemountRo(p) \in EarlyOf(c, S) /\ RemountRo(p) \in LateOf(S)
  BY CallIs DEF RemountRo, Gentle

LEMMA NewFsIs ==
  ASSUME NEW c, NEW S, <<>> \in S, NEW fs \in Text \ {"host"}, NEW p \in TPath, NEW flags \in SUBSET Text
  PROVE  NewFs(fs, p, flags) \in EarlyOf(c, S)
<1>1. [fs |-> fs, at |-> p, flags |-> flags] \in Fresh
  BY DEF Fresh
<1>2. NewFs(fs, p, flags) \in Kind({"mount"}, Fresh, S)
  BY <1>1 DEF Call, Kind, NewFs
<1> QED
  BY <1>2 DEF EarlyOf

LEMMA BindIs ==
  ASSUME NEW c, NEW S, <<>> \in S, NEW p \in Sources(c), NEW q \in TPath, NEW rec \in BOOLEAN
  PROVE  Bind(p, q, rec) \in EarlyOf(c, S)
<1>1. [from |-> p, at |-> q, rec |-> rec] \in Copy(c)
  BY DEF Copy
<1>2. Bind(p, q, rec) \in Kind({"bind"}, Copy(c), S)
  BY <1>1 DEF Call, Kind, Bind
<1> QED
  BY <1>2 DEF EarlyOf

LEMMA KindKept ==
  ASSUME NEW ops, NEW args, NEW S, NEW k \in Kind(ops, args, S), NEW s \in S
  PROVE  Quietly(k) \in Kind(ops, args, S) /\ OrElse(k, s) \in Kind(ops, args, S) /\ Then(k, s) \in Kind(ops, args, S)
  BY DEF Quietly, OrElse, Then, Kind

LEMMA EarlyKept ==
  ASSUME NEW c, NEW S, NEW k \in EarlyOf(c, S), NEW s \in S
  PROVE  Quietly(k) \in EarlyOf(c, S) /\ OrElse(k, s) \in EarlyOf(c, S) /\ Then(k, s) \in EarlyOf(c, S)
<1>1. CASE k \in Kind(Gentle, TPath \cup Text, S)
  BY <1>1, KindKept DEF EarlyOf
<1>2. CASE k \in Kind({"mount"}, Fresh, S)
  BY <1>2, KindKept DEF EarlyOf
<1>3. CASE k \in Kind({"bind"}, Copy(c), S)
  BY <1>3, KindKept DEF EarlyOf
<1> QED
  BY <1>1, <1>2, <1>3 DEF EarlyOf

LEMMA LateKept ==
  ASSUME NEW S, NEW k \in LateOf(S), NEW s \in S
  PROVE  Quietly(k) \in LateOf(S) /\ OrElse(k, s) \in LateOf(S) /\ Then(k, s) \in LateOf(S)
<1>1. CASE k \in Kind(Gentle, TPath \cup Text, S)
  BY <1>1, KindKept DEF LateOf
<1>2. CASE k \in Kind({"mask", "self_bind"}, TPath, S)
  BY <1>2, KindKept DEF LateOf
<1> QED
  BY <1>1, <1>2 DEF LateOf

LEMMA InIsPath ==
  ASSUME NEW p \in TPath
  PROVE  In(p) \in TPath
<1>1. Root \in TPath
  <2>1. "rootfs" \in Text
    BY DEF Text
  <2> QED
    BY <2>1, ShortPaths DEF Root
<1> QED
  BY <1>1, ConcatIsPath DEF In

LEMMA Tuples ==
  ASSUME NEW S, NEW a \in S, NEW b \in S, NEW c \in S, NEW d \in S
  PROVE  /\ <<a, b, c>> \in Seq(S) /\ <<a, b, c, d>> \in Seq(S)
         /\ \A e, f, g, h, i, j, k, l \in S : <<a, b, c, d, e, f, g, h, i, j, k, l>> \in Seq(S)
  OBVIOUS

LEMMA EachIsSeq ==
  ASSUME NEW S, NEW n \in Nat, NEW s, s = [i \in 1 .. n |-> s[i]], \A i \in 1 .. n : s[i] \in Seq(S)
  PROVE  FlattenSeq(s) \in Seq(S)
<1>1. s \in Seq(Seq(S))
  OBVIOUS
<1> QED
  BY <1>1, FlattenIsSeq

LEMMA EmptyThere ==
  ASSUME NEW S
  PROVE  <<>> \in Seq(S) /\ <<>> \in {<<>>}
  OBVIOUS

-----------------------------------------------------------------------------
(* The parts of the script.                                                *)

LEMMA DevicePath ==
  ASSUME NEW a \in Text, NEW b \in Text
  PROVE  In(<<a>>) \in TPath /\ In(<<a, b>>) \in TPath
  BY ShortPaths, InIsPath

LEMMA DeviceCalls ==
  ASSUME NEW c \in Request, NEW i \in DOMAIN DEVICES
  PROVE  make_device(DEVICES[i]) \in Seq(Early(c))
<1> DEFINE name == DEVICES[i]
           target == In(<<"dev", name>>)
           onHost == <<"dev", name>>
           Leaf == EarlyOf(c, {<<>>})
           otherwise == IF HostHas(onHost) THEN <<Call("touch", target), Bind(onHost, target, FALSE)>> ELSE <<>>
<1>1. name \in {"null", "tty"}
  BY DEF DEVICES
<1>2. target \in TPath
  <2>1. "dev" \in Text /\ "null" \in Text /\ "tty" \in Text
    BY DEF Text
  <2> QED
    BY <1>1, <2>1, DevicePath
<1>3. onHost \in Sources(c)
  BY DEF Sources
<1> HIDE DEF target, onHost, name
<1>4. Call("touch", target) \in Leaf /\ Bind(onHost, target, FALSE) \in Leaf
  BY <1>2, <1>3, CallIs, BindIs DEF Gentle
<1>5. otherwise \in Seq(Leaf)
  <2> HIDE DEF Leaf
  <2>1. <<>> \in Seq(Leaf) /\ <<Call("touch", target), Bind(onHost, target, FALSE)>> \in Seq(Leaf)
    BY <1>4, ShortLists
  <2> QED
    BY <2>1
<1>6. Call("mknod", target) \in Early(c)
  BY <1>2, CallIs, EmptyThere DEF Gentle, Early
<1>7. OrElse(Call("mknod", target), otherwise) \in Early(c)
  <2> HIDE DEF otherwise
  <2> QED
    BY <1>5, <1>6, EarlyKept DEF Early
<1>8. make_device(name) = <<OrElse(Call("mknod", target), otherwise)>>
  BY DEF make_device, target, onHost
<1>9. <<OrElse(Call("mknod", target), otherwise)>> \in Seq(Early(c))
  <2> HIDE DEF otherwise
  <2> QED
    BY <1>7, ShortLists
<1> QED
  BY <1>8, <1>9 DEF name

LEMMA SymlinkCalls ==
  ASSUME NEW c, NEW name \in Text
  PROVE  symlink(name) \in Seq(Early(c))
<1>1. In(<<"dev", name>>) \in TPath
  <2>1. "dev" \in Text
    BY DEF Text
  <2> QED
    BY <2>1, DevicePath
<1>2. Call("symlink", In(<<"dev", name>>)) \in Early(c)
  BY <1>1, CallIs, EmptyThere DEF Gentle, Early
<1>3. Quietly(Call("symlink", In(<<"dev", name>>))) \in Early(c)
  BY <1>2, EarlyKept, EmptyThere DEF Early
<1> QED
  BY <1>3, ShortLists DEF symlink

LEMMA DevicesCalls ==
  ASSUME NEW c \in Request
  PROVE  make_devices \in Seq(Early(c))
<1>0. "ptmx" \in Text /\ "fd" \in Text
  BY DEF Text
<1>1. Each(DEVICES, make_device) \in Seq(Early(c))
  <2> DEFINE s == [i \in DOMAIN DEVICES |-> make_device(DEVICES[i])]
  <2>1. DOMAIN DEVICES = 1 .. 2
    BY DEF DEVICES
  <2>2. s = [i \in 1 .. 2 |-> s[i]] /\ \A i \in 1 .. 2 : s[i] \in Seq(Early(c))
    BY <2>1, DeviceCalls
  <2> HIDE DEF s
  <2>3. FlattenSeq(s) \in Seq(Early(c))
    BY <2>2, EachIsSeq
  <2> QED
    BY <2>3 DEF Each, s
<1>2. Each(DEV_SYMLINKS, symlink) \in Seq(Early(c))
  <2> DEFINE s == [i \in DOMAIN DEV_SYMLINKS |-> symlink(DEV_SYMLINKS[i])]
  <2>1. DOMAIN DEV_SYMLINKS = 1 .. 1 /\ \A i \in 1 .. 1 : DEV_SYMLINKS[i] = "fd"
    BY DEF DEV_SYMLINKS
  <2>2. s = [i \in 1 .. 1 |-> s[i]] /\ \A i \in 1 .. 1 : s[i] \in Seq(Early(c))
    BY <1>0, <2>1, SymlinkCalls
  <2> HIDE DEF s
  <2>3. FlattenSeq(s) \in Seq(Early(c))
    BY <2>2, EachIsSeq
  <2> QED
    BY <2>3 DEF Each, s
<1>3. symlink("ptmx") \in Seq(Early(c))
  BY <1>0, SymlinkCalls
<1>4. Each(DEVICES, make_device) \o symlink("ptmx") \in Seq(Early(c))
  BY <1>1, <1>3, ConcatProperties
<1> QED
  BY <1>2, <1>4, ConcatProperties DEF make_devices

LEMMA VolumeCalls ==
  ASSUME NEW c \in Request, NEW i \in DOMAIN c.mounts,
         Last(Root \o c.mounts[i].destination) # "host"
  PROVE  mount_volume(c.mounts[i]) \in Seq(Early(c))
<1> DEFINE v == c.mounts[i]
           target == In(v.destination)
           E == Early(c)
           scratch == <<MkdirP(target), NewFs(Last(target), target, {"nosuid", "nodev"})>>
           place == IF IsDir(v.source) THEN <<MkdirP(target)>>
                    ELSE <<MkdirP(Front(target)), Call("touch", target)>>
           bound == <<Call("stat", v.source)>> \o place \o <<Bind(v.source, target, TRUE)>>
           ro == IF v.readonly THEN <<RemountRo(target)>> ELSE <<>>
<1>1. v \in VolumeRecord
  <2>1. c.mounts \in Seq(VolumeRecord)
    BY DEF Request
  <2> QED
    BY <2>1
<1>2. v.source \in TPath /\ v.destination \in TPath /\ v.fstype \in {"bind", "tmpfs"}
  BY <1>1, PathIsTPath DEF VolumeRecord
<1>3. v.fstype = "bind" => v.source \in Sources(c)
  BY DEF Sources
<1>4. target \in TPath /\ target # <<>>
  <2>1. target \in TPath
    BY <1>2, InIsPath
  <2>2. Len(Root) = 1 /\ Root \in TPath
    <3>1. "rootfs" \in Text
      BY DEF Text
    <3> QED
      BY <3>1, ShortPaths DEF Root
  <2>3. Len(target) = 1 + Len(v.destination) /\ Len(v.destination) \in Nat
    <3> DEFINE d == v.destination
    <3>1. d \in Seq(Text) /\ Root \in Seq(Text)
      BY <1>2, <2>2 DEF TPath
    <3> HIDE DEF d
    <3>2. Len(Root \o d) = Len(Root) + Len(d) /\ Len(d) \in Nat
      BY <3>1, ConcatProperties, LenProperties
    <3> QED
      BY <2>2, <3>2 DEF In, d
  <2> QED
    BY <2>1, <2>3
<1>5. Front(target) \in TPath /\ Last(target) \in Text \ {"host"}
  <2>1. Last(target) # "host"
    BY DEF In
  <2>2. Len(target) \in Nat /\ Len(target) # 0
    BY <1>4, LenProperties, EmptySeq DEF TPath
  <2> HIDE DEF target
  <2>3. target[Len(target)] \in Text
    <3>1. Len(target) \in 1 .. Len(target)
      BY <2>2
    <3> QED
      BY <1>4, <3>1, ElementOfSeq DEF TPath
  <2>4. Front(target) \in TPath
    BY <1>4, <2>2 DEF Front, TPath
  <2> QED
    BY <2>1, <2>3, <2>4 DEF Last
<1>f. {"nosuid", "nodev"} \in SUBSET Text
  BY DEF Text
<1>e. <<>> \in Seq(EarlyOf(c, {<<>>}))
  OBVIOUS
<1>6. /\ MkdirP(target) \in E /\ MkdirP(Front(target)) \in E /\ RemountRo(target) \in E
      /\ Call("touch", target) \in E /\ Call("stat", v.source) \in E
  <2> HIDE DEF target, v
  <2> QED
    BY <1>2, <1>4, <1>5, <1>e, MkdirIs, RemountIs, CallIs DEF Early, Gentle
<1>7. NewFs(Last(target), target, {"nosuid", "nodev"}) \in E
  <2> HIDE DEF target
  <2> QED
    BY <1>4, <1>5, <1>e, <1>f, NewFsIs DEF Early
<1>8. v.fstype = "bind" => Bind(v.source, target, TRUE) \in E
  <2> HIDE DEF target, v
  <2> QED
    BY <1>3, <1>4, <1>e, BindIs DEF Early
<1> HIDE DEF target, v, E
<1>9. scratch \in Seq(E) /\ place \in Seq(E) /\ ro \in Seq(E)
  BY <1>6, <1>7, ShortLists
<1>10. CASE v.fstype = "tmpfs"
  <2>1. mount_volume(v) = scratch \o ro
    BY <1>10 DEF mount_volume, target
  <2> HIDE DEF scratch, ro
  <2> QED
    BY <1>9, <2>1, ConcatProperties DEF v, E
<1>11. CASE v.fstype = "bind"
  <2>1. mount_volume(v) = bound \o ro
    BY <1>11 DEF mount_volume, target
  <2>2. bound \in Seq(E)
    <3>1. <<Call("stat", v.source)>> \in Seq(E) /\ <<Bind(v.source, target, TRUE)>> \in Seq(E)
      BY <1>6, <1>8, <1>11, ShortLists
    <3> HIDE DEF place
    <3>2. <<Call("stat", v.source)>> \o place \in Seq(E)
      BY <1>9, <3>1, ConcatProperties
    <3> QED
      BY <3>1, <3>2, ConcatProperties
  <2> HIDE DEF bound, ro
  <2> QED
    BY <1>9, <2>1, <2>2, ConcatProperties DEF v, E
<1> QED
  BY <1>2, <1>10, <1>11

LEMMA StandardCalls ==
  ASSUME NEW c \in Request, \A i \in DOMAIN c.mounts : Last(Root \o c.mounts[i].destination) # "host"
  PROVE  mount_standard(c) \in Seq(Early(c))
<1> DEFINE E == Early(c)
           Leaf == EarlyOf(c, {<<>>})
<1>t. /\ "proc" \in Text /\ "sys" \in Text /\ "dev" \in Text /\ "pts" \in Text /\ "shm" \in Text
      /\ "mqueue" \in Text /\ "tmp" \in Text /\ "sysfs" \in Text /\ "devices" \in Text /\ "tmpfs" \in Text
  BY DEF Text
<1>p. /\ In(<<"proc">>) \in TPath /\ In(<<"sys">>) \in TPath /\ In(<<"dev">>) \in TPath
      /\ In(<<"dev", "pts">>) \in TPath /\ In(<<"dev", "shm">>) \in TPath
      /\ In(<<"dev", "mqueue">>) \in TPath /\ In(<<"tmp">>) \in TPath
  BY <1>t, DevicePath
<1>f. /\ Plain \in SUBSET Text /\ Plain \cup {"ro"} \in SUBSET Text /\ {"nosuid"} \in SUBSET Text
      /\ {"nosuid", "noexec"} \in SUBSET Text /\ {"nosuid", "nodev"} \in SUBSET Text
  BY DEF Plain, Text
<1>e. <<>> \in Seq(Leaf)
  OBVIOUS
<1>m. \A p \in TPath : MkdirP(p) \in E
  BY <1>e, MkdirIs DEF Early
<1>n. \A fs \in Text \ {"host"}, p \in TPath, flags \in SUBSET Text : NewFs(fs, p, flags) \in E
  BY <1>e, NewFsIs DEF Early
<1>q. \A k \in E : Quietly(k) \in E
  BY <1>e, EarlyKept DEF Early
<1>1. mount_sys \in E
  <2>1. <<"sys">> \in Sources(c)
    BY DEF Sources
  <2>2. Bind(<<"sys">>, In(<<"sys">>), TRUE) \in Leaf /\ RemountRo(In(<<"sys">>)) \in Leaf
    BY <1>p, <2>1, BindIs, RemountIs
  <2>3. <<Bind(<<"sys">>, In(<<"sys">>), TRUE), RemountRo(In(<<"sys">>))>> \in Seq(Leaf)
    <3> HIDE DEF Leaf
    <3> QED
      BY <2>2, ShortLists
  <2>4. NewFs("sysfs", In(<<"sys">>), Plain \cup {"ro"}) \in E
    BY <1>f, <1>n, <1>p, <1>t
  <2> QED
    BY <2>3, <2>4, EarlyKept DEF mount_sys, Early
<1>2. mount_tmp \in Seq(E)
  <2>1. MkdirP(In(<<"tmp">>)) \in E /\ NewFs("tmpfs", In(<<"tmp">>), {"nosuid", "nodev"}) \in E
    BY <1>f, <1>m, <1>n, <1>p, <1>t
  <2> HIDE DEF E
  <2> QED
    BY <2>1, ShortLists DEF mount_tmp
<1> DEFINE a == MkdirP(In(<<"proc">>))
           b == NewFs("proc", In(<<"proc">>), Plain)
           d == MkdirP(In(<<"sys">>))
           e == MkdirP(In(<<"dev">>))
           f == NewFs("devices", In(<<"dev">>), {"nosuid"})
           g == MkdirP(In(<<"dev", "pts">>))
           h == Quietly(NewFs("pts", In(<<"dev", "pts">>), {"nosuid", "noexec"}))
           i == MkdirP(In(<<"dev", "shm">>))
           j == NewFs("shm", In(<<"dev", "shm">>), Plain)
           k == MkdirP(In(<<"dev", "mqueue">>))
           l == Quietly(NewFs("mqueue", In(<<"dev", "mqueue">>), Plain))
           first == <<a, b, d, mount_sys, e, f, g, h, i, j, k, l>>
<1>3. a \in E /\ d \in E /\ e \in E /\ g \in E /\ i \in E /\ k \in E
  <2> HIDE DEF E
  <2> QED
    BY <1>m, <1>p
<1>4. b \in E /\ f \in E /\ j \in E /\ h \in E /\ l \in E
  <2> HIDE DEF E
  <2> QED
    BY <1>f, <1>n, <1>p, <1>q, <1>t
<1>5. first \in Seq(E)
  <2> HIDE DEF E, a, b, d, e, f, g, h, i, j, k, l
  <2> QED
    BY <1>1, <1>3, <1>4, Tuples
<1>6. make_devices \in Seq(E)
  BY DevicesCalls
<1>7. mount_volumes(c) \in Seq(E)
  <2> DEFINE s == [x \in DOMAIN c.mounts |-> mount_volume(c.mounts[x])]
  <2>1. Len(c.mounts) \in Nat /\ DOMAIN c.mounts = 1 .. Len(c.mounts)
    <3>1. c.mounts \in Seq(VolumeRecord)
      BY DEF Request
    <3> QED
      BY <3>1, LenProperties
  <2>2. s = [x \in 1 .. Len(c.mounts) |-> s[x]] /\ \A x \in 1 .. Len(c.mounts) : s[x] \in Seq(E)
    BY <2>1, VolumeCalls
  <2> HIDE DEF s, E
  <2>3. FlattenSeq(s) \in Seq(E)
    BY <2>1, <2>2, EachIsSeq
  <2> QED
    BY <2>3 DEF mount_volumes, Each, s
<1>8. mount_standard(c) = ((first \o mount_tmp) \o make_devices) \o mount_volumes(c)
  BY DEF mount_standard
<1> HIDE DEF first, E
<1>9. first \o mount_tmp \in Seq(E)
  BY <1>2, <1>5, ConcatProperties
<1>10. (first \o mount_tmp) \o make_devices \in Seq(E)
  BY <1>6, <1>9, ConcatProperties
<1> QED
  BY <1>7, <1>8, <1>10, ConcatProperties DEF E

LEMMA HideCalls ==
  ASSUME NEW c \in Request
  PROVE  Hide(c) \in Seq(Late)
<1> DEFINE L == Late
           Leaf == LateOf({<<>>})
           masks == [i \in DOMAIN c.masked_paths |-> mask_path(c.masked_paths[i])]
           seals == [i \in DOMAIN c.readonly_paths |-> readonly_path(c.readonly_paths[i])]
<1>e. <<>> \in Seq(Leaf)
  OBVIOUS
<1>0. /\ Len(c.masked_paths) \in Nat /\ DOMAIN c.masked_paths = 1 .. Len(c.masked_paths)
      /\ Len(c.readonly_paths) \in Nat /\ DOMAIN c.readonly_paths = 1 .. Len(c.readonly_paths)
      /\ \A i \in DOMAIN c.masked_paths : c.masked_paths[i] \in TPath
      /\ \A i \in DOMAIN c.readonly_paths : c.readonly_paths[i] \in TPath
  <2>1. c.masked_paths \in Seq(Path) /\ c.readonly_paths \in Seq(Path)
    BY DEF Request
  <2>2. \A s \in Seq(Path) : Len(s) \in Nat /\ DOMAIN s = 1 .. Len(s) /\ \A i \in DOMAIN s : s[i] \in Path
    BY LenProperties, ElementOfSeq
  <2> QED
    BY <2>1, <2>2, PathIsTPath
<1>1. ASSUME NEW p \in TPath PROVE mask_path(p) \in Seq(L)
  <2>1. Call("mask", p) \in Kind({"mask", "self_bind"}, TPath, Seq(Leaf))
    BY <1>e DEF Call, Kind
  <2>2. Call("mask", p) \in L
    BY <2>1 DEF Late, LateOf
  <2>3. Quietly(Call("mask", p)) \in L
    BY <1>e, <2>2, LateKept DEF Late
  <2> HIDE DEF L
  <2> QED
    BY <2>3, ShortLists DEF mask_path
<1>2. ASSUME NEW p \in TPath PROVE readonly_path(p) \in Seq(L)
  <2>1. RemountRo(p) \in Leaf
    BY RemountIs
  <2>2. Quietly(RemountRo(p)) \in Leaf
    BY <2>1, LateKept
  <2>3. <<Quietly(RemountRo(p))>> \in Seq(Leaf)
    <3> HIDE DEF Leaf
    <3> QED
      BY <2>2, ShortLists
  <2>4. Call("self_bind", p) \in Kind({"mask", "self_bind"}, TPath, Seq(Leaf))
    BY <1>e DEF Call, Kind
  <2>5. Call("self_bind", p) \in L
    BY <2>4 DEF Late, LateOf
  <2>6. Then(Quietly(Call("self_bind", p)), <<Quietly(RemountRo(p))>>) \in L
    BY <1>e, <2>3, <2>5, LateKept DEF Late
  <2> HIDE DEF L
  <2> QED
    BY <2>6, ShortLists DEF readonly_path
<1>3. /\ masks = [i \in 1 .. Len(c.masked_paths) |-> masks[i]]
      /\ \A i \in 1 .. Len(c.masked_paths) : masks[i] \in Seq(L)
  <2> HIDE DEF L
  <2> QED
    BY <1>0, <1>1
<1>4. /\ seals = [i \in 1 .. Len(c.readonly_paths) |-> seals[i]]
      /\ \A i \in 1 .. Len(c.readonly_paths) : seals[i] \in Seq(L)
  <2> HIDE DEF L
  <2> QED
    BY <1>0, <1>2
<1> HIDE DEF L, masks, seals
<1>5. FlattenSeq(masks) \in Seq(L) /\ FlattenSeq(seals) \in Seq(L)
  BY <1>0, <1>3, <1>4, EachIsSeq
<1>6. FlattenSeq(masks) \o FlattenSeq(seals) \in Seq(L) /\ <<>> \in Seq(L)
  BY <1>5, ConcatProperties, EmptyThere
<1>7. Hide(c) = IF c.privileged THEN <<>> ELSE FlattenSeq(masks) \o FlattenSeq(seals)
  BY DEF Hide, Each, masks, seals
<1> QED
  BY <1>6, <1>7 DEF L

LEMMA InsideCalls ==
  ASSUME NEW c \in Request
  PROVE  configure_inside(c) \in Seq(Late) /\ write_resolver_files(c) \in Seq(Late)
<1> DEFINE Leaf == LateOf({<<>>})
<1>e. <<>> \in Seq(Leaf)
  OBVIOUS
<1>t. /\ "lo" \in Text /\ "address" \in Text /\ "eth0" \in Text /\ "route" \in Text
      /\ "etc" \in Text /\ "hosts" \in Text /\ "resolv.conf" \in Text /\ "hostname" \in Text
  BY DEF Text
<1>1. configure_inside(c) \in Seq(Late)
  <2>1. /\ Call("link", "lo") \in Late /\ Call("link", "address") \in Late
        /\ Call("link", "eth0") \in Late /\ Call("link", "route") \in Late
    BY <1>e, <1>t, CallIs DEF Late, Gentle
  <2>2. <<Call("link", "address"), Call("link", "eth0"), Call("link", "route")>> \in Seq(Late)
    BY <2>1, Tuples
  <2>3. <<>> \in Seq(Late) /\ <<Call("link", "lo")>> \in Seq(Late)
    BY <2>1, ShortLists
  <2>4. /\ <<Call("link", "lo")>> \o <<Call("link", "address"), Call("link", "eth0"), Call("link", "route")>>
             \in Seq(Late)
        /\ <<Call("link", "lo")>> \o <<>> \in Seq(Late)
    BY <2>2, <2>3, ConcatProperties
  <2> QED
    BY <2>3, <2>4 DEF configure_inside
<1>2. ASSUME NEW p \in TPath PROVE write_file(p) \in Seq(Leaf)
  <2>1. Quietly(Call("write", p)) \in Leaf
    BY CallIs, LateKept DEF Gentle
  <2> HIDE DEF Leaf
  <2> QED
    BY <2>1, ShortLists DEF write_file
<1>3. /\ <<"etc">> \in TPath /\ <<"etc", "hosts">> \in TPath /\ <<"etc", "resolv.conf">> \in TPath
      /\ <<"etc", "hostname">> \in TPath
  BY <1>t, ShortPaths
<1> DEFINE a == write_file(<<"etc", "hosts">>)
           b == IF c.network = "none" THEN <<>> ELSE write_file(<<"etc", "resolv.conf">>)
           d == write_file(<<"etc", "hostname">>)
<1>4. a \in Seq(Leaf) /\ b \in Seq(Leaf) /\ d \in Seq(Leaf)
  <2> HIDE DEF Leaf
  <2> QED
    BY <1>2, <1>3, <1>e
<1>5. (a \o b) \o d \in Seq(Leaf)
  <2> HIDE DEF a, b, d, Leaf
  <2>1. a \o b \in Seq(Leaf)
    BY <1>4, ConcatProperties
  <2> QED
    BY <1>4, <2>1, ConcatProperties
<1>6. Quietly(MkdirP(<<"etc">>)) \in Late
  BY <1>3, <1>e, MkdirIs, LateKept DEF Late
<1>7. Then(Quietly(MkdirP(<<"etc">>)), (a \o b) \o d) \in Late
  <2> HIDE DEF a, b, d
  <2> QED
    BY <1>5, <1>6, LateKept DEF Late
<1>8. write_resolver_files(c) = <<Then(Quietly(MkdirP(<<"etc">>)), (a \o b) \o d)>>
  BY DEF write_resolver_files
<1>9. write_resolver_files(c) \in Seq(Late)
  <2> HIDE DEF a, b, d
  <2> QED
    BY <1>7, <1>8, ShortLists
<1> QED
  BY <1>1, <1>9

-----------------------------------------------------------------------------
(* The script, cut where the phases change.                                *)

(* What is left from each call of the last part on.                        *)
ToExec      == <<Call("execve", <<>>)>>
ToUid       == <<Call("setuid", <<>>)>> \o ToExec
ToGid       == <<Call("setgid", <<>>)>> \o ToUid
ToUser(c)   == IF Given(c.user) THEN <<Call("setgroups", <<>>)>> \o ToGid ELSE ToExec
ToFork(c)   == <<Call("fork", <<>>)>> \o ToUser(c)
ToExe(c)    == <<Call("resolve_exe", <<>>)>> \o ToFork(c)
ToFilter(c) == IF c.seccomp = "unconfined" THEN ToExe(c) ELSE <<Call("seccomp", c.seccomp)>> \o ToExe(c)
ToNnp(c)    == IF c.no_new_privs THEN <<Call("no_new_privs", <<>>)>> \o ToFilter(c) ELSE ToFilter(c)
ToCapset(c) == <<Call("capset", <<>>)>> \o ToNnp(c)
ToBounding(c) == <<Call("bounding", <<>>)>> \o ToCapset(c)
ToApply(c)  == IF c.privileged THEN ToExe(c) ELSE <<Call("ambient", <<>>)>> \o ToBounding(c)

(* The parts before it.                                                    *)
Named(c)  == IF c.uts THEN <<Call("sethostname", <<>>)>> ELSE <<>>
Before(c) == <<Bind(Root, Root, TRUE)>> \o mount_standard(c) \o Seal(c) \o <<Call("chdir", Root)>>
After(c)  == <<Call("chdir", <<>>)>> \o Hide(c) \o configure_inside(c) \o write_resolver_files(c)
             \o <<Call("chdir", c.cwd)>>

ToHide(c)   == After(c) \o ToApply(c)
ToUmount(c) == <<Call("umount", <<>>)>> \o ToHide(c)
ToPivot(c)  == <<Call("pivot_root", <<>>)>> \o ToUmount(c)
ToMounts(c) == Before(c) \o ToPivot(c)
ToStart(c)  == <<Call("make_rprivate", <<>>)>> \o ToMounts(c)

(* All calls of a script.                                                  *)
Bare ==
  Kind({"sethostname", "make_rprivate", "pivot_root", "umount", "ambient", "bounding", "capset",
        "no_new_privs", "seccomp", "resolve_exe", "fork", "setgroups", "setgid", "setuid", "execve"},
       TPath \cup Text, {<<>>})

AnyCall(c) == Early(c) \cup Late \cup Bare

LEMMA BareIs ==
  ASSUME NEW c, NEW op \in {"sethostname", "make_rprivate", "pivot_root", "umount", "ambient", "bounding",
                            "capset", "no_new_privs", "seccomp", "resolve_exe", "fork", "setgroups",
                            "setgid", "setuid", "execve"},
         NEW p \in TPath \cup Text
  PROVE  Call(op, p) \in AnyCall(c) /\ <<Call(op, p)>> \in Seq(AnyCall(c))
<1>1. Call(op, p) \in Bare
  BY DEF Call, Bare, Kind
<1>2. Call(op, p) \in AnyCall(c)
  BY <1>1 DEF AnyCall
<1> QED
  BY <1>2, ShortLists

LEMMA PartsAreLists ==
  ASSUME NEW c \in Request, \A i \in DOMAIN c.mounts : Last(Root \o c.mounts[i].destination) # "host"
  PROVE  Before(c) \in Seq(Early(c)) /\ After(c) \in Seq(Late)
<1>e. <<>> \in Seq(EarlyOf(c, {<<>>})) /\ <<>> \in Seq(LateOf({<<>>}))
  OBVIOUS
<1>r. Root \in TPath /\ Root \in Sources(c) /\ <<>> \in TPath /\ c.cwd \in TPath
  <2>1. "rootfs" \in Text
    BY DEF Text
  <2>2. c.cwd \in Path
    BY DEF Request
  <2>3. Root \in Sources(c)
    BY DEF Sources
  <2> QED
    BY <2>1, <2>2, <2>3, PathIsTPath, ShortPaths DEF Root
<1>1. Before(c) \in Seq(Early(c))
  <2>1. Bind(Root, Root, TRUE) \in Early(c) /\ Call("chdir", Root) \in Early(c) /\ RemountRo(Root) \in Early(c)
    BY <1>e, <1>r, BindIs, CallIs, RemountIs DEF Early, Gentle
  <2>2. /\ <<Bind(Root, Root, TRUE)>> \in Seq(Early(c)) /\ <<Call("chdir", Root)>> \in Seq(Early(c))
        /\ Seal(c) \in Seq(Early(c))
    BY <2>1, ShortLists DEF Seal
  <2>3. mount_standard(c) \in Seq(Early(c))
    BY StandardCalls
  <2>4. <<Bind(Root, Root, TRUE)>> \o mount_standard(c) \in Seq(Early(c))
    BY <2>2, <2>3, ConcatProperties
  <2>5. <<Bind(Root, Root, TRUE)>> \o mount_standard(c) \o Seal(c) \in Seq(Early(c))
    BY <2>2, <2>4, ConcatProperties
  <2> QED
    BY <2>2, <2>5, ConcatProperties DEF Before
<1>2. After(c) \in Seq(Late)
  <2>1. Call("chdir", <<>>) \in Late /\ Call("chdir", c.cwd) \in Late
    BY <1>e, <1>r, CallIs DEF Late, Gentle
  <2>2. <<Call("chdir", <<>>)>> \in Seq(Late) /\ <<Call("chdir", c.cwd)>> \in Seq(Late)
    BY <2>1, ShortLists
  <2>3. Hide(c) \in Seq(Late) /\ configure_inside(c) \in Seq(Late) /\ write_resolver_files(c) \in Seq(Late)
    BY HideCalls, InsideCalls
  <2>4. <<Call("chdir", <<>>)>> \o Hide(c) \in Seq(Late)
    BY <2>2, <2>3, ConcatProperties
  <2>5. <<Call("chdir", <<>>)>> \o Hide(c) \o configure_inside(c) \in Seq(Late)
    BY <2>3, <2>4, ConcatProperties
  <2>6. <<Call("chdir", <<>>)>> \o Hide(c) \o configure_inside(c) \o write_resolver_files(c) \in Seq(Late)
    BY <2>3, <2>5, ConcatProperties
  <2> QED
    BY <2>2, <2>6, ConcatProperties DEF After
<1> QED
  BY <1>1, <1>2

(* The lists that are left.                                                *)
LEMMA RestAreLists ==
  ASSUME NEW c \in Request
  PROVE  /\ ToExec \in Seq(AnyCall(c)) /\ ToUid \in Seq(AnyCall(c)) /\ ToGid \in Seq(AnyCall(c))
         /\ ToUser(c) \in Seq(AnyCall(c)) /\ ToFork(c) \in Seq(AnyCall(c)) /\ ToExe(c) \in Seq(AnyCall(c))
         /\ ToFilter(c) \in Seq(AnyCall(c)) /\ ToNnp(c) \in Seq(AnyCall(c)) /\ ToCapset(c) \in Seq(AnyCall(c))
         /\ ToBounding(c) \in Seq(AnyCall(c)) /\ ToApply(c) \in Seq(AnyCall(c))
<1>0. <<>> \in TPath \cup Text /\ c.seccomp \in TPath \cup Text
  <2>1. <<>> \in TPath
    BY DEF TPath
  <2>2. c.seccomp \in {"unconfined", "default", "strict"}
    BY DEF Request
  <2> QED
    BY <2>1, <2>2 DEF Text
<1>1. ToExec \in Seq(AnyCall(c))
  BY <1>0, BareIs DEF ToExec
<1>2. ToUid \in Seq(AnyCall(c))
  BY <1>0, <1>1, BareIs, ConcatProperties DEF ToUid
<1>3. ToGid \in Seq(AnyCall(c))
  BY <1>0, <1>2, BareIs, ConcatProperties DEF ToGid
<1>4. ToUser(c) \in Seq(AnyCall(c))
  BY <1>0, <1>1, <1>3, BareIs, ConcatProperties DEF ToUser
<1>5. ToFork(c) \in Seq(AnyCall(c))
  BY <1>0, <1>4, BareIs, ConcatProperties DEF ToFork
<1>6. ToExe(c) \in Seq(AnyCall(c))
  BY <1>0, <1>5, BareIs, ConcatProperties DEF ToExe
<1>7. ToFilter(c) \in Seq(AnyCall(c))
  BY <1>0, <1>6, BareIs, ConcatProperties DEF ToFilter
<1>8. ToNnp(c) \in Seq(AnyCall(c))
  BY <1>0, <1>7, BareIs, ConcatProperties DEF ToNnp
<1>9. ToCapset(c) \in Seq(AnyCall(c))
  BY <1>0, <1>8, BareIs, ConcatProperties DEF ToCapset
<1>10. ToBounding(c) \in Seq(AnyCall(c))
  BY <1>0, <1>9, BareIs, ConcatProperties DEF ToBounding
<1>11. ToApply(c) \in Seq(AnyCall(c))
  BY <1>0, <1>6, <1>10, BareIs, ConcatProperties DEF ToApply
<1> QED
  BY <1>1, <1>2, <1>3, <1>4, <1>5, <1>6, <1>7, <1>8, <1>9, <1>10, <1>11

LEMMA BeginningsAreLists ==
  ASSUME NEW c \in Request, \A i \in DOMAIN c.mounts : Last(Root \o c.mounts[i].destination) # "host"
  PROVE  /\ ToHide(c) \in Seq(AnyCall(c)) /\ ToUmount(c) \in Seq(AnyCall(c)) /\ ToPivot(c) \in Seq(AnyCall(c))
         /\ ToMounts(c) \in Seq(AnyCall(c)) /\ ToStart(c) \in Seq(AnyCall(c)) /\ Named(c) \in Seq(AnyCall(c))
         /\ Before(c) \in Seq(AnyCall(c)) /\ After(c) \in Seq(AnyCall(c))
<1>0. <<>> \in TPath \cup Text
  BY DEF TPath
<1>1. Seq(Early(c)) \subseteq Seq(AnyCall(c)) /\ Seq(Late) \subseteq Seq(AnyCall(c))
  <2>1. Early(c) \subseteq AnyCall(c) /\ Late \subseteq AnyCall(c)
    BY DEF AnyCall
  <2> QED
    BY <2>1, SeqOfMore
<1>2. Before(c) \in Seq(AnyCall(c)) /\ After(c) \in Seq(AnyCall(c))
  BY <1>1, PartsAreLists
<1>3. ToHide(c) \in Seq(AnyCall(c))
  BY <1>2, RestAreLists, ConcatProperties DEF ToHide
<1>4. ToUmount(c) \in Seq(AnyCall(c))
  BY <1>0, <1>3, BareIs, ConcatProperties DEF ToUmount
<1>5. ToPivot(c) \in Seq(AnyCall(c))
  BY <1>0, <1>4, BareIs, ConcatProperties DEF ToPivot
<1>6. ToMounts(c) \in Seq(AnyCall(c))
  BY <1>2, <1>5, ConcatProperties DEF ToMounts
<1>7. ToStart(c) \in Seq(AnyCall(c))
  BY <1>0, <1>6, BareIs, ConcatProperties DEF ToStart
<1>8. Named(c) \in Seq(AnyCall(c))
  BY <1>0, BareIs, EmptyThere DEF Named
<1> QED
  BY <1>2, <1>3, <1>4, <1>5, <1>6, <1>7, <1>8

(* Concatenation with a name, for lemmas that are about nothing else.      *)
Glue(a, b) == a \o b

LEMMA GlueIs ==
  ASSUME NEW S, NEW a \in Seq(S), NEW b \in Seq(S)
  PROVE  Glue(a, b) \in Seq(S)
  BY ConcatProperties DEF Glue

LEMMA GlueGroups ==
  ASSUME NEW S, NEW a \in Seq(S), NEW b \in Seq(S), NEW t \in Seq(S)
  PROVE  Glue(Glue(a, b), t) = Glue(a, Glue(b, t))
  BY ConcatAssociative DEF Glue

LEMMA Regroup3 ==
  ASSUME NEW S, NEW a \in Seq(S), NEW b \in Seq(S), NEW c \in Seq(S), NEW t \in Seq(S)
  PROVE  Glue(Glue(Glue(a, b), c), t) = Glue(a, Glue(b, Glue(c, t)))
  BY GlueIs, GlueGroups

LEMMA Regroup4 ==
  ASSUME NEW S, NEW a \in Seq(S), NEW b \in Seq(S), NEW c \in Seq(S), NEW d \in Seq(S), NEW t \in Seq(S)
  PROVE  Glue(Glue(Glue(Glue(a, b), c), d), t) = Glue(a, Glue(b, Glue(c, Glue(d, t))))
<1> DEFINE x == Glue(a, b)
           y == Glue(b, Glue(c, Glue(d, t)))
<1>1. x \in Seq(S)
  BY GlueIs
<1>2. Glue(d, t) \in Seq(S)
  BY GlueIs
<1>3. Glue(c, Glue(d, t)) \in Seq(S)
  BY <1>2, GlueIs
<1>4. Glue(x, Glue(c, Glue(d, t))) = Glue(a, y)
  BY <1>3, GlueGroups
<1> HIDE DEF x
<1>5. Glue(Glue(Glue(x, c), d), t) = Glue(x, Glue(c, Glue(d, t)))
  BY <1>1, Regroup3
<1> QED
  BY <1>4, <1>5, Zenon DEF x

LEMMA Pair ==
  ASSUME NEW S, NEW a \in S, NEW b \in S
  PROVE  <<a, b>> = <<a>> \o <<b>>
<1> DEFINE s == <<a, b>>
           x == <<a>>
           y == <<b>>
<1>1. /\ x \in Seq(S) /\ y \in Seq(S) /\ Len(x) = 1 /\ Len(y) = 1 /\ s \in Seq(S) /\ Len(s) = 2
      /\ x[1] = a /\ y[1] = b /\ s[1] = a /\ s[2] = b
  OBVIOUS
<1> HIDE DEF s, x, y
<1>2. x \o y \in Seq(S) /\ Len(x \o y) = 2 /\ (x \o y)[1] = a /\ (x \o y)[2] = b
  BY <1>1, ConcatProperties
<1>3. \A i \in 1 .. Len(s) : s[i] = (x \o y)[i]
  BY <1>1, <1>2
<1> QED
  BY <1>1, <1>2, <1>3, SeqEqual DEF s, x, y

LEMMA Triple ==
  ASSUME NEW S, NEW a \in S, NEW b \in S, NEW c \in S
  PROVE  <<a, b, c>> = <<a>> \o (<<b>> \o <<c>>)
<1>1. <<a, b, c>> = <<a>> \o <<b, c>>
  OBVIOUS
<1>2. <<b, c>> = <<b>> \o <<c>>
  BY Pair
<1> QED
  BY <1>1, <1>2, Zenon

LEMMA Quadruple ==
  ASSUME NEW a, NEW b, NEW c, NEW d
  PROVE  <<a, b, c, d>> = <<a>> \o (<<b>> \o (<<c>> \o <<d>>))
<1>1. <<a, b, c, d>> = <<a>> \o <<b, c, d>>
  OBVIOUS
<1>2. <<b, c, d>> = <<b>> \o (<<c>> \o <<d>>)
  <2> DEFINE S == {b, c, d}
  <2>1. b \in S /\ c \in S /\ d \in S
    OBVIOUS
  <2> HIDE DEF S
  <2> QED
    BY <2>1, Triple
<1> QED
  BY <1>1, <1>2, Zenon

(* The last part: apply and spawn_workload.                                *)
LEMMA ApplyIs ==
  ASSUME NEW c \in Request
  PROVE  apply(c) \in Seq(AnyCall(c)) /\ apply(c) \o spawn_workload(c) = ToApply(c)
<1> DEFINE A == AnyCall(c)
           exe == Call("resolve_exe", <<>>)
           fork == Call("fork", <<>>)
           grp == Call("setgroups", <<>>)
           gid == Call("setgid", <<>>)
           sid == Call("setuid", <<>>)
           exec == Call("execve", <<>>)
           amb == Call("ambient", <<>>)
           bnd == Call("bounding", <<>>)
           cap == Call("capset", <<>>)
           nn == IF c.no_new_privs THEN <<Call("no_new_privs", <<>>)>> ELSE <<>>
           sec == IF c.seccomp = "unconfined" THEN <<>> ELSE <<Call("seccomp", c.seccomp)>>
<1>0. <<>> \in TPath \cup Text /\ c.seccomp \in TPath \cup Text
  <2>1. <<>> \in TPath
    BY DEF TPath
  <2>2. c.seccomp \in {"unconfined", "default", "strict"}
    BY DEF Request
  <2> QED
    BY <2>1, <2>2 DEF Text
<1>1. /\ exe \in A /\ fork \in A /\ grp \in A /\ gid \in A /\ sid \in A /\ exec \in A
      /\ amb \in A /\ bnd \in A /\ cap \in A
  BY <1>0, BareIs
<1>2. nn \in Seq(A) /\ sec \in Seq(A)
  BY <1>0, BareIs, EmptyThere
<1>3. /\ <<exe>> \in Seq(A) /\ <<fork>> \in Seq(A) /\ <<grp>> \in Seq(A) /\ <<gid>> \in Seq(A)
      /\ <<sid>> \in Seq(A) /\ <<exec>> \in Seq(A) /\ <<amb>> \in Seq(A) /\ <<bnd>> \in Seq(A) /\ <<cap>> \in Seq(A)
  <2> HIDE DEF A, exe, fork, grp, gid, sid, exec, amb, bnd, cap
  <2> QED
    BY <1>1, ShortLists
<1>4. spawn_workload(c) = ToExe(c)
  <2> DEFINE user == IF Given(c.user) THEN <<grp, gid, sid>> ELSE <<>>
  <2>1. spawn_workload(c) = (<<exe, fork>> \o user) \o <<exec>>
    BY DEF spawn_workload, switch_user
  <2>2. /\ ToExec = <<exec>> /\ ToUid = <<sid>> \o ToExec /\ ToGid = <<gid>> \o ToUid
        /\ ToUser(c) = (IF Given(c.user) THEN <<grp>> \o ToGid ELSE ToExec)
        /\ ToFork(c) = <<fork>> \o ToUser(c) /\ ToExe(c) = <<exe>> \o ToFork(c)
    BY DEF ToExec, ToUid, ToGid, ToUser, ToFork, ToExe
  <2>3. user \in Seq(A)
    <3> HIDE DEF A, grp, gid, sid
    <3> QED
      BY <1>1, Tuples, EmptyThere
  <2>4. user \o <<exec>> = ToUser(c)
    <3> HIDE DEF A, grp, gid, sid, exec
    <3>1. CASE Given(c.user)
      <4>1. user = <<grp>> \o (<<gid>> \o <<sid>>)
        BY <1>1, <3>1, Triple
      <4>2. <<gid>> \o <<sid>> \in Seq(A)
        BY <1>3, ConcatProperties
      <4>3. (<<grp>> \o (<<gid>> \o <<sid>>)) \o <<exec>> = <<grp>> \o ((<<gid>> \o <<sid>>) \o <<exec>>)
        BY <1>3, <4>2, ConcatAssociative
      <4>4. (<<gid>> \o <<sid>>) \o <<exec>> = <<gid>> \o (<<sid>> \o <<exec>>)
        BY <1>3, ConcatAssociative
      <4> QED
        BY <2>2, <3>1, <4>1, <4>3, <4>4
    <3>2. CASE ~Given(c.user)
      <4>1. <<>> \o <<exec>> = <<exec>>
        BY <1>3, ConcatEmptySeq
      <4> QED
        BY <2>2, <3>2, <4>1
    <3> QED
      BY <3>1, <3>2
  <2> HIDE DEF A, exe, fork, user, exec
  <2>5. (<<exe, fork>> \o user) \o <<exec>> = <<exe>> \o (<<fork>> \o (user \o <<exec>>))
    <3>1. <<exe, fork>> = <<exe>> \o <<fork>>
      BY <1>1, Pair
    <3>2. ((<<exe>> \o <<fork>>) \o user) \o <<exec>> = <<exe>> \o (<<fork>> \o (user \o <<exec>>))
      <4> DEFINE u == <<exe>>
                 v == <<fork>>
                 w == <<exec>>
      <4>1. u \in Seq(A) /\ v \in Seq(A) /\ w \in Seq(A)
        BY <1>3
      <4> HIDE DEF u, v, w
      <4>2. Glue(Glue(Glue(u, v), user), w) = Glue(u, Glue(v, Glue(user, w)))
        BY <2>3, <4>1, Regroup3
      <4> QED
        BY <4>2, Zenon DEF u, v, w, Glue
    <3> QED
      BY <3>1, <3>2, Zenon
  <2> QED
    BY <2>1, <2>2, <2>4, <2>5
<1>5. CASE c.privileged
  <2>1. <<>> \o ToExe(c) = ToExe(c)
    BY RestAreLists, ConcatEmptySeq
  <2> QED
    BY <1>4, <1>5, <2>1, EmptyThere DEF apply, ToApply
<1>6. CASE ~c.privileged
  <2>1. apply(c) = (<<amb, bnd, cap>> \o nn) \o sec
    BY <1>6 DEF apply
  <2>2. /\ ToApply(c) = <<amb>> \o ToBounding(c) /\ ToBounding(c) = <<bnd>> \o ToCapset(c)
        /\ ToCapset(c) = <<cap>> \o ToNnp(c)
    BY <1>6 DEF ToApply, ToBounding, ToCapset
  <2>3. sec \o ToExe(c) = ToFilter(c)
    <3>1. <<>> \o ToExe(c) = ToExe(c)
      BY RestAreLists, ConcatEmptySeq
    <3> QED
      BY <3>1 DEF ToFilter
  <2>4. nn \o ToFilter(c) = ToNnp(c)
    <3>1. <<>> \o ToFilter(c) = ToFilter(c)
      BY RestAreLists, ConcatEmptySeq
    <3> QED
      BY <3>1 DEF ToNnp
  <2>5. ToExe(c) \in Seq(A) /\ ToNnp(c) \in Seq(A)
    BY RestAreLists
  <2> HIDE DEF A, amb, bnd, cap, nn, sec
  <2>6. <<amb, bnd, cap>> \in Seq(A) /\ <<amb, bnd, cap>> = <<amb>> \o (<<bnd>> \o <<cap>>)
    BY <1>1, Tuples, Triple
  <2>7. ((<<amb, bnd, cap>> \o nn) \o sec) \o ToExe(c) = <<amb, bnd, cap>> \o (nn \o (sec \o ToExe(c)))
    <3> DEFINE u == <<amb, bnd, cap>>
    <3>1. u \in Seq(A)
      BY <2>6
    <3> HIDE DEF u
    <3>2. Glue(Glue(Glue(u, nn), sec), ToExe(c)) = Glue(u, Glue(nn, Glue(sec, ToExe(c))))
      BY <1>2, <2>5, <3>1, Regroup3
    <3> QED
      BY <3>2, Zenon DEF u, Glue
  <2>8. <<amb, bnd, cap>> \o ToNnp(c) = <<amb>> \o (<<bnd>> \o (<<cap>> \o ToNnp(c)))
    <3>1. <<bnd>> \o <<cap>> \in Seq(A)
      BY <1>3, ConcatProperties
    <3>2. (<<amb>> \o (<<bnd>> \o <<cap>>)) \o ToNnp(c) = <<amb>> \o ((<<bnd>> \o <<cap>>) \o ToNnp(c))
      BY <1>3, <2>5, <3>1, ConcatAssociative
    <3>3. (<<bnd>> \o <<cap>>) \o ToNnp(c) = <<bnd>> \o (<<cap>> \o ToNnp(c))
      BY <1>3, <2>5, ConcatAssociative
    <3> QED
      BY <2>6, <3>2, <3>3
  <2>9. (<<amb, bnd, cap>> \o nn) \o sec \in Seq(A)
    <3>1. <<amb, bnd, cap>> \o nn \in Seq(A)
      BY <1>2, <2>6, ConcatProperties
    <3> QED
      BY <1>2, <3>1, ConcatProperties
  <2>10. apply(c) \in Seq(A)
    BY <2>1, <2>9
  <2>11. apply(c) \o spawn_workload(c) = ToApply(c)
    BY <1>4, <2>1, <2>2, <2>3, <2>4, <2>7, <2>8
  <2> QED
    BY <2>10, <2>11 DEF A
<1> QED
  BY <1>5, <1>6

(* The whole script.                                                       *)
LEMMA ScriptIs ==
  ASSUME NEW c \in Request, \A i \in DOMAIN c.mounts : Last(Root \o c.mounts[i].destination) # "host"
  PROVE  setup(c) \o spawn_workload(c) = Named(c) \o ToStart(c)
<1> DEFINE A == AnyCall(c)
           b == Bind(Root, Root, TRUE)
           rp == Call("make_rprivate", <<>>)
           cd == Call("chdir", Root)
           pv == Call("pivot_root", <<>>)
           um == Call("umount", <<>>)
           top == Call("chdir", <<>>)
           wd == Call("chdir", c.cwd)
           ms == mount_standard(c)
           se == Seal(c)
           hi == Hide(c)
           ci == configure_inside(c)
           wr == write_resolver_files(c)
           ap == apply(c)
           sp == spawn_workload(c)
           na == Named(c)
<1>1. /\ Early(c) \subseteq A /\ Late \subseteq A
      /\ Seq(Early(c)) \subseteq Seq(A) /\ Seq(Late) \subseteq Seq(A)
  <2>1. Early(c) \subseteq AnyCall(c) /\ Late \subseteq AnyCall(c)
    BY DEF AnyCall
  <2> QED
    BY <2>1, SeqOfMore
<1>e. <<>> \in Seq(EarlyOf(c, {<<>>})) /\ <<>> \in Seq(LateOf({<<>>}))
  OBVIOUS
<1>r. /\ Root \in TPath /\ Root \in Sources(c) /\ <<>> \in TPath /\ c.cwd \in TPath
      /\ <<>> \in TPath \cup Text
  <2>1. "rootfs" \in Text
    BY DEF Text
  <2>2. c.cwd \in Path
    BY DEF Request
  <2>3. Root \in Sources(c)
    BY DEF Sources
  <2> QED
    BY <2>1, <2>2, <2>3, PathIsTPath, ShortPaths DEF Root
<1>2. b \in Early(c) /\ cd \in Early(c) /\ RemountRo(Root) \in Early(c) /\ top \in Late /\ wd \in Late
  BY <1>e, <1>r, BindIs, CallIs, RemountIs DEF Early, Late, Gentle
<1>3. rp \in A /\ pv \in A /\ um \in A
  BY <1>r, BareIs
<1>4. se \in Seq(Early(c))
  BY <1>2, ShortLists DEF Seal
<1>5. /\ ms \in Seq(A) /\ se \in Seq(A) /\ hi \in Seq(A) /\ ci \in Seq(A) /\ wr \in Seq(A)
      /\ ap \in Seq(A) /\ na \in Seq(A)
  BY <1>1, <1>4, StandardCalls, HideCalls, InsideCalls, ApplyIs, BeginningsAreLists
<1>6. sp \in Seq(A)
  <2>1. sp = <<Call("resolve_exe", <<>>), Call("fork", <<>>)>> \o switch_user(c) \o <<Call("execve", <<>>)>>
    BY DEF spawn_workload
  <2>2. switch_user(c) \in Seq(A)
    BY <1>r, BareIs, Tuples, EmptyThere DEF switch_user
  <2>3. <<Call("resolve_exe", <<>>), Call("fork", <<>>)>> \in Seq(A) /\ <<Call("execve", <<>>)>> \in Seq(A)
    BY <1>r, BareIs, ShortLists
  <2>4. <<Call("resolve_exe", <<>>), Call("fork", <<>>)>> \o switch_user(c) \in Seq(A)
    BY <2>2, <2>3, ConcatProperties
  <2> HIDE DEF A, sp
  <2> QED
    BY <2>1, <2>3, <2>4, ConcatProperties
<1>7. /\ setup(c) = na \o (<<rp, b>> \o ms \o se \o <<cd, pv, um, top>> \o hi) \o ci \o wr \o <<wd>> \o ap
      /\ Before(c) = <<b>> \o ms \o se \o <<cd>> /\ After(c) = <<top>> \o hi \o ci \o wr \o <<wd>>
  BY DEF setup, fs_setup, pivot, Named, Before, After
<1>8. /\ ToStart(c) = <<rp>> \o (Before(c) \o (<<pv>> \o (<<um>> \o (After(c) \o ToApply(c)))))
      /\ ap \o sp = ToApply(c)
  BY ApplyIs DEF ToStart, ToMounts, ToPivot, ToUmount, ToHide
<1> DEFINE q1 == <<rp>>
           q2 == <<b>>
           q3 == <<cd>>
           q4 == <<pv>>
           q5 == <<um>>
           q6 == <<top>>
           q7 == <<wd>>
<1>9. /\ <<rp, b>> = q1 \o q2 /\ <<cd, pv, um, top>> = q3 \o (q4 \o (q5 \o q6))
      /\ q1 \in Seq(A) /\ q2 \in Seq(A) /\ q3 \in Seq(A) /\ q4 \in Seq(A) /\ q5 \in Seq(A) /\ q6 \in Seq(A) /\ q7 \in Seq(A)
  <2>1. rp \in A /\ b \in A /\ cd \in A /\ pv \in A /\ um \in A /\ top \in A /\ wd \in A
    BY <1>1, <1>2, <1>3
  <2> HIDE DEF A, rp, b, cd, pv, um, top, wd
  <2>2. <<rp, b>> = q1 \o q2
    BY <2>1, Pair
  <2>3. <<cd, pv, um, top>> = q3 \o (q4 \o (q5 \o q6))
    <3> HIDE DEF q3, q4, q5, q6
    <3>1. <<cd, pv, um, top>> = <<cd>> \o (<<pv>> \o (<<um>> \o <<top>>))
      BY Quadruple, Zenon
    <3> QED
      BY <3>1, Zenon DEF q3, q4, q5, q6
  <2>4. q1 \in Seq(A) /\ q2 \in Seq(A) /\ q3 \in Seq(A) /\ q4 \in Seq(A) /\ q5 \in Seq(A) /\ q6 \in Seq(A) /\ q7 \in Seq(A)
    BY <2>1, ShortLists
  <2> QED
    BY <2>2, <2>3, <2>4, Zenon
<1> HIDE DEF A, q1, q2, q3, q4, q5, q6, q7, ms, se, hi, ci, wr, ap, sp, na
<1> DEFINE go == Glue(ap, sp)
           t2 == Glue(ci, Glue(wr, Glue(q7, go)))
           h == Glue(hi, t2)
           t3 == Glue(q6, h)
           t4 == Glue(q4, Glue(q5, t3))
           t5 == Glue(q2, Glue(ms, Glue(se, Glue(q3, t4))))
           m == Glue(q3, Glue(q4, Glue(q5, q6)))
           before == Glue(Glue(Glue(q2, ms), se), q3)
           after == Glue(Glue(Glue(Glue(q6, hi), ci), wr), q7)
           fs == Glue(Glue(Glue(Glue(Glue(q1, q2), ms), se), m), hi)
           all == Glue(Glue(Glue(Glue(Glue(Glue(na, fs), ci), wr), q7), ap), sp)
<1>10. go \in Seq(A) /\ t2 \in Seq(A) /\ h \in Seq(A) /\ t3 \in Seq(A) /\ t4 \in Seq(A) /\ m \in Seq(A) /\ fs \in Seq(A)
  BY <1>5, <1>6, <1>9, GlueIs
<1>a. /\ Glue(na, fs) \in Seq(A) /\ Glue(q1, q2) \in Seq(A) /\ Glue(q7, go) \in Seq(A)
      /\ Glue(q5, q6) \in Seq(A) /\ Glue(q4, Glue(q5, q6)) \in Seq(A)
      /\ Glue(Glue(Glue(q1, q2), ms), se) \in Seq(A)
  <2> HIDE DEF fs, go
  <2> QED
    BY <1>5, <1>9, <1>10, GlueIs
<1>b. Glue(Glue(Glue(Glue(q1, q2), ms), se), m) \in Seq(A) /\ Glue(m, h) \in Seq(A)
  <2> HIDE DEF m, h
  <2> QED
    BY <1>10, <1>a, GlueIs
<1>c. Glue(se, Glue(m, h)) \in Seq(A) /\ Glue(ms, Glue(se, Glue(m, h))) \in Seq(A)
  <2> HIDE DEF m, h
  <2> QED
    BY <1>5, <1>b, GlueIs
<1>11. all = Glue(na, Glue(fs, t2))
  <2> DEFINE x == Glue(na, fs)
             y == Glue(Glue(Glue(x, ci), wr), q7)
  <2>1. x \in Seq(A)
    BY <1>a
  <2> HIDE DEF x, fs
  <2>2. y \in Seq(A)
    BY <1>5, <1>9, <2>1, GlueIs
  <2> HIDE DEF y
  <2>3. Glue(Glue(y, ap), sp) = Glue(y, go)
    BY <1>5, <1>6, <2>2, GlueGroups
  <2>4. Glue(y, go) = Glue(x, t2)
    <3> HIDE DEF go
    <3>1. Glue(Glue(Glue(Glue(x, ci), wr), q7), go) = Glue(x, Glue(ci, Glue(wr, Glue(q7, go))))
      <4>1. x \in Seq(A) /\ ci \in Seq(A) /\ wr \in Seq(A) /\ q7 \in Seq(A) /\ go \in Seq(A)
        BY <1>5, <1>9, <1>10, <2>1
      <4> HIDE DEF x, go
      <4> QED
        BY <4>1, Regroup4, SMTT(40)
    <3> QED
      BY <3>1, Zenon DEF y
  <2> HIDE DEF t2, go
  <2>5. Glue(x, t2) = Glue(na, Glue(fs, t2))
    <3>1. Glue(Glue(na, fs), t2) = Glue(na, Glue(fs, t2))
      BY <1>5, <1>10, GlueGroups
    <3> QED
      BY <3>1, Zenon DEF x
  <2>6. all = Glue(Glue(y, ap), sp)
    BY Zenon DEF y, x
  <2> HIDE DEF all
  <2> QED
    BY <2>3, <2>4, <2>5, <2>6
<1>12. Glue(fs, t2) = Glue(q1, t5)
  <2>1. Glue(m, h) = Glue(q3, t4)
    <3> HIDE DEF h
    <3>1. Glue(Glue(q3, Glue(q4, Glue(q5, q6))), h) = Glue(q3, Glue(Glue(q4, Glue(q5, q6)), h))
      <4> DEFINE x == Glue(q4, Glue(q5, q6))
      <4>1. x \in Seq(A)
        BY <1>a
      <4> HIDE DEF x
      <4>2. Glue(Glue(q3, x), h) = Glue(q3, Glue(x, h))
        BY <1>9, <1>10, <4>1, GlueGroups
      <4> QED
        BY <4>2, Zenon DEF x
    <3>2. Glue(Glue(q4, Glue(q5, q6)), h) = Glue(q4, Glue(Glue(q5, q6), h))
      <4> DEFINE x == Glue(q5, q6)
      <4>1. x \in Seq(A)
        BY <1>a
      <4> HIDE DEF x
      <4>2. Glue(Glue(q4, x), h) = Glue(q4, Glue(x, h))
        BY <1>9, <1>10, <4>1, GlueGroups
      <4> QED
        BY <4>2, Zenon DEF x
    <3>3. Glue(Glue(q5, q6), h) = Glue(q5, Glue(q6, h))
      BY <1>9, <1>10, GlueGroups
    <3> QED
      BY <3>1, <3>2, <3>3, Zenon
  <2> DEFINE x == Glue(Glue(Glue(q1, q2), ms), se)
             p == Glue(q1, q2)
             r == Glue(ms, Glue(se, Glue(m, h)))
  <2>2. x \in Seq(A) /\ Glue(x, m) \in Seq(A) /\ p \in Seq(A) /\ r \in Seq(A)
    BY <1>a, <1>b, <1>c
  <2>3. Glue(fs, t2) = Glue(Glue(x, m), h)
    <3> DEFINE y == Glue(x, m)
    <3> HIDE DEF y, t2
    <3>1. Glue(Glue(y, hi), t2) = Glue(y, Glue(hi, t2))
      <4>1. y \in Seq(A)
        BY <2>2 DEF y
      <4> QED
        BY <1>5, <1>10, <4>1, GlueGroups
    <3> QED
      BY <3>1, Zenon DEF y
  <2> HIDE DEF fs, t2, m, h, t4
  <2>4. Glue(Glue(x, m), h) = Glue(p, r)
    <3> HIDE DEF p
    <3>1. Glue(Glue(Glue(Glue(p, ms), se), m), h) = Glue(p, Glue(ms, Glue(se, Glue(m, h))))
      <4>1. p \in Seq(A) /\ ms \in Seq(A) /\ se \in Seq(A) /\ m \in Seq(A) /\ h \in Seq(A)
        BY <1>5, <1>10, <2>2
      <4> QED
        BY <4>1, Regroup4
    <3> QED
      BY <3>1, Zenon DEF p
  <2>5. Glue(p, r) = Glue(q1, Glue(q2, r))
    <3> HIDE DEF r
    <3> QED
      BY <1>9, <2>2, GlueGroups
  <2> QED
    BY <2>1, <2>3, <2>4, <2>5, Zenon
<1>13. Glue(before, t4) = t5
  <2> HIDE DEF t4
  <2>1. Glue(Glue(Glue(Glue(q2, ms), se), q3), t4) = Glue(q2, Glue(ms, Glue(se, Glue(q3, t4))))
    <3>1. q2 \in Seq(A) /\ ms \in Seq(A) /\ se \in Seq(A) /\ q3 \in Seq(A) /\ t4 \in Seq(A)
      BY <1>5, <1>9, <1>10
    <3> QED
      BY <3>1, Regroup4
  <2> QED
    BY <2>1, Zenon
<1>14. Glue(after, go) = t3
  <2> DEFINE x == Glue(q7, go)
             y == Glue(Glue(Glue(q6, hi), ci), wr)
  <2> HIDE DEF go
  <2>1. y \in Seq(A)
    BY <1>5, <1>9, GlueIs
  <2>2. x \in Seq(A)
    BY <1>a
  <2>3. Glue(Glue(y, q7), go) = Glue(y, x)
    <3> HIDE DEF y
    <3> QED
      <4>1. y \in Seq(A) /\ q7 \in Seq(A) /\ go \in Seq(A)
        BY <1>9, <1>10, <2>1
      <4>2. \A i, j, k \in Seq(A) : Glue(Glue(i, j), k) = Glue(i, Glue(j, k))
        BY GlueGroups
      <4> QED
        BY <4>1, <4>2, Zenon
  <2>4. Glue(y, x) = Glue(q6, Glue(hi, Glue(ci, Glue(wr, x))))
    <3> HIDE DEF x
    <3> QED
      <4>1. q6 \in Seq(A) /\ hi \in Seq(A) /\ ci \in Seq(A) /\ wr \in Seq(A) /\ x \in Seq(A)
        BY <1>5, <1>9, <2>2
      <4> QED
        BY <4>1, Regroup4
  <2> QED
    BY <2>3, <2>4, Zenon
<1>15. setup(c) \o spawn_workload(c) = all
  <2>1. setup(c) = na \o (q1 \o q2 \o ms \o se \o (q3 \o (q4 \o (q5 \o q6))) \o hi) \o ci \o wr \o q7 \o ap
    BY <1>7, <1>9, Zenon DEF q7, ms, se, hi, ci, wr, ap, na
  <2>2. spawn_workload(c) = sp
    BY DEF sp
  <2> QED
    BY <2>1, <2>2, Zenon DEF Glue
<1>16. ToStart(c) = Glue(q1, t5)
  <2>1. Before(c) = before /\ After(c) = after
    <3>1. Before(c) = q2 \o ms \o se \o q3 /\ After(c) = q6 \o hi \o ci \o wr \o q7
      BY <1>7, Zenon DEF q2, q3, q6, q7, ms, se, hi, ci, wr
    <3> QED
      BY <3>1, Zenon DEF Glue
  <2>2. ToStart(c) = Glue(q1, Glue(Before(c), Glue(q4, Glue(q5, Glue(After(c), go)))))
    BY <1>8, Zenon DEF q1, q4, q5, ap, sp, Glue
  <2> HIDE DEF before, after, go
  <2> QED
    BY <1>13, <1>14, <2>1, <2>2
<1>17. na \o ToStart(c) = Glue(na, ToStart(c))
  BY DEF Glue
<1> HIDE DEF fs, t2, t5, all
<1> QED
  BY <1>11, <1>12, <1>15, <1>16, <1>17 DEF na

-----------------------------------------------------------------------------
(* The inductive invariant.                                                *)

Known == \E r \in Requests : config = finalize(r)

Usable(c) ==
  /\ c \in Request /\ \A i \in DOMAIN c.mounts : Last(Root \o c.mounts[i].destination) # "host"
  /\ c.seccomp = "unconfined" \/ FilterOf(c.seccomp, c.arch) \in Filters
  /\ c.privileged => c.seccomp = "unconfined"

Kept == config.mount_ns => leaked = {}

(* The filter has run as far as Seccomp allows, or there is none.          *)
FilterPart == (filter = NoFilter /\ Resting) \/ IInv

Base == Known /\ Kept /\ FilterPart /\ (stage # "running" => Resting)

(* Nothing has been given up yet.                                          *)
Whole == stage = "setup" /\ nnp = FALSE /\ uid = 0 /\ filter = NoFilter

AtStart ==
  /\ Whole /\ mounts = HostTable /\ leaked = {}
  /\ script \in {Named(config) \o ToStart(config), ToStart(config)}

AtMounts ==
  /\ Whole /\ private = TRUE /\ Settling(config, mounts)
  /\ \E s \in Seq(Early(config)) : script = s \o ToPivot(config)

AtPivot == Whole /\ private = TRUE /\ Pivoted(config, mounts) /\ script = ToUmount(config)

AtHide ==
  /\ Whole /\ private = TRUE /\ Settled(config, mounts)
  /\ \E s \in Seq(Late) : script = s \o ToApply(config)

Wanted(c) == IF c.seccomp = "unconfined" THEN NoFilter ELSE FilterOf(c.seccomp, c.arch)

Bounded == bounding \subseteq cap_mask(config)

Applying ==
  /\ ~config.privileged /\ stage = "setup" /\ uid = 0 /\ filter = NoFilter /\ Settled(config, mounts)
  /\ \/ nnp = FALSE /\ script = ToBounding(config)
     \/ nnp = FALSE /\ Bounded /\ script \in {ToCapset(config), ToNnp(config)}
     \/ nnp = config.no_new_privs /\ Bounded /\ script = ToFilter(config)

Secured ==
  ~config.privileged => Bounded /\ nnp = config.no_new_privs /\ filter = Wanted(config)

AsUser == IF Given(config.user) THEN uid \in config.user ELSE uid = 0

Spawning ==
  /\ Secured /\ Settled(config, mounts)
  /\ \/ stage = "setup" /\ uid = 0 /\ script \in {ToExe(config), ToFork(config)}
     \/ stage = "child" /\ uid = 0 /\ script \in {ToUser(config), ToGid, ToUid}
     \/ stage = "child" /\ AsUser /\ script = ToExec

Over ==
  /\ script = <<>> /\ stage \in {"running", "failed", "exited"}
  /\ stage = "running" =>
       /\ Secured /\ Settled(config, mounts) /\ AsUser
       /\ caps \subseteq bounding /\ (uid # 0 => caps = {})

Where == AtStart \/ AtMounts \/ AtPivot \/ AtHide \/ Applying \/ Spawning \/ Over

SetupInv == Base /\ Where

LEMMA KnownIsUsable ==
  ASSUME Known
  PROVE  Usable(config)
<1>1. PICK r \in Requests : config = finalize(r)
  BY DEF Known
<1>2. /\ r \in Request /\ \A i \in DOMAIN r.mounts : Last(Root \o r.mounts[i].destination) # "host"
      /\ r.seccomp = "unconfined" \/ FilterOf(r.seccomp, r.arch) \in Filters
  BY SetupAssumption
<1>3. /\ config \in Request /\ config.mounts = r.mounts /\ config.arch = r.arch
      /\ config.seccomp = (IF r.privileged THEN "unconfined" ELSE r.seccomp)
      /\ config.privileged = r.privileged
  BY <1>1, <1>2 DEF finalize, Request
<1> QED
  BY <1>2, <1>3 DEF Usable

-----------------------------------------------------------------------------
(* What is left of a script after its first call.                          *)

LEMMA FirstOf ==
  ASSUME NEW S, NEW x \in S, NEW t \in Seq(S)
  PROVE  <<x>> \o t # <<>> /\ Head(<<x>> \o t) = x /\ <<>> \o Tail(<<x>> \o t) = t
  OBVIOUS

LEMMA FirstOfMore ==
  ASSUME NEW S, NEW E \in SUBSET S, NEW s \in Seq(E), s # <<>>, NEW t \in Seq(S), NEW calls \in Seq(E)
  PROVE  /\ s \o t # <<>> /\ Head(s \o t) = Head(s) /\ Head(s) \in E
         /\ calls \o Tail(s) \in Seq(E) /\ calls \o Tail(s \o t) = (calls \o Tail(s)) \o t
<1>1. /\ s \in Seq(S) /\ calls \in Seq(S) /\ Tail(s) \in Seq(E) /\ Tail(s) \in Seq(S) /\ Head(s) \in E
  BY SeqOfMore, HeadTailProperties
<1>2. s \o t # <<>> /\ Head(s \o t) = Head(s) /\ Tail(s \o t) = Tail(s) \o t
  BY <1>1
<1>3. calls \o (Tail(s) \o t) = (calls \o Tail(s)) \o t
  BY <1>1, ConcatAssociative
<1>4. calls \o Tail(s) \in Seq(E)
  BY <1>1, ConcatProperties
<1> QED
  BY <1>1, <1>2, <1>3, <1>4

LEMMA NoneLeft ==
  ASSUME NEW S, NEW t \in Seq(S)
  PROVE  <<>> \o t = t
  BY ConcatEmptySeq

LEMMA EarlyFields ==
  ASSUME NEW c, NEW k \in Early(c)
  PROVE  /\ k.then \in Seq(Early(c)) /\ k.otherwise \in Seq(Early(c))
         /\ \/ k.op \in Gentle
            \/ k.op = "mount" /\ k.arg \in Fresh
            \/ k.op = "bind" /\ k.arg \in Copy(c)
<1> DEFINE Leaf == EarlyOf(c, {<<>>})
           S == Seq(Leaf)
<1>1. Leaf \subseteq Early(c)
  <2>1. <<>> \in Seq(Leaf)
    OBVIOUS
  <2> HIDE DEF S
  <2>2. Leaf \subseteq EarlyOf(c, S)
    BY <2>1 DEF EarlyOf, Kind, S
  <2> QED
    BY <2>2 DEF Early, S
<1>2. S \subseteq Seq(Early(c))
  <2> HIDE DEF Leaf
  <2> QED
    BY <1>1, SeqOfMore
<1>3. k \in EarlyOf(c, S)
  BY DEF Early
<1> HIDE DEF S
<1>4. /\ k.then \in S /\ k.otherwise \in S
      /\ \/ k.op \in Gentle
         \/ k.op = "mount" /\ k.arg \in Fresh
         \/ k.op = "bind" /\ k.arg \in Copy(c)
  BY <1>3 DEF EarlyOf, Kind
<1> QED
  BY <1>2, <1>4

LEMMA LateFields ==
  ASSUME NEW k \in Late
  PROVE  /\ k.then \in Seq(Late) /\ k.otherwise \in Seq(Late)
         /\ k.op \in Gentle \/ (k.op \in {"mask", "self_bind"} /\ k.arg \in TPath)
<1> DEFINE Leaf == LateOf({<<>>})
           S == Seq(Leaf)
<1>1. Leaf \subseteq Late
  <2>1. <<>> \in Seq(Leaf)
    OBVIOUS
  <2> HIDE DEF S
  <2>2. Leaf \subseteq LateOf(S)
    BY <2>1 DEF LateOf, Kind, S
  <2> QED
    BY <2>2 DEF Late, S
<1>2. S \subseteq Seq(Late)
  <2> HIDE DEF Leaf
  <2> QED
    BY <1>1, SeqOfMore
<1>3. k \in LateOf(S)
  BY DEF Late
<1> HIDE DEF S
<1>4. /\ k.then \in S /\ k.otherwise \in S
      /\ k.op \in Gentle \/ (k.op \in {"mask", "self_bind"} /\ k.arg \in TPath)
  BY <1>3 DEF LateOf, Kind
<1> QED
  BY <1>2, <1>4

-----------------------------------------------------------------------------
(* The effect of a call on the mounts.                                     *)

LEMMA MountAdds ==
  ASSUME NEW c \in Request, NEW t \in Seq(TMount), NEW fs \in Text \ {"host"}, NEW p \in TPath, NEW flags \in SUBSET Text
  PROVE  \E x \in Seq(Proper(c)) : mount(t, fs, p, flags) = t \o x
<1> DEFINE m == Mount(p, fs, <<>>, flags)
<1>1. m \in Proper(c)
  BY MountIsProper
<1> HIDE DEF m
<1>2. <<m>> \in Seq(Proper(c)) /\ m \in TMount
  BY <1>1, ShortLists, ProperIsTMount
<1>3. Append(t, m) = t \o <<m>>
  BY <1>2
<1> QED
  BY <1>2, <1>3 DEF mount, m

LEMMA EarlyCall ==
  ASSUME Usable(config), Settling(config, mounts), private = TRUE,
         NEW k \in Early(config), k.op \in FsOps, FsCall(k)
  PROVE  /\ Settling(config, mounts') /\ private' = TRUE
         /\ config.mount_ns => leaked' = leaked
<1>0. mounts \in Seq(TMount) /\ Rooted(mounts) /\ config \in Request
  BY SettlingRooted DEF Settling, Usable
<1>1. CASE k.op \in Gentle /\ k.op # "remount"
  <2>1. k.op \in {"mkdir", "mknod", "touch", "symlink", "write"}
    BY <1>1 DEF FsOps, Gentle
  <2>2. UNCHANGED <<mounts, private, leaked>>
    BY <2>1 DEF FsCall, Make
  <2> QED
    BY <2>2
<1>2. CASE k.op = "remount"
  <2>1. mounts' = remount_ro(mounts, k.arg) /\ UNCHANGED <<private, leaked>>
    BY <1>2 DEF FsCall
  <2> QED
    BY <1>0, <2>1, RemountKeeps
<1>3. CASE k.op = "mount" /\ k.arg \in Fresh
  <2>1. Attach(mount(mounts, k.arg.fs, k.arg.at, k.arg.flags), k.arg.at)
    BY <1>3 DEF FsCall
  <2>2. k.arg.fs \in Text \ {"host"} /\ k.arg.at \in TPath /\ k.arg.flags \in SUBSET Text
    BY <1>3 DEF Fresh
  <2>3. PICK x \in Seq(Proper(config)) : mount(mounts, k.arg.fs, k.arg.at, k.arg.flags) = mounts \o x
    BY <1>0, <2>2, MountAdds
  <2>4. Settling(config, mounts \o x)
    BY SettlingLonger
  <2> QED
    BY <2>1, <2>3, <2>4 DEF Attach
<1>4. CASE k.op = "bind" /\ k.arg \in Copy(config)
  <2>1. Attach(bind(mounts, k.arg.from, k.arg.at, k.arg.rec), k.arg.at)
    BY <1>4 DEF FsCall
  <2>2. k.arg.from \in Sources(config) /\ k.arg.at \in TPath /\ k.arg.rec \in BOOLEAN
    BY <1>4 DEF Copy
  <2>3. k.arg.from \in TPath
    BY <1>0, <2>2, SourcesArePaths
  <2>4. \A i \in DOMAIN mounts : mounts[i] \in Proper(config) \/ (IsHostRoot(mounts[i]) /\ k.arg.from \in Sources(config))
    BY <2>2 DEF Settling
  <2>5. PICK x \in Seq(Proper(config)) : bind(mounts, k.arg.from, k.arg.at, k.arg.rec) = mounts \o x
    BY <1>0, <2>2, <2>3, <2>4, BindAdds
  <2>6. Settling(config, mounts \o x)
    BY SettlingLonger
  <2> QED
    BY <2>1, <2>5, <2>6 DEF Attach
<1> QED
  BY <1>1, <1>2, <1>3, <1>4, EarlyFields

LEMMA LateCall ==
  ASSUME Usable(config), Settled(config, mounts), private = TRUE,
         NEW k \in Late, k.op \in FsOps, FsCall(k)
  PROVE  /\ Settled(config, mounts') /\ private' = TRUE
         /\ config.mount_ns => leaked' = leaked
<1>0. mounts \in Seq(TMount) /\ Rooted(mounts) /\ config \in Request /\ mounts \in Seq(Proper(config))
  BY ProperIsTMount DEF Settled, Usable
<1>p. \A i \in DOMAIN mounts : mounts[i] \in Proper(config)
  BY <1>0, LenProperties, ElementOfSeq
<1>b. ASSUME NEW p \in TPath, NEW q \in TPath, NEW rec \in BOOLEAN PROVE Settled(config, bind(mounts, p, q, rec))
  <2>1. PICK x \in Seq(Proper(config)) : bind(mounts, p, q, rec) = mounts \o x
    BY <1>0, <1>p, BindAdds
  <2> QED
    BY <2>1, SettledLonger
<1>1. CASE k.op \in Gentle /\ k.op # "remount"
  <2>1. k.op \in {"mkdir", "mknod", "touch", "symlink", "write"}
    BY <1>1 DEF FsOps, Gentle
  <2>2. UNCHANGED <<mounts, private, leaked>>
    BY <2>1 DEF FsCall, Make
  <2> QED
    BY <2>2
<1>2. CASE k.op = "remount"
  <2>1. mounts' = remount_ro(mounts, k.arg) /\ UNCHANGED <<private, leaked>>
    BY <1>2 DEF FsCall
  <2> QED
    BY <1>0, <2>1, RemountKeeps
<1>3. CASE k.op = "mask" /\ k.arg \in TPath
  <2>1. UNCHANGED fsVars \/ Attach(MaskOn(k.arg), k.arg)
    BY <1>3 DEF FsCall
  <2>2. Settled(config, MaskOn(k.arg))
    <3>1. DevNull \in TPath /\ "empty" \in Text \ {"host"} /\ Plain \cup {"ro"} \in SUBSET Text
      <4>1. "dev" \in Text /\ "null" \in Text /\ "empty" \in Text /\ Plain \cup {"ro"} \in SUBSET Text
        BY DEF Text, Plain
      <4> QED
        BY <4>1, ShortPaths DEF DevNull
    <3>2. Settled(config, bind(mounts, DevNull, k.arg, FALSE))
      BY <1>3, <1>b, <3>1
    <3>3. PICK x \in Seq(Proper(config)) : mount(mounts, "empty", k.arg, Plain \cup {"ro"}) = mounts \o x
      <4> DEFINE fs == "empty"
                 flags == Plain \cup {"ro"}
      <4>1. fs \in Text \ {"host"} /\ flags \in SUBSET Text
        BY <3>1
      <4> HIDE DEF fs, flags
      <4>2. \E x \in Seq(Proper(config)) : mount(mounts, fs, k.arg, flags) = mounts \o x
        BY <1>0, <1>3, <4>1, MountAdds
      <4> QED
        BY <4>2 DEF fs, flags
    <3>4. Settled(config, mounts \o x)
      BY SettledLonger
    <3> QED
      BY <3>2, <3>3, <3>4 DEF MaskOn
  <2>3. CASE UNCHANGED fsVars
    BY <2>3 DEF fsVars
  <2>4. CASE Attach(MaskOn(k.arg), k.arg)
    BY <2>2, <2>4 DEF Attach
  <2> QED
    BY <2>1, <2>3, <2>4
<1>4. CASE k.op = "self_bind" /\ k.arg \in TPath
  <2>1. UNCHANGED fsVars \/ Attach(bind(mounts, k.arg, k.arg, TRUE), k.arg)
    BY <1>4 DEF FsCall
  <2>2. Settled(config, bind(mounts, k.arg, k.arg, TRUE))
    BY <1>4, <1>b
  <2>3. CASE UNCHANGED fsVars
    BY <2>3 DEF fsVars
  <2>4. CASE Attach(bind(mounts, k.arg, k.arg, TRUE), k.arg)
    BY <2>2, <2>4 DEF Attach
  <2> QED
    BY <2>1, <2>3, <2>4
<1> QED
  BY <1>1, <1>2, <1>3, <1>4, LateFields

LEMMA HostIsSettling ==
  ASSUME NEW c
  PROVE  Settling(c, HostTable)
<1>1. MountRecord \subseteq TMount
  <2>1. STRING \subseteq Text /\ Path \subseteq TPath
    BY PathIsTPath DEF Text
  <2> QED
    BY <2>1 DEF MountRecord, TMount
<1>2. HostTable \in Seq(TMount) /\ HostTable # <<>>
  BY <1>1, SetupAssumption, SeqOfMore
<1>3. 1 \in DOMAIN HostTable /\ \A i \in DOMAIN HostTable : HostTable[i] \in TMount
  BY <1>2, EmptySeq, LenProperties, ElementOfSeq
<1>4. IsHostRoot(HostTable[1])
  BY <1>3, SetupAssumption DEF IsHostRoot
<1>5. \A i \in DOMAIN HostTable \ {1} : HostTable[i] \in Proper(c)
  BY <1>3, SetupAssumption DEF Proper
<1> QED
  BY <1>2, <1>4, <1>5 DEF Settling

-----------------------------------------------------------------------------
(* Steps.  The parts that any step of setup keeps.                         *)

LEMMA FailureKeeps ==
  ASSUME Base, stage # "running", NEW k, Fails(k)
  PROVE  /\ Base' /\ (k.hard => Over')
         /\ ~k.hard => /\ script' = k.otherwise \o Tail(script)
                       /\ UNCHANGED <<config, stage, mounts, private, leaked, bounding, nnp, uid, filter>>
<1>1. UNCHANGED <<config, fsVars, net, credVars, bpfVars>>
  BY DEF Fails
<1>2. stage' # "running"
  BY DEF Fails
<1>3. Base'
  <2>1. Known' /\ Kept'
    BY <1>1 DEF Base, Known, Kept, fsVars
  <2>2. FilterPart' /\ Resting'
    BY <1>1 DEF Base, FilterPart, Resting, bpfVars, IInv, Progress, NoCall
  <2> QED
    BY <2>1, <2>2 DEF Base
<1>4. k.hard => Over'
  BY <1>2 DEF Fails, Over
<1>5. ~k.hard => script' = k.otherwise \o Tail(script) /\ UNCHANGED stage
  BY DEF Fails, Advance
<1> QED
  BY <1>1, <1>3, <1>4, <1>5 DEF fsVars, credVars, bpfVars

LEMMA SuccessKeeps ==
  ASSUME Base, stage # "running", Succeed, Head(script).op # "seccomp"
  PROVE  /\ Known' /\ FilterPart' /\ Resting' /\ UNCHANGED <<config, filter>>
         /\ script' = Head(script).then \o Tail(script)
<1>1. /\ UNCHANGED <<config, filter, at, acc, data, verdict>>
      /\ script' = Head(script).then \o Tail(script)
  BY DEF Succeed, Advance
<1>2. Known'
  BY <1>1 DEF Base, Known
<1>3. FilterPart' /\ Resting'
  BY <1>1 DEF Base, FilterPart, Resting, IInv, Progress, NoCall
<1> QED
  BY <1>1, <1>2, <1>3

LEMMA OtherCall ==
  ASSUME Succeed, Head(script).op \notin CredOps, Head(script).op # "execve", Head(script).op # "fork"
  PROVE  /\ UNCHANGED <<stage, caps, bounding, nnp, uid>>
         /\ Head(script).op \in FsOps => FsCall(Head(script))
         /\ Head(script).op \notin FsOps => UNCHANGED <<mounts, private, leaked>>
  BY DEF Succeed, credVars, fsVars

(* The next call is a call of its own, whose failure is passed on.         *)
LEMMA AtCall ==
  ASSUME NEW S, NEW op, NEW p, Call(op, p) \in S, NEW t \in Seq(S), script = <<Call(op, p)>> \o t
  PROVE  /\ script # <<>> /\ Head(script) = Call(op, p) /\ Head(script).op = op /\ Head(script).arg = p
         /\ Head(script).hard = TRUE /\ Head(script).then = <<>> /\ <<>> \o Tail(script) = t
<1>1. /\ Call(op, p).op = op /\ Call(op, p).arg = p /\ Call(op, p).hard = TRUE /\ Call(op, p).then = <<>>
  BY DEF Call
<1>2. script # <<>> /\ Head(script) = Call(op, p) /\ <<>> \o Tail(script) = t
  BY FirstOf
<1> QED
  BY <1>1, <1>2

(* A step of init or of its child.                                         *)
Step == Succeed \/ Fails(Head(script))

LEMMA EmptyArg == <<>> \in TPath \cup Text
  BY DEF TPath

LEMMA BaseIsUsable ==
  ASSUME Base
  PROVE  /\ Usable(config) /\ config \in Request
         /\ \A i \in DOMAIN config.mounts : Last(Root \o config.mounts[i].destination) # "host"
         /\ config.no_new_privs \in BOOLEAN
  BY KnownIsUsable DEF Base, Usable, Request

LEMMA StartSteps ==
  ASSUME Base, AtStart, Step
  PROVE  Base' /\ Where'
<1> DEFINE c == config
           A == AnyCall(config)
<1>0. /\ c \in Request /\ \A i \in DOMAIN c.mounts : Last(Root \o c.mounts[i].destination) # "host"
  BY BaseIsUsable
<1>s. stage = "setup" /\ nnp = FALSE /\ uid = 0 /\ filter = NoFilter /\ mounts = HostTable /\ leaked = {}
  BY DEF AtStart, Whole
<1>1. ToStart(c) \in Seq(A) /\ ToMounts(c) \in Seq(A) /\ Before(c) \in Seq(Early(c))
  BY <1>0, BeginningsAreLists, PartsAreLists
<1>2. Call("sethostname", <<>>) \in A /\ Call("make_rprivate", <<>>) \in A
  BY BareIs, EmptyArg
<1>3. CASE script = ToStart(c)
  <2>1. script = <<Call("make_rprivate", <<>>)>> \o ToMounts(c)
    BY <1>3 DEF ToStart
  <2>2. /\ Head(script).op = "make_rprivate" /\ Head(script).hard = TRUE /\ Head(script).then = <<>>
        /\ <<>> \o Tail(script) = ToMounts(c)
    <3> HIDE DEF A
    <3> QED
      BY <1>1, <1>2, <2>1, AtCall
  <2>3. CASE Fails(Head(script))
    BY <1>s, <2>2, <2>3, FailureKeeps DEF Where
  <2>4. CASE Succeed
    <3>1. Known' /\ FilterPart' /\ Resting' /\ UNCHANGED <<config, filter>> /\ script' = ToMounts(c)
      BY <1>s, <2>2, <2>4, SuccessKeeps
    <3>2. UNCHANGED <<stage, nnp, uid>> /\ private' = TRUE /\ UNCHANGED <<mounts, leaked>>
      <4>1. UNCHANGED <<stage, nnp, uid>> /\ FsCall(Head(script))
        BY <2>2, <2>4, OtherCall DEF CredOps, FsOps
      <4> QED
        BY <2>2, <4>1 DEF FsCall
    <3>3. AtMounts'
      <4>1. Settling(config', mounts')
        BY <1>s, <3>2, HostIsSettling
      <4>2. \E s \in Seq(Early(config')) : script' = s \o ToPivot(config')
        BY <1>1, <3>1 DEF ToMounts
      <4> QED
        BY <1>s, <3>1, <3>2, <4>1, <4>2 DEF AtMounts, Whole
    <3> QED
      BY <1>s, <3>1, <3>2, <3>3 DEF Base, Where, Kept
  <2> QED
    BY <2>3, <2>4 DEF Step
<1>4. CASE c.uts /\ script = Named(c) \o ToStart(c)
  <2>1. script = <<Call("sethostname", <<>>)>> \o ToStart(c)
    BY <1>4 DEF Named
  <2>2. /\ Head(script).op = "sethostname" /\ Head(script).hard = TRUE /\ Head(script).then = <<>>
        /\ <<>> \o Tail(script) = ToStart(c)
    <3> HIDE DEF A
    <3> QED
      BY <1>1, <1>2, <2>1, AtCall
  <2>3. CASE Fails(Head(script))
    BY <1>s, <2>2, <2>3, FailureKeeps DEF Where
  <2>4. CASE Succeed
    <3>1. Known' /\ FilterPart' /\ Resting' /\ UNCHANGED <<config, filter>> /\ script' = ToStart(c)
      BY <1>s, <2>2, <2>4, SuccessKeeps
    <3>2. UNCHANGED <<stage, nnp, uid, mounts, leaked>>
      BY <2>2, <2>4, OtherCall DEF CredOps, FsOps
    <3>3. AtStart'
      BY <1>s, <3>1, <3>2 DEF AtStart, Whole
    <3> QED
      BY <1>s, <3>1, <3>2, <3>3 DEF Base, Where, Kept
  <2> QED
    BY <2>3, <2>4 DEF Step
<1>5. CASE ~c.uts /\ script = Named(c) \o ToStart(c)
  <2>1. <<>> \o ToStart(c) = ToStart(c)
    BY <1>1, NoneLeft
  <2>2. script = ToStart(c)
    BY <1>5, <2>1 DEF Named
  <2> QED
    BY <1>3, <2>2
<1> QED
  BY <1>3, <1>4, <1>5 DEF AtStart

LEMMA MountSteps ==
  ASSUME Base, AtMounts, Step
  PROVE  Base' /\ Where'
<1> DEFINE c == config
           A == AnyCall(config)
           t == ToPivot(config)
<1>0. /\ c \in Request /\ \A i \in DOMAIN c.mounts : Last(Root \o c.mounts[i].destination) # "host"
      /\ Usable(config)
  BY BaseIsUsable
<1>s. /\ stage = "setup" /\ nnp = FALSE /\ uid = 0 /\ filter = NoFilter /\ private = TRUE
      /\ Settling(config, mounts) /\ Kept
  BY DEF AtMounts, Whole, Base
<1>1. t \in Seq(A) /\ ToUmount(c) \in Seq(A) /\ Early(c) \in SUBSET A
  BY <1>0, BeginningsAreLists DEF AnyCall
<1>2. PICK s \in Seq(Early(c)) : script = s \o t
  BY DEF AtMounts
<1>3. CASE s = <<>>
  <2>1. script = <<Call("pivot_root", <<>>)>> \o ToUmount(c)
    <3>1. <<>> \o t = t
      BY <1>1, NoneLeft
    <3> QED
      BY <1>2, <1>3, <3>1 DEF ToPivot
  <2>2. Call("pivot_root", <<>>) \in A
    BY BareIs, EmptyArg
  <2>3. /\ Head(script).op = "pivot_root" /\ Head(script).hard = TRUE /\ Head(script).then = <<>>
        /\ <<>> \o Tail(script) = ToUmount(c)
    <3> HIDE DEF A
    <3> QED
      BY <1>1, <2>1, <2>2, AtCall
  <2>4. CASE Fails(Head(script))
    BY <1>s, <2>3, <2>4, FailureKeeps DEF Where
  <2>5. CASE Succeed
    <3>1. Known' /\ FilterPart' /\ Resting' /\ UNCHANGED <<config, filter>> /\ script' = ToUmount(c)
      BY <1>s, <2>3, <2>5, SuccessKeeps
    <3>2. UNCHANGED <<stage, nnp, uid>> /\ Attach(pivot_root(mounts, Root), <<>>)
      <4>1. UNCHANGED <<stage, nnp, uid>> /\ FsCall(Head(script))
        BY <2>3, <2>5, OtherCall DEF CredOps, FsOps
      <4> QED
        BY <2>3, <4>1 DEF FsCall
    <3>3. IsMountPoint(mounts, Root)
      BY <2>3, <2>5 DEF Succeed, Impossible
    <3>4. /\ mounts' = pivot_root(mounts, Root) /\ private' = TRUE /\ (config.mount_ns => leaked' = leaked)
      BY <1>s, <3>2 DEF Attach
    <3>5. Pivoted(config', mounts')
      BY <1>s, <3>1, <3>3, <3>4, PivotKeeps
    <3>6. AtPivot'
      BY <1>s, <3>1, <3>2, <3>4, <3>5 DEF AtPivot, Whole
    <3> QED
      BY <1>s, <3>1, <3>4, <3>6 DEF Base, Where, Kept
  <2> QED
    BY <2>4, <2>5 DEF Step
<1>4. CASE s # <<>>
  <2> DEFINE k == Head(script)
  <2>1. k \in Early(c)
    <3> HIDE DEF A, t
    <3>1. <<>> \in Seq(Early(c))
      BY EmptyThere
    <3> QED
      BY <1>1, <1>2, <1>4, <3>1, FirstOfMore
  <2>2. \A calls \in Seq(Early(c)) :
           calls \o Tail(s) \in Seq(Early(c)) /\ calls \o Tail(script) = (calls \o Tail(s)) \o t
    <3> HIDE DEF A, t
    <3> TAKE calls \in Seq(Early(c))
    <3>1. calls \o Tail(s) \in Seq(Early(c)) /\ calls \o Tail(s \o t) = (calls \o Tail(s)) \o t
      BY <1>1, <1>4, FirstOfMore
    <3> QED
      BY <1>2, <3>1
  <2>3. /\ k.then \in Seq(Early(c)) /\ k.otherwise \in Seq(Early(c))
        /\ k.op \in Gentle \cup {"mount", "bind"}
    BY <2>1, EarlyFields
  <2>4. CASE Fails(k)
    <3>1. Base' /\ (k.hard => Over')
      BY <1>s, <2>4, FailureKeeps
    <3>2. CASE k.hard
      BY <3>1, <3>2 DEF Where
    <3>3. CASE ~k.hard
      <4>1. /\ script' = k.otherwise \o Tail(script)
            /\ UNCHANGED <<config, stage, mounts, private, nnp, uid, filter>>
        BY <1>s, <2>4, <3>3, FailureKeeps
      <4>2. \E r \in Seq(Early(config')) : script' = r \o ToPivot(config')
        BY <2>2, <2>3, <4>1
      <4>3. AtMounts'
        BY <1>s, <4>1, <4>2 DEF AtMounts, Whole
      <4> QED
        BY <3>1, <4>3 DEF Where
    <3> QED
      BY <3>2, <3>3
  <2>5. CASE Succeed
    <3>0. k.op # "seccomp" /\ k.op \notin CredOps /\ k.op # "execve" /\ k.op # "fork"
      BY <2>3 DEF Gentle, CredOps
    <3>1. /\ Known' /\ FilterPart' /\ Resting' /\ UNCHANGED <<config, filter>>
          /\ script' = k.then \o Tail(script)
      BY <1>s, <2>5, <3>0, SuccessKeeps
    <3>2. UNCHANGED <<stage, nnp, uid>>
      BY <2>5, <3>0, OtherCall
    <3>3. Settling(config', mounts') /\ private' = TRUE /\ (config.mount_ns => leaked' = leaked)
      <4>1. CASE k.op \in FsOps
        <5>1. FsCall(k)
          BY <2>5, <3>0, <4>1, OtherCall
        <5> HIDE DEF k
        <5> QED
          BY <1>0, <1>s, <2>1, <3>1, <4>1, <5>1, EarlyCall
      <4>2. CASE k.op \notin FsOps
        <5>1. UNCHANGED <<mounts, private, leaked>>
          BY <2>5, <3>0, <4>2, OtherCall
        <5> QED
          BY <1>s, <3>1, <5>1
      <4> QED
        BY <4>1, <4>2
    <3>4. \E r \in Seq(Early(config')) : script' = r \o ToPivot(config')
      BY <2>2, <2>3, <3>1
    <3>5. AtMounts'
      BY <1>s, <3>1, <3>2, <3>3, <3>4 DEF AtMounts, Whole
    <3> QED
      BY <1>s, <3>1, <3>3, <3>5 DEF Base, Where, Kept
  <2> QED
    BY <2>4, <2>5 DEF Step
<1> QED
  BY <1>3, <1>4

LEMMA PivotSteps ==
  ASSUME Base, AtPivot, Step
  PROVE  Base' /\ Where'
<1> DEFINE c == config
           A == AnyCall(config)
<1>0. /\ c \in Request /\ \A i \in DOMAIN c.mounts : Last(Root \o c.mounts[i].destination) # "host"
  BY BaseIsUsable
<1>s. /\ stage = "setup" /\ nnp = FALSE /\ uid = 0 /\ filter = NoFilter /\ private = TRUE
      /\ Pivoted(config, mounts) /\ Kept
  BY DEF AtPivot, Whole, Base
<1>1. ToHide(c) \in Seq(A) /\ After(c) \in Seq(Late)
  BY <1>0, BeginningsAreLists, PartsAreLists
<1>2. Call("umount", <<>>) \in A
  BY BareIs, EmptyArg
<1>3. script = <<Call("umount", <<>>)>> \o ToHide(c)
  BY DEF AtPivot, ToUmount
<1>4. /\ Head(script).op = "umount" /\ Head(script).hard = TRUE /\ Head(script).then = <<>>
      /\ <<>> \o Tail(script) = ToHide(c)
  <2> HIDE DEF A
  <2>1. ToHide(c) \in Seq(A)
    BY <1>1
  <2> QED
    BY <1>2, <1>3, <2>1, AtCall
<1>5. CASE Fails(Head(script))
  BY <1>s, <1>4, <1>5, FailureKeeps DEF Where
<1>6. CASE Succeed
  <2>1. Known' /\ FilterPart' /\ Resting' /\ UNCHANGED <<config, filter>> /\ script' = ToHide(c)
    BY <1>s, <1>4, <1>6, SuccessKeeps
  <2>2. UNCHANGED <<stage, nnp, uid, private, leaked>> /\ mounts' = umount_top(mounts)
    <3>1. UNCHANGED <<stage, nnp, uid>> /\ FsCall(Head(script))
      BY <1>4, <1>6, OtherCall DEF CredOps, FsOps
    <3> QED
      BY <1>4, <3>1 DEF FsCall
  <2>3. Settled(config', mounts')
    BY <1>s, <2>1, <2>2, UmountKeeps
  <2>4. \E s \in Seq(Late) : script' = s \o ToApply(config')
    BY <1>1, <2>1 DEF ToHide
  <2>5. AtHide'
    BY <1>s, <2>1, <2>2, <2>3, <2>4 DEF AtHide, Whole
  <2> QED
    BY <1>s, <2>1, <2>2, <2>5 DEF Base, Where, Kept
<1> QED
  BY <1>5, <1>6 DEF Step

LEMMA SpawnSteps ==
  ASSUME Base, Spawning, Step
  PROVE  Base' /\ Where'
<1> DEFINE c == config
           A == AnyCall(config)
<1>0. c \in Request
  BY BaseIsUsable
<1>s. Secured /\ Settled(config, mounts) /\ Kept /\ stage # "running"
  BY DEF Spawning, Base
<1>1. /\ ToExec \in Seq(A) /\ ToUid \in Seq(A) /\ ToGid \in Seq(A) /\ ToUser(c) \in Seq(A) /\ ToFork(c) \in Seq(A)
  BY <1>0, RestAreLists
<1>2. \A op \in {"resolve_exe", "fork", "setgroups", "setgid", "setuid", "execve"} : Call(op, <<>>) \in A
  BY BareIs, EmptyArg
<1>f. ASSUME Fails(Head(script)), Head(script).hard = TRUE PROVE Base' /\ Where'
  BY <1>s, <1>f, FailureKeeps DEF Where
(* A call that only moves the script on.                                   *)
<1>m. ASSUME NEW op \in {"resolve_exe", "setgroups", "setgid"}, NEW t \in Seq(A),
             script = <<Call(op, <<>>)>> \o t, Succeed
      PROVE  /\ Base' /\ Secured' /\ Settled(config', mounts') /\ script' = t
             /\ UNCHANGED <<config, stage, uid>>
  <2>1. Head(script).op = op /\ Head(script).then = <<>> /\ <<>> \o Tail(script) = t
    <3> HIDE DEF A
    <3> QED
      BY <1>2, <1>m, AtCall
  <2>2. Known' /\ FilterPart' /\ Resting' /\ UNCHANGED <<config, filter>> /\ script' = t
    BY <1>s, <1>m, <2>1, SuccessKeeps
  <2>3. UNCHANGED <<stage, bounding, nnp, uid, mounts, leaked>>
    BY <1>m, <2>1, OtherCall DEF CredOps, FsOps
  <2> QED
    BY <1>s, <2>2, <2>3 DEF Base, Kept, Secured, Bounded
<1>h. ASSUME NEW op \in {"resolve_exe", "fork", "setgroups", "setgid", "setuid", "execve"}, NEW t \in Seq(A),
             script = <<Call(op, <<>>)>> \o t
      PROVE  /\ Head(script).op = op /\ Head(script).hard = TRUE /\ Head(script).then = <<>>
             /\ <<>> \o Tail(script) = t
  <2> HIDE DEF A
  <2> QED
    BY <1>2, <1>h, AtCall
<1>3. CASE stage = "setup" /\ uid = 0 /\ script = ToExe(c)
  <2>1. script = <<Call("resolve_exe", <<>>)>> \o ToFork(c)
    BY <1>3 DEF ToExe
  <2>2. CASE Succeed
    <3>1. /\ Base' /\ Secured' /\ Settled(config', mounts') /\ script' = ToFork(c)
          /\ UNCHANGED <<config, stage, uid>>
      BY <1>1, <1>m, <2>1, <2>2
    <3> QED
      BY <1>3, <3>1 DEF Where, Spawning
  <2> QED
    BY <1>1, <1>f, <1>h, <2>1, <2>2 DEF Step
<1>4. CASE stage = "setup" /\ uid = 0 /\ script = ToFork(c)
  <2>1. script = <<Call("fork", <<>>)>> \o ToUser(c)
    BY <1>4 DEF ToFork
  <2>2. /\ Head(script).op = "fork" /\ Head(script).hard = TRUE /\ Head(script).then = <<>>
        /\ <<>> \o Tail(script) = ToUser(c)
    BY <1>1, <1>h, <2>1
  <2>3. CASE Succeed
    <3>1. Known' /\ FilterPart' /\ Resting' /\ UNCHANGED <<config, filter>> /\ script' = ToUser(c)
      BY <1>s, <2>2, <2>3, SuccessKeeps
    <3>2. stage' = "child" /\ UNCHANGED <<bounding, nnp, uid, mounts, leaked>>
      BY <2>2, <2>3 DEF Succeed, CredOps, FsOps, credVars, fsVars
    <3>3. Spawning'
      BY <1>4, <1>s, <3>1, <3>2 DEF Spawning, Secured, Bounded
    <3> QED
      BY <1>s, <3>1, <3>2, <3>3 DEF Base, Kept, Where
  <2> QED
    BY <1>f, <2>2, <2>3 DEF Step
<1>5. CASE stage = "child" /\ uid = 0 /\ script = ToUser(c) /\ Given(c.user)
  <2>1. script = <<Call("setgroups", <<>>)>> \o ToGid
    BY <1>5 DEF ToUser
  <2>2. CASE Succeed
    <3>1. /\ Base' /\ Secured' /\ Settled(config', mounts') /\ script' = ToGid
          /\ UNCHANGED <<config, stage, uid>>
      BY <1>1, <1>m, <2>1, <2>2
    <3> QED
      BY <1>5, <3>1 DEF Where, Spawning
  <2> QED
    BY <1>1, <1>f, <1>h, <2>1, <2>2 DEF Step
<1>6. CASE stage = "child" /\ uid = 0 /\ script = ToGid
  <2>1. script = <<Call("setgid", <<>>)>> \o ToUid
    BY <1>6 DEF ToGid
  <2>2. CASE Succeed
    <3>1. /\ Base' /\ Secured' /\ Settled(config', mounts') /\ script' = ToUid
          /\ UNCHANGED <<config, stage, uid>>
      BY <1>1, <1>m, <2>1, <2>2
    <3> QED
      BY <1>6, <3>1 DEF Where, Spawning
  <2> QED
    BY <1>1, <1>f, <1>h, <2>1, <2>2 DEF Step
<1>7. CASE stage = "child" /\ uid = 0 /\ script = ToUid
  <2>1. script = <<Call("setuid", <<>>)>> \o ToExec
    BY <1>7 DEF ToUid
  <2>2. /\ Head(script).op = "setuid" /\ Head(script).hard = TRUE /\ Head(script).then = <<>>
        /\ <<>> \o Tail(script) = ToExec
    BY <1>1, <1>h, <2>1
  <2>3. CASE Succeed
    <3>1. Known' /\ FilterPart' /\ Resting' /\ UNCHANGED <<config, filter>> /\ script' = ToExec
      BY <1>s, <2>2, <2>3, SuccessKeeps
    <3>2. CredCall(Head(script)) /\ UNCHANGED <<stage, mounts, leaked>>
      BY <2>2, <2>3 DEF Succeed, CredOps, FsOps, fsVars
    <3>3. uid' \in config.user /\ UNCHANGED <<bounding, nnp>>
      BY <2>2, <3>2 DEF CredCall
    <3>4. Spawning'
      BY <1>7, <1>s, <3>1, <3>2, <3>3 DEF Spawning, Secured, Bounded, AsUser, Given
    <3> QED
      BY <1>s, <3>1, <3>2, <3>4 DEF Base, Kept, Where
  <2> QED
    BY <1>f, <2>2, <2>3 DEF Step
<1>8. CASE stage = "child" /\ AsUser /\ script = ToExec
  <2>1. script = <<Call("execve", <<>>)>> \o <<>>
    <3>1. <<Call("execve", <<>>)>> \o <<>> = <<Call("execve", <<>>)>>
      BY <1>1, ConcatEmptySeq DEF ToExec
    <3> QED
      BY <1>8, <3>1 DEF ToExec
  <2>2. /\ Head(script).op = "execve" /\ Head(script).hard = TRUE /\ Head(script).then = <<>>
        /\ <<>> \o Tail(script) = <<>>
    <3>1. <<>> \in Seq(A)
      BY EmptyThere
    <3> QED
      BY <1>h, <2>1, <3>1
  <2>3. CASE Succeed
    <3>1. Known' /\ FilterPart' /\ Resting' /\ UNCHANGED <<config, filter>> /\ script' = <<>>
      BY <1>s, <2>2, <2>3, SuccessKeeps
    <3>2. Exec /\ UNCHANGED <<mounts, leaked>>
      BY <2>2, <2>3 DEF Succeed, CredOps, FsOps, fsVars
    <3>3. /\ stage' = "running" /\ UNCHANGED <<bounding, nnp, uid>>
          /\ caps' \subseteq bounding /\ (uid # 0 => caps' = {})
      BY <3>2 DEF Exec
    <3>4. Over'
      BY <1>8, <1>s, <3>1, <3>2, <3>3 DEF Over, Secured, Bounded, AsUser
    <3> QED
      BY <1>s, <3>1, <3>2, <3>4 DEF Base, Kept, Where
  <2> QED
    BY <1>f, <2>2, <2>3 DEF Step
<1>9. CASE stage = "child" /\ uid = 0 /\ script = ToUser(c) /\ ~Given(c.user)
  <2>1. AsUser /\ script = ToExec
    BY <1>9 DEF AsUser, ToUser
  <2> QED
    BY <1>8, <1>9, <2>1
<1> QED
  BY <1>3, <1>4, <1>5, <1>6, <1>7, <1>8, <1>9 DEF Spawning

LEMMA ApplySteps ==
  ASSUME Base, Applying, Step
  PROVE  Base' /\ Where'
<1> DEFINE c == config
           A == AnyCall(config)
<1>0. c \in Request /\ config.no_new_privs \in BOOLEAN /\ Usable(config)
  BY BaseIsUsable
<1>s. /\ ~config.privileged /\ stage = "setup" /\ uid = 0 /\ filter = NoFilter
      /\ Settled(config, mounts) /\ Kept
  BY DEF Applying, Base
<1>1. /\ ToExe(c) \in Seq(A) /\ ToFilter(c) \in Seq(A) /\ ToNnp(c) \in Seq(A) /\ ToCapset(c) \in Seq(A)
  BY <1>0, RestAreLists
<1>2. \A op \in {"bounding", "capset", "no_new_privs", "seccomp"}, p \in TPath \cup Text : Call(op, p) \in A
  BY BareIs
<1>f. ASSUME Fails(Head(script)), Head(script).hard = TRUE PROVE Base' /\ Where'
  BY <1>s, <1>f, FailureKeeps DEF Where
<1>h. ASSUME NEW op \in {"bounding", "capset", "no_new_privs", "seccomp"}, NEW p \in TPath \cup Text,
             NEW t \in Seq(A), script = <<Call(op, p)>> \o t
      PROVE  /\ Head(script).op = op /\ Head(script).arg = p /\ Head(script).hard = TRUE
             /\ Head(script).then = <<>> /\ <<>> \o Tail(script) = t
  <2> HIDE DEF A
  <2>1. Call(op, p) \in A
    BY <1>2
  <2> QED
    BY <1>h, <2>1, AtCall
<1>c. ASSUME NEW op \in {"bounding", "capset", "no_new_privs"}, NEW t \in Seq(A),
             script = <<Call(op, <<>>)>> \o t, Succeed
      PROVE  /\ Base' /\ Settled(config', mounts') /\ script' = t /\ CredCall(Head(script))
             /\ UNCHANGED <<config, stage, filter>>
  <2>1. Head(script).op = op /\ Head(script).then = <<>> /\ <<>> \o Tail(script) = t
    BY <1>c, <1>h, EmptyArg
  <2>2. Known' /\ FilterPart' /\ Resting' /\ UNCHANGED <<config, filter>> /\ script' = t
    BY <1>s, <1>c, <2>1, SuccessKeeps
  <2>3. CredCall(Head(script)) /\ UNCHANGED <<stage, mounts, leaked>>
    BY <1>c, <2>1 DEF Succeed, CredOps, FsOps, fsVars
  <2> QED
    BY <1>s, <2>2, <2>3 DEF Base, Kept
<1>3. CASE nnp = FALSE /\ script = ToBounding(c)
  <2>1. script = <<Call("bounding", <<>>)>> \o ToCapset(c)
    BY <1>3 DEF ToBounding
  <2>2. Head(script).op = "bounding" /\ Head(script).hard = TRUE
    BY <1>1, <1>h, <2>1, EmptyArg
  <2>3. CASE Succeed
    <3>1. /\ Base' /\ Settled(config', mounts') /\ script' = ToCapset(c) /\ CredCall(Head(script))
          /\ UNCHANGED <<config, stage, filter>>
      BY <1>1, <1>c, <2>1, <2>3
    <3>2. bounding' = bounding \cap cap_mask(config) /\ UNCHANGED <<nnp, uid>>
      BY <2>2, <3>1 DEF CredCall
    <3>3. Bounded'
      <4>1. bounding' \subseteq cap_mask(config)
        BY <3>2
      <4> QED
        BY <3>1, <4>1 DEF Bounded
    <3>4. Applying'
      BY <1>3, <1>s, <3>1, <3>2, <3>3 DEF Applying
    <3> QED
      BY <3>1, <3>4 DEF Where
  <2> QED
    BY <1>f, <2>2, <2>3 DEF Step
<1>4. CASE nnp = FALSE /\ Bounded /\ script = ToCapset(c)
  <2>1. script = <<Call("capset", <<>>)>> \o ToNnp(c)
    BY <1>4 DEF ToCapset
  <2>2. Head(script).op = "capset" /\ Head(script).hard = TRUE
    BY <1>1, <1>h, <2>1, EmptyArg
  <2>3. CASE Succeed
    <3>1. /\ Base' /\ Settled(config', mounts') /\ script' = ToNnp(c) /\ CredCall(Head(script))
          /\ UNCHANGED <<config, stage, filter>>
      BY <1>1, <1>c, <2>1, <2>3
    <3>2. UNCHANGED <<bounding, nnp, uid>>
      BY <2>2, <3>1 DEF CredCall
    <3>3. Applying'
      BY <1>4, <1>s, <3>1, <3>2 DEF Applying, Bounded
    <3> QED
      BY <3>1, <3>3 DEF Where
  <2> QED
    BY <1>f, <2>2, <2>3 DEF Step
<1>5. CASE nnp = FALSE /\ Bounded /\ script = ToNnp(c) /\ c.no_new_privs
  <2>1. script = <<Call("no_new_privs", <<>>)>> \o ToFilter(c)
    BY <1>5 DEF ToNnp
  <2>2. Head(script).op = "no_new_privs" /\ Head(script).hard = TRUE
    BY <1>1, <1>h, <2>1, EmptyArg
  <2>3. CASE Succeed
    <3>1. /\ Base' /\ Settled(config', mounts') /\ script' = ToFilter(c) /\ CredCall(Head(script))
          /\ UNCHANGED <<config, stage, filter>>
      BY <1>1, <1>c, <2>1, <2>3
    <3>2. UNCHANGED <<bounding, uid>> /\ nnp' = config'.no_new_privs
      BY <1>0, <1>5, <2>2, <3>1 DEF CredCall
    <3>3. Applying'
      BY <1>5, <1>s, <3>1, <3>2 DEF Applying, Bounded
    <3> QED
      BY <3>1, <3>3 DEF Where
  <2> QED
    BY <1>f, <2>2, <2>3 DEF Step
<1>6. CASE nnp = config.no_new_privs /\ Bounded /\ script = ToFilter(c) /\ c.seccomp # "unconfined"
  <2>1. script = <<Call("seccomp", c.seccomp)>> \o ToExe(c)
    BY <1>6 DEF ToFilter
  <2>2. c.seccomp \in TPath \cup Text
    <3>1. c.seccomp \in {"unconfined", "default", "strict"}
      BY <1>0 DEF Request
    <3> QED
      BY <3>1 DEF Text
  <2>3. /\ Head(script).op = "seccomp" /\ Head(script).arg = c.seccomp /\ Head(script).hard = TRUE
        /\ Head(script).then = <<>> /\ <<>> \o Tail(script) = ToExe(c)
    BY <1>1, <1>h, <2>1, <2>2
  <2>4. CASE Succeed
    <3>1. /\ script' = ToExe(c) /\ filter' = FilterOf(c.seccomp, c.arch)
          /\ UNCHANGED <<config, at, acc, data, verdict>>
      BY <2>3, <2>4 DEF Succeed, Advance
    <3>2. UNCHANGED <<stage, bounding, nnp, uid, mounts, leaked>>
      BY <2>3, <2>4, OtherCall DEF CredOps, FsOps
    <3>3. Resting /\ Resting'
      BY <1>s, <3>1 DEF Base, Resting, NoCall
    <3>4. filter' \in Filters
      BY <1>0, <1>6, <3>1 DEF Usable
    <3>5. FilterPart'
      BY <3>3, <3>4, SeccompAssumption DEF FilterPart, IInv, Resting, NoCall, AUDIT_ARCH_NATIVE
    <3>6. Spawning'
      BY <1>6, <1>s, <3>1, <3>2 DEF Spawning, Secured, Bounded, Wanted
    <3> QED
      BY <1>s, <3>1, <3>2, <3>3, <3>5, <3>6 DEF Base, Known, Kept, Where
  <2> QED
    BY <1>f, <2>3, <2>4 DEF Step
<1>7. CASE nnp = config.no_new_privs /\ Bounded /\ script = ToFilter(c) /\ c.seccomp = "unconfined"
  <2>1. Spawning
    BY <1>7, <1>s DEF Spawning, Secured, Wanted, ToFilter
  <2> QED
    BY <2>1, SpawnSteps
<1>8. CASE nnp = FALSE /\ Bounded /\ script = ToNnp(c) /\ ~c.no_new_privs
  <2>1. nnp = config.no_new_privs /\ script = ToFilter(c)
    BY <1>0, <1>8 DEF ToNnp
  <2> QED
    BY <1>6, <1>7, <1>8, <2>1
<1> QED
  BY <1>3, <1>4, <1>5, <1>6, <1>7, <1>8 DEF Applying

LEMMA HideSteps ==
  ASSUME Base, AtHide, Step
  PROVE  Base' /\ Where'
<1> DEFINE c == config
           A == AnyCall(config)
           t == ToApply(config)
<1>0. c \in Request /\ Usable(config)
  BY BaseIsUsable
<1>s. /\ stage = "setup" /\ nnp = FALSE /\ uid = 0 /\ filter = NoFilter /\ private = TRUE
      /\ Settled(config, mounts) /\ Kept
  BY DEF AtHide, Whole, Base
<1>1. t \in Seq(A) /\ ToBounding(c) \in Seq(A) /\ Late \in SUBSET A
  BY <1>0, RestAreLists DEF AnyCall
<1>2. PICK s \in Seq(Late) : script = s \o t
  BY DEF AtHide
<1>3. CASE s = <<>> /\ c.privileged
  <2>1. script = ToExe(c)
    <3>1. <<>> \o t = t
      BY <1>1, NoneLeft
    <3> QED
      BY <1>2, <1>3, <3>1 DEF ToApply
  <2>2. Spawning
    BY <1>3, <1>s, <2>1 DEF Spawning, Secured
  <2> QED
    BY <2>2, SpawnSteps
<1>4. CASE s = <<>> /\ ~c.privileged
  <2>1. script = <<Call("ambient", <<>>)>> \o ToBounding(c)
    <3>1. <<>> \o t = t
      BY <1>1, NoneLeft
    <3> QED
      BY <1>2, <1>4, <3>1 DEF ToApply
  <2>2. Call("ambient", <<>>) \in A
    BY BareIs, EmptyArg
  <2>3. /\ Head(script).op = "ambient" /\ Head(script).hard = TRUE /\ Head(script).then = <<>>
        /\ <<>> \o Tail(script) = ToBounding(c)
    <3> HIDE DEF A
    <3>1. ToBounding(c) \in Seq(A)
      BY <1>1
    <3> QED
      BY <2>1, <2>2, <3>1, AtCall
  <2>4. CASE Fails(Head(script))
    BY <1>s, <2>3, <2>4, FailureKeeps DEF Where
  <2>5. CASE Succeed
    <3>1. Known' /\ FilterPart' /\ Resting' /\ UNCHANGED <<config, filter>> /\ script' = ToBounding(c)
      BY <1>s, <2>3, <2>5, SuccessKeeps
    <3>2. UNCHANGED <<stage, nnp, uid, mounts, leaked>>
      BY <2>3, <2>5, OtherCall DEF CredOps, FsOps
    <3>3. Applying'
      BY <1>4, <1>s, <3>1, <3>2 DEF Applying
    <3> QED
      BY <1>s, <3>1, <3>2, <3>3 DEF Base, Where, Kept
  <2> QED
    BY <2>4, <2>5 DEF Step
<1>5. CASE s # <<>>
  <2> DEFINE k == Head(script)
  <2>1. k \in Late
    <3> HIDE DEF A, t
    <3>1. <<>> \in Seq(Late)
      BY EmptyThere
    <3> QED
      BY <1>1, <1>2, <1>5, <3>1, FirstOfMore
  <2>2. \A calls \in Seq(Late) :
           calls \o Tail(s) \in Seq(Late) /\ calls \o Tail(script) = (calls \o Tail(s)) \o t
    <3> HIDE DEF A, t
    <3> TAKE calls \in Seq(Late)
    <3>1. calls \o Tail(s) \in Seq(Late) /\ calls \o Tail(s \o t) = (calls \o Tail(s)) \o t
      BY <1>1, <1>5, FirstOfMore
    <3> QED
      BY <1>2, <3>1
  <2>3. /\ k.then \in Seq(Late) /\ k.otherwise \in Seq(Late)
        /\ k.op \in Gentle \cup {"mask", "self_bind"}
    BY <2>1, LateFields
  <2>4. CASE Fails(k)
    <3>1. Base' /\ (k.hard => Over')
      BY <1>s, <2>4, FailureKeeps
    <3>2. CASE k.hard
      BY <3>1, <3>2 DEF Where
    <3>3. CASE ~k.hard
      <4>1. /\ script' = k.otherwise \o Tail(script)
            /\ UNCHANGED <<config, stage, mounts, private, nnp, uid, filter>>
        BY <1>s, <2>4, <3>3, FailureKeeps
      <4>2. \E r \in Seq(Late) : script' = r \o ToApply(config')
        BY <2>2, <2>3, <4>1
      <4>3. AtHide'
        BY <1>s, <4>1, <4>2 DEF AtHide, Whole
      <4> QED
        BY <3>1, <4>3 DEF Where
    <3> QED
      BY <3>2, <3>3
  <2>5. CASE Succeed
    <3>0. k.op # "seccomp" /\ k.op \notin CredOps /\ k.op # "execve" /\ k.op # "fork"
      BY <2>3 DEF Gentle, CredOps
    <3>1. /\ Known' /\ FilterPart' /\ Resting' /\ UNCHANGED <<config, filter>>
          /\ script' = k.then \o Tail(script)
      BY <1>s, <2>5, <3>0, SuccessKeeps
    <3>2. UNCHANGED <<stage, nnp, uid>>
      BY <2>5, <3>0, OtherCall
    <3>3. Settled(config', mounts') /\ private' = TRUE /\ (config.mount_ns => leaked' = leaked)
      <4>1. CASE k.op \in FsOps
        <5>1. FsCall(k)
          BY <2>5, <3>0, <4>1, OtherCall
        <5> HIDE DEF k
        <5> QED
          BY <1>0, <1>s, <2>1, <3>1, <4>1, <5>1, LateCall
      <4>2. CASE k.op \notin FsOps
        <5>1. UNCHANGED <<mounts, private, leaked>>
          BY <2>5, <3>0, <4>2, OtherCall
        <5> QED
          BY <1>s, <3>1, <5>1
      <4> QED
        BY <4>1, <4>2
    <3>4. \E r \in Seq(Late) : script' = r \o ToApply(config')
      BY <2>2, <2>3, <3>1
    <3>5. AtHide'
      BY <1>s, <3>1, <3>2, <3>3, <3>4 DEF AtHide, Whole
    <3> QED
      BY <1>s, <3>1, <3>3, <3>5 DEF Base, Where, Kept
  <2> QED
    BY <2>4, <2>5 DEF Step
<1> QED
  BY <1>3, <1>4, <1>5

(* The workload's system calls.                                            *)
LEMMA WorkloadSteps ==
  ASSUME Base, Where, Workload
  PROVE  Base' /\ Where'
<1>1. /\ stage = "running" /\ (Execute \/ \E call \in Calls : Enter(call))
      /\ UNCHANGED <<config, script, stage, mounts, private, leaked, caps, bounding, nnp, uid>>
  BY DEF Workload, fsVars, credVars
<1>2. UNCHANGED filter
  BY <1>1 DEF Execute, Enter
<1>3. CASE filter = NoFilter /\ Resting
  <2>1. ~Execute /\ \A call \in Calls : ~Enter(call)
    BY <1>3 DEF Execute, Enter, Resting
  <2> QED
    BY <1>1, <2>1
<1>4. CASE IInv
  <2>1. IInv'
    BY <1>1, <1>4, EnterKeeps, ExecuteKeeps
  <2>2. Base'
    BY <1>1, <2>1 DEF Base, Known, Kept, FilterPart
  <2>3. Over
    BY <1>1 DEF Where, AtStart, AtMounts, AtPivot, AtHide, Whole, Applying, Spawning
  <2>4. Over'
    BY <1>1, <1>2, <2>3 DEF Over, Secured, Bounded, AsUser
  <2> QED
    BY <2>2, <2>4 DEF Where
<1> QED
  BY <1>3, <1>4 DEF Base, FilterPart

LEMMA SetupInvInit ==
  ASSUME Init
  PROVE  SetupInv
<1>1. /\ stage = "setup" /\ nnp = FALSE /\ uid = 0 /\ filter = NoFilter /\ Resting
      /\ mounts = HostTable /\ leaked = {} /\ script = setup(config) \o spawn_workload(config)
  BY DEF Init
<1>2. Known
  BY DEF Init, Known
<1>3. Base
  BY <1>1, <1>2 DEF Base, Kept, FilterPart
<1>4. script = Named(config) \o ToStart(config)
  BY <1>1, <1>3, BaseIsUsable, ScriptIs
<1>5. AtStart
  BY <1>1, <1>4 DEF AtStart, Whole
<1> QED
  BY <1>3, <1>5 DEF SetupInv, Where

LEMMA SetupInvStep ==
  ASSUME SetupInv, [Next]_vars
  PROVE  SetupInv'
<1>0. Base /\ Where
  BY DEF SetupInv
<1>1. CASE Succeed \/ Refuse \/ CallFails
  <2>1. Step /\ script # <<>>
    BY <1>1 DEF Step, Succeed, Refuse, CallFails
  <2>2. AtStart \/ AtMounts \/ AtPivot \/ AtHide \/ Applying \/ Spawning
    BY <1>0, <2>1 DEF Where, Over
  <2>3. Base' /\ Where'
    BY <1>0, <2>1, <2>2, StartSteps, MountSteps, PivotSteps, HideSteps, ApplySteps, SpawnSteps
  <2> QED
    BY <2>3 DEF SetupInv
<1>2. CASE Workload
  BY <1>0, <1>2, WorkloadSteps DEF SetupInv
<1>3. CASE UNCHANGED vars
  <2>1. /\ UNCHANGED <<config, script, stage, mounts, private, leaked, caps, bounding, nnp, uid>>
        /\ UNCHANGED <<filter, at, acc, data, verdict>>
    BY <1>3 DEF vars, fsVars, credVars, bpfVars
  <2>2. Base'
    <3>1. Known' /\ Kept' /\ Resting = Resting'
      BY <1>0, <2>1 DEF Base, Known, Kept, Resting, NoCall
    <3>2. FilterPart'
      BY <1>0, <2>1, <3>1 DEF Base, FilterPart, IInv, Progress, Native, X32
    <3> QED
      BY <1>0, <2>1, <3>1, <3>2 DEF Base
  <2>3. Whole = Whole' /\ Bounded = Bounded' /\ Secured = Secured' /\ AsUser = AsUser'
    BY <2>1 DEF Whole, Bounded, Secured, AsUser
  <2>4. AtStart => AtStart'
    BY <2>1, <2>3 DEF AtStart
  <2>5. AtMounts => AtMounts'
    BY <2>1, <2>3 DEF AtMounts
  <2>6. AtPivot => AtPivot'
    BY <2>1, <2>3 DEF AtPivot
  <2>7. AtHide => AtHide'
    BY <2>1, <2>3 DEF AtHide
  <2>8. Applying => Applying'
    BY <2>1, <2>3 DEF Applying
  <2>9. Spawning => Spawning'
    BY <2>1, <2>3 DEF Spawning
  <2>10. Over => Over'
    BY <2>1, <2>3 DEF Over
  <2>11. Where'
    BY <1>0, <2>4, <2>5, <2>6, <2>7, <2>8, <2>9, <2>10 DEF Where
  <2> QED
    BY <2>2, <2>11 DEF SetupInv
<1> QED
  BY <1>1, <1>2, <1>3 DEF Next

LEMMA SetupInvHolds == Spec => []SetupInv
<1>1. Init => SetupInv
  BY SetupInvInit
<1>2. SetupInv /\ [Next]_vars => SetupInv'
  BY SetupInvStep
<1> QED
  BY <1>1, <1>2, PTL DEF Spec

-----------------------------------------------------------------------------
(* Theorems.                                                               *)

(* Whatever is mounted for a container and wherever setup fails, the host  *)
(* sees none of it: fs_setup turns propagation off before the first mount. *)
(* The container has a mount namespace of its own; one that keeps the      *)
(* host's shows its mounts there by intention.                             *)
THEOREM MountsAreInside == (\A r \in Requests : r.mount_ns) => (Spec => []MountsStayInside)
<1> SUFFICES ASSUME \A r \in Requests : r.mount_ns PROVE Spec => []MountsStayInside
  OBVIOUS
<1>1. SetupInv => MountsStayInside
  <2> SUFFICES ASSUME SetupInv PROVE MountsStayInside
    OBVIOUS
  <2>1. PICK r \in Requests : config = finalize(r)
    BY DEF SetupInv, Base, Known
  <2>2. r \in Request
    BY SetupAssumption
  <2>3. config.mount_ns = r.mount_ns
    BY <2>1, <2>2 DEF finalize, Request
  <2> QED
    BY <2>3 DEF SetupInv, Base, Kept, MountsStayInside
<1> QED
  BY <1>1, SetupInvHolds, PTL

(* A container that may run as user 0 has asked for the capabilities that  *)
(* the change of user needs, and which cap_mask adds without being asked.  *)
RootAsks == \A r \in Requests : 0 \in r.user => {"SETUID", "SETGID"} \subseteq Asked(r)

(* The workload runs with the capabilities asked for at most, with the     *)
(* bounding set, no_new_privs, the filter and the user of its              *)
(* configuration, and with nothing of the host's root file system but the  *)
(* container's root, its volumes, devices and /sys: for every host table,  *)
(* list of volumes, masked and read-only path, and whichever calls of      *)
(* setup fail.                                                             *)
THEOREM WorkloadIsConfined == RootAsks => (Spec => []WorkloadConfined)
<1> SUFFICES ASSUME RootAsks PROVE Spec => []WorkloadConfined
  OBVIOUS
<1>1. SetupInv => WorkloadConfined
  <2> SUFFICES ASSUME SetupInv, Running PROVE HostDetached /\ (~config.privileged => CredentialsHeld)
    BY DEF WorkloadConfined
  <2>1. Over
    BY DEF SetupInv, Running, Where, AtStart, AtMounts, AtPivot, AtHide, Whole, Applying, Spawning
  <2>2. /\ Secured /\ Settled(config, mounts) /\ AsUser /\ caps \subseteq bounding /\ (uid # 0 => caps = {})
    BY <2>1 DEF Over, Running
  <2>3. HostDetached
    <3>1. mounts \in Seq(Proper(config))
      BY <2>2 DEF Settled
    <3>2. \A i \in DOMAIN mounts : mounts[i] \in Proper(config)
      BY <3>1, LenProperties, ElementOfSeq
    <3> QED
      BY <3>2 DEF Proper, HostDetached
  <2>4. ASSUME ~config.privileged PROVE CredentialsHeld
    <3>1. bounding \subseteq cap_mask(config) /\ nnp = config.no_new_privs /\ filter = Wanted(config)
      BY <2>2, <2>4 DEF Secured, Bounded
    <3>2. cap_mask(config) = Asked(config) \cup (IF Given(config.user) THEN {"SETUID", "SETGID"} ELSE {})
      BY <2>4 DEF cap_mask, Asked
    <3>3. 0 \in config.user => {"SETUID", "SETGID"} \subseteq Asked(config)
      <4>1. PICK r \in Requests : config = finalize(r)
        BY DEF SetupInv, Base, Known
      <4>2. r \in Request
        BY SetupAssumption
      <4>3. config.user = r.user /\ config.cap_add = r.cap_add /\ config.cap_drop = r.cap_drop
        BY <4>1, <4>2 DEF finalize, Request
      <4> QED
        BY <4>3 DEF RootAsks, Asked
    <3>4. caps \subseteq Asked(config)
      BY <2>2, <3>1, <3>2, <3>3 DEF AsUser
    <3> QED
      BY <2>2, <3>1, <3>2, <3>4 DEF CredentialsHeld, AsUser, Wanted
  <2> QED
    BY <2>3, <2>4
<1> QED
  BY <1>1, SetupInvHolds, PTL

(* The system calls of the workload are decided as the lists of its mode   *)
(* say, with the filter that setup installed for it.                       *)
THEOREM FilterDecidesInSetup == Spec => []FilterDecides
<1>1. SetupInv => FilterDecides
  BY DEF SetupInv, Base, FilterPart, Resting, IInv, FilterDecides
<1> QED
  BY <1>1, SetupInvHolds, PTL
=============================================================================
