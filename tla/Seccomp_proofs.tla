--------------------------- MODULE Seccomp_proofs ---------------------------
(***************************************************************************)
(* Proofs about Seccomp, for every list of denied numbers whose program is *)
(* short enough, with and without the x32 guard, and for every call: the   *)
(* program that build_filter assembles decides as the list says.           *)
(***************************************************************************)
EXTENDS Seccomp, TLAPS

(* The filters that a process may have, and the places in their programs.  *)
LEMMA FilterType ==
  ASSUME NEW f \in Filters
  PROVE  /\ f.nrs \in Seq(Nat) /\ f.guard \in BOOLEAN /\ f.deny \in {"EPERM", "kill"}
         /\ Len(f.nrs) \in Nat /\ DOMAIN f.nrs = 1..Len(f.nrs)
         /\ first_check(f) = IF f.guard THEN 4 ELSE 3
         /\ first_check(f) \in Nat /\ 3 <= first_check(f) /\ first_check(f) <= 4
         /\ allow_idx(f) = first_check(f) + Len(f.nrs)
         /\ deny_idx(f) = allow_idx(f) + 1 /\ kill_idx(f) = allow_idx(f) + 2
         /\ kill_idx(f) <= 250
<1>1. f.nrs \in Seq(Nat) /\ f.guard \in BOOLEAN /\ f.deny \in {"EPERM", "kill"} /\ Fits(f)
  BY SeccompAssumption, Zenon
<1>2. Len(f.nrs) \in Nat /\ DOMAIN f.nrs = 1..Len(f.nrs)
  BY <1>1
<1>3. /\ first_check(f) = IF f.guard THEN 4 ELSE 3
      /\ first_check(f) \in Nat /\ 3 <= first_check(f) /\ first_check(f) <= 4
  BY DEF first_check
<1>4. /\ allow_idx(f) = first_check(f) + Len(f.nrs)
      /\ deny_idx(f) = allow_idx(f) + 1 /\ kill_idx(f) = allow_idx(f) + 2
  BY DEF allow_idx, deny_idx, kill_idx
<1>5. kill_idx(f) <= 250
  BY <1>1 DEF Fits, MaxFilter
<1> QED
  BY <1>1, <1>2, <1>3, <1>4, <1>5

(* A jump by n, which a byte can hold.                                     *)
LEMMA ByteOffset ==
  ASSUME NEW n \in Nat, n <= 255
  PROVE  n % 256 = n
  OBVIOUS

(* The instructions of the program by their place, with the instruction    *)
(* that a jump leads to instead of the offset that is written.             *)
LEMMA Program ==
  ASSUME NEW f \in Filters, NEW i \in 0..kill_idx(f)
  PROVE  LET ins == build_filter(f)[i] IN
         /\ i = 0 => ins.op = "ld_arch"
         /\ i = 1 => /\ ins.op = "jeq" /\ ins.k = AUDIT_ARCH_NATIVE
                     /\ i + 1 + ins.jt = 2 /\ i + 1 + ins.jf = kill_idx(f)
         /\ i = 2 => ins.op = "ld_nr"
         /\ i = 3 /\ f.guard => /\ ins.op = "jge" /\ ins.k = X32_BIT
                                /\ i + 1 + ins.jt = kill_idx(f) /\ i + 1 + ins.jf = 4
         /\ first_check(f) <= i /\ i < allow_idx(f) =>
              /\ ins.op = "jeq" /\ ins.k = f.nrs[i - first_check(f) + 1]
              /\ i + 1 + ins.jt = deny_idx(f) /\ i + 1 + ins.jf = i + 1
         /\ i = allow_idx(f) => ins.op = "ret" /\ ins.k = "allow"
         /\ i = deny_idx(f) => ins.op = "ret" /\ ins.k = f.deny
         /\ i = kill_idx(f) => ins.op = "ret" /\ ins.k = "kill"
<1> DEFINE ins == build_filter(f)[i]
           n == Len(f.nrs)
           body == (first_check(f))..(allow_idx(f) - 1)
<1>1. /\ n \in Nat /\ first_check(f) = (IF f.guard THEN 4 ELSE 3) /\ first_check(f) \in Nat
      /\ 3 <= first_check(f) /\ first_check(f) <= 4 /\ allow_idx(f) = first_check(f) + n
      /\ deny_idx(f) = allow_idx(f) + 1 /\ kill_idx(f) = allow_idx(f) + 2 /\ kill_idx(f) <= 250
  BY FilterType, Zenon
<1> HIDE DEF n
<1>2. i \in Nat /\ i <= kill_idx(f)
  BY <1>1
<1>3. ins = CASE i = 0 -> stmt("ld_arch", 0)
              [] i = 1 -> jump("jeq", AUDIT_ARCH_NATIVE, 0, kill_idx(f) - 2)
              [] i = 2 -> stmt("ld_nr", 0)
              [] i = 3 /\ f.guard -> jump("jge", X32_BIT, kill_idx(f) - 4, 0)
              [] i \in body -> check(f, i)
              [] i = allow_idx(f) -> stmt("ret", "allow")
              [] i = deny_idx(f)  -> stmt("ret", f.deny)
              [] i = kill_idx(f)  -> stmt("ret", "kill")
  BY Zenon DEF build_filter
<1> HIDE DEF ins
<1>4. CASE i = 0
  <2>1. i # 1 /\ i # 2 /\ i # 3 /\ i \notin body /\ i # allow_idx(f) /\ i # deny_idx(f) /\ i # kill_idx(f)
    BY <1>1, <1>2, <1>4
  <2>2. ins = stmt("ld_arch", 0)
    BY <1>3, <1>4, <2>1, Zenon
  <2>3. ins.op = "ld_arch"
    BY <2>2 DEF stmt
  <2> QED
    BY <1>1, <1>4, <2>1, <2>3 DEF ins
<1>5. CASE i = 1
  <2>1. i # 0 /\ i # 2 /\ i # 3 /\ i \notin body /\ i # allow_idx(f) /\ i # deny_idx(f) /\ i # kill_idx(f)
    BY <1>1, <1>2, <1>5
  <2>2. ins = jump("jeq", AUDIT_ARCH_NATIVE, 0, kill_idx(f) - 2)
    BY <1>3, <1>5, <2>1, Zenon
  <2>3. (kill_idx(f) - 2) % 256 = kill_idx(f) - 2 /\ 0 % 256 = 0
    BY <1>1, ByteOffset
  <2>4. ins.op = "jeq" /\ ins.k = AUDIT_ARCH_NATIVE /\ ins.jt = 0 /\ ins.jf = kill_idx(f) - 2
    BY <2>2, <2>3 DEF jump
  <2> QED
    BY <1>1, <1>5, <2>1, <2>4 DEF ins
<1>6. CASE i = 2
  <2>1. i # 0 /\ i # 1 /\ i # 3 /\ i \notin body /\ i # allow_idx(f) /\ i # deny_idx(f) /\ i # kill_idx(f)
    BY <1>1, <1>2, <1>6
  <2>2. ins = stmt("ld_nr", 0)
    BY <1>3, <1>6, <2>1, Zenon
  <2>3. ins.op = "ld_nr"
    BY <2>2 DEF stmt
  <2> QED
    BY <1>1, <1>6, <2>1, <2>3 DEF ins
<1>7. CASE i = 3 /\ f.guard
  <2>1. i # 0 /\ i # 1 /\ i # 2 /\ i \notin body /\ i # allow_idx(f) /\ i # deny_idx(f) /\ i # kill_idx(f)
    BY <1>1, <1>2, <1>7
  <2>2. ins = jump("jge", X32_BIT, kill_idx(f) - 4, 0)
    BY <1>3, <1>7, <2>1, Zenon
  <2>3. (kill_idx(f) - 4) % 256 = kill_idx(f) - 4 /\ 0 % 256 = 0
    BY <1>1, <1>7, ByteOffset
  <2>4. ins.op = "jge" /\ ins.k = X32_BIT /\ ins.jt = kill_idx(f) - 4 /\ ins.jf = 0
    BY <2>2, <2>3 DEF jump
  <2> QED
    BY <1>1, <1>7, <2>1, <2>4 DEF ins
<1>8. CASE first_check(f) <= i /\ i < allow_idx(f)
  <2>1. /\ i # 0 /\ i # 1 /\ i # 2 /\ ~(i = 3 /\ f.guard) /\ i \in body
        /\ i # allow_idx(f) /\ i # deny_idx(f) /\ i # kill_idx(f)
    BY <1>1, <1>2, <1>8
  <2>2. ins = check(f, i)
    BY <1>3, <2>1, Zenon
  <2>3. (deny_idx(f) - i - 1) % 256 = deny_idx(f) - i - 1 /\ 0 % 256 = 0
    BY <1>1, <1>2, <1>8, ByteOffset
  <2>4. /\ ins.op = "jeq" /\ ins.k = f.nrs[i - first_check(f) + 1]
        /\ ins.jt = deny_idx(f) - i - 1 /\ ins.jf = 0
    BY <2>2, <2>3 DEF check, jump
  <2> QED
    BY <1>1, <1>2, <2>1, <2>4 DEF ins
<1>9. CASE i = allow_idx(f)
  <2>1. i # 0 /\ i # 1 /\ i # 2 /\ ~(i = 3 /\ f.guard) /\ i \notin body /\ i # deny_idx(f) /\ i # kill_idx(f)
    BY <1>1, <1>2, <1>9
  <2>2. ins = stmt("ret", "allow")
    BY <1>3, <1>9, <2>1, Zenon
  <2> QED
    BY <1>1, <1>9, <2>1, <2>2 DEF stmt, ins
<1>10. CASE i = deny_idx(f)
  <2>1. i # 0 /\ i # 1 /\ i # 2 /\ ~(i = 3 /\ f.guard) /\ i \notin body /\ i # allow_idx(f) /\ i # kill_idx(f)
    BY <1>1, <1>2, <1>10
  <2>2. ins = stmt("ret", f.deny)
    BY <1>3, <1>10, <2>1, Zenon
  <2> QED
    BY <1>1, <1>10, <2>1, <2>2 DEF stmt, ins
<1>11. CASE i = kill_idx(f)
  <2>1. i # 0 /\ i # 1 /\ i # 2 /\ ~(i = 3 /\ f.guard) /\ i \notin body /\ i # allow_idx(f) /\ i # deny_idx(f)
    BY <1>1, <1>2, <1>11
  <2>2. ins = stmt("ret", "kill")
    BY <1>3, <1>11, <2>1, Zenon
  <2> QED
    BY <1>1, <1>11, <2>1, <2>2 DEF stmt, ins
<1>12. \/ i = 0 \/ i = 1 \/ i = 2 \/ (i = 3 /\ f.guard) \/ (first_check(f) <= i /\ i < allow_idx(f))
       \/ i = allow_idx(f) \/ i = deny_idx(f) \/ i = kill_idx(f)
  BY <1>1, <1>2
<1> QED
  BY <1>4, <1>5, <1>6, <1>7, <1>8, <1>9, <1>10, <1>11, <1>12, Zenon

-----------------------------------------------------------------------------
Native == data.arch = AUDIT_ARCH_NATIVE

X32 == filter.guard /\ data.nr >= X32_BIT

(* What the instructions executed so far have established, by the place of *)
(* the next one.                                                           *)
Progress ==
  /\ at = 1 => acc = data.arch
  /\ at = 2 => Native
  /\ at = 3 /\ filter.guard => Native /\ acc = data.nr
  /\ first_check(filter) <= at /\ at <= allow_idx(filter) =>
       /\ Native /\ ~X32 /\ acc = data.nr
       /\ \A j \in 1..(at - first_check(filter)) : filter.nrs[j] # data.nr
  /\ at = deny_idx(filter) =>
       Native /\ ~X32 /\ \E j \in DOMAIN filter.nrs : filter.nrs[j] = data.nr
  /\ at = kill_idx(filter) => ~Native \/ X32

(* The inductive invariant: the place is in the program, and what has been *)
(* established there decides the verdict.                                  *)
IInv ==
  /\ filter \in Filters /\ data \in [arch : Int, nr : Nat] /\ acc \in Int
  /\ verdict # "pending" => at = Idle /\ verdict = Expected(filter, data)
  /\ at # Idle => at \in 0..kill_idx(filter) /\ Progress

LEMMA EnterKeeps ==
  ASSUME IInv, NEW c \in Calls, Enter(c)
  PROVE  IInv'
  BY FilterType, SeccompAssumption DEF IInv, Progress, Enter, Idle, Native, X32

LEMMA ExecuteKeeps ==
  ASSUME IInv, Execute
  PROVE  IInv'
<1> DEFINE f == filter
           ins == build_filter(f)[at]
           first == first_check(f)
           allow == allow_idx(f)
           deny == deny_idx(f)
           kill == kill_idx(f)
           len == Len(f.nrs)
           \* What Progress says of the place p and the accumulator v.
           Shows(p, v) ==
             /\ p = 1 => v = data.arch
             /\ p = 2 => Native
             /\ p = 3 /\ f.guard => Native /\ v = data.nr
             /\ first <= p /\ p <= allow =>
                  /\ Native /\ ~X32 /\ v = data.nr
                  /\ \A j \in 1..(p - first) : f.nrs[j] # data.nr
             /\ p = deny => Native /\ ~X32 /\ \E j \in DOMAIN f.nrs : f.nrs[j] = data.nr
             /\ p = kill => ~Native \/ X32
<1>1. /\ f \in Filters /\ at # Idle /\ at \in 0..kill /\ verdict = "pending"
      /\ data \in [arch : Int, nr : Nat] /\ acc \in Int /\ filter' = filter /\ data' = data
  BY DEF IInv, Execute
<1>2. data.nr \in Int /\ data.arch \in Int
  BY <1>1
<1>3. Shows(at, acc) /\ (Progress' <=> Shows(at', acc'))
  BY <1>1 DEF IInv, Progress, Native, X32
<1>4. DOMAIN f.nrs = 1..len
  BY <1>1, FilterType, Zenon
<1>5. /\ len \in Nat /\ first = (IF f.guard THEN 4 ELSE 3) /\ first \in Nat /\ 3 <= first /\ first <= 4
      /\ allow = first + len /\ deny = allow + 1 /\ kill = allow + 2
  BY <1>1, FilterType, Zenon
<1>6. ASSUME acc' \in Int, verdict' = "pending", at' \in 0..kill, Shows(at', acc')
      PROVE  IInv'
  BY <1>1, <1>3, <1>6 DEF IInv
<1>7. ASSUME at' = Idle, acc' = acc, verdict' = Expected(f, data)
      PROVE  IInv'
  BY <1>1, <1>7 DEF IInv, Expected
<1>8. /\ at = 0 => ins.op = "ld_arch"
      /\ at = 1 => /\ ins.op = "jeq" /\ ins.k = AUDIT_ARCH_NATIVE
                   /\ at + 1 + ins.jt = 2 /\ at + 1 + ins.jf = kill
      /\ at = 2 => ins.op = "ld_nr"
      /\ at = 3 /\ f.guard => /\ ins.op = "jge" /\ ins.k = X32_BIT
                              /\ at + 1 + ins.jt = kill /\ at + 1 + ins.jf = 4
      /\ first <= at /\ at < allow =>
           /\ ins.op = "jeq" /\ ins.k = f.nrs[at - first + 1]
           /\ at + 1 + ins.jt = deny /\ at + 1 + ins.jf = at + 1
      /\ at = allow => ins.op = "ret" /\ ins.k = "allow"
      /\ at = deny => ins.op = "ret" /\ ins.k = f.deny
      /\ at = kill => ins.op = "ret" /\ ins.k = "kill"
  BY <1>1, Program, Zenon
<1>9. /\ ins.op = "ld_arch" => acc' = data.arch /\ at' = at + 1 /\ verdict' = verdict
      /\ ins.op = "ld_nr" => acc' = data.nr /\ at' = at + 1 /\ verdict' = verdict
      /\ ins.op = "jeq" => /\ at' = at + 1 + (IF acc = ins.k THEN ins.jt ELSE ins.jf)
                           /\ acc' = acc /\ verdict' = verdict
      /\ ins.op = "jge" => /\ at' = at + 1 + (IF acc >= ins.k THEN ins.jt ELSE ins.jf)
                           /\ acc' = acc /\ verdict' = verdict
      /\ ins.op = "ret" => verdict' = ins.k /\ at' = Idle /\ acc' = acc
  BY DEF Execute, Instruction
<1>e. Expected(f, data) = IF ~Native \/ X32 THEN "kill"
                          ELSE IF \E j \in DOMAIN f.nrs : f.nrs[j] = data.nr THEN f.deny ELSE "allow"
  BY DEF Expected, Native, X32
<1>x. /\ Native <=> data.arch = AUDIT_ARCH_NATIVE
      /\ X32 <=> f.guard /\ data.nr >= X32_BIT
  BY DEF Native, X32
<1> HIDE DEF ins, first, allow, deny, kill, len, f
<1>10. at \in Nat /\ at <= kill
  BY <1>1, <1>5
<1>11. CASE at = 0
  <2>1. acc' = data.arch /\ at' = 1 /\ verdict' = "pending"
    BY <1>1, <1>8, <1>9, <1>11
  <2>2. Shows(at', acc')
    BY <1>5, <2>1
  <2> QED
    BY <1>2, <1>5, <1>6, <2>1, <2>2
<1>12. CASE at = 1
  <2>1. at' = (IF data.arch = AUDIT_ARCH_NATIVE THEN 2 ELSE kill) /\ acc' = acc /\ verdict' = "pending"
    BY <1>1, <1>3, <1>8, <1>9, <1>12
  <2>2. CASE data.arch = AUDIT_ARCH_NATIVE
    <3>1. Shows(at', acc')
      BY <1>5, <1>x, <2>1, <2>2
    <3> QED
      BY <1>1, <1>5, <1>6, <2>1, <2>2, <3>1
  <2>3. CASE data.arch # AUDIT_ARCH_NATIVE
    <3>1. Shows(at', acc')
      BY <1>5, <1>x, <2>1, <2>3
    <3> QED
      BY <1>1, <1>5, <1>6, <2>1, <2>3, <3>1
  <2> QED
    BY <2>2, <2>3
<1>13. CASE at = 2
  <2>1. acc' = data.nr /\ at' = 3 /\ verdict' = "pending"
    BY <1>1, <1>8, <1>9, <1>13
  <2>2. Native
    BY <1>3, <1>13
  <2>3. Shows(at', acc')
    BY <1>5, <1>x, <2>1, <2>2
  <2> QED
    BY <1>2, <1>5, <1>6, <2>1, <2>3
<1>14. CASE at = 3 /\ f.guard
  <2>1. Native /\ acc = data.nr
    BY <1>3, <1>14
  <2>2. /\ at' = (IF data.nr >= X32_BIT THEN kill ELSE 4) /\ acc' = acc /\ verdict' = "pending"
    BY <1>1, <1>8, <1>9, <1>14, <2>1
  <2>3. Shows(at', acc')
    BY <1>5, <1>14, <1>x, <2>1, <2>2
  <2> QED
    BY <1>1, <1>5, <1>6, <1>14, <2>2, <2>3
<1>15. CASE first <= at /\ at < allow
  <2> DEFINE n == at - first + 1
  <2>1. /\ Native /\ ~X32 /\ acc = data.nr
        /\ \A j \in 1..(at - first) : f.nrs[j] # data.nr
    BY <1>3, <1>5, <1>10, <1>15
  <2>2. /\ at' = (IF data.nr = f.nrs[n] THEN deny ELSE at + 1) /\ acc' = acc /\ verdict' = "pending"
    BY <1>1, <1>8, <1>9, <1>15, <2>1
  <2>3. n \in 1..len
    BY <1>5, <1>10, <1>15
  <2>4. CASE data.nr = f.nrs[n]
    <3>1. at' = deny /\ \E j \in DOMAIN f.nrs : f.nrs[j] = data.nr
      BY <1>4, <2>2, <2>3, <2>4
    <3>2. Shows(at', acc')
      BY <1>5, <2>1, <3>1
    <3> QED
      BY <1>1, <1>5, <1>6, <2>2, <3>1, <3>2
  <2>5. CASE data.nr # f.nrs[n]
    <3>1. at' = at + 1 /\ acc' = acc
      BY <2>2, <2>5
    <3>2. ASSUME NEW j \in 1..(at' - first)
          PROVE  f.nrs[j] # data.nr
      <4>1. j \in 1..(at - first) \/ j = n
        BY <1>5, <1>10, <3>1
      <4> QED
        BY <2>1, <2>5, <4>1
    <3>3. first <= at' /\ at' <= allow /\ at' \in Nat /\ at' \in 0..kill
      BY <1>5, <1>10, <1>15, <3>1
    <3>4. at' # 1 /\ at' # 2 /\ ~(at' = 3 /\ f.guard) /\ at' # deny /\ at' # kill
      BY <1>5, <1>10, <1>15, <3>1
    <3>5. Shows(at', acc')
      BY <2>1, <3>1, <3>2, <3>3, <3>4, Zenon
    <3> QED
      BY <1>1, <1>6, <2>2, <3>3, <3>5
  <2> QED
    BY <2>4, <2>5
<1>16. CASE at = allow
  <2>1. verdict' = "allow" /\ at' = Idle /\ acc' = acc
    BY <1>8, <1>9, <1>16
  <2>2. at - first = len
    BY <1>5, <1>16
  <2>3. Native /\ ~X32 /\ \A j \in DOMAIN f.nrs : f.nrs[j] # data.nr
    BY <1>3, <1>4, <1>5, <1>16, <2>2
  <2> QED
    BY <1>7, <1>e, <2>1, <2>3
<1>17. CASE at = deny
  <2>1. verdict' = f.deny /\ at' = Idle /\ acc' = acc
    BY <1>8, <1>9, <1>17
  <2>2. Native /\ ~X32 /\ \E j \in DOMAIN f.nrs : f.nrs[j] = data.nr
    BY <1>3, <1>17
  <2> QED
    BY <1>7, <1>e, <2>1, <2>2
<1>18. CASE at = kill
  <2>1. verdict' = "kill" /\ at' = Idle /\ acc' = acc
    BY <1>8, <1>9, <1>18
  <2>2. ~Native \/ X32
    BY <1>3, <1>18
  <2> QED
    BY <1>7, <1>e, <2>1, <2>2
<1>19. \/ at = 0 \/ at = 1 \/ at = 2 \/ (at = 3 /\ f.guard) \/ (first <= at /\ at < allow)
       \/ at = allow \/ at = deny \/ at = kill
  BY <1>5, <1>10
<1> QED
  BY <1>11, <1>12, <1>13, <1>14, <1>15, <1>16, <1>17, <1>18, <1>19

(* For every filter that build_filter accepts (not more than 250           *)
(* instructions) and every call: the program never leaves its own text,    *)
(* and returns what the lists of denied calls ask for.                     *)
THEOREM FilterIsCorrect == BpfSpec => []FilterDecides
<1>1. BpfInit => IInv
  BY SeccompAssumption DEF BpfInit, IInv, Resting, NoCall, AUDIT_ARCH_NATIVE
<1>2. IInv /\ [BpfNext]_bpfVars => IInv'
  <2> SUFFICES ASSUME IInv, [BpfNext]_bpfVars PROVE IInv'
    OBVIOUS
  <2>1. CASE Execute
    BY <2>1, ExecuteKeeps
  <2>2. ASSUME NEW c \in Calls, Enter(c) PROVE IInv'
    BY <2>2, EnterKeeps
  <2>3. CASE UNCHANGED bpfVars
    BY <2>3 DEF bpfVars, IInv, Progress, Native, X32
  <2> QED
    BY <2>1, <2>2, <2>3 DEF BpfNext
<1>3. IInv => FilterDecides
  BY DEF IInv, FilterDecides
<1> QED
  BY <1>1, <1>2, <1>3, PTL DEF BpfSpec
=============================================================================
