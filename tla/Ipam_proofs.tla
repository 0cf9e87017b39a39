---------------------------- MODULE Ipam_proofs ----------------------------
(***************************************************************************)
(* Proofs about Ipam, for every set of processes, containers, subnets and  *)
(* validated configurations: type correctness, the lock discipline, the    *)
(* uniqueness of leases, and that the lease file implements LeaseTable.    *)
(***************************************************************************)
EXTENDS Ipam, TLAPS, WellFoundedInduction

-----------------------------------------------------------------------------
(* Facts about the pure operators.                                         *)

(* A nonempty set of addresses has a lowest one, and Lowest finds it: the  *)
(* first free address of allocate's scan.                                  *)
LEMMA LowestIsMember ==
  ASSUME NEW S \in SUBSET Nat, S # {}
  PROVE  Lowest(S) \in S /\ \A b \in S : Lowest(S) <= b
<1> DEFINE R == {ss \in Nat \X Nat : ss[1] < ss[2]}
<1>1. IsWellFoundedOn(R, Nat)
  BY NatLessThanWellFounded, Zenon DEF OpToRel
<1>2. \E x \in S : \A y \in S : ~(<<y, x>> \in R)
  <2> HIDE DEF R
  <2> QED
    BY <1>1, WFMin
<1>3. \E x \in S : \A y \in S : x <= y
  <2>1. PICK x \in S : \A y \in S : ~(<<y, x>> \in R)
    BY <1>2
  <2>2. ASSUME NEW y \in S PROVE x <= y
    <3>1. x \in Nat /\ y \in Nat
      OBVIOUS
    <3>2. ~(<<y, x>>[1] < <<y, x>>[2])
      BY <2>1, <3>1
    <3> QED
      BY <3>1, <3>2
  <2> QED
    BY <2>2
<1> QED
  BY <1>3 DEF Lowest

(* Every address allocate may hand out is an address, is not taken and is  *)
(* not the gateway.                                                        *)
LEMMA CandidatesAreFree ==
  ASSUME NEW c \in Config, NEW T
  PROVE  Candidates(c, T) \subseteq Addr \ (T \cup {c.gateway})
<1>1. usable_range(c.subnet) \subseteq Addr
  <2>1. c.subnet \in Subnet
    BY IpamAssumption
  <2>2. /\ NetworkAddr(c.subnet) \in Int /\ 0 <= NetworkAddr(c.subnet)
        /\ BroadcastAddr(c.subnet) \in Int /\ BroadcastAddr(c.subnet) <= MaxAddr
        /\ MaxAddr \in Int
    BY <2>1, SubnetAssumption DEF Addr
  <2> QED
    BY <2>2 DEF usable_range, Addr
<1> QED
  BY <1>1, IpamAssumption DEF Candidates

(* Rounding down to a multiple of b: every number of the block that starts *)
(* where n is rounded down to is rounded down to the same start.           *)
LEMMA SameBlock ==
  ASSUME NEW b \in Nat \ {0}, NEW n \in Nat, NEW a \in Nat,
         n - (n % b) <= a, a <= n - (n % b) + b - 1
  PROVE  a - (a % b) = n - (n % b)
<1> DEFINE q == n \div b
           p == a \div b
           s == n % b
           r == a % b
<1>1. q \in Nat /\ p \in Nat /\ s \in 0..(b - 1) /\ r \in 0..(b - 1) /\ n = b * q + s /\ a = b * p + r
  OBVIOUS
<1> HIDE DEF p, q, r, s
<1>2. b * q <= b * p + r /\ b * p + r <= b * q + b - 1
  BY <1>1 DEF s
<1>3. ~(p >= q + 1)
  <2> SUFFICES ASSUME p >= q + 1 PROVE FALSE
    BY <1>1
  <2>1. b * p >= b * (q + 1)
    BY <1>1
  <2>2. b * (q + 1) = b * q + b
    BY <1>1
  <2> QED
    BY <1>1, <1>2, <2>1, <2>2
<1>4. ~(q >= p + 1)
  <2> SUFFICES ASSUME q >= p + 1 PROVE FALSE
    BY <1>1
  <2>1. b * q >= b * (p + 1)
    BY <1>1
  <2>2. b * (p + 1) = b * p + b
    BY <1>1
  <2> QED
    BY <1>1, <1>2, <2>1, <2>2
<1>5. p = q
  BY <1>1, <1>3, <1>4
<1> QED
  BY <1>1, <1>5 DEF r, s

(* What usable_range offers lies in the subnet.                            *)
LEMMA UsableIsInSubnet ==
  ASSUME NEW s \in Subnet, NEW a \in usable_range(s)
  PROVE  in_subnet(a, s)
<1>1. /\ s.net \in Nat /\ BlockSize(s) \in Nat \ {0} /\ NetworkAddr(s) \in Nat /\ BroadcastAddr(s) \in Nat
  BY SubnetAssumption DEF Addr
<1>2. a \in Nat /\ NetworkAddr(s) <= a /\ a <= NetworkAddr(s) + BlockSize(s) - 1
  <2>1. a \in NetworkAddr(s) + 1 .. BroadcastAddr(s) - 1
    BY DEF usable_range
  <2> QED
    BY <1>1, <2>1 DEF BroadcastAddr
<1> QED
  BY <1>1, <1>2, SameBlock DEF NetworkAddr, in_subnet

(* The entries of a lease file name every address and every container once.*)
Unique(l) == \A e, f \in l.entries : e.ip = f.ip \/ e.id = f.id => e = f

(* The leases of the other containers that allocate keeps, and the file it *)
(* writes when it gives address a to container i.                          *)
Others(l, i, c) == {e \in l.entries : l.subnet = c.subnet /\ e.id # i}

Granted(l, i, c, a) ==
  [subnet |-> c.subnet, entries |-> Others(l, i, c) \cup {[ip |-> a, id |-> i]}]

(* What allocate does to the file it loaded, case by case: nothing, or the *)
(* other leases of that subnet and one new lease on a free address.        *)
LEMMA AllocateCases ==
  ASSUME NEW l \in Leases, NEW i \in Id, NEW c \in Config
  PROVE  \/ /\ allocate(l, i, c).leases = l
            /\ allocate(l, i, c).ip \in Addr \cup {None}
            /\ \/ /\ allocate(l, i, c).ip = None
                  /\ Candidates(c, {e.ip : e \in Others(l, i, c)}) = {}
               \/ [ip |-> allocate(l, i, c).ip, id |-> i] \in l.entries
         \/ \E a \in Addr : /\ a \in Candidates(c, {e.ip : e \in Others(l, i, c)})
                            /\ \A e \in Others(l, i, c) : e.ip # a
                            /\ allocate(l, i, c).ip = a
                            /\ allocate(l, i, c).leases = Granted(l, i, c, a)
<1> DEFINE cur    == IF l.subnet = c.subnet THEN l ELSE [subnet |-> c.subnet, entries |-> {}]
           own    == {e \in cur.entries : e.id = i}
           others == cur.entries \ own
           free   == Candidates(c, {e.ip : e \in others})
           r      == allocate(l, i, c)
<1>1. cur.entries \subseteq Lease
  BY DEF Leases
<1>2. others = Others(l, i, c)
  BY DEF Others
<1>3. CASE \E e \in own : c.ip \in {None, e.ip}
  <2>1. r = [ip |-> (CHOOSE e \in own : c.ip \in {None, e.ip}).ip, leases |-> l]
    BY <1>3 DEF allocate
  <2>2. (CHOOSE e \in own : c.ip \in {None, e.ip}) \in own
    BY <1>3
  <2>3. PICK e \in Lease : e \in l.entries /\ e.id = i /\ r = [ip |-> e.ip, leases |-> l]
    <3> DEFINE e == CHOOSE e \in own : c.ip \in {None, e.ip}
    <3>1. e \in own /\ r = [ip |-> e.ip, leases |-> l]
      BY <2>1, <2>2
    <3> HIDE DEF e, r
    <3>2. e \in l.entries /\ e.id = i /\ e \in Lease
      BY <3>1, <1>1
    <3> QED
      BY <3>1, <3>2
  <2>4. e = [ip |-> e.ip, id |-> i] /\ e.ip \in Addr
    BY <2>3 DEF Lease
  <2> HIDE DEF r
  <2>5. r.leases = l /\ r.ip \in Addr \cup {None} /\ [ip |-> r.ip, id |-> i] \in l.entries
    BY <2>3, <2>4
  <2> QED
    BY <2>5 DEF r
<1>4. CASE ~(\E e \in own : c.ip \in {None, e.ip}) /\ free = {}
  <2>1. r = [ip |-> None, leases |-> l]
    BY <1>4 DEF allocate
  <2>2. Candidates(c, {e.ip : e \in Others(l, i, c)}) = {}
    BY <1>2, <1>4
  <2> HIDE DEF r
  <2>3. r.ip = None /\ r.leases = l
    BY <2>1
  <2> QED
    BY <2>2, <2>3 DEF r
<1>5. CASE ~(\E e \in own : c.ip \in {None, e.ip}) /\ free # {}
  <2>1. r = [ip |-> Lowest(free),
             leases |-> [subnet |-> c.subnet, entries |-> others \cup {[ip |-> Lowest(free), id |-> i]}]]
    BY <1>5 DEF allocate
  <2>2. free \subseteq Addr \ ({e.ip : e \in others} \cup {c.gateway})
    BY CandidatesAreFree
  <2>3. Lowest(free) \in free
    <3>1. free \in SUBSET Nat
      BY <2>2, SubnetAssumption DEF Addr
    <3> QED
      BY <3>1, <1>5, LowestIsMember
  <2> HIDE DEF free
  <2>4. Lowest(free) \in Addr /\ \A e \in others : e.ip # Lowest(free)
    BY <2>2, <2>3
  <2> HIDE DEF others, r
  <2>5. r.ip = Lowest(free) /\ r.leases = Granted(l, i, c, Lowest(free))
    BY <2>1, <1>2 DEF Granted
  <2>6. Lowest(free) \in Candidates(c, {e.ip : e \in Others(l, i, c)})
    BY <1>2, <2>3 DEF free
  <2> QED
    BY <2>4, <2>5, <2>6, <1>2 DEF r
<1> QED
  BY <1>3, <1>4, <1>5

(* release and gc keep a subset of the entries.                            *)
LEMMA DropKeepsType ==
  ASSUME NEW l \in Leases, NEW S
  PROVE  /\ release(l, S) \in Leases /\ gc(l, S) \in Leases
         /\ release(l, S).subnet = l.subnet /\ gc(l, S).subnet = l.subnet
         /\ release(l, S).entries = {e \in l.entries : e.id \notin S}
         /\ gc(l, S).entries = {e \in l.entries : e.id \in S}
  BY DEF release, gc, Leases

(* A new file written by allocate is well formed, and keeps the leases     *)
(* unique if they were.                                                    *)
LEMMA AllocateKeeps ==
  ASSUME NEW l \in Leases, NEW i \in Id, NEW c \in Config
  PROVE  /\ allocate(l, i, c).leases \in Leases
         /\ allocate(l, i, c).ip \in Addr \cup {None}
         /\ Unique(l) => Unique(allocate(l, i, c).leases)
<1> DEFINE r == allocate(l, i, c)
           others == Others(l, i, c)
<1>1. CASE r.leases = l /\ r.ip \in Addr \cup {None}
  BY <1>1
<1>2. ASSUME NEW a \in Addr,
             \A e \in others : e.ip # a,
             r.ip = a,
             r.leases = Granted(l, i, c, a)
      PROVE  r.leases \in Leases /\ r.ip \in Addr \cup {None} /\ (Unique(l) => Unique(r.leases))
  <2>1. c.subnet \in Subnet
    BY IpamAssumption
  <2>2. l.entries \subseteq Lease
    BY DEF Leases
  <2>3. others \cup {[ip |-> a, id |-> i]} \in SUBSET Lease
    BY <2>2 DEF Lease, Others
  <2>4. r.leases \in Leases
    BY <1>2, <2>1, <2>3 DEF Leases, Granted
  <2>5. ASSUME Unique(l), NEW e \in r.leases.entries, NEW f \in r.leases.entries,
               e.ip = f.ip \/ e.id = f.id
        PROVE  e = f
    <3>1. e \in others \cup {[ip |-> a, id |-> i]} /\ f \in others \cup {[ip |-> a, id |-> i]}
      BY <1>2 DEF Granted
    <3>2. CASE e \in others /\ f \in others
      BY <3>2, <2>5 DEF Unique, Others
    <3>3. CASE e = [ip |-> a, id |-> i] /\ f \in others
      BY <3>3, <1>2, <2>5 DEF Others
    <3>4. CASE e \in others /\ f = [ip |-> a, id |-> i]
      BY <3>4, <1>2, <2>5 DEF Others
    <3>5. CASE e = [ip |-> a, id |-> i] /\ f = [ip |-> a, id |-> i]
      BY <3>5
    <3> QED
      BY <3>1, <3>2, <3>3, <3>4, <3>5
  <2> QED
    BY <1>2, <2>4, <2>5 DEF Unique
<1> QED
  BY <1>1, <1>2, AllocateCases

-----------------------------------------------------------------------------
(* Type correctness.                                                       *)

LEMMA InitType == Init => TypeOK
  BY DEF Init, TypeOK, Empty, Leases, NoJob

LEMMA LeaveType ==
  ASSUME TypeOK, NEW p \in Proc, Leave(p)
  PROVE  /\ lock' \in Proc \cup {None}
         /\ pc' \in [Proc -> {"idle", "flock", "load", "store", "return"}]
         /\ job' \in [Proc -> [kind : {"allocate", "release", "gc"}, ids : SUBSET Id]]
         /\ mem' \in [Proc -> Leases]
         /\ result' \in [Proc -> Addr \cup {None}]
<1>1. Empty \in Leases /\ NoJob \in [kind : {"allocate", "release", "gc"}, ids : SUBSET Id]
  BY DEF Empty, Leases, NoJob
<1> QED
  BY <1>1 DEF TypeOK, Leave

LEMMA NextType == TypeOK /\ [Next]_vars => TypeOK'
<1> SUFFICES ASSUME TypeOK, [Next]_vars PROVE TypeOK'
  OBVIOUS
<1>1. ASSUME NEW p \in Proc, NEW i \in Id, BeginAllocate(p, i) PROVE TypeOK'
  BY <1>1, IpamAssumption DEF TypeOK, BeginAllocate, Begin
<1>2. ASSUME NEW p \in Proc, NEW i \in Id, BeginRelease(p, i) PROVE TypeOK'
  BY <1>2, IpamAssumption DEF TypeOK, BeginRelease, Begin
<1>3. ASSUME NEW p \in Proc, BeginGc(p) PROVE TypeOK'
  BY <1>3, IpamAssumption DEF TypeOK, BeginGc, Begin
<1>4. ASSUME NEW p \in Proc, Acquire(p) PROVE TypeOK'
  BY <1>4 DEF TypeOK, Acquire
<1>5. ASSUME NEW p \in Proc, Load(p) PROVE TypeOK'
  BY <1>5 DEF TypeOK, Load
<1>6. ASSUME NEW p \in Proc, StoreAllocate(p) PROVE TypeOK'
  <2>1. PICK i \in job[p].ids :
          /\ leases' = IF allocate(mem[p], i, conf[i]).leases = mem[p] THEN leases
                       ELSE allocate(mem[p], i, conf[i]).leases
          /\ result' = [result EXCEPT ![p] = allocate(mem[p], i, conf[i]).ip]
    BY <1>6 DEF StoreAllocate
  <2>2. i \in Id /\ conf[i] \in Config /\ mem[p] \in Leases
    BY DEF TypeOK
  <2>3. leases' \in Leases /\ result' \in [Proc -> Addr \cup {None}]
    BY <2>1, <2>2, AllocateKeeps DEF TypeOK
  <2> QED
    BY <1>6, <2>3 DEF TypeOK, StoreAllocate
<1>7. ASSUME NEW p \in Proc, StoreDrop(p) PROVE TypeOK'
  <2>1. mem[p] \in Leases
    BY DEF TypeOK
  <2>2. leases' \in Leases
    BY <1>7, <2>1, DropKeepsType DEF TypeOK, StoreDrop
  <2> QED
    BY <1>7, <2>2 DEF TypeOK, StoreDrop
<1>8. ASSUME NEW p \in Proc, Return(p) PROVE TypeOK'
  <2>1. grant' \in [Id -> Addr \cup {None}]
    BY <1>8 DEF TypeOK, Return
  <2> QED
    BY <1>8, <2>1, LeaveType DEF TypeOK, Return
<1>9. ASSUME NEW p \in Proc, Crash(p) PROVE TypeOK'
  BY <1>9, LeaveType DEF TypeOK, Crash
<1>10. ASSUME NEW i \in Id, Started(i) PROVE TypeOK'
  BY <1>10 DEF TypeOK, Started
<1>11. CASE UNCHANGED vars
  BY <1>11 DEF TypeOK, vars
<1> QED
  BY <1>1, <1>2, <1>3, <1>4, <1>5, <1>6, <1>7, <1>8, <1>9, <1>10, <1>11 DEF Next

(* No operation on the lease file, however interleaved or cut short, takes *)
(* a variable out of its domain.                                           *)
THEOREM TypeCorrect == Spec => []TypeOK
  BY InitType, NextType, PTL DEF Spec

-----------------------------------------------------------------------------
(* The lock discipline.                                                    *)

LEMMA InitLock == Init => LockDiscipline
  BY IpamAssumption DEF Init, LockDiscipline

LEMMA NextLock == TypeOK /\ LockDiscipline /\ [Next]_vars => LockDiscipline'
<1> SUFFICES ASSUME TypeOK, LockDiscipline, [Next]_vars PROVE LockDiscipline'
  OBVIOUS
<1> USE IpamAssumption
<1>1. ASSUME NEW p \in Proc, NEW i \in Id, BeginAllocate(p, i) PROVE LockDiscipline'
  BY <1>1 DEF TypeOK, LockDiscipline, BeginAllocate, Begin
<1>2. ASSUME NEW p \in Proc, NEW i \in Id, BeginRelease(p, i) PROVE LockDiscipline'
  BY <1>2 DEF TypeOK, LockDiscipline, BeginRelease, Begin
<1>3. ASSUME NEW p \in Proc, BeginGc(p) PROVE LockDiscipline'
  BY <1>3 DEF TypeOK, LockDiscipline, BeginGc, Begin
<1>4. ASSUME NEW p \in Proc, Acquire(p) PROVE LockDiscipline'
  BY <1>4 DEF TypeOK, LockDiscipline, Acquire
<1>5. ASSUME NEW p \in Proc, Load(p) PROVE LockDiscipline'
  BY <1>5 DEF TypeOK, LockDiscipline, Load
<1>6. ASSUME NEW p \in Proc, StoreAllocate(p) PROVE LockDiscipline'
  BY <1>6 DEF TypeOK, LockDiscipline, StoreAllocate
<1>7. ASSUME NEW p \in Proc, StoreDrop(p) PROVE LockDiscipline'
  BY <1>7 DEF TypeOK, LockDiscipline, StoreDrop
<1>8. ASSUME NEW p \in Proc, Return(p) PROVE LockDiscipline'
  BY <1>8 DEF TypeOK, LockDiscipline, Return, Leave
<1>9. ASSUME NEW p \in Proc, Crash(p) PROVE LockDiscipline'
  BY <1>9 DEF TypeOK, LockDiscipline, Crash, Leave
<1>10. ASSUME NEW i \in Id, Started(i) PROVE LockDiscipline'
  BY <1>10 DEF LockDiscipline, Started
<1>11. CASE UNCHANGED vars
  BY <1>11 DEF LockDiscipline, vars
<1> QED
  BY <1>1, <1>2, <1>3, <1>4, <1>5, <1>6, <1>7, <1>8, <1>9, <1>10, <1>11 DEF Next

(* However many processes use the lease file, and wherever one is killed,  *)
(* the one that decides and stores has in memory the file as it is.        *)
THEOREM LockDisciplineHolds == Spec => []LockDiscipline
<1>1. Init => TypeOK /\ LockDiscipline
  BY InitType, InitLock
<1>2. TypeOK /\ LockDiscipline /\ [Next]_vars => (TypeOK /\ LockDiscipline)'
  BY NextType, NextLock
<1> QED
  BY <1>1, <1>2, PTL DEF Spec

-----------------------------------------------------------------------------
(* Every step of the lease file is one of three: nothing, the outcome of   *)
(* allocate on the file as it is, or the loss of some containers' entries. *)
LEMMA FileSteps ==
  ASSUME TypeOK, LockDiscipline, [Next]_vars
  PROVE  \/ UNCHANGED leases
         \/ \E i \in Id : leases' = allocate(leases, i, conf[i]).leases
         \/ \E S \in SUBSET Id : leases' = release(leases, S)
<1>1. ASSUME NEW p \in Proc, StoreAllocate(p)
      PROVE  UNCHANGED leases \/ \E i \in Id : leases' = allocate(leases, i, conf[i]).leases
  <2>1. mem[p] = leases /\ job[p].ids \subseteq Id
    BY <1>1 DEF TypeOK, LockDiscipline, StoreAllocate
  <2>2. PICK i \in job[p].ids :
          leases' = IF allocate(mem[p], i, conf[i]).leases = mem[p] THEN leases
                    ELSE allocate(mem[p], i, conf[i]).leases
    BY <1>1 DEF StoreAllocate
  <2> QED
    BY <2>1, <2>2
<1>2. ASSUME NEW p \in Proc, StoreDrop(p)
      PROVE  UNCHANGED leases \/ \E S \in SUBSET Id : leases' = release(leases, S)
  <2>1. mem[p] = leases /\ job[p].ids \subseteq Id /\ leases \in Leases
    BY <1>2 DEF TypeOK, LockDiscipline, StoreDrop
  <2>2. \A e \in leases.entries : e.id \in Id
    BY <2>1 DEF Leases, Lease
  <2>3. gc(leases, job[p].ids) = release(leases, Id \ job[p].ids)
    <3>1. {e \in leases.entries : e.id \in job[p].ids}
            = {e \in leases.entries : e.id \notin Id \ job[p].ids}
      BY <2>2
    <3> QED
      BY <3>1, <2>1 DEF gc, release, Leases
  <2> QED
    BY <1>2, <2>1, <2>3 DEF StoreDrop
<1>3. CASE \E p \in Proc : \/ \E i \in Id : BeginAllocate(p, i) \/ BeginRelease(p, i)
                          \/ BeginGc(p) \/ Acquire(p) \/ Load(p) \/ Return(p) \/ Crash(p)
  BY <1>3 DEF BeginAllocate, BeginRelease, BeginGc, Begin, Acquire, Load, Return, Crash
<1>4. CASE \E i \in Id : Started(i)
  BY <1>4 DEF Started
<1>5. CASE UNCHANGED vars
  BY <1>5 DEF vars
<1> QED
  BY <1>1, <1>2, <1>3, <1>4, <1>5 DEF Next

(* The strengthening under which the uniqueness of leases is inductive.    *)
IInv == TypeOK /\ LockDiscipline /\ UniqueLeases

LEMMA InitIInv == Init => IInv
<1>1. Init => UniqueLeases
  BY DEF Init, UniqueLeases, Empty
<1> QED
  BY <1>1, InitType, InitLock DEF IInv

LEMMA NextIInv == IInv /\ [Next]_vars => IInv'
<1> SUFFICES ASSUME IInv, [Next]_vars PROVE UniqueLeases'
  BY NextType, NextLock DEF IInv
<1>1. Unique(leases) /\ leases \in Leases /\ conf \in [Id -> Config]
  BY DEF IInv, UniqueLeases, Unique, TypeOK
<1>2. Unique(leases')
  <2>1. CASE UNCHANGED leases
    BY <2>1, <1>1
  <2>2. ASSUME NEW i \in Id, leases' = allocate(leases, i, conf[i]).leases PROVE Unique(leases')
    BY <2>2, <1>1, AllocateKeeps
  <2>3. ASSUME NEW S \in SUBSET Id, leases' = release(leases, S) PROVE Unique(leases')
    BY <2>3, <1>1, DropKeepsType DEF Unique
  <2> QED
    BY <2>1, <2>2, <2>3, FileSteps DEF IInv
<1> QED
  BY <1>2 DEF Unique, UniqueLeases

(* No two containers are leased the same address, and none holds two       *)
(* leases, for every number of processes, containers and subnets.          *)
THEOREM LeasesAreUnique == Spec => []UniqueLeases
<1>1. IInv => UniqueLeases
  BY DEF IInv
<1> QED
  BY <1>1, InitIInv, NextIInv, PTL DEF Spec

-----------------------------------------------------------------------------
(* The lease file implements the lease table.                              *)

(* In a file with unique leases, an entry is its container's lease, and a  *)
(* container without an entry has none.                                    *)
LEMMA LeaseInIs ==
  ASSUME NEW l, Unique(l)
  PROVE  /\ \A e \in l.entries : LeaseIn(l, e.id) = e.ip
         /\ \A i : (\A e \in l.entries : e.id # i) => LeaseIn(l, i) = None
<1>1. ASSUME NEW e \in l.entries PROVE LeaseIn(l, e.id) = e.ip
  <2>1. (CHOOSE f \in l.entries : f.id = e.id) = e
    BY DEF Unique
  <2> QED
    BY <2>1 DEF LeaseIn
<1>2. ASSUME NEW i, \A e \in l.entries : e.id # i PROVE LeaseIn(l, i) = None
  BY <1>2 DEF LeaseIn
<1> QED
  BY <1>1, <1>2

LEMMA ReleaseWithdraws ==
  ASSUME NEW l \in Leases, Unique(l), NEW S \in SUBSET Id, NEW j \in Id
  PROVE  LeaseIn(release(l, S), j) = IF j \in S THEN None ELSE LeaseIn(l, j)
<1> DEFINE m == release(l, S)
<1> SUFFICES LeaseIn(m, j) = IF j \in S THEN None ELSE LeaseIn(l, j)
  OBVIOUS
<1>1. m.entries = {e \in l.entries : e.id \notin S} /\ Unique(m)
  BY DropKeepsType DEF Unique
<1> HIDE DEF m
<1>2. CASE \E e \in m.entries : e.id = j
  BY <1>1, <1>2, LeaseInIs
<1>3. CASE ~\E e \in m.entries : e.id = j
  <2>1. LeaseIn(m, j) = None
    BY <1>1, <1>3, LeaseInIs
  <2>2. j \notin S => LeaseIn(l, j) = None
    BY <1>1, <1>3, LeaseInIs
  <2> QED
    BY <2>1, <2>2
<1> QED
  BY <1>2, <1>3

(* A file written by allocate gives i the new address and keeps the leases *)
(* of the others, unless the subnet changed.                               *)
LEMMA AllocateGrants ==
  ASSUME NEW l \in Leases, Unique(l), NEW i \in Id, NEW c \in Config, NEW a \in Addr,
         \A e \in Others(l, i, c) : e.ip # a,
         NEW m, Unique(m), m = Granted(l, i, c, a)
  PROVE  /\ LeaseIn(m, i) = a
         /\ l.subnet = c.subnet => \A j \in Id \ {i} : LeaseIn(m, j) = LeaseIn(l, j) /\ LeaseIn(l, j) # a
         /\ l.subnet # c.subnet => \A j \in Id \ {i} : LeaseIn(m, j) = None
<1>1. m.entries = Others(l, i, c) \cup {[ip |-> a, id |-> i]}
  BY DEF Granted
<1>2. LeaseIn(m, i) = a
  <2>1. [ip |-> a, id |-> i] \in m.entries
    BY <1>1
  <2>2. LeaseIn(m, [ip |-> a, id |-> i].id) = [ip |-> a, id |-> i].ip
    BY <2>1, LeaseInIs
  <2> QED
    BY <2>2
<1>3. ASSUME l.subnet = c.subnet, NEW j \in Id \ {i}
      PROVE  LeaseIn(m, j) = LeaseIn(l, j) /\ LeaseIn(l, j) # a
  <2>1. CASE \E e \in l.entries : e.id = j
    <3>1. PICK e \in l.entries : e.id = j
      BY <2>1
    <3>2. e \in Others(l, i, c) /\ e \in m.entries
      BY <3>1, <1>1, <1>3 DEF Others
    <3>3. LeaseIn(l, j) = e.ip /\ LeaseIn(m, j) = e.ip
      BY <3>1, <3>2, LeaseInIs
    <3> QED
      BY <3>2, <3>3
  <2>2. CASE ~\E e \in l.entries : e.id = j
    <3>1. \A e \in m.entries : e.id # j
      BY <2>2, <1>1 DEF Others
    <3>2. LeaseIn(l, j) = None /\ LeaseIn(m, j) = None
      BY <3>1, <2>2, LeaseInIs
    <3> QED
      BY <3>2, SubnetAssumption
  <2> QED
    BY <2>1, <2>2
<1>4. ASSUME l.subnet # c.subnet, NEW j \in Id \ {i} PROVE LeaseIn(m, j) = None
  <2>1. \A e \in m.entries : e.id # j
    BY <1>1, <1>4 DEF Others
  <2> QED
    BY <2>1, LeaseInIs
<1> QED
  BY <1>2, <1>3, <1>4

LEMMA InitTable == Init => Table!Init
  BY DEF Init, Table!Init, Empty, LeaseIn

LEMMA NextTable ==
  ASSUME IInv, IInv', [Next]_vars
  PROVE  Table!Next \/ UNCHANGED [i \in Id |-> LeaseIn(leases, i)]
<1>1. /\ Unique(leases) /\ leases \in Leases /\ conf \in [Id -> Config] /\ Unique(leases')
  BY DEF IInv, UniqueLeases, Unique, TypeOK
<1>2. CASE UNCHANGED leases
  BY <1>2
<1>3. ASSUME NEW S \in SUBSET Id, leases' = release(leases, S) PROVE Table!Next
  <2>1. Table!Withdraw(S)
    BY <1>1, <1>3, ReleaseWithdraws DEF Table!Withdraw
  <2> QED
    BY <2>1 DEF Table!Next
<1>4. ASSUME NEW i \in Id, leases' = allocate(leases, i, conf[i]).leases
      PROVE  Table!Next \/ UNCHANGED leases
  <2> DEFINE c == conf[i]
  <2>1. c \in Config
    BY <1>1
  <2>2. ASSUME NEW a \in Addr, \A e \in Others(leases, i, c) : e.ip # a,
               leases' = Granted(leases, i, c, a)
        PROVE  Table!Next
    <3> HIDE DEF c
    <3>1. /\ LeaseIn(leases', i) = a
          /\ leases.subnet = c.subnet =>
               \A j \in Id \ {i} : LeaseIn(leases', j) = LeaseIn(leases, j) /\ LeaseIn(leases, j) # a
          /\ leases.subnet # c.subnet => \A j \in Id \ {i} : LeaseIn(leases', j) = None
      BY <1>1, <2>1, <2>2, AllocateGrants
    <3>2. CASE leases.subnet = c.subnet
      <4>1. Table!Grant(i, a)
        BY <3>1, <3>2 DEF Table!Grant
      <4> QED
        BY <4>1 DEF Table!Next
    <3>3. CASE leases.subnet # c.subnet
      <4>1. Table!Renumber(i, a)
        BY <3>1, <3>3 DEF Table!Renumber
      <4> QED
        BY <4>1 DEF Table!Next
    <3> QED
      BY <3>2, <3>3
  <2>3. \/ leases' = leases
        \/ \E a \in Addr : /\ \A e \in Others(leases, i, c) : e.ip # a
                           /\ leases' = Granted(leases, i, c, a)
    BY <1>1, <1>4, <2>1, AllocateCases
  <2> QED
    BY <2>2, <2>3
<1> QED
  BY <1>2, <1>3, <1>4, FileSteps DEF IInv

(* Seen as a table, the lease file only ever changes by one grant of an    *)
(* address nobody has, one renumbering or one withdrawal: ipam.rs with its *)
(* lock, atomic writes and crashes implements LeaseTable.                  *)
THEOREM FileImplementsTable == Spec => ImplementsTable
<1>1. Spec => []IInv
  BY InitIInv, NextIInv, PTL DEF Spec
<1>2. Init => Table!Init
  BY InitTable
<1>3. IInv /\ IInv' /\ [Next]_vars => [Table!Next]_[i \in Id |-> LeaseIn(leases, i)]
  BY NextTable
<1> QED
  BY <1>1, <1>2, <1>3, PTL DEF Spec, ImplementsTable, Table!Spec

-----------------------------------------------------------------------------
(* What is leased lies in the subnet, leaves the gateway of its container  *)
(* alone, and is an end of the subnet only on request.                     *)

UsableFor(a, s, c) ==
  /\ in_subnet(a, s) /\ a # c.gateway
  /\ a \in {NetworkAddr(s), BroadcastAddr(s)} => c.ip = a

Usable(l) == \A e \in l.entries : UsableFor(e.ip, l.subnet, conf[e.id])

(* Validated configurations only offer addresses of their subnet, and the  *)
(* ends only if they are the --ip.                                         *)
LEMMA CandidatesAreUsable ==
  ASSUME NEW c \in Config, c \in Configs(Addr, Addr), NEW T, NEW a \in Candidates(c, T)
  PROVE  UsableFor(a, c.subnet, c)
<1>1. c.subnet \in Subnet /\ ValidNetwork(c) /\ a # c.gateway
  BY IpamAssumption DEF Configs, Candidates
<1>2. CASE c.ip = None
  <2>1. a \in usable_range(c.subnet)
    BY <1>2 DEF Candidates
  <2>2. NetworkAddr(c.subnet) \in Int /\ BroadcastAddr(c.subnet) \in Int
    BY <1>1, SubnetAssumption DEF Addr
  <2>3. a \notin {NetworkAddr(c.subnet), BroadcastAddr(c.subnet)}
    <3>1. a \in NetworkAddr(c.subnet) + 1 .. BroadcastAddr(c.subnet) - 1
      BY <2>1 DEF usable_range
    <3> HIDE DEF NetworkAddr, BroadcastAddr
    <3> QED
      BY <3>1, <2>2
  <2> QED
    BY <1>1, <2>1, <2>3, UsableIsInSubnet DEF UsableFor
<1>3. CASE c.ip # None
  BY <1>1, <1>3 DEF Candidates, ValidNetwork, UsableFor
<1> QED
  BY <1>2, <1>3

LEMMA NextUsable ==
  ASSUME Config \subseteq Configs(Addr, Addr), IInv, Usable(leases), [Next]_vars
  PROVE  Usable(leases)'
<1>1. leases \in Leases /\ conf \in [Id -> Config]
  BY DEF IInv, TypeOK
<1>c. conf' = conf
  BY DEF Next, vars, BeginAllocate, BeginRelease, BeginGc, Begin, Acquire, Load, StoreAllocate,
     StoreDrop, Return, Crash, Started
<1>2. CASE UNCHANGED leases
  BY <1>2, <1>c DEF Usable
<1>3. ASSUME NEW S \in SUBSET Id, leases' = release(leases, S) PROVE Usable(leases)'
  BY <1>1, <1>3, <1>c, DropKeepsType DEF Usable
<1>4. ASSUME NEW i \in Id, leases' = allocate(leases, i, conf[i]).leases
      PROVE  Usable(leases)'
  <2> DEFINE c == conf[i]
  <2>1. c \in Config /\ c \in Configs(Addr, Addr)
    BY <1>1
  <2>2. ASSUME NEW a \in Candidates(c, {e.ip : e \in Others(leases, i, c)}),
               leases' = Granted(leases, i, c, a)
        PROVE  Usable(leases)'
    <3>1. UsableFor(a, c.subnet, c)
      BY <2>1, CandidatesAreUsable
    <3>2. /\ leases'.subnet = c.subnet
          /\ leases'.entries = Others(leases, i, c) \cup {[ip |-> a, id |-> i]}
      BY <2>2 DEF Granted
    <3>3. ASSUME NEW e \in Others(leases, i, c)
          PROVE  UsableFor(e.ip, c.subnet, conf[e.id])
      BY DEF Others, Usable
    <3>4. ASSUME NEW e \in leases'.entries
          PROVE  UsableFor(e.ip, leases'.subnet, conf[e.id])
      <4>1. CASE e \in Others(leases, i, c)
        BY <3>2, <3>3, <4>1
      <4>2. CASE e = [ip |-> a, id |-> i]
        BY <3>1, <3>2, <4>2
      <4> QED
        BY <3>2, <4>1, <4>2
    <3> QED
      BY <3>4, <1>c DEF Usable
  <2>3. \/ leases' = leases
        \/ \E a \in Addr : /\ a \in Candidates(c, {e.ip : e \in Others(leases, i, c)})
                           /\ leases' = Granted(leases, i, c, a)
    BY <1>1, <1>4, <2>1, AllocateCases
  <2> QED
    BY <1>2, <2>2, <2>3
<1> QED
  BY <1>2, <1>3, <1>4, FileSteps DEF IInv

(* If the configurations have passed finalize_and_validate, with the       *)
(* default gateway or any explicit one, every lease in the file is an      *)
(* address of the subnet that the file is for and not the gateway of its   *)
(* container, and an end of the subnet only where --ip asked for it, for   *)
(* every width of addresses, every subnet and every gateway.               *)
THEOREM LeasesAreUsable ==
  ASSUME Config \subseteq Configs(Addr, Addr)
  PROVE  Spec => []LeasesUsable
<1> DEFINE Inv == IInv /\ Usable(leases)
<1>1. Init => Inv
  BY InitIInv DEF Init, Usable, Empty
<1>2. Inv /\ [Next]_vars => Inv'
  BY NextIInv, NextUsable
<1>3. Inv => LeasesUsable
  BY DEF Usable, UsableFor, LeasesUsable
<1> QED
  BY <1>1, <1>2, <1>3, PTL DEF Spec

-----------------------------------------------------------------------------
(* The report that no address is left.                                     *)

(* An allocation is for one container.                                     *)
AllocatesForOne ==
  \A p \in Proc : pc[p] # "idle" /\ job[p].kind = "allocate" => \E i \in Id : job[p].ids = {i}

ExhaustInv == IInv /\ AllocatesForOne /\ ExhaustionIsReal

LEMMA InitExhaust == Init => ExhaustInv
<1> SUFFICES ASSUME Init PROVE AllocatesForOne /\ ExhaustionIsReal
  BY InitIInv DEF ExhaustInv
<1> QED
  BY DEF Init, AllocatesForOne, ExhaustionIsReal, NoJob

(* When allocate finds nothing, nothing is free in the file it has read.   *)
LEMMA NothingFree ==
  ASSUME NEW l \in Leases, NEW i \in Id, NEW c \in Config, c.ip = None, allocate(l, i, c).ip = None
  PROVE  /\ allocate(l, i, c).leases = l
         /\ usable_range(c.subnet) \subseteq Taken(l) \cup {c.gateway}
<1> DEFINE T == {e.ip : e \in Others(l, i, c)}
<1>1. allocate(l, i, c).leases = l /\ Candidates(c, T) = {}
  <2>1. None \notin Addr
    BY SubnetAssumption
  <2>2. \A a : [ip |-> a, id |-> i] \in l.entries => a \in Addr
    BY DEF Leases, Lease
  <2> QED
    BY <2>1, <2>2, AllocateCases
<1>2. T \subseteq Taken(l)
  BY DEF Others, Taken
<1>3. Candidates(c, T) = usable_range(c.subnet) \ (T \cup {c.gateway})
  BY DEF Candidates
<1> HIDE DEF T
<1> QED
  BY <1>1, <1>2, <1>3

LEMMA NextExhaust == ExhaustInv /\ [Next]_vars => ExhaustInv'
<1> SUFFICES ASSUME ExhaustInv, [Next]_vars PROVE AllocatesForOne' /\ ExhaustionIsReal'
  BY NextIInv DEF ExhaustInv
<1> DEFINE Goal == AllocatesForOne' /\ ExhaustionIsReal'
<1>0. TypeOK /\ LockDiscipline /\ AllocatesForOne /\ ExhaustionIsReal
  BY DEF ExhaustInv, IInv
<1>1. ASSUME NEW p \in Proc, NEW i \in Id, BeginAllocate(p, i) PROVE Goal
  BY <1>0, <1>1 DEF TypeOK, AllocatesForOne, ExhaustionIsReal, BeginAllocate, Begin
<1>2. ASSUME NEW p \in Proc, NEW i \in Id, BeginRelease(p, i) PROVE Goal
  BY <1>0, <1>2 DEF TypeOK, AllocatesForOne, ExhaustionIsReal, BeginRelease, Begin
<1>3. ASSUME NEW p \in Proc, BeginGc(p) PROVE Goal
  BY <1>0, <1>3 DEF TypeOK, AllocatesForOne, ExhaustionIsReal, BeginGc, Begin
<1>4. ASSUME NEW p \in Proc, Acquire(p) PROVE Goal
  BY <1>0, <1>4 DEF TypeOK, AllocatesForOne, ExhaustionIsReal, Acquire
<1>5. ASSUME NEW p \in Proc, Load(p) PROVE Goal
  BY <1>0, <1>5 DEF TypeOK, AllocatesForOne, ExhaustionIsReal, Load
<1>6. ASSUME NEW p \in Proc, StoreAllocate(p) PROVE Goal
  <2>1. PICK i \in Id : job[p].ids = {i}
    BY <1>0, <1>6 DEF AllocatesForOne, StoreAllocate
  <2> DEFINE c == conf[i]
             r == allocate(leases, i, c)
  <2>2. /\ c \in Config /\ leases \in Leases /\ mem[p] = leases
        /\ \A q \in Proc \ {p} : pc[q] # "return"
    BY <1>0, <1>6, <2>1 DEF TypeOK, LockDiscipline, StoreAllocate
  <2>3. /\ leases' = r.leases /\ result' = [result EXCEPT ![p] = r.ip]
        /\ pc' = [pc EXCEPT ![p] = "return"] /\ job' = job /\ conf' = conf
    BY <1>6, <2>1, <2>2 DEF StoreAllocate
  <2>4. AllocatesForOne'
    BY <1>0, <1>6, <2>3 DEF TypeOK, AllocatesForOne, StoreAllocate
  <2> HIDE DEF r
  <2>5. ASSUME result'[p] = None, c.ip = None
        PROVE  usable_range(c.subnet) \subseteq Taken(leases') \cup {c.gateway}
    <3>1. r.ip = None
      BY <1>0, <2>3, <2>5 DEF TypeOK
    <3>2. leases' = leases /\ usable_range(c.subnet) \subseteq Taken(leases) \cup {c.gateway}
      BY <2>2, <2>3, <2>5, <3>1, NothingFree DEF r
    <3> QED
      BY <3>2
  <2>6. ExhaustionIsReal'
    BY <1>0, <2>1, <2>2, <2>3, <2>5 DEF TypeOK, ExhaustionIsReal
  <2> QED
    BY <2>4, <2>6
<1>7. ASSUME NEW p \in Proc, StoreDrop(p) PROVE Goal
  <2>1. /\ \A q \in Proc \ {p} : pc[q] # "return"
        /\ job[p].kind # "allocate"
    BY <1>0, <1>7 DEF TypeOK, LockDiscipline, StoreDrop
  <2> QED
    BY <1>0, <1>7, <2>1 DEF TypeOK, AllocatesForOne, ExhaustionIsReal, StoreDrop
<1>8. ASSUME NEW p \in Proc, Return(p) PROVE Goal
  BY <1>0, <1>8 DEF TypeOK, AllocatesForOne, ExhaustionIsReal, Return, Leave, NoJob
<1>9. ASSUME NEW p \in Proc, Crash(p) PROVE Goal
  BY <1>0, <1>9 DEF TypeOK, AllocatesForOne, ExhaustionIsReal, Crash, Leave, NoJob
<1>10. ASSUME NEW i \in Id, Started(i) PROVE Goal
  BY <1>0, <1>10 DEF AllocatesForOne, ExhaustionIsReal, Started
<1>11. CASE UNCHANGED vars
  BY <1>0, <1>11 DEF AllocatesForOne, ExhaustionIsReal, vars
<1> QED
  BY <1>1, <1>2, <1>3, <1>4, <1>5, <1>6, <1>7, <1>8, <1>9, <1>10, <1>11 DEF Next

(* When allocate is about to report that no address is left, every usable  *)
(* address of the subnet is leased or the gateway's, and stays so until    *)
(* the report is made: no release or gc can have slipped in between.       *)
THEOREM ExhaustionIsTrue == Spec => []ExhaustionIsReal
<1>1. ExhaustInv => ExhaustionIsReal
  BY DEF ExhaustInv
<1> QED
  BY <1>1, InitExhaust, NextExhaust, PTL DEF Spec

-----------------------------------------------------------------------------
(* The addresses in use.  This holds as long as gc does not run and every  *)
(* container is configured for the same subnet; Ipam_gc.cfg and            *)
(* Ipam_two_subnets.cfg show that neither condition can be dropped.        *)

(* One process at a time works for a container, which has no address while *)
(* it does; an address about to be returned is leased.                     *)
JobsAreSingle ==
  \A p \in Proc : pc[p] # "idle" =>
    job[p].kind \in {"allocate", "release"} /\ \E i \in Id : job[p].ids = {i}

JobsAreDisjoint ==
  \A p, q \in Proc : \A i \in job[p].ids :
    pc[p] # "idle" /\ pc[q] # "idle" /\ i \in job[q].ids => p = q

NoAddressYet ==
  \A p \in Proc : \A i \in job[p].ids : pc[p] # "idle" => grant[i] = None

ResultIsLeased ==
  \A p \in Proc : \A i \in job[p].ids :
    pc[p] = "return" /\ job[p].kind = "allocate" /\ result[p] # None =>
      [ip |-> result[p], id |-> i] \in leases.entries

WorkInv == JobsAreSingle /\ JobsAreDisjoint /\ NoAddressYet /\ ResultIsLeased

SubnetSettled == \A c \in Config : leases.entries # {} => leases.subnet = c.subnet

UseInv == IInv /\ WorkInv /\ SubnetSettled /\ GrantIsLeased

LEMMA InitUse == Init => UseInv
<1> SUFFICES ASSUME Init PROVE WorkInv /\ SubnetSettled /\ GrantIsLeased
  BY InitIInv DEF UseInv
<1> QED
  BY DEF Init, WorkInv, JobsAreSingle, JobsAreDisjoint, NoAddressYet, ResultIsLeased, SubnetSettled, GrantIsLeased, Empty, NoJob

LEMMA NextUse ==
  ASSUME "gc" \notin Jobs, \A c, d \in Config : c.subnet = d.subnet
  PROVE  UseInv /\ [Next]_vars => UseInv'
<1> SUFFICES ASSUME UseInv, [Next]_vars PROVE WorkInv' /\ SubnetSettled' /\ GrantIsLeased'
  BY NextIInv DEF UseInv
<1> DEFINE Goal == WorkInv' /\ SubnetSettled' /\ GrantIsLeased'
<1>0. TypeOK /\ LockDiscipline /\ WorkInv /\ SubnetSettled /\ GrantIsLeased
  BY DEF UseInv, IInv
<1>1. ASSUME NEW p \in Proc, NEW i \in Id, BeginAllocate(p, i) PROVE Goal
  <2>1. \A q \in Proc : pc[q] # "idle" => i \notin job[q].ids
    BY <1>0, <1>1 DEF WorkInv, JobsAreSingle, BeginAllocate, Busy
  <2>2. /\ pc[p] = "idle" /\ pc' = [pc EXCEPT ![p] = "flock"]
        /\ job' = [job EXCEPT ![p] = [kind |-> "allocate", ids |-> {i}]]
        /\ leases' = leases /\ result' = result
    BY <1>1 DEF BeginAllocate, Begin
  <2>3. JobsAreSingle' /\ JobsAreDisjoint'
    <3>1. JobsAreSingle'
      BY <1>0, <2>2 DEF TypeOK, WorkInv, JobsAreSingle
    <3>2. JobsAreDisjoint'
      BY <1>0, <2>1, <2>2 DEF TypeOK, WorkInv, JobsAreDisjoint
    <3> QED
      BY <3>1, <3>2
  <2>4. NoAddressYet'
    BY <1>0, <1>1, <2>1, <2>2 DEF TypeOK, WorkInv, NoAddressYet, BeginAllocate
  <2>5. ResultIsLeased'
    BY <1>0, <2>2 DEF TypeOK, WorkInv, ResultIsLeased
  <2>6. SubnetSettled' /\ GrantIsLeased'
    BY <1>0, <1>1, <2>2 DEF TypeOK, SubnetSettled, GrantIsLeased, BeginAllocate
  <2> QED
    BY <2>3, <2>4, <2>5, <2>6 DEF WorkInv
<1>2. ASSUME NEW p \in Proc, NEW i \in Id, BeginRelease(p, i) PROVE Goal
  <2>1. \A q \in Proc : pc[q] # "idle" => i \notin job[q].ids
    BY <1>0, <1>2 DEF WorkInv, JobsAreSingle, BeginRelease, Busy
  <2>2. /\ pc[p] = "idle" /\ pc' = [pc EXCEPT ![p] = "flock"]
        /\ job' = [job EXCEPT ![p] = [kind |-> "release", ids |-> {i}]]
        /\ leases' = leases /\ result' = result
    BY <1>2 DEF BeginRelease, Begin
  <2>3. JobsAreSingle' /\ JobsAreDisjoint'
    <3>1. JobsAreSingle'
      BY <1>0, <2>2 DEF TypeOK, WorkInv, JobsAreSingle
    <3>2. JobsAreDisjoint'
      BY <1>0, <2>1, <2>2 DEF TypeOK, WorkInv, JobsAreDisjoint
    <3> QED
      BY <3>1, <3>2
  <2>4. NoAddressYet'
    BY <1>0, <1>2, <2>1, <2>2 DEF TypeOK, WorkInv, NoAddressYet, BeginRelease
  <2>5. ResultIsLeased'
    BY <1>0, <2>2 DEF TypeOK, WorkInv, ResultIsLeased
  <2>6. SubnetSettled' /\ GrantIsLeased'
    BY <1>0, <1>2, <2>2 DEF TypeOK, SubnetSettled, GrantIsLeased, BeginRelease
  <2> QED
    BY <2>3, <2>4, <2>5, <2>6 DEF WorkInv
<1>3. ASSUME NEW p \in Proc, BeginGc(p) PROVE Goal
  BY <1>3 DEF BeginGc, Begin
<1>4. ASSUME NEW p \in Proc, Acquire(p) PROVE Goal
  BY <1>0, <1>4 DEF TypeOK, WorkInv, JobsAreSingle, JobsAreDisjoint, NoAddressYet, ResultIsLeased, SubnetSettled, GrantIsLeased, Acquire
<1>5. ASSUME NEW p \in Proc, Load(p) PROVE Goal
  BY <1>0, <1>5 DEF TypeOK, WorkInv, JobsAreSingle, JobsAreDisjoint, NoAddressYet, ResultIsLeased, SubnetSettled, GrantIsLeased, Load
<1>6. ASSUME NEW p \in Proc, StoreAllocate(p) PROVE Goal
  <2>1. PICK i \in Id : job[p].ids = {i}
    BY <1>0, <1>6 DEF WorkInv, JobsAreSingle, JobsAreDisjoint, NoAddressYet, ResultIsLeased, StoreAllocate
  <2> DEFINE c == conf[i]
             r == allocate(leases, i, c)
  <2>2. /\ c \in Config /\ leases \in Leases /\ mem[p] = leases
        /\ grant[i] = None
        /\ \A q \in Proc \ {p} : pc[q] # "return"
    BY <1>0, <1>6, <2>1 DEF TypeOK, LockDiscipline, WorkInv, JobsAreSingle, JobsAreDisjoint, NoAddressYet, ResultIsLeased, StoreAllocate
  <2>3. leases' = r.leases /\ result' = [result EXCEPT ![p] = r.ip]
    BY <1>6, <2>1, <2>2 DEF StoreAllocate
  <2> HIDE DEF c, r
  <2>4. /\ r.ip = None \/ [ip |-> r.ip, id |-> i] \in leases'.entries
        /\ \A e \in leases.entries : e.id # i => e \in leases'.entries
        /\ \A d \in Config : leases'.entries # {} => leases'.subnet = d.subnet
    <3>1. CASE leases' = leases /\ (r.ip = None \/ [ip |-> r.ip, id |-> i] \in leases.entries)
      BY <3>1, <1>0 DEF SubnetSettled
    <3>2. ASSUME NEW a \in Addr, r.ip = a, leases' = Granted(leases, i, c, a)
          PROVE  /\ [ip |-> r.ip, id |-> i] \in leases'.entries
                 /\ \A e \in leases.entries : e.id # i => e \in leases'.entries
                 /\ leases'.subnet = c.subnet
      BY <3>2, <1>0, <2>2 DEF SubnetSettled, Granted, Others
    <3>3. \/ leases' = leases /\ (r.ip = None \/ [ip |-> r.ip, id |-> i] \in leases.entries)
          \/ \E a \in Addr : r.ip = a /\ leases' = Granted(leases, i, c, a)
      BY <2>2, <2>3, AllocateCases, Zenon DEF r
    <3> QED
      BY <3>1, <3>2, <3>3, <2>2
  <2>5. WorkInv'
    BY <1>0, <1>6, <2>1, <2>2, <2>3, <2>4 DEF TypeOK, WorkInv, JobsAreSingle, JobsAreDisjoint, NoAddressYet, ResultIsLeased, StoreAllocate
  <2>6. SubnetSettled' /\ GrantIsLeased'
    BY <1>0, <1>6, <2>2, <2>4 DEF TypeOK, SubnetSettled, GrantIsLeased, StoreAllocate
  <2> QED
    BY <2>5, <2>6
<1>7. ASSUME NEW p \in Proc, StoreDrop(p) PROVE Goal
  <2>1. PICK i \in Id : job[p].ids = {i} /\ job[p].kind = "release"
    BY <1>0, <1>7 DEF WorkInv, JobsAreSingle, JobsAreDisjoint, NoAddressYet, ResultIsLeased, StoreDrop
  <2>2. /\ leases \in Leases /\ mem[p] = leases
        /\ grant[i] = None
        /\ \A q \in Proc \ {p} : pc[q] # "return"
    BY <1>0, <1>7, <2>1 DEF TypeOK, LockDiscipline, WorkInv, JobsAreSingle, JobsAreDisjoint, NoAddressYet, ResultIsLeased, StoreDrop
  <2>3. leases' = release(leases, {i})
    BY <1>7, <2>1, <2>2 DEF StoreDrop
  <2>4. leases'.subnet = leases.subnet /\ leases'.entries = {e \in leases.entries : e.id \notin {i}}
    BY <2>2, <2>3, DropKeepsType
  <2>5. WorkInv'
    BY <1>0, <1>7, <2>1, <2>2 DEF TypeOK, WorkInv, JobsAreSingle, JobsAreDisjoint, NoAddressYet, ResultIsLeased, StoreDrop
  <2>6. SubnetSettled' /\ GrantIsLeased'
    BY <1>0, <1>7, <2>2, <2>4 DEF TypeOK, SubnetSettled, GrantIsLeased, StoreDrop
  <2> QED
    BY <2>5, <2>6
<1>8. ASSUME NEW p \in Proc, Return(p) PROVE Goal
  <2>1. /\ pc[p] = "return" /\ pc' = [pc EXCEPT ![p] = "idle"]
        /\ job' = [job EXCEPT ![p] = NoJob]
        /\ result' = [result EXCEPT ![p] = None]
        /\ leases' = leases
    BY <1>8 DEF Return, Leave
  <2>2. PICK i \in Id : job[p].ids = {i}
    BY <1>0, <2>1 DEF WorkInv, JobsAreSingle
  <2>3. grant' = IF job[p].kind # "allocate" THEN grant ELSE [grant EXCEPT ![i] = result[p]]
    BY <1>0, <1>8, <2>2 DEF TypeOK, Return
  <2>4. JobsAreSingle' /\ JobsAreDisjoint'
    BY <1>0, <2>1 DEF TypeOK, WorkInv, JobsAreSingle, JobsAreDisjoint
  <2>5. \A q \in Proc \ {p} : pc[q] # "idle" => i \notin job[q].ids
    BY <1>0, <2>1, <2>2 DEF WorkInv, JobsAreSingle, JobsAreDisjoint
  <2>6. NoAddressYet'
    BY <1>0, <2>1, <2>3, <2>5 DEF TypeOK, WorkInv, NoAddressYet, NoJob
  <2>7. ResultIsLeased'
    BY <1>0, <2>1 DEF TypeOK, WorkInv, ResultIsLeased, NoJob
  <2>8. SubnetSettled'
    BY <1>0, <1>8, <2>1 DEF SubnetSettled
  <2>9. GrantIsLeased'
    BY <1>0, <2>1, <2>2, <2>3 DEF TypeOK, WorkInv, ResultIsLeased, GrantIsLeased
  <2> QED
    BY <2>4, <2>6, <2>7, <2>8, <2>9 DEF WorkInv
<1>9. ASSUME NEW p \in Proc, Crash(p) PROVE Goal
  BY <1>0, <1>9 DEF TypeOK, WorkInv, JobsAreSingle, JobsAreDisjoint, NoAddressYet, ResultIsLeased, SubnetSettled, GrantIsLeased, Crash, Leave, NoJob
<1>10. ASSUME NEW i \in Id, Started(i) PROVE Goal
  BY <1>0, <1>10 DEF TypeOK, WorkInv, JobsAreSingle, JobsAreDisjoint, NoAddressYet, ResultIsLeased, SubnetSettled, GrantIsLeased, Started
<1>11. CASE UNCHANGED vars
  BY <1>0, <1>11 DEF TypeOK, WorkInv, JobsAreSingle, JobsAreDisjoint, NoAddressYet, ResultIsLeased, SubnetSettled, GrantIsLeased, vars
<1> QED
  BY <1>1, <1>2, <1>3, <1>4, <1>5, <1>6, <1>7, <1>8, <1>9, <1>10, <1>11 DEF Next

(* Without gc, and with one subnet, a container keeps the lease on its     *)
(* address for as long as it uses it.                                      *)
THEOREM GrantsAreLeased ==
  ASSUME "gc" \notin Jobs, \A c, d \in Config : c.subnet = d.subnet
  PROVE  Spec => []GrantIsLeased
<1>1. UseInv => GrantIsLeased
  BY DEF UseInv
<1>2. UseInv /\ [Next]_vars => UseInv'
  BY NextUse
<1> QED
  BY <1>1, <1>2, InitUse, PTL DEF Spec

(* Without gc, and with one subnet, no two containers are ever told to use *)
(* the same address, in every interleaving and wherever a process is       *)
(* killed between taking the lock and returning.                           *)
THEOREM AddressesAreDistinct ==
  ASSUME "gc" \notin Jobs, \A c, d \in Config : c.subnet = d.subnet
  PROVE  Spec => []AddressesInUseDistinct
<1>1. UseInv => AddressesInUseDistinct
  <2> SUFFICES ASSUME UseInv, NEW i \in Id, NEW j \in Id, grant[i] # None, grant[i] = grant[j]
               PROVE  i = j
    BY DEF AddressesInUseDistinct
  <2> DEFINE e == [ip |-> grant[i], id |-> i]
             f == [ip |-> grant[j], id |-> j]
  <2>1. e \in leases.entries /\ f \in leases.entries
    BY DEF UseInv, GrantIsLeased
  <2>2. e = f
    BY <2>1 DEF UseInv, IInv, UniqueLeases
  <2> QED
    BY <2>2
<1>2. UseInv /\ [Next]_vars => UseInv'
  BY NextUse
<1> QED
  BY <1>1, <1>2, InitUse, PTL DEF Spec
=============================================================================
