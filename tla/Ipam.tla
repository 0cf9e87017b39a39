-------------------------------- MODULE Ipam --------------------------------
(***************************************************************************)
(* src/runtime/ipam.rs: the lease file ipam.json, read, modified and       *)
(* written by concurrent myrun processes under the flock on ipam.lock.     *)
(*                                                                         *)
(* A process p performs one job at a time: allocate or release for one     *)
(* container, or gc with the set of live ids it computed beforehand.  The  *)
(* steps are those of the code: flock, load, decide and store, return.     *)
(* The order of the entries in the file never matters (an id occurs at     *)
(* most once, see UniqueLeases), so they are a set.                        *)
(***************************************************************************)
EXTENDS Addressing

CONSTANTS Proc,      \* the processes
          Id,        \* the containers
          Config,    \* the validated network configurations
          Jobs       \* which of "allocate", "release", "gc" may be issued

ASSUME IpamAssumption ==
  /\ None \notin Proc
  /\ Jobs \subseteq {"allocate", "release", "gc"}
  /\ \A c \in Config : c.subnet \in Subnet /\ c.ip \in Addr \cup {None} /\ c.gateway \in Addr

VARIABLES
  conf,     \* conf[i]: container i's configuration; never changes
  leases,   \* ipam.json: [subnet, entries], entries a set of [ip, id]
  lock,     \* the process holding the flock on ipam.lock, or None
  pc,       \* pc[p]: "idle", "flock", "load", "store" or "return"
  job,      \* job[p]: [kind, ids]: one container, or the live ids of gc
  mem,      \* mem[p]: the lease file as p loaded it
  result,   \* result[p]: the address allocate is about to return
  grant,    \* grant[i]: the address container i has been told to use
  running   \* the containers recorded as running, hence live for gc

vars == <<conf, leases, lock, pc, job, mem, result, grant, running>>

Lease == [ip : Addr, id : Id]

Leases == [subnet : Subnet \cup {None}, entries : SUBSET Lease]

Empty == [subnet |-> None, entries |-> {}]

-----------------------------------------------------------------------------
(* The decisions, as functions of the loaded file.                         *)

Taken(l) == {e.ip : e \in l.entries}

(* Variants: an --ip is not checked against the leases; the gateway is     *)
(* handed out.                                                             *)
CandidatesRequestUnchecked(c, taken) ==
  (IF c.ip = None THEN usable_range(c.subnet) \ taken ELSE {c.ip}) \ {c.gateway}

CandidatesWithGateway(c, taken) ==
  (IF c.ip = None THEN usable_range(c.subnet) ELSE {c.ip}) \ taken

(* Without --ip, any usable address; with it, only that one.  Neither the  *)
(* gateway nor an address in use.                                          *)
Candidates(c, taken) ==
  (IF c.ip = None THEN usable_range(c.subnet) ELSE {c.ip}) \ (taken \cup {c.gateway})

Lowest(S) == CHOOSE a \in S : \A b \in S : a <= b

(* A different subnet voids all leases; an own lease is reused if it suits *)
(* the request, given up otherwise; an Err (ip = None) stores nothing.     *)
allocate(l, i, c) ==
  LET cur    == IF l.subnet = c.subnet THEN l ELSE [subnet |-> c.subnet, entries |-> {}]
      own    == {e \in cur.entries : e.id = i}
      others == cur.entries \ own
      free   == Candidates(c, {e.ip : e \in others})
  IN IF \E e \in own : c.ip \in {None, e.ip}
     THEN [ip |-> (CHOOSE e \in own : c.ip \in {None, e.ip}).ip, leases |-> l]
     ELSE IF free = {} THEN [ip |-> None, leases |-> l]
     ELSE [ip     |-> Lowest(free),
           leases |-> [subnet  |-> c.subnet,
                       entries |-> others \cup {[ip |-> Lowest(free), id |-> i]}]]

(* Variant: the filter is inverted.                                        *)
release_inverted(l, S) == [l EXCEPT !.entries = {e \in @ : e.id \in S}]

release(l, S) == [l EXCEPT !.entries = {e \in @ : e.id \notin S}]

gc(l, live) == [l EXCEPT !.entries = {e \in @ : e.id \in live}]

-----------------------------------------------------------------------------
NoJob == [kind |-> "gc", ids |-> {}]

Busy(i) == \E p \in Proc : pc[p] # "idle" /\ job[p].kind # "gc" /\ i \in job[p].ids

Begin(p, k, S) ==
  /\ pc[p] = "idle" /\ k \in Jobs
  /\ pc' = [pc EXCEPT ![p] = "flock"]
  /\ job' = [job EXCEPT ![p] = [kind |-> k, ids |-> S]]
  /\ UNCHANGED <<conf, leases, lock, mem, result>>

(* setup_host: one supervisor launches a container that has no address.    *)
BeginAllocate(p, i) ==
  /\ ~Busy(i) /\ grant[i] = None
  /\ Begin(p, "allocate", {i})
  /\ UNCHANGED <<grant, running>>

(* network::teardown, after the container died, or again for a container   *)
(* that has no lease any more.                                             *)
BeginRelease(p, i) ==
  /\ ~Busy(i)
  /\ Begin(p, "release", {i})
  /\ grant' = [grant EXCEPT ![i] = None]
  /\ running' = running \ {i}

(* supervisor::gc has listed the live containers before it gets here.      *)
BeginGc(p) ==
  /\ Begin(p, "gc", running)
  /\ UNCHANGED <<grant, running>>

(* Variant: the lock does not exclude anyone.                              *)
AcquireShared(p) ==
  /\ pc[p] = "flock"
  /\ lock' = p
  /\ pc' = [pc EXCEPT ![p] = "load"]
  /\ UNCHANGED <<conf, leases, job, mem, result, grant, running>>

Acquire(p) ==
  /\ pc[p] = "flock" /\ lock = None
  /\ lock' = p
  /\ pc' = [pc EXCEPT ![p] = "load"]
  /\ UNCHANGED <<conf, leases, job, mem, result, grant, running>>

Load(p) ==
  /\ pc[p] = "load"
  /\ mem' = [mem EXCEPT ![p] = leases]
  /\ pc' = [pc EXCEPT ![p] = "store"]
  /\ UNCHANGED <<conf, leases, lock, job, result, grant, running>>

(* Decide, and replace the file by an atomic rename if it changed.         *)
StoreAllocate(p) ==
  /\ pc[p] = "store" /\ job[p].kind = "allocate"
  /\ \E i \in job[p].ids :
       LET r == allocate(mem[p], i, conf[i])
       IN /\ leases' = IF r.leases = mem[p] THEN leases ELSE r.leases
          /\ result' = [result EXCEPT ![p] = r.ip]
  /\ pc' = [pc EXCEPT ![p] = "return"]
  /\ UNCHANGED <<conf, lock, job, mem, grant, running>>

StoreDrop(p) ==
  /\ pc[p] = "store" /\ job[p].kind \in {"release", "gc"}
  /\ LET l == IF job[p].kind = "gc" THEN gc(mem[p], job[p].ids)
                                   ELSE release(mem[p], job[p].ids)
     IN leases' = IF l = mem[p] THEN leases ELSE l
  /\ pc' = [pc EXCEPT ![p] = "return"]
  /\ UNCHANGED <<conf, lock, job, mem, result, grant, running>>

(* The process is through: its locals and its FileLock are gone.           *)
Leave(p) ==
  /\ lock' = IF lock = p THEN None ELSE lock
  /\ pc' = [pc EXCEPT ![p] = "idle"]
  /\ job' = [job EXCEPT ![p] = NoJob]
  /\ mem' = [mem EXCEPT ![p] = Empty]
  /\ result' = [result EXCEPT ![p] = None]

(* Drop of the FileLock; the caller of allocate goes on with the address.  *)
Return(p) ==
  /\ pc[p] = "return"
  /\ Leave(p)
  /\ grant' = IF job[p].kind # "allocate" THEN grant
              ELSE [i \in Id |-> IF i \in job[p].ids THEN result[p] ELSE grant[i]]
  /\ UNCHANGED <<conf, leases, running>>

(* launch saves Running some time after the address was allocated.         *)
Started(i) ==
  /\ grant[i] # None /\ i \notin running /\ ~Busy(i)
  /\ running' = running \cup {i}
  /\ UNCHANGED <<conf, leases, lock, pc, job, mem, result, grant>>

(* SIGKILL at any point: the kernel drops the flock, the file is whole.    *)
Crash(p) ==
  /\ pc[p] # "idle"
  /\ Leave(p)
  /\ UNCHANGED <<conf, leases, grant, running>>

Init ==
  /\ conf \in [Id -> Config]
  /\ leases = Empty
  /\ lock = None
  /\ pc = [p \in Proc |-> "idle"]
  /\ job = [p \in Proc |-> NoJob]
  /\ mem = [p \in Proc |-> Empty]
  /\ result = [p \in Proc |-> None]
  /\ grant = [i \in Id |-> None]
  /\ running = {}

Next ==
  \/ \E p \in Proc : \/ \E i \in Id : BeginAllocate(p, i) \/ BeginRelease(p, i)
                     \/ BeginGc(p) \/ Acquire(p) \/ Load(p)
                     \/ StoreAllocate(p) \/ StoreDrop(p) \/ Return(p) \/ Crash(p)
  \/ \E i \in Id : Started(i)

Spec == Init /\ [][Next]_vars
-----------------------------------------------------------------------------
(* Every variable stays in its domain.                                     *)
TypeOK ==
  /\ conf \in [Id -> Config]
  /\ leases \in Leases
  /\ lock \in Proc \cup {None}
  /\ pc \in [Proc -> {"idle", "flock", "load", "store", "return"}]
  /\ job \in [Proc -> [kind : {"allocate", "release", "gc"}, ids : SUBSET Id]]
  /\ mem \in [Proc -> Leases]
  /\ result \in [Proc -> Addr \cup {None}]
  /\ grant \in [Id -> Addr \cup {None}]
  /\ running \subseteq Id

(* The lease file never holds an address twice, nor a container twice,     *)
(* whatever the interleaving of allocate, release, gc and crashes.         *)
UniqueLeases ==
  \A e, f \in leases.entries : e.ip = f.ip \/ e.id = f.id => e = f

(* Every lease lies in the subnet the file is for and is not the gateway   *)
(* its container was configured with; the network and the broadcast address*)
(* are only leased to a container that asked for them with --ip, which     *)
(* neither finalize_and_validate nor allocate refuses.                     *)
LeasesUsable ==
  \A e \in leases.entries :
    /\ in_subnet(e.ip, leases.subnet) /\ e.ip # conf[e.id].gateway
    /\ e.ip \in {NetworkAddr(leases.subnet), BroadcastAddr(leases.subnet)} => conf[e.id].ip = e.ip

(* docs/networking.md: "The gateway, network and broadcast addresses are   *)
(* never handed out."  Not so: --ip may name an end of the subnet, and a   *)
(* container with an explicit --gateway may be given the gateway of the    *)
(* other containers, that is, the address of the bridge.                   *)
ReservedNeverLeased ==
  \A e \in leases.entries :
    /\ e.ip \notin {NetworkAddr(leases.subnet), BroadcastAddr(leases.subnet)}
    /\ \A i \in Id : conf[i].subnet = leases.subnet => e.ip # conf[i].gateway

(* "No free addresses left" is only ever reported when it is true.         *)
ExhaustionIsReal ==
  \A p \in Proc : \A i \in job[p].ids :
    pc[p] = "return" /\ job[p].kind = "allocate" /\ result[p] = None /\ conf[i].ip = None
      => usable_range(conf[i].subnet) \subseteq Taken(leases) \cup {conf[i].gateway}

(* Two containers are never told to use the same address at the same time. *)
AddressesInUseDistinct ==
  \A i, j \in Id : grant[i] # None /\ grant[i] = grant[j] => i = j

(* A container keeps the lease on the address it uses until it is released.*)
GrantIsLeased ==
  \A i \in Id : grant[i] # None => [ip |-> grant[i], id |-> i] \in leases.entries

(* Whoever has the lock, and nobody else, is past flock; and the file is   *)
(* still what that process loaded when it comes to decide and store.       *)
LockDiscipline ==
  \A p \in Proc : /\ lock = p <=> pc[p] \in {"load", "store", "return"}
                  /\ pc[p] = "store" => mem[p] = leases

(* The promise of LeaseTable, read off the lease file: seen as a table,    *)
(* the file changes by one grant, one renumbering or one withdrawal.       *)
LeaseIn(l, i) ==
  IF \E e \in l.entries : e.id = i
  THEN (CHOOSE e \in l.entries : e.id = i).ip ELSE None

Table == INSTANCE LeaseTable WITH lease <- [i \in Id |-> LeaseIn(leases, i)]

(* The lease file, under the lock discipline of the code, implements the   *)
(* abstract table.                                                         *)
ImplementsTable == Table!Spec
=============================================================================
