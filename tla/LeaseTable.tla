----------------------------- MODULE LeaseTable -----------------------------
(***************************************************************************)
(* What address management promises: a table from containers to addresses  *)
(* that is changed one lease at a time and never gives one address to two  *)
(* containers.  No processes, no lock, no file.                            *)
(***************************************************************************)
CONSTANTS Id, Addr, None

VARIABLE lease    \* lease[i]: the address leased to container i, or None

Init == lease = [i \in Id |-> None]

(* i is given an address nobody else has, in place of any it had before.   *)
Grant(i, a) ==
  /\ \A j \in Id \ {i} : lease[j] # a
  /\ lease' = [lease EXCEPT ![i] = a]

(* The bridge was given another subnet: every earlier lease is void.       *)
Renumber(i, a) == lease' = [j \in Id |-> IF j = i THEN a ELSE None]

(* The containers of S lose their leases.                                  *)
Withdraw(S) == lease' = [j \in Id |-> IF j \in S THEN None ELSE lease[j]]

Next == \/ \E i \in Id, a \in Addr : Grant(i, a) \/ Renumber(i, a)
        \/ \E S \in SUBSET Id : Withdraw(S)

Spec == Init /\ [][Next]_lease
=============================================================================
