------------------------------- MODULE MCIpam -------------------------------
(* Model-checking instances of Ipam: 4-bit addresses, small subnets.        *)
EXTENDS Ipam, TLC

CONSTANTS Requests,    \* the --ip values in play
          Gateways     \* the --gateway values in play

MCWidth == 4

(* A roomy subnet, addresses 0..7 with gateway 1 and five to lease, and a   *)
(* /30, addresses 12..15 with gateway 13 and one to lease.                  *)
Roomy == [net |-> 2, prefix |-> 1]

Tiny == [net |-> 13, prefix |-> 2]

(* The subnets a bridge is switched between; the roomy one alone.           *)
TwoSubnets == {Roomy, Tiny}

OneSubnet == {Roomy}

(* Explicit gateways, if any, are those of the containers in the roomy      *)
(* subnet that do not ask for an address; the others have the default one.  *)
MCConfig ==
  {c \in Configs(Requests, Gateways) :
     Gateways # {} => (c.gateway \in Gateways <=> c.subnet = Roomy /\ c.ip = None)}

Symmetric == Permutations(Proc) \cup Permutations(Id)
=============================================================================
