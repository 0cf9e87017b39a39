----------------------------- MODULE Addressing -----------------------------
(***************************************************************************)
(* Address arithmetic of bridge networking, from src/runtime/ipam.rs and   *)
(* src/config.rs.  An address is a number below 2^Width (Width is 32 in    *)
(* the code); a subnet is the pair parse_cidr returns.  Masking with the   *)
(* netmask is rounding down to a multiple of the block size.               *)
(***************************************************************************)
EXTENDS Integers

CONSTANTS Width,    \* bits of an address
          Subnet,   \* the subnets in play: records [net, prefix]
          None      \* no --ip given, no lease, no subnet recorded yet

MaxAddr == 2 ^ Width - 1

Addr == 0 .. MaxAddr

BlockSize(s) == 2 ^ (Width - s.prefix)

(* net & mask, and base | !mask: the network and the broadcast address.    *)
NetworkAddr(s) == s.net - (s.net % BlockSize(s))

BroadcastAddr(s) == NetworkAddr(s) + BlockSize(s) - 1

(* Powers and remainders of the constants are what arithmetic makes them.  *)
ASSUME SubnetAssumption ==
  /\ Width \in Nat /\ MaxAddr \in Nat
  /\ \A s \in Subnet : /\ s.net \in Addr /\ s.prefix \in 0 .. Width
                       /\ BlockSize(s) \in Nat \ {0}
                       /\ NetworkAddr(s) \in Addr /\ BroadcastAddr(s) \in Addr
  /\ None \notin Addr /\ None \notin Subnet

(* The first and last usable address; a subnet above /30 has none.         *)
usable_range(s) ==
  IF s.prefix > Width - 2 THEN {}
  ELSE NetworkAddr(s) + 1 .. BroadcastAddr(s) - 1

(* The default gateway: the first usable address.                          *)
gateway_addr(s) == NetworkAddr(s) + 1

in_subnet(a, s) == a - (a % BlockSize(s)) = NetworkAddr(s)

(* The bridge branch of finalize_and_validate: what a container's network  *)
(* configuration must satisfy before anything is allocated for it.         *)
ValidNetwork(c) ==
  /\ c.subnet.prefix <= Width - 2
  /\ c.ip # None => in_subnet(c.ip, c.subnet) /\ c.ip # c.gateway

(* The validated configurations over Subnet, with an --ip from the first   *)
(* set or none, and the default gateway or one of the second set: nothing  *)
(* is asked of an explicit --gateway but that it is an address.            *)
Configs(requests, gateways) ==
  { c \in [subnet : Subnet, ip : requests \cup {None},
           gateway : gateways \cup {gateway_addr(s) : s \in Subnet}] :
      (c.gateway = gateway_addr(c.subnet) \/ c.gateway \in gateways) /\ ValidNetwork(c) }
=============================================================================
