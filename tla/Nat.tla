------------------------------- MODULE Nat -------------------------------
(***************************************************************************)
(* The packet filter as src/runtime/nat.rs uses it: three chains of myrun, *)
(* the jumps into them, the shared rules (tagged "base") and the rules of  *)
(* each container (tagged with its id).  Every operator below is one       *)
(* iptables command; the scripts list the commands that the functions of   *)
(* nat.rs issue, in order.  A rule may be present more than once.          *)
(***************************************************************************)
EXTENDS Naturals, Sequences, SequencesExt, Bags

Chain == {"MYRUN-PRE", "MYRUN-POST", "MYRUN-FWD"}

(* A rule by the chain it is in, what it does, its tag and what it is      *)
(* about: the address of a container, a bridge, or nothing (0).  It stands *)
(* for all the rules that one function adds to one chain with one tag:     *)
(* they come and go together.                                              *)
Rule(chain, to, tag, about) == [chain |-> chain, to |-> to, tag |-> tag, about |-> about]

Table(chain) ==
  IF chain \in {"MYRUN-FWD", "FORWARD", "INPUT"} THEN "filter" ELSE "nat"

-----------------------------------------------------------------------------
(* A packet filter: the chains that exist, the rules with their copies,    *)
(* and the order of the DNAT rules, of which the first match decides.      *)
Untouched == [chains |-> {}, rules |-> EmptyBag, dnat |-> <<>>]

(* -C and -S: a rule can only be found in a chain that exists.             *)
rule_exists(fw, r) == BagIn(r, fw.rules)

(* -A and -I need the chain they add to, and the one they jump to.         *)
CanAdd(fw, r) == {r.chain, r.to} \cap Chain \subseteq fw.chains

Add(fw, r) ==
  [fw EXCEPT !.rules = @ (+) SetToBag({r}),
             !.dnat  = IF r.to = "DNAT" THEN Append(@, r) ELSE @]

(* -D deletes one copy.                                                    *)
Delete(fw, r) ==
  [fw EXCEPT !.rules = @ (-) SetToBag({r}), !.dnat = RemoveFirst(@, r)]

(* -F empties a chain, -X removes it if it is empty and nothing jumps to   *)
(* it.  The DNAT rules are those of MYRUN-PRE.                             *)
Flush(fw, c) ==
  [fw EXCEPT !.rules = [r \in {s \in DOMAIN fw.rules : s.chain # c} |-> fw.rules[r]],
             !.dnat  = IF c = "MYRUN-PRE" THEN <<>> ELSE @]

DropChain(fw, c) ==
  IF \A r \in BagToSet(fw.rules) : c \notin {r.chain, r.to}
    THEN [fw EXCEPT !.chains = @ \ {c}] ELSE fw

(* -S prints every copy of a rule.                                         *)
Lines(fw, r) == {<<r, i>> : i \in 1 .. fw.rules[r]}

(* Variant: the tag is not compared.                                       *)
tagged_rules_any(fw, table, tag) ==
  UNION {Lines(fw, r) : r \in {s \in BagToSet(fw.rules) : s.tag # "none" /\ Table(s.chain) = table}}

(* The lines of one table with the tag.                                    *)
tagged_rules(fw, table, tag) ==
  UNION {Lines(fw, r) : r \in {s \in BagToSet(fw.rules) : s.tag = tag /\ Table(s.chain) = table}}

-----------------------------------------------------------------------------
(* Scripts.  An item is a pair of an operation and its argument: "chain"   *)
(* and "rule" are add-if-missing, each a check and then an addition.       *)
(* The first stands for the jump from OUTPUT too.                          *)
Jumps == <<Rule("PREROUTING", "MYRUN-PRE", "none", 0),
           Rule("POSTROUTING", "MYRUN-POST", "none", 0), Rule("FORWARD", "MYRUN-FWD", "none", 0)>>

Guard == Rule("INPUT", "DROP", "base", 0)

Each(op, args) == [i \in DOMAIN args |-> <<op, args[i]>>]

ensure_chains ==
  Each("chain", <<"MYRUN-PRE", "MYRUN-POST", "MYRUN-FWD">>) \o Each("rule", Append(Jumps, Guard))

BridgeRules(b) ==
  <<Rule("MYRUN-POST", "MASQUERADE", "base", b), Rule("MYRUN-FWD", "ACCEPT", "base", b)>>

setup_bridge(b) == <<<<"forwarding", 1>>>> \o ensure_chains \o Each("rule", BridgeRules(b))

PublishRules(c, ip) ==
  <<Rule("MYRUN-PRE", "DNAT", c, ip), Rule("MYRUN-POST", "MASQUERADE", c, ip),
    Rule("MYRUN-FWD", "ACCEPT", c, ip)>>

publish(c, ip) == ensure_chains \o Each("rule", PublishRules(c, ip))

(* cleanup lists both tables before it deletes what it found; "list" holds *)
(* the tables still to be read, the tag and the rules found so far.        *)
cleanup(tag) == <<<<"list", [tables |-> <<"nat", "filter">>, tag |-> tag, found |-> <<>>]>>>>

(* Variant: the chains are not flushed before they are deleted.            *)
teardown_base_unflushed ==
  cleanup("base") \o Each("delete", <<Guard>> \o Jumps)
    \o Each("drop", <<"MYRUN-PRE", "MYRUN-POST", "MYRUN-FWD">>)

teardown_base ==
  cleanup("base") \o Each("delete", <<Guard>> \o Jumps)
    \o <<<<"flush", "MYRUN-PRE">>, <<"drop", "MYRUN-PRE">>,
         <<"flush", "MYRUN-POST">>, <<"drop", "MYRUN-POST">>,
         <<"flush", "MYRUN-FWD">>, <<"drop", "MYRUN-FWD">>>>
=============================================================================
