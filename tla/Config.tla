------------------------------- MODULE Config -------------------------------
(***************************************************************************)
(* From the command line to a validated configuration: the two passes of   *)
(* src/cli.rs over the arguments of run and create, configuration files    *)
(* and JSON (src/config.rs), and finalize_and_validate.                    *)
(*                                                                         *)
(* Texts are strings; how a text splits into numbers is given by tables.   *)
(* An optional value is a sequence of length 0 or 1.  Fields that are      *)
(* treated like another one are left out.                                  *)
(***************************************************************************)
EXTENDS Integers, Sequences, SequencesExt, FiniteSets

CONSTANTS
  Files,       \* Files[path]: the configuration files, as documents
  Ports,       \* Ports[text]: host port, container port, protocol of a -p argument
  Sizes,       \* Sizes[text]: the size, if the text is not "max"
  Vars,        \* Vars[text]: key and value of an -e argument
  Dirs,        \* directories that exist
  Underscored, \* names with an underscore
  MinMemory,   \* 512k
  Word,        \* 2^64, Word \div 2 is where a signed word turns negative
  Half32       \* 2^32, the modulus of an MTU

None == <<>>

Some(v) == <<v>>

MaxMtu == 65535

(* Sizes and variables are what parse_size and the -e option accept, and   *)
(* files are documents of the right types: an integer is a signed word.    *)
SizeOk(v) == IF "text" \in DOMAIN v THEN v.text \in DOMAIN Sizes ELSE v.int \in -(Word \div 2) .. (Word \div 2) - 1

ASSUME ConfigAssumption ==
  /\ Word \in Nat /\ Half32 \in Nat /\ Half32 > MaxMtu
  /\ \A text \in DOMAIN Sizes : Sizes[text] = None \/ \E n \in 0 .. Word - 1 : Sizes[text] = Some(n)
  /\ \A path \in DOMAIN Files :
       LET doc == Files[path] IN
       /\ \A key \in {"memory", "memory_swap"} : key \in DOMAIN doc => SizeOk(doc[key])
       /\ "env" \in DOMAIN doc => doc.env \in Seq(STRING \X STRING)
       /\ "mtu" \in DOMAIN doc => doc.mtu \in Int
       /\ "publish" \in DOMAIN doc =>
            doc.publish \in Seq([text : STRING] \cup [host : Int, container : Int]
                                \cup [host : Int, container : Int, protocol : STRING])

(* The fields of f, and those of g that f does not have.                   *)
Over(f, g) == [x \in DOMAIN f \cup DOMAIN g |-> IF x \in DOMAIN f THEN f[x] ELSE g[x]]

DefaultEnv == [PATH |-> "default"]

Default ==
  [id |-> "", name |-> None, rootfs |-> "", command |-> <<>>, hostname |-> "", env |-> DefaultEnv,
   read_only |-> FALSE, privileged |-> FALSE, no_new_privs |-> TRUE, seccomp |-> "default",
   cap_drop |-> <<>>, memory |-> None, memory_swap |-> None, mode |-> "none", netns |-> TRUE,
   mtu |-> 1500, publish |-> <<>>]

Failure == [Default EXCEPT !.id = "error"]

-----------------------------------------------------------------------------
(* Values.                                                                 *)

U16 == 65536

Protocols == {"tcp", "udp"}

Mapping(h, c, proto) == [host_port |-> h, container_port |-> c, protocol |-> proto]

(* PortMapping::parse: both numbers must fit and must not be zero.         *)
PortOk(text) ==
  /\ text \in DOMAIN Ports /\ Ports[text][3] \in Protocols
  /\ \A i \in {1, 2} : Ports[text][i] \in 1..(U16 - 1)

parse_port(text) == Mapping(Ports[text][1], Ports[text][2], Ports[text][3])

(* The value of a key that may be missing.                                 *)
Field(doc, key, default) == IF key \in DOMAIN doc THEN doc[key] ELSE default

(* The map form of a publish entry is cast, and its protocol not looked at.*)
cast_port(e) == Mapping(e.host % U16, e.container % U16, Field(e, "protocol", "tcp"))

as_u64(n) == IF n >= 0 THEN Some(n) ELSE None

as_i64(n) == IF n >= Word \div 2 THEN n - Word ELSE n

num_or_size(v) == IF "text" \in DOMAIN v THEN Sizes[v.text] ELSE as_u64(v.int)

(* set_env: an earlier value of the same key goes.                         *)
set_env(env, kv) == Over([k \in {kv[1]} |-> kv[2]], env)

(* set_env for each of a list: the last value of a key stays.              *)
set_each(env, list) ==
  Over([k \in {list[i][1] : i \in DOMAIN list} |-> list[Max({i \in DOMAIN list : list[i][1] = k})][2]], env)

-----------------------------------------------------------------------------
(* Documents: from_json starts from the defaults, to_json writes all.      *)

PublishOk(e) == IF "text" \in DOMAIN e THEN PortOk(e.text) ELSE e.host >= 0 /\ e.container >= 0

publish_of(e) == IF "text" \in DOMAIN e THEN parse_port(e.text) ELSE cast_port(e)

DocOk(doc) == \A e \in ToSet(Field(doc, "publish", <<>>)) : PublishOk(e)

resources_from_json(c, doc) ==
  [c EXCEPT
     !.memory = IF "memory" \in DOMAIN doc THEN num_or_size(doc.memory) ELSE None,
     !.memory_swap = IF "memory_swap" \in DOMAIN doc THEN num_or_size(doc.memory_swap) ELSE None]

(* Cut to 32 bits; what is no u64 is passed over.                          *)
mtu_of(doc) == IF Field(doc, "mtu", -1) < 0 THEN 1500 ELSE doc.mtu % Half32

network_from_json(c, doc) ==
  LET publish == Field(doc, "publish", <<>>) IN
  [c EXCEPT
     !.mode = Field(doc, "mode", "none"),
     !.mtu = mtu_of(doc),
     !.publish = [i \in DOMAIN publish |-> publish_of(publish[i])]]

security_from_json(c, doc) ==
  [c EXCEPT
     !.privileged = Field(doc, "privileged", FALSE),
     !.no_new_privs = Field(doc, "no_new_privs", TRUE),
     !.seccomp = Field(doc, "seccomp", "default"),
     !.cap_drop = Field(doc, "cap_drop", <<>>)]

namespaces_from_json(c, doc) == [c EXCEPT !.netns = Field(doc, "netns", TRUE)]

from_json(doc) ==
  LET own == [Default EXCEPT
                !.id = Field(doc, "id", ""),
                !.name = Field(doc, "name", None),
                !.rootfs = Field(doc, "rootfs", ""),
                !.command = Field(doc, "command", <<>>),
                !.hostname = Field(doc, "hostname", ""),
                !.env = set_each(DefaultEnv, Field(doc, "env", <<>>)),
                !.read_only = Field(doc, "read_only", FALSE)]
  IN namespaces_from_json(security_from_json(network_from_json(resources_from_json(own, doc), doc), doc), doc)

SizeDoc(key, v) == [k \in IF v = None THEN {} ELSE {key} |-> [int |-> as_i64(v[1])]]

EnvDoc(env) == SetToSeq({<<k, env[k]>> : k \in DOMAIN env})

resources_to_json(c) == Over(SizeDoc("memory", c.memory), SizeDoc("memory_swap", c.memory_swap))

port_to_json(m) == [host |-> m.host_port, container |-> m.container_port, protocol |-> m.protocol]

network_to_json(c) ==
  [mode |-> c.mode, mtu |-> c.mtu, publish |-> [i \in DOMAIN c.publish |-> port_to_json(c.publish[i])]]

security_to_json(c) ==
  [privileged |-> c.privileged, no_new_privs |-> c.no_new_privs, seccomp |-> c.seccomp,
   cap_drop |-> c.cap_drop]

namespaces_to_json(c) == [netns |-> c.netns]

to_json(c) ==
  LET own == [id |-> c.id, name |-> c.name, rootfs |-> c.rootfs, command |-> c.command,
              hostname |-> c.hostname, env |-> EnvDoc(c.env), read_only |-> c.read_only]
  IN Over(own, Over(resources_to_json(c),
               Over(network_to_json(c), Over(security_to_json(c), namespaces_to_json(c)))))

-----------------------------------------------------------------------------
(* The parser.  An argument is a token: its text and, if it begins with a  *)
(* dash, the flag and the value after an equals sign.                      *)

Switches == {"--read-only", "--privileged", "--detach"}

TakesValue ==
  {"--config", "--name", "--rootfs", "--env", "--memory", "--memory-swap", "--network",
   "--publish", "--cap-drop", "--seccomp", "--mtu"}

Start(base) ==
  [cfg |-> base, positional |-> <<>>, end |-> FALSE, pending |-> "", config_path |-> None,
   detach |-> FALSE, failed |-> FALSE]

NetworkModes == {"none", "bridge", "host"}

SeccompModes == {"unconfined", "default", "strict"}

ValueOk(flag, text) ==
  CASE flag \in {"--memory", "--memory-swap"} -> text \in DOMAIN Sizes
    [] flag = "--publish" -> PortOk(text)
    [] flag = "--network" -> text \in NetworkModes
    [] flag = "--seccomp" -> text \in SeccompModes
    [] flag = "--env"     -> text \in DOMAIN Vars
    [] flag = "--mtu"     -> text \in DOMAIN Sizes /\ Sizes[text] # None
    [] OTHER -> TRUE

SetValue(c, flag, text) ==
  CASE flag = "--name"        -> [c EXCEPT !.name = Some(text)]
    [] flag = "--rootfs"      -> [c EXCEPT !.rootfs = text]
    [] flag = "--env"         -> [c EXCEPT !.env = set_env(@, Vars[text])]
    [] flag = "--memory"      -> [c EXCEPT !.memory = Sizes[text]]
    [] flag = "--memory-swap" -> [c EXCEPT !.memory_swap = Sizes[text]]
    [] flag = "--network"     -> [c EXCEPT !.mode = text]
    [] flag = "--publish"     -> [c EXCEPT !.publish = Append(@, parse_port(text))]
    [] flag = "--cap-drop"    -> [c EXCEPT !.cap_drop = Append(@, text)]
    [] flag = "--seccomp"     -> [c EXCEPT !.seccomp = text]
    [] flag = "--mtu"         -> [c EXCEPT !.mtu = Sizes[text][1]]
    [] OTHER                  -> c

(* The value of a flag: recorded if it is the file, else applied.          *)
Value(st, flag, text) ==
  IF ~ValueOk(flag, text) THEN [st EXCEPT !.failed = TRUE]
  ELSE [st EXCEPT !.pending = "",
                  !.config_path = IF flag = "--config" THEN Some(text) ELSE @,
                  !.cfg = SetValue(@, flag, text)]

SetSwitch(st, flag) ==
  [st EXCEPT !.detach = @ \/ flag = "--detach",
             !.cfg.read_only = @ \/ flag = "--read-only",
             !.cfg.privileged = @ \/ flag = "--privileged"]

Positional(st, tok) == [st EXCEPT !.positional = Append(@, tok.text)]

(* One turn of the loop.  With two positional arguments the rest belongs   *)
(* to the command.                                                         *)
Turn(st, tok) ==
  IF st.failed THEN st
  ELSE IF st.pending # "" THEN Value(st, st.pending, tok.text)
  ELSE IF Len(st.positional) >= 2 \/ st.end \/ ~tok.dash THEN Positional(st, tok)
  ELSE IF tok.flag = "--" THEN [st EXCEPT !.end = TRUE]
  ELSE IF tok.flag \in Switches THEN SetSwitch(st, tok.flag)
  ELSE IF tok.flag \notin TakesValue THEN [st EXCEPT !.failed = TRUE]
  ELSE IF tok.inline # None THEN Value(st, tok.flag, tok.inline[1])
  ELSE [st EXCEPT !.pending = tok.flag]

(* After the loop: <rootfs> <command>, or only the command.                *)
Finish(st) ==
  LET own  == st.cfg.rootfs = "" /\ st.positional # <<>>
      rest == IF own THEN Tail(st.positional) ELSE st.positional IN
  [st EXCEPT !.failed = @ \/ st.pending # "",
             !.cfg.rootfs = IF own THEN Head(st.positional) ELSE @,
             !.cfg.command = IF rest # <<>> THEN rest ELSE @]

parse_run_pass(tokens, base) ==
  LET loop[i \in 0 .. Len(tokens)] == IF i = 0 THEN Start(base) ELSE Turn(loop[i - 1], tokens[i])
  IN Finish(loop[Len(tokens)])

(* Variant: one pass, in which the file is loaded where it is named.       *)
parse_run_one_pass(tokens) ==
  LET load(st, tok) ==
        LET t == Turn(st, tok) IN
        IF t.failed \/ t.config_path = st.config_path \/ t.config_path[1] \notin DOMAIN Files THEN t
        ELSE [t EXCEPT !.cfg = from_json(Files[t.config_path[1]])]
      st == Finish(FoldLeft(load, Start(Default), tokens))
  IN IF st.failed THEN Failure ELSE st.cfg

parse_run(tokens) ==
  LET probe == parse_run_pass(tokens, Default)
      path  == probe.config_path
      bad   == path # None /\ (path[1] \notin DOMAIN Files \/ ~DocOk(Files[path[1]]))
      base  == IF path = None THEN Default ELSE from_json(Files[path[1]])
      st    == parse_run_pass(tokens, base)
  IN IF probe.failed \/ bad \/ st.failed THEN Failure ELSE st.cfg

-----------------------------------------------------------------------------
(* finalize_and_validate, then security::precheck.                         *)

finalize(c, fresh) ==
  LET id   == IF c.id = "" THEN fresh ELSE c.id
      host == IF c.hostname # "" THEN c.hostname ELSE IF c.name # None THEN c.name[1] ELSE id IN
  [c EXCEPT !.id = id, !.hostname = host, !.env = set_env(@, <<"HOSTNAME", host>>),
            !.netns = IF c.mode = "host" THEN FALSE ELSE @,
            !.seccomp = IF c.privileged THEN "unconfined" ELSE @]

Distinct(c) == Cardinality({<<p.host_port, p.protocol>> : p \in ToSet(c.publish)}) = Len(c.publish)

(* Variant: the ports of a bridged container are not compared.             *)
validate_ports_apart(c) ==
  /\ c.hostname \notin Underscored
  /\ c.command # <<>> /\ c.command[1] # ""
  /\ c.rootfs \in Dirs \ {"/"}
  /\ c.memory # None => c.memory[1] >= MinMemory
  /\ c.memory # None /\ c.memory_swap # None => c.memory_swap[1] >= c.memory[1]
  /\ c.mode \in {"host", "none"} => c.publish = <<>>
  /\ c.mode = "bridge" => c.netns
  /\ c.mtu \in 68..MaxMtu
  /\ c.privileged \/ c.no_new_privs \/ c.seccomp = "unconfined"

(* c is finalized.                                                         *)
validate(c) ==
  /\ c.hostname \notin Underscored
  /\ c.command # <<>> /\ c.command[1] # ""
  /\ c.rootfs \in Dirs \ {"/"}
  /\ c.memory # None => c.memory[1] >= MinMemory
  /\ c.memory # None /\ c.memory_swap # None => c.memory_swap[1] >= c.memory[1]
  /\ c.mode \in {"host", "none"} => c.publish = <<>>
  /\ c.mode = "bridge" => c.netns /\ Distinct(c)
  /\ c.mtu \in 68..MaxMtu
  /\ c.privileged \/ c.no_new_privs \/ c.seccomp = "unconfined"

-----------------------------------------------------------------------------
(* What a command line means, whatever the order of its options.  A line   *)
(* is a list of options, the positional root file system if there is one,  *)
(* and the words of the command; `late' options stand between the two and  *)
(* `sep' says that a -- stands before the command.                         *)

Word1(text, dash) == [text |-> text, dash |-> dash, flag |-> IF dash THEN text ELSE "", inline |-> None]

Tokens(o) ==
  IF o.flag \in Switches THEN <<Word1(o.flag, TRUE)>>
  ELSE IF o.inline
    THEN <<[text |-> o.flag, dash |-> TRUE, flag |-> o.flag, inline |-> Some(o.text)]>>
    ELSE <<Word1(o.flag, TRUE), Word1(o.text, FALSE)>>

Option == [flag : STRING, text : STRING, inline : BOOLEAN]

Token == [text : STRING, dash : BOOLEAN, flag : STRING, inline : Seq(STRING)]

LineOk(l) ==
  /\ l.opts \in Seq(Option) /\ l.late \in Seq(Option) /\ l.command \in Seq(Token)
  /\ l.rootfs \in Seq(STRING) /\ Len(l.rootfs) <= 1

Render(l) ==
  LET opts(s) == FlattenSeq([i \in DOMAIN s |-> Tokens(s[i])]) IN
  opts(l.opts)
  \o (IF l.rootfs = None THEN <<>> ELSE <<Word1(l.rootfs[1], FALSE)>>)
  \o opts(l.late)
  \o (IF l.sep THEN <<Word1("--", TRUE)>> ELSE <<>>)
  \o l.command

Given(l, flag) ==
  LET all == SelectSeq(l.opts \o l.late, LAMBDA o : o.flag = flag) IN
  [i \in DOMAIN all |-> all[i].text]

LastOf(l, flag, default) == IF Given(l, flag) = <<>> THEN default ELSE Last(Given(l, flag))

Document(l) ==
  IF Given(l, "--config") = <<>> THEN <<>> ELSE Files[Last(Given(l, "--config"))]

AskedSize(l, doc, flag, key) ==
  IF Given(l, flag) # <<>> THEN Sizes[Last(Given(l, flag))]
  ELSE IF key \notin DOMAIN doc THEN None
  ELSE IF "text" \in DOMAIN doc[key] THEN Sizes[doc[key].text] ELSE Some(doc[key].int)

AskedMtu(l, doc) ==
  IF Given(l, "--mtu") = <<>> THEN Field(doc, "mtu", 1500) ELSE Sizes[Last(Given(l, "--mtu"))][1]

AskedPorts(l, doc) ==
  LET file  == Field(doc, "publish", <<>>)
      flags == Given(l, "--publish") IN
  [i \in DOMAIN file |-> IF "text" \in DOMAIN file[i] THEN Ports[file[i].text]
                         ELSE <<file[i].host, file[i].container, Field(file[i], "protocol", "tcp")>>]
  \o [i \in DOMAIN flags |-> Ports[flags[i]]]

AskedEnv(l, doc) ==
  LET all == Field(doc, "env", <<>>)
             \o [i \in DOMAIN Given(l, "--env") |-> Vars[Given(l, "--env")[i]]]
      keys == {all[i][1] : i \in DOMAIN all}
      lastFor(k) == CHOOSE i \in DOMAIN all :
                      all[i][1] = k /\ \A j \in DOMAIN all : j > i => all[j][1] # k
  IN [k \in keys |-> all[lastFor(k)][2]] @@ DefaultEnv

(* Does c say what line l asks for?  Options override the file, repeated   *)
(* ones add to it, the words are the command, and every port, MTU and size *)
(* is the number that was written.                                         *)
Means(c, l) ==
  LET doc   == Document(l)
      root  == LastOf(l, "--rootfs", Field(doc, "rootfs", ""))
      words == (IF root = "" THEN <<>> ELSE l.rootfs)
               \o [i \in DOMAIN l.command |-> l.command[i].text] IN
  /\ c.name = LET n == Given(l, "--name") IN IF n = <<>> THEN Field(doc, "name", None) ELSE Some(Last(n))
  /\ c.rootfs = IF root # "" THEN root ELSE IF l.rootfs # None THEN l.rootfs[1] ELSE ""
  /\ c.command = IF words # <<>> THEN words ELSE Field(doc, "command", <<>>)
  /\ c.read_only = (Field(doc, "read_only", FALSE) \/ Given(l, "--read-only") # <<>>)
  /\ c.privileged = (Field(doc, "privileged", FALSE) \/ Given(l, "--privileged") # <<>>)
  /\ c.mode = LastOf(l, "--network", Field(doc, "mode", "none"))
  /\ c.seccomp = IF c.privileged THEN "unconfined"
                 ELSE LastOf(l, "--seccomp", Field(doc, "seccomp", "default"))
  /\ c.cap_drop = Field(doc, "cap_drop", <<>>) \o Given(l, "--cap-drop")
  /\ c.memory = AskedSize(l, doc, "--memory", "memory")
  /\ c.memory_swap = AskedSize(l, doc, "--memory-swap", "memory_swap")
  /\ c.mtu = AskedMtu(l, doc)
  /\ [i \in DOMAIN c.publish |->
        <<c.publish[i].host_port, c.publish[i].container_port, c.publish[i].protocol>>]
       = AskedPorts(l, doc)
  /\ \A k \in DOMAIN AskedEnv(l, doc) : c.env[k] = AskedEnv(l, doc)[k]

(* Is what line l asks for possible?                                       *)
Sane(l) ==
  LET doc   == Document(l)
      root  == LastOf(l, "--rootfs", Field(doc, "rootfs", ""))
      mem   == AskedSize(l, doc, "--memory", "memory")
      swap  == AskedSize(l, doc, "--memory-swap", "memory_swap")
      ports == AskedPorts(l, doc)
      mode  == LastOf(l, "--network", Field(doc, "mode", "none"))
      name  == LastOf(l, "--name", IF Field(doc, "name", None) = None THEN "" ELSE doc.name[1])
      host  == Field(doc, "hostname", name)
      free  == Field(doc, "privileged", FALSE) \/ Given(l, "--privileged") # <<>>
  IN
  /\ (IF root # "" THEN root ELSE IF l.rootfs # None THEN l.rootfs[1] ELSE "") \in Dirs \ {"/"}
  /\ l.command # <<>> \/ (root # "" /\ l.rootfs # None) \/ Field(doc, "command", <<>>) # <<>>
  /\ host \notin Underscored
  /\ mem # None => mem[1] >= MinMemory /\ (swap # None => swap[1] >= mem[1])
  /\ \A i \in DOMAIN ports :
       ports[i][1] \in 1..65535 /\ ports[i][2] \in 1..65535 /\ ports[i][3] \in {"tcp", "udp"}
  /\ \A i, j \in DOMAIN ports : i # j => ports[i][1] # ports[j][1] \/ ports[i][3] # ports[j][3]
  /\ ports # <<>> => mode = "bridge"
  /\ mode = "bridge" => Field(doc, "netns", TRUE)
  /\ AskedMtu(l, doc) \in 68..MaxMtu
  /\ \/ free \/ Field(doc, "no_new_privs", TRUE)
     \/ LastOf(l, "--seccomp", Field(doc, "seccomp", "default")) = "unconfined"

(* The numbers of a file that from_json takes without a look: a port of    *)
(* the map form that is zero or too large, and its protocol; a negative    *)
(* size and an MTU that is negative or too large, if no option overrides   *)
(* them.                                                                   *)
Slips(l) ==
  LET doc == Document(l)
      size(flag, key) == /\ Given(l, flag) = <<>> /\ key \in DOMAIN doc
                         /\ "int" \in DOMAIN doc[key] /\ doc[key].int < 0
      port(e) == /\ "text" \notin DOMAIN e
                 /\ \/ \E n \in {e.host, e.container} : n = 0 \/ n >= U16
                    \/ Field(e, "protocol", "tcp") \notin Protocols
  IN \/ size("--memory", "memory") \/ size("--memory-swap", "memory_swap")
     \/ \E e \in ToSet(Field(doc, "publish", <<>>)) : port(e)
     \/ Given(l, "--mtu") = <<>> /\ Field(doc, "mtu", 1500) \notin 0 .. Half32 - 1
=============================================================================
