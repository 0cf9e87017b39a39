------------------------------- MODULE MCStore -------------------------------
(* Instances of Store for TLC: all command lines with up to two options     *)
(* from a small set, one at a time, and commands that overlap.              *)
EXTENDS Store

MCProcess == {"p1", "p2", "p3", "rm"}

MCFresh == [p \in MCProcess |-> CASE p = "p1" -> "a1" [] p = "p2" -> "a2" [] OTHER -> p]

MCStartsWith == {<<"a1", "a">>, <<"a2", "a">>, <<"aa", "a">>}

Published(e) == [rootfs |-> "r", mode |-> "bridge", publish |-> <<e>>]

MCFiles ==
  "web" :> [rootfs |-> "r", command |-> <<"serve">>, name |-> Some("web"), mode |-> "bridge",
            memory |-> [text |-> "16"], cap_drop |-> <<"MKNOD">>,
            publish |-> <<[host |-> 8080, container |-> 80]>>, env |-> <<<<"PATH", "file">>>>]
  @@ "ids" :> [id |-> "aa", rootfs |-> "r", no_new_privs |-> FALSE, memory |-> [int |-> 16383],
               publish |-> <<[text |-> "9090:90"]>>, seccomp |-> "unconfined", mtu |-> 9000]
  \* in range and not acceptable, or overridden by an option
  @@ "zero"  :> Published([text |-> "0:80"])
  @@ "minus" :> Published([host |-> -1, container |-> 80])
  @@ "low"   :> [rootfs |-> "r", memory |-> [int |-> 4]]
  @@ "slow"  :> [rootfs |-> "r", mtu |-> 40]
  @@ "neg"   :> [rootfs |-> "r", memory |-> [int |-> -1]]
  @@ "cut"   :> [rootfs |-> "r", mtu |-> 262144 + 1500]
  \* what from_json does not look at
  @@ "wide"  :> Published([host |-> 65616, container |-> 80])
  @@ "null"  :> Published([host |-> 8080, container |-> 0])
  @@ "sctp"  :> Published([host |-> 8080, container |-> 80, protocol |-> "sctp"])

MCPorts ==
  "8080:80" :> <<8080, 80, "tcp">> @@ "8080:80/udp" :> <<8080, 80, "udp">>
  @@ "9090:90" :> <<9090, 90, "tcp">> @@ "9090:90/sctp" :> <<9090, 90, "sctp">>
  @@ "0:80" :> <<0, 80, "tcp">> @@ "65536:80" :> <<65536, 80, "tcp">>

MCSizes ==
  [t \in {"16", "4", "40", "9000", "max"} |->
     CASE t = "16" -> Some(16) [] t = "4" -> Some(4) [] t = "40" -> Some(40)
       [] t = "9000" -> Some(9000) [] OTHER -> None]

MCVars == "PATH=x" :> <<"PATH", "x">>

Opt(f, t, i) == [flag |-> f, text |-> t, inline |-> i]

Options ==
  {Opt(f, "", FALSE) : f \in Switches}
  \cup {Opt("--config", t, FALSE) : t \in {"web", "ids", "zero", "minus", "low", "slow", "neg", "cut"}}
  \cup {Opt("--name", "db", TRUE), Opt("--name", "my_db", FALSE), Opt("--rootfs", "r2", FALSE),
        Opt("--rootfs", "/", TRUE), Opt("--env", "PATH=x", TRUE), Opt("--cap-drop", "ALL", FALSE),
        Opt("--seccomp", "strict", FALSE), Opt("--mtu", "40", FALSE), Opt("--mtu", "9000", TRUE),
        Opt("--memory-swap", "40", FALSE)}
  \cup {Opt("--memory", t, FALSE) : t \in {"16", "4", "max"}}
  \cup {Opt("--network", t, FALSE) : t \in {"bridge", "host"}}
  \cup {Opt("--publish", t, FALSE) : t \in DOMAIN MCPorts}

Line(opts, root, late, sep, command) ==
  [opts |-> opts, rootfs |-> root, late |-> late, sep |-> sep, command |-> command]

Ls    == <<Word1("ls", FALSE)>>
LsL   == <<Word1("ls", FALSE), Word1("-l", TRUE)>>

OptLists == {<<>>} \cup {<<o>> : o \in Options} \cup {<<o, q>> : o \in Options, q \in Options}

MCLines ==
  {Line(s, Some("r"), <<>>, FALSE, LsL) : s \in OptLists}
  \cup {Line(<<s[1]>>, Some("r"), Tail(s), TRUE, LsL) : s \in OptLists \ {<<>>}}
  \cup {Line(s, None, <<>>, TRUE, LsL) : s \in OptLists}
  \cup {Line(s, None, <<>>, FALSE, c) : s \in OptLists, c \in {<<>>, Ls}}

Create(l) == [kind |-> "create", line |-> l]

Rm(text) == [kind |-> "rm", needle |-> text]

Alone(l) == [p \in MCProcess |-> IF p = "p1" THEN Create(l) ELSE Idle]

Plain(opts) == Line(opts, Some("r"), <<>>, FALSE, Ls)

NamedA == Plain(<<Opt("--name", "a", FALSE)>>)
Web    == Plain(<<Opt("--name", "web", FALSE)>>)
OwnId  == Line(<<Opt("--config", "ids", FALSE), Opt("--network", "bridge", FALSE)>>, None, <<>>, FALSE, Ls)
OwnIdWeb == [OwnId EXCEPT !.opts = Append(@, Opt("--name", "web", FALSE))]

Race(c1, c2, c3, r) ==
  [p \in MCProcess |-> CASE p = "p1" -> c1 [] p = "p2" -> c2 [] p = "p3" -> c3 [] p = "rm" -> r]

MCRaces ==
  {Race(Create(Web), Create(Web), Idle, Rm("web")),
   Race(Create(OwnId), Create(OwnId), Idle, Rm("a")),
   Race(Create(OwnId), Create(OwnIdWeb), Create(Web), Idle),
   Race(Create(Web), Create(Web), Rm("a1"), Rm("web")),
   Race(Create(Plain(<<>>)), Idle, Create(NamedA), Rm("a")),
   Race(Create(Plain(<<>>)), Create(Plain(<<>>)), Idle, Rm("a1"))}
  \cup {Race(Create(Plain(<<>>)), Create(Plain(<<>>)), Idle, Rm(t)) : t \in {"a", "b"}}

MCScenarios == {Alone(l) : l \in MCLines} \cup MCRaces

(* What the further instance is about: two creates of one name, a name that *)
(* begins an id, options after the command, and the numbers that slip.      *)
MCExceptions ==
  {Race(Create(Web), Create(Web), Idle, Idle),
   Race(Create(NamedA), Create(Plain(<<>>)), Idle, Rm("a")),
   Alone(Line(<<Opt("--rootfs", "r", FALSE)>>, None, <<>>, FALSE, LsL))}
  \cup {Alone(Line(<<Opt("--config", t, FALSE)>>, None, <<>>, FALSE, Ls)) :
          t \in {"wide", "null", "sctp", "neg", "cut"}}
=============================================================================
