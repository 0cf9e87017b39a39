---------------------------- MODULE Store_proofs ----------------------------
(***************************************************************************)
(* Proofs about Store, for any number of creates and rms, killed commands  *)
(* included.                                                               *)
(***************************************************************************)
EXTENDS Store, FiniteSetTheorems, SequenceTheorems, WellFoundedInduction, TLAPS

-----------------------------------------------------------------------------
(* Invariants.                                                             *)

(* The state.json of a directory, if there is one.                         *)
StateOf(i) == IF i \in DOMAIN store THEN store[i].state ELSE None

By(i) == StateOf(i)[1].by

Name(p) == conf[p][1].name

(* Between the check of the id and the first save.                         *)
Checked == {"scan", "names", "mkdir", "config", "save"}

RmSteps == {"resolve", "list", "match", "load", "teardown", "remove", "unlink"}

(* A state or record that create `by' of id i has made.                    *)
MadeBy(i, st) ==
  /\ st.by \in Process /\ conf[st.by] # None /\ Id(st.by) = i
  /\ pc[st.by] \in {"created", "done", "dead"} /\ st.conf.name = Name(st.by)

Shape ==
  /\ DOMAIN pc = Process /\ DOMAIN conf = Process /\ DOMAIN todo = Process
  /\ DOMAIN found = Process /\ DOMAIN record = Process /\ DOMAIN left = Process
  /\ \A p \in Process :
       /\ pc[p] \in Before \cup RmSteps \cup Ended \cup {"parse", "created"}
       /\ todo[p] \in Seq(ToSet(todo[p]))
       /\ pc[p] = "parse" => conf[p] = None
       /\ pc[p] \in Before \cup {"created"} => conf[p] # None

Records ==
  /\ IsFiniteSet(DOMAIN store)
  /\ \A i \in DOMAIN store : DOMAIN store[i] = {"config", "state"}
  /\ \A i : StateOf(i) # None =>
       /\ DOMAIN StateOf(i)[1] = {"conf", "status", "by"} /\ "name" \in DOMAIN StateOf(i)[1].conf
       /\ MadeBy(i, StateOf(i)[1])

Loaded == \A r \in Process : pc[r] = "teardown" => MadeBy(Chosen(r), record[r][1])

(* No incident has touched this id.                                        *)
Clean(i) == i \notin undermined /\ ~Contested(i)

(* A create that has saved once still finds its record.                    *)
OwnThere ==
  \A q \in Process : pc[q] = "created" /\ Clean(Id(q)) =>
    StateOf(Id(q)) # None /\ By(Id(q)) = q

(* What rm has loaded is still there.                                      *)
LoadedThere ==
  \A r \in Process : pc[r] = "teardown" /\ Clean(Chosen(r)) =>
    StateOf(Chosen(r)) # None /\ By(Chosen(r)) = record[r][1].by

(* No other create of an id is past its check while the id is taken.       *)
IdTaken ==
  \A i : StateOf(i) # None /\ Clean(i) =>
    \A q \in Process : q # By(i) /\ conf[q] # None /\ Id(q) = i => pc[q] \notin Checked

(* Create q of another id can still find the name that i has taken.        *)
Finds(q, i) ==
  /\ pc[q] = "names" => i \in ToSet(todo[q])
  /\ pc[q] \notin {"mkdir", "config", "save", "created"}
  /\ StateOf(Id(q)) # None => By(Id(q)) # q

NameTaken ==
  \A i : StateOf(i) # None /\ Clean(i) /\ Name(By(i)) # None =>
    \A q \in Process :
       conf[q] # None /\ Id(q) # i /\ Clean(Id(q)) /\ Name(q) = Name(By(i)) /\ {By(i), q} \notin raced
         => Finds(q, i)

Inv == Shape /\ Records /\ Loaded /\ OwnThere /\ LoadedThere /\ IdTaken /\ NameTaken

-----------------------------------------------------------------------------
(* Sequences.                                                              *)

LEMMA OfItsElements ==
  ASSUME NEW S, NEW s \in Seq(S)
  PROVE  s \in Seq(ToSet(s)) /\ ToSet(s) \subseteq S
<1>1. Len(s) \in Nat /\ DOMAIN s = 1 .. Len(s) /\ s \in [1 .. Len(s) -> S]
  BY LenProperties
<1>2. s \in [1 .. Len(s) -> ToSet(s)]
  BY <1>1 DEF ToSet
<1>3. s \in Seq(ToSet(s))
  BY <1>1, <1>2
<1>4. ToSet(s) \subseteq S
  BY <1>1 DEF ToSet
<1> QED
  BY <1>3, <1>4

LEMMA HeadAndTail ==
  ASSUME NEW s, s \in Seq(ToSet(s)), s # <<>>
  PROVE  /\ Tail(s) \in Seq(ToSet(Tail(s))) /\ Head(s) \in ToSet(s)
         /\ \A x \in ToSet(s) : x = Head(s) \/ x \in ToSet(Tail(s))
         /\ ToSet(Tail(s)) \subseteq ToSet(s)
<1> DEFINE S == ToSet(s)
<1>1. s \in Seq(S) /\ Len(s) \in Nat /\ Len(s) > 0 /\ DOMAIN s = 1 .. Len(s)
  BY LenProperties, EmptySeq
<1>2. Tail(s) \in Seq(S) /\ Len(Tail(s)) = Len(s) - 1
      /\ \A i \in 1 .. Len(Tail(s)) : Tail(s)[i] = s[i + 1]
  <2> HIDE DEF S
  <2> QED
    BY <1>1, HeadTailProperties
<1>3. Tail(s) \in Seq(ToSet(Tail(s)))
  <2> HIDE DEF S
  <2> QED
    BY <1>2, OfItsElements
<1>4. DOMAIN Tail(s) = 1 .. Len(s) - 1
  <2> HIDE DEF S
  <2> QED
    BY <1>1, <1>2, LenProperties
<1>5. Head(s) = s[1] /\ 1 \in DOMAIN s
  <2> HIDE DEF S
  <2> QED
    BY <1>1
<1>6. Head(s) \in ToSet(s)
  BY <1>5 DEF ToSet
<1>7. ASSUME NEW x \in ToSet(s) PROVE x = Head(s) \/ x \in ToSet(Tail(s))
  <2>1. PICK i \in DOMAIN s : x = s[i]
    BY DEF ToSet
  <2>2. CASE i = 1
    BY <2>1, <2>2, <1>5
  <2>3. CASE i # 1
    <3>1. i - 1 \in 1 .. Len(s) - 1 /\ Tail(s)[i - 1] = s[(i - 1) + 1] /\ (i - 1) + 1 = i
      BY <1>1, <1>2, <2>1, <2>3
    <3> QED
      BY <3>1, <1>4, <2>1 DEF ToSet
  <2> QED
    BY <2>2, <2>3
<1>8. ToSet(Tail(s)) \subseteq ToSet(s)
  BY <1>2, OfItsElements
<1> QED
  BY <1>3, <1>6, <1>7, <1>8

LEMMA ListOfSet ==
  ASSUME NEW S, IsFiniteSet(S)
  PROVE  SetToSeq(S) \in Seq(S) /\ ToSet(SetToSeq(S)) = S /\ IsInjective(SetToSeq(S))
<1> DEFINE n == Cardinality(S)
<1>1. n \in Nat /\ ExistsBijection(1 .. n, S)
  BY FS_CardinalityType
<1>2. PICK f \in [1 .. n -> S] : IsInjective(f)
  BY <1>1 DEF ExistsBijection, Bijection, Injection, IsInjective
<1>3. SetToSeq(S) \in [1 .. n -> S] /\ IsInjective(SetToSeq(S))
  BY <1>2 DEF SetToSeq
<1>4. SetToSeq(S) \in Injection(1 .. n, S)
  BY <1>3 DEF Injection, IsInjective
<1>5. Cardinality(1 .. n) = n
  BY <1>1, FS_Interval
<1>6. SetToSeq(S) \in Surjection(1 .. n, S)
  BY <1>4, <1>5, FS_Injection
<1>7. ToSet(SetToSeq(S)) = S
  BY <1>3, <1>6 DEF Surjection, ToSet
<1> QED
  BY <1>1, <1>3, <1>7

-----------------------------------------------------------------------------
(* What a step does.                                                       *)

(* No state.json changes.                                                  *)
Quiet == \A i : StateOf(i)' = StateOf(i)

LEMMA UpdateIs ==
  ASSUME NEW id, NEW d, Update(id, d)
  PROVE  /\ \A i : StateOf(i)' = IF i = id THEN d.state ELSE StateOf(i)
         /\ DOMAIN store' = DOMAIN store \cup {id}
         /\ store'[id] = d /\ \A i \in DOMAIN store : i # id => store'[i] = store[i]
  BY DEF Update, StateOf

LEMMA ContentsIs ==
  ASSUME NEW i
  PROVE  Contents(i).state = StateOf(i)
  BY DEF Contents, StateOf, Dir

LEMMA SameContents ==
  ASSUME NEW id, Update(id, Contents(id))
  PROVE  Quiet
<1>1. \A i : StateOf(i)' = IF i = id THEN Contents(id).state ELSE StateOf(i)
  BY UpdateIs
<1> QED
  BY <1>1, ContentsIs DEF Quiet

LEMMA ContentsFields ==
  ASSUME Records, NEW i
  PROVE  DOMAIN Contents(i) = {"config", "state"}
  BY DEF Contents, Dir, Records

LEMMA ExistsIs ==
  ASSUME NEW i
  PROVE  /\ exists(i) <=> StateOf(i) # None
         /\ i \in Ids <=> StateOf(i) # None
         /\ StateOf(i) # None => i \in DOMAIN store /\ NameOf(i) = StateOf(i)[1].conf.name
  BY DEF exists, StateOf, Ids, NameOf

(* Other processes go on as they were.                                     *)
Alone(p) ==
  /\ \A q \in Process \ {p} :
       /\ pc'[q] = pc[q] /\ conf'[q] = conf[q] /\ todo'[q] = todo[q]
       /\ found'[q] = found[q] /\ record'[q] = record[q]
  /\ undermined \subseteq undermined' /\ raced \subseteq raced'
  /\ conf'[p] = conf[p] \/ (pc[p] = "parse" /\ pc'[p] = "exists" /\ conf'[p] # None)

(* How a create gets from one step to the next.                            *)
Moves(p) ==
  /\ pc'[p] = "exists" => pc[p] = "parse" /\ conf'[p] # None
  /\ pc'[p] = "scan" => pc[p] = "exists" /\ StateOf(Id(p)) = None
  /\ pc'[p] = "names" => \/ pc[p] = "scan" /\ todo'[p] = ids
                         \/ /\ pc[p] = "names" /\ todo[p] # <<>> /\ todo'[p] = Tail(todo[p])
                            /\ NameOf(Head(todo[p])) # Name(p)
  /\ pc'[p] = "mkdir" => \/ pc[p] = "exists" /\ StateOf(Id(p)) = None /\ Name(p) = None
                         \/ pc[p] = "names" /\ todo[p] = <<>>
  /\ pc'[p] = "config" => pc[p] = "mkdir"
  /\ pc'[p] = "save" => pc[p] = "config"
  /\ pc'[p] = "created" => pc[p] = "save"
  /\ pc[p] \in {"created", "done", "dead"} => pc'[p] \in {"done", "dead"}
  /\ pc'[p] = "teardown" =>
       /\ pc[p] = "load" /\ StateOf(Chosen(p)) # None /\ found'[p] = found[p]
       /\ record'[p] = <<state_from_json(StateOf(Chosen(p))[1])>>

Saves(p) ==
  /\ pc[p] \in {"save", "created"} /\ conf'[p] = conf[p]
  /\ \E status : \A i : StateOf(i)' = IF i = Id(p) THEN <<state_to_json(conf[p][1], status, p)>> ELSE StateOf(i)
  /\ Rivals(p) \subseteq raced'
  /\ pc[p] = "save" => pc'[p] = "created"
  /\ pc[p] = "created" => pc'[p] = "done"

Resaves(p) ==
  LET id == Chosen(p)
      st == record[p][1] IN
  /\ pc[p] = "teardown" /\ pc'[p] = "remove"
  /\ \A i : StateOf(i)' = IF i = id THEN <<state_to_json(st.conf, st.status, st.by)>> ELSE StateOf(i)
  /\ Creating(id) # {} => id \in undermined'

Unlinks(p) ==
  LET id == Chosen(p) IN
  /\ pc[p] = "unlink" /\ pc'[p] = "unlink"
  /\ \A i : StateOf(i)' = IF i = id THEN None ELSE StateOf(i)
  /\ Creating(id) \cup Reviving(id) # {} => id \in undermined'

Effect(p) ==
  /\ Alone(p) /\ Moves(p)
  /\ (Quiet /\ pc'[p] # "created") \/ Saves(p) \/ Resaves(p) \/ Unlinks(p)

LEMMA StepEffect ==
  ASSUME Shape, Records, NEW p \in Process, Step(p)
  PROVE  Effect(p)
<1> USE DEF Shape, Alone, Moves, Goto, At, Steady, rmVars, history
<1>1. CASE Parse(p)
  <2>1. \/ pc' = [pc EXCEPT ![p] = "error"] /\ conf' = conf
        \/ pc' = [pc EXCEPT ![p] = "exists"] /\ \E c : conf' = [conf EXCEPT ![p] = <<c>>]
    BY <1>1 DEF Parse, Some
  <2>2. \/ conf'[p] = conf[p] /\ pc'[p] = "error"
        \/ conf'[p] # None /\ pc'[p] = "exists"
    <3>1. CASE pc' = [pc EXCEPT ![p] = "error"] /\ conf' = conf
      BY <3>1 DEF Shape
    <3>2. CASE pc' = [pc EXCEPT ![p] = "exists"] /\ \E c : conf' = [conf EXCEPT ![p] = <<c>>]
      <4>1. PICK c : conf' = [conf EXCEPT ![p] = <<c>>]
        BY <3>2
      <4>2. conf'[p] = <<c>> /\ pc'[p] = "exists"
        BY <3>2, <4>1 DEF Shape
      <4>3. <<c>> # <<>>
        OBVIOUS
      <4> QED
        BY <4>2, <4>3 DEF None
    <3> QED
      BY <2>1, <3>1, <3>2
  <2> QED
    BY <1>1, <2>1, <2>2 DEF Effect, Parse, Quiet, StateOf
<1>2. CASE CheckId(p)
  BY <1>2, ExistsIs DEF Effect, CheckId, Quiet, StateOf, Name
<1>3. CASE Scan(p)
  BY <1>3 DEF Effect, Scan, Quiet, StateOf
<1>4. CASE CheckName(p)
  BY <1>4 DEF Effect, CheckName, Quiet, StateOf, Name
<1>5. CASE MakeDir(p)
  <2>1. Quiet
    <3>1. Update(Id(p), Contents(Id(p)))
      BY <1>5 DEF MakeDir
    <3> QED
      BY <3>1, SameContents
  <2> QED
    BY <1>5, <2>1 DEF Effect, MakeDir
<1>6. CASE WriteConfig(p)
  <2>1. Quiet
    <3>1. CASE Id(p) \notin DOMAIN store
      BY <1>6, <3>1 DEF WriteConfig, Quiet, StateOf
    <3>2. CASE Id(p) \in DOMAIN store
      <4> DEFINE d == [store[Id(p)] EXCEPT !.config = Some(to_json(conf[p][1]))]
      <4>1. d.state = StateOf(Id(p))
        BY <3>2 DEF StateOf, Records
      <4>2. Update(Id(p), d)
        BY <1>6, <3>2 DEF WriteConfig
      <4> QED
        BY <4>1, <4>2, UpdateIs DEF Quiet
    <3> QED
      BY <3>1, <3>2
  <2> QED
    BY <1>6, <2>1 DEF Effect, WriteConfig
<1>7. ASSUME NEW status, Save(p, status) PROVE \A i : StateOf(i)' = IF i = Id(p) THEN <<state_to_json(conf[p][1], status, p)>> ELSE StateOf(i)
  <2> DEFINE d == [Contents(Id(p)) EXCEPT !.state = Some(state_to_json(conf[p][1], status, p))]
  <2>1. d.state = <<state_to_json(conf[p][1], status, p)>>
    BY ContentsFields DEF Some
  <2>2. Update(Id(p), d)
    BY <1>7 DEF Save
  <2>3. \A i : StateOf(i)' = IF i = Id(p) THEN d.state ELSE StateOf(i)
    BY <2>2, UpdateIs
  <2> QED
    BY <2>1, <2>3
<1>8. CASE SaveCreating(p)
  <2>1. Saves(p)
    BY <1>7, <1>8 DEF SaveCreating, Saves, Save
  <2> QED
    BY <1>8, <2>1 DEF Effect, SaveCreating, Save
<1>9. CASE SaveCreated(p)
  <2>1. Saves(p)
    BY <1>7, <1>9 DEF SaveCreated, Saves, Save
  <2> QED
    BY <1>9, <2>1 DEF Effect, SaveCreated, Save
<1>10. CASE ResolveId(p)
  BY <1>10 DEF Effect, ResolveId, Quiet, StateOf
<1>11. CASE ListIds(p)
  BY <1>11 DEF Effect, ListIds, Quiet, StateOf
<1>12. CASE Match(p)
  BY <1>12 DEF Effect, Match, Quiet, StateOf
<1>13. CASE Decide(p)
  BY <1>13 DEF Effect, Decide, Quiet, StateOf
<1>14. CASE Load(p)
  <2>1. Quiet
    <3>1. Update(Chosen(p), Contents(Chosen(p)))
      BY <1>14 DEF Load
    <3> QED
      BY <3>1, SameContents
  <2>2. exists(Chosen(p)) => StateOf(Chosen(p)) = store[Chosen(p)].state /\ StateOf(Chosen(p)) # None
    BY ExistsIs DEF StateOf
  <2> QED
    BY <1>14, <2>1, <2>2 DEF Effect, Load, Some
<1>15. CASE Teardown(p)
  <2> DEFINE id == Chosen(p)
             st == record[p][1]
             d == [Contents(id) EXCEPT !.state = Some(state_to_json(st.conf, st.status, st.by))]
  <2>1. d.state = <<state_to_json(st.conf, st.status, st.by)>>
    BY ContentsFields DEF Some
  <2>2. Update(id, d)
    BY <1>15 DEF Teardown
  <2>4. \A i : StateOf(i)' = IF i = id THEN d.state ELSE StateOf(i)
    BY <2>2, UpdateIs
  <2>3. Resaves(p)
    BY <1>15, <2>1, <2>4 DEF Teardown, Resaves, Undermine
  <2> QED
    BY <1>15, <2>3 DEF Effect, Teardown, Undermine
<1>16. CASE ReadDir(p)
  BY <1>16 DEF Effect, ReadDir, Quiet, StateOf
<1>17. CASE Unlink(p)
  <2> DEFINE id == Chosen(p)
  <2>1. PICK f \in left[p] : IF id \in DOMAIN store THEN Update(id, [store[id] EXCEPT ![f] = None]) ELSE UNCHANGED store
    BY <1>17 DEF Unlink
  <2>2. Quiet \/ Unlinks(p)
    <3>1. CASE id \notin DOMAIN store
      BY <2>1, <3>1 DEF Quiet, StateOf
    <3>2. CASE id \in DOMAIN store
      <4> DEFINE d == [store[id] EXCEPT ![f] = None]
      <4>1. d.state = None \/ d.state = StateOf(id)
        BY <3>2 DEF Records, StateOf
      <4>2. \A i : StateOf(i)' = IF i = id THEN d.state ELSE StateOf(i)
        BY <2>1, <3>2, UpdateIs
      <4>3. CASE d.state = StateOf(id)
        BY <4>2, <4>3 DEF Quiet
      <4>4. CASE d.state = None
        BY <1>17, <4>2, <4>4 DEF Unlinks, Unlink, Undermine
      <4> QED
        BY <4>1, <4>3, <4>4
    <3> QED
      BY <3>1, <3>2
  <2> QED
    BY <1>17, <2>2 DEF Effect, Unlink, Undermine
<1>18. CASE Rmdir(p)
  <2>1. Quiet
    <3> DEFINE id == Chosen(p)
    <3>1. CASE Contents(id) = Dir(None, None)
      <4>1. StateOf(id) = None
        BY <3>1, ContentsIs DEF Dir
      <4>2. store' = [i \in DOMAIN store \ {id} |-> store[i]]
        BY <1>18, <3>1 DEF Rmdir
      <4> QED
        BY <4>1, <4>2 DEF Quiet, StateOf
    <3>2. CASE Contents(id) # Dir(None, None)
      BY <1>18, <3>2 DEF Rmdir, Quiet, StateOf
    <3> QED
      BY <3>1, <3>2
  <2> QED
    BY <1>18, <2>1 DEF Effect, Rmdir, Undermine
<1>19. CASE Crash(p)
  BY <1>19 DEF Effect, Crash, Quiet, StateOf, Ended
<1> QED
  BY <1>1, <1>2, <1>3, <1>4, <1>5, <1>6, <1>8, <1>9, <1>10, <1>11, <1>12, <1>13, <1>14, <1>15,
     <1>16, <1>17, <1>18, <1>19 DEF Step

-----------------------------------------------------------------------------
(* The name of a container survives JSON.                                  *)

LEMMA OverIs ==
  ASSUME NEW f, NEW g
  PROVE  /\ DOMAIN Over(f, g) = DOMAIN f \cup DOMAIN g
         /\ \A x \in DOMAIN f : Over(f, g)[x] = f[x]
         /\ \A x \in DOMAIN g \ DOMAIN f : Over(f, g)[x] = g[x]
  BY DEF Over

LEMMA NameWritten ==
  ASSUME NEW c
  PROVE  "name" \in DOMAIN to_json(c) /\ to_json(c).name = c.name
<1> DEFINE own == [id |-> c.id, name |-> c.name, rootfs |-> c.rootfs, command |-> c.command,
                   hostname |-> c.hostname, env |-> EnvDoc(c.env), read_only |-> c.read_only]
           rest == Over(resources_to_json(c),
                        Over(network_to_json(c), Over(security_to_json(c), namespaces_to_json(c))))
<1>1. to_json(c) = Over(own, rest)
  BY DEF to_json
<1>2. "name" \in DOMAIN own /\ own["name"] = c.name
  OBVIOUS
<1> HIDE DEF own, rest
<1>3. "name" \in DOMAIN Over(own, rest) /\ Over(own, rest)["name"] = c.name
  BY <1>2, OverIs
<1> QED
  BY <1>1, <1>3

LEMMA NameRead ==
  ASSUME NEW doc, "name" \in DOMAIN doc
  PROVE  from_json(doc).name = doc.name
<1> DEFINE own == [Default EXCEPT
                !.id = Field(doc, "id", ""),
                !.name = Field(doc, "name", None),
                !.rootfs = Field(doc, "rootfs", ""),
                !.command = Field(doc, "command", <<>>),
                !.hostname = Field(doc, "hostname", ""),
                !.env = set_each(DefaultEnv, Field(doc, "env", <<>>)),
                !.read_only = Field(doc, "read_only", FALSE)]
<1>1. "name" \in DOMAIN own /\ own.name = doc.name
  BY DEF Default, Field
<1>2. from_json(doc) = namespaces_from_json(security_from_json(network_from_json(resources_from_json(own, doc), doc), doc), doc)
  BY DEF from_json
<1> HIDE DEF own
<1>3. ASSUME NEW c, "name" \in DOMAIN c
      PROVE  /\ "name" \in DOMAIN resources_from_json(c, doc) /\ resources_from_json(c, doc).name = c.name
             /\ "name" \in DOMAIN network_from_json(c, doc) /\ network_from_json(c, doc).name = c.name
             /\ "name" \in DOMAIN security_from_json(c, doc) /\ security_from_json(c, doc).name = c.name
             /\ namespaces_from_json(c, doc).name = c.name
  BY <1>3 DEF resources_from_json, network_from_json, security_from_json, namespaces_from_json
<1> QED
  BY <1>1, <1>2, <1>3

-----------------------------------------------------------------------------
(* Shapes and records.                                                     *)

LEMMA CleanBefore ==
  ASSUME Shape, NEW p \in Process, Alone(p), NEW i, Clean(i)'
  PROVE  Clean(i)
<1>1. \A q \in Process : conf[q] # None => conf'[q] = conf[q]
  BY DEF Shape, Alone
<1>2. Contested(i) => Contested(i)'
  BY <1>1 DEF Contested, Id, Alone
<1> QED
  BY <1>2 DEF Clean, Alone

LEMMA MadeByStays ==
  ASSUME Shape, NEW p \in Process, Alone(p), Moves(p), NEW i, NEW st, MadeBy(i, st)
  PROVE  MadeBy(i, st)'
<1>1. conf'[st.by] = conf[st.by]
  BY DEF Shape, Alone, MadeBy
<1>2. pc'[st.by] \in {"created", "done", "dead"}
  BY DEF Alone, Moves, MadeBy
<1> QED
  BY <1>1, <1>2 DEF MadeBy, Id, Name

LEMMA IdsListed ==
  ASSUME Records
  PROVE  ids \in Seq(ToSet(ids)) /\ ToSet(ids) = Ids
<1>1. IsFiniteSet(Ids)
  BY FS_Subset DEF Ids, Records
<1> QED
  BY <1>1, ListOfSet, OfItsElements DEF ids

LEMMA ShapeStep ==
  ASSUME Shape, Records, NEW p \in Process, Step(p)
  PROVE  Shape'
<1> USE DEF Goto, At, Steady, rmVars, history
<1>1. Alone(p)
  BY StepEffect DEF Effect
<1>2. /\ DOMAIN pc' = Process /\ DOMAIN conf' = Process /\ DOMAIN todo' = Process
      /\ DOMAIN found' = Process /\ DOMAIN record' = Process /\ DOMAIN left' = Process
  BY DEF Shape, Step, Parse, CheckId, Scan, CheckName, MakeDir, WriteConfig, SaveCreating, SaveCreated, Save,
     ResolveId, ListIds, Match, Decide, Load, Teardown, ReadDir, Unlink, Rmdir, Crash
<1>3. todo'[p] \in {todo[p], ids, <<>>} \/ (todo[p] # <<>> /\ todo'[p] = Tail(todo[p]))
  BY DEF Shape, Step, Parse, CheckId, Scan, CheckName, MakeDir, WriteConfig, SaveCreating, SaveCreated, Save,
     ResolveId, ListIds, Match, Decide, Load, Teardown, ReadDir, Unlink, Rmdir, Crash
<1>4. todo'[p] \in Seq(ToSet(todo'[p]))
  <2>1. <<>> \in Seq(ToSet(<<>>))
    OBVIOUS
  <2> QED
    BY <1>3, <2>1, HeadAndTail, IdsListed DEF Shape
<1>5. pc'[p] \in Before \cup RmSteps \cup Ended \cup {"created"}
  BY DEF Shape, Step, Parse, CheckId, Scan, CheckName, MakeDir, WriteConfig, SaveCreating, SaveCreated, Save,
     ResolveId, ListIds, Match, Decide, Load, Teardown, ReadDir, Unlink, Rmdir, Crash,
     Before, RmSteps, Ended
<1>6. pc'[p] \in Before \cup {"created"} => conf'[p] # None
  <2>1. pc'[p] \in Before \cup {"created"} => pc[p] \in Before \/ pc'[p] = "exists"
    BY StepEffect DEF Effect, Moves, Before
  <2> QED
    BY <1>1, <2>1, StepEffect DEF Shape, Alone, Effect, Moves, Before
<1> QED
  BY <1>1, <1>2, <1>4, <1>5, <1>6 DEF Shape, Alone, Before, RmSteps, Ended

LEMMA RecordsStep ==
  ASSUME Shape, Records, Loaded, NEW p \in Process, Step(p)
  PROVE  Records' /\ Loaded'
<1> USE DEF Goto, At, Steady, rmVars, history
<1>0. Alone(p) /\ Moves(p) /\ (Quiet \/ Saves(p) \/ Resaves(p) \/ Unlinks(p))
  BY StepEffect DEF Effect
<1>1. IsFiniteSet(DOMAIN store') /\ \A i \in DOMAIN store' : DOMAIN store'[i] = {"config", "state"}
  <2>1. ASSUME NEW id, NEW d, Update(id, d), DOMAIN d = {"config", "state"}
        PROVE  IsFiniteSet(DOMAIN store') /\ \A i \in DOMAIN store' : DOMAIN store'[i] = {"config", "state"}
    <3>1. IsFiniteSet(DOMAIN store \cup {id})
      BY FS_AddElement DEF Records
    <3>2. /\ DOMAIN store' = DOMAIN store \cup {id}
          /\ store'[id] = d /\ \A i \in DOMAIN store : i # id => store'[i] = store[i]
      BY <2>1, UpdateIs
    <3> QED
      BY <2>1, <3>1, <3>2 DEF Records
  <2>2. CASE UNCHANGED store
    BY <2>2 DEF Records
  <2>3. CASE MakeDir(p)
    <3>1. Update(Id(p), Contents(Id(p)))
      BY <2>3 DEF MakeDir
    <3> QED
      BY <3>1, <2>1, ContentsFields
  <2>4. CASE WriteConfig(p) /\ Id(p) \in DOMAIN store
    <3> DEFINE d == [store[Id(p)] EXCEPT !.config = Some(to_json(conf[p][1]))]
    <3>1. Update(Id(p), d) /\ DOMAIN d = {"config", "state"}
      BY <2>4 DEF WriteConfig, Records
    <3> HIDE DEF d
    <3> QED
      BY <3>1, <2>1
  <2>5. ASSUME NEW status, Save(p, status)
        PROVE  IsFiniteSet(DOMAIN store') /\ \A i \in DOMAIN store' : DOMAIN store'[i] = {"config", "state"}
    <3> DEFINE d == [Contents(Id(p)) EXCEPT !.state = Some(state_to_json(conf[p][1], status, p))]
    <3>1. Update(Id(p), d) /\ DOMAIN d = {"config", "state"}
      BY <2>5, ContentsFields DEF Save
    <3> HIDE DEF d
    <3> QED
      BY <3>1, <2>1
  <2>6. CASE Load(p)
    <3>1. Update(Chosen(p), Contents(Chosen(p)))
      BY <2>6 DEF Load
    <3> QED
      BY <3>1, <2>1, ContentsFields
  <2>7. CASE Teardown(p)
    <3> DEFINE st == record[p][1]
               d == [Contents(Chosen(p)) EXCEPT !.state = Some(state_to_json(st.conf, st.status, st.by))]
    <3>1. Update(Chosen(p), d) /\ DOMAIN d = {"config", "state"}
      BY <2>7, ContentsFields DEF Teardown
    <3> HIDE DEF d
    <3> QED
      BY <3>1, <2>1
  <2>8. CASE Unlink(p)
    <3>1. PICK f \in left[p] : IF Chosen(p) \in DOMAIN store THEN Update(Chosen(p), [store[Chosen(p)] EXCEPT ![f] = None])
                               ELSE UNCHANGED store
      BY <2>8 DEF Unlink
    <3>2. CASE Chosen(p) \in DOMAIN store
      <4> DEFINE d == [store[Chosen(p)] EXCEPT ![f] = None]
      <4>1. Update(Chosen(p), d) /\ DOMAIN d = {"config", "state"}
        BY <3>1, <3>2 DEF Records
      <4> HIDE DEF d
      <4> QED
        BY <4>1, <2>1
    <3> QED
      BY <3>1, <3>2, <2>2
  <2>9. CASE Rmdir(p) /\ store' = [i \in DOMAIN store \ {Chosen(p)} |-> store[i]]
    <3>1. IsFiniteSet(DOMAIN store \ {Chosen(p)})
      BY FS_Subset DEF Records
    <3> QED
      BY <2>9, <3>1 DEF Records
  <2> QED
    BY <2>2, <2>3, <2>4, <2>5, <2>6, <2>7, <2>8, <2>9
       DEF Step, Parse, CheckId, Scan, CheckName, WriteConfig, SaveCreating, SaveCreated, Save,
       ResolveId, ListIds, Match, Decide, ReadDir, Rmdir, Crash
<1>2. ASSUME NEW i, StateOf(i)' # None
      PROVE  /\ DOMAIN StateOf(i)'[1] = {"conf", "status", "by"} /\ "name" \in DOMAIN StateOf(i)'[1].conf
             /\ MadeBy(i, StateOf(i)[1])'
  <2>1. CASE StateOf(i)' = StateOf(i)
    <3> DEFINE st == StateOf(i)[1]
    <3>1. MadeBy(i, st) /\ DOMAIN st = {"conf", "status", "by"} /\ "name" \in DOMAIN st.conf
      BY <1>2, <2>1 DEF Records
    <3> HIDE DEF st
    <3>2. \A x : MadeBy(i, x) => MadeBy(i, x)'
      BY <1>0, MadeByStays
    <3>3. st' = st
      BY <2>1 DEF st
    <3> QED
      BY <3>1, <3>2, <3>3 DEF st
  <2>2. ASSUME NEW x, StateOf(i)' = <<x>>, MadeBy(i, x)', DOMAIN x = {"conf", "status", "by"}, "name" \in DOMAIN x.conf
        PROVE  /\ DOMAIN StateOf(i)'[1] = {"conf", "status", "by"} /\ "name" \in DOMAIN StateOf(i)'[1].conf
               /\ MadeBy(i, StateOf(i)[1])'
    BY <2>2 DEF MadeBy
  <2>3. CASE Saves(p) /\ i = Id(p)
    <3>1. PICK status : StateOf(i)' = <<state_to_json(conf[p][1], status, p)>>
      BY <2>3 DEF Saves
    <3> DEFINE x == state_to_json(conf[p][1], status, p)
    <3>2. DOMAIN x = {"conf", "status", "by"} /\ "name" \in DOMAIN x.conf /\ x.by = p /\ x.conf.name = conf[p][1].name
      BY NameWritten DEF state_to_json
    <3>3. PICK y : y = x
      OBVIOUS
    <3> HIDE DEF x
    <3>4. MadeBy(i, y)'
      BY <1>0, <2>3, <3>2, <3>3 DEF MadeBy, Saves, Shape, Id, Name, Before
    <3> QED
      BY <3>1, <3>2, <3>3, <3>4, <2>2 DEF x
  <2>4. CASE Resaves(p) /\ i = Chosen(p)
    <3> DEFINE st == record[p][1]
               x == state_to_json(st.conf, st.status, st.by)
    <3>1. StateOf(i)' = <<x>>
      BY <2>4 DEF Resaves
    <3>2. DOMAIN x = {"conf", "status", "by"} /\ "name" \in DOMAIN x.conf /\ x.by = st.by /\ x.conf.name = st.conf.name
      BY NameWritten DEF state_to_json
    <3>3. MadeBy(i, st)
      BY <2>4 DEF Loaded, Resaves
    <3> HIDE DEF x, st
    <3>4. MadeBy(i, x)
      BY <3>2, <3>3 DEF MadeBy
    <3>5. \A y : MadeBy(i, y) => MadeBy(i, y)'
      BY <1>0, MadeByStays
    <3>6. ASSUME NEW y, y = x PROVE MadeBy(i, y)'
      BY <3>4, <3>5, <3>6
    <3> QED
      BY <3>1, <3>2, <3>6, <2>2
  <2> QED
    BY <1>0, <1>2, <2>1, <2>3, <2>4 DEF Quiet, Saves, Resaves, Unlinks
<1>3. ASSUME NEW r \in Process, pc'[r] = "teardown" PROVE MadeBy(Chosen(r), record[r][1])'
  <2>0. \A i, y : MadeBy(i, y) => MadeBy(i, y)'
    BY <1>0, MadeByStays
  <2>1. ASSUME NEW i, NEW y, MadeBy(i, y), Chosen(r)' = i, record'[r][1] = y PROVE MadeBy(Chosen(r), record[r][1])'
    BY <2>0, <2>1 DEF MadeBy
  <2>2. CASE r # p
    <3>1. Chosen(r)' = Chosen(r) /\ record'[r] = record[r] /\ pc[r] = "teardown"
      BY <1>0, <1>3, <2>2 DEF Alone, Chosen
    <3> QED
      BY <2>1, <3>1 DEF Loaded
  <2>3. CASE r = p
    <3> DEFINE i == Chosen(p)
               doc == StateOf(i)[1]
    <3>1. Chosen(r)' = i /\ StateOf(i) # None /\ record'[p] = <<state_from_json(doc)>>
      BY <1>0, <1>3, <2>3 DEF Moves, Chosen
    <3>2. MadeBy(i, doc) /\ DOMAIN doc = {"conf", "status", "by"} /\ "name" \in DOMAIN doc.conf
      BY <3>1 DEF Records
    <3> HIDE DEF i, doc
    <3>3. state_from_json(doc).by = doc.by /\ state_from_json(doc).conf.name = doc.conf.name
      BY <3>2, NameRead DEF state_from_json
    <3>4. MadeBy(i, state_from_json(doc))
      BY <3>2, <3>3 DEF MadeBy
    <3> QED
      BY <3>1, <3>4, <2>1, <2>3
  <2> QED
    BY <2>2, <2>3
<1> QED
  BY <1>1, <1>2, <1>3 DEF Records, Loaded

-----------------------------------------------------------------------------
(* What is there stays, unless an incident is noted.                       *)

(* A state is there because it was, from the same create, or because its   *)
(* create has just saved for the first time.                               *)
LEMMA StateStep ==
  ASSUME Inv, NEW p \in Process, Effect(p), NEW i, Clean(i)', StateOf(i)' # None
  PROVE  \/ StateOf(i) # None /\ By(i)' = By(i)
         \/ /\ pc[p] = "save" /\ Id(p) = i /\ By(i)' = p
            /\ conf'[p] = conf[p] /\ Rivals(p) \subseteq raced'
<1>1. Clean(i)
  BY CleanBefore DEF Inv, Effect
<1>2. CASE StateOf(i)' = StateOf(i)
  BY <1>2 DEF By
<1>3. CASE Saves(p) /\ Id(p) = i
  <2>1. By(i)' = p
    BY <1>3 DEF Saves, By, state_to_json
  <2>2. CASE pc[p] = "save"
    BY <1>3, <2>1, <2>2 DEF Saves
  <2>3. CASE pc[p] = "created"
    BY <1>1, <1>3, <2>1, <2>3 DEF Inv, OwnThere
  <2> QED
    BY <1>3, <2>2, <2>3 DEF Saves
<1>4. CASE Resaves(p) /\ Chosen(p) = i
  <2>1. By(i)' = record[p][1].by
    BY <1>4 DEF Resaves, By, state_to_json
  <2> QED
    BY <1>1, <1>4, <2>1 DEF Inv, LoadedThere, Resaves
<1> QED
  BY <1>2, <1>3, <1>4 DEF Effect, Quiet, Saves, Resaves, Unlinks

LEMMA OwnThereStep ==
  ASSUME Inv, NEW p \in Process, Effect(p)
  PROVE  OwnThere'
<1> SUFFICES ASSUME NEW q \in Process, pc'[q] = "created", Clean(Id(q))'
             PROVE  StateOf(Id(q))' # None /\ By(Id(q))' = q
  BY DEF OwnThere
<1>0. Shape /\ Alone(p) /\ Moves(p)
  BY DEF Inv, Effect
<1>1. conf[q] # None /\ conf'[q] = conf[q] /\ (q = p => pc[q] = "save") /\ (q # p => pc[q] = "created")
  BY <1>0 DEF Shape, Alone, Moves, Before
<1>2. PICK i : i = Id(q) /\ Id(q)' = i
  BY <1>1 DEF Id
<1>3. Clean(i)'
  BY <1>2
<1>4. Clean(i)
  BY <1>0, <1>3, CleanBefore
<1>5. SUFFICES StateOf(i)' # None /\ By(i)' = q
  BY <1>2
<1>6. CASE q = p
  <2>1. Saves(p)
    BY <1>1, <1>6 DEF Effect, Resaves, Unlinks
  <2> QED
    BY <2>1, <1>2, <1>6 DEF Saves, By, state_to_json, None
<1>7. CASE q # p
  <2>1. StateOf(i) # None /\ By(i) = q
    BY <1>1, <1>2, <1>4, <1>7 DEF Inv, OwnThere
  <2>2. StateOf(i)' # None
    <3>1. CASE Resaves(p) /\ Chosen(p) = i
      BY <3>1 DEF Resaves, None
    <3>2. CASE Unlinks(p) /\ Chosen(p) = i
      <4>1. q \in Creating(i)
        BY <1>1, <1>2, <1>7 DEF Creating
      <4> QED
        BY <3>2, <4>1, <1>3 DEF Unlinks, Clean
    <3> QED
      BY <2>1, <3>1, <3>2 DEF Effect, Quiet, Saves, Resaves, Unlinks, None
  <2>3. ~(pc[p] = "save" /\ Id(p) = i)
    BY <1>0, <1>4, <1>7, <2>1 DEF Inv, IdTaken, Checked, Shape, Before
  <2> QED
    BY <1>3, <2>1, <2>2, <2>3, StateStep
<1> QED
  BY <1>6, <1>7

LEMMA LoadedThereStep ==
  ASSUME Inv, NEW p \in Process, Effect(p)
  PROVE  LoadedThere'
<1> SUFFICES ASSUME NEW r \in Process, pc'[r] = "teardown", Clean(Chosen(r))'
             PROVE  StateOf(Chosen(r))' # None /\ By(Chosen(r))' = record'[r][1].by
  BY DEF LoadedThere
<1>0. Shape /\ Records /\ Alone(p) /\ Moves(p)
  BY DEF Inv, Effect
<1>1. found'[r] = found[r] /\ (r = p => pc[r] = "load") /\ (r # p => pc[r] = "teardown" /\ record'[r] = record[r])
  BY <1>0 DEF Alone, Moves
<1>2. PICK i : i = Chosen(r) /\ Chosen(r)' = i
  BY <1>1 DEF Chosen
<1>3. Clean(i)'
  BY <1>2
<1>4. Clean(i)
  BY <1>0, <1>3, CleanBefore
<1>5. SUFFICES StateOf(i)' # None /\ By(i)' = record'[r][1].by
  BY <1>2
<1>6. CASE r = p
  <2>1. Quiet
    BY <1>1, <1>6 DEF Effect, Saves, Resaves, Unlinks
  <2>2. StateOf(i) # None /\ record'[p] = <<state_from_json(StateOf(i)[1])>>
    BY <1>0, <1>2, <1>6 DEF Moves
  <2>3. DOMAIN StateOf(i)[1] = {"conf", "status", "by"}
    BY <1>0, <2>2 DEF Records
  <2>4. state_from_json(StateOf(i)[1]).by = StateOf(i)[1].by
    BY <2>3 DEF state_from_json
  <2> QED
    BY <1>6, <2>1, <2>2, <2>4 DEF Quiet, By
<1>7. CASE r # p
  <2>1. StateOf(i) # None /\ By(i) = record[r][1].by /\ pc[By(i)] \in {"created", "done", "dead"}
    BY <1>0, <1>1, <1>2, <1>4, <1>7 DEF Inv, LoadedThere, Records, MadeBy, By
  <2>2. StateOf(i)' # None
    <3>1. CASE Resaves(p) /\ Chosen(p) = i
      BY <3>1 DEF Resaves, None
    <3>2. CASE Unlinks(p) /\ Chosen(p) = i
      <4>1. r \in Reviving(i)
        BY <1>1, <1>2, <1>7 DEF Reviving
      <4> QED
        BY <3>2, <4>1, <1>3 DEF Unlinks, Clean
    <3> QED
      BY <2>1, <3>1, <3>2 DEF Effect, Quiet, Saves, Resaves, Unlinks, None
  <2>3. ~(pc[p] = "save" /\ Id(p) = i)
    BY <1>0, <1>4, <2>1 DEF Inv, IdTaken, Checked, Shape, Before
  <2> QED
    BY <1>1, <1>3, <1>7, <2>1, <2>2, <2>3, StateStep
<1> QED
  BY <1>6, <1>7

LEMMA IdTakenStep ==
  ASSUME Inv, NEW p \in Process, Effect(p)
  PROVE  IdTaken'
<1> SUFFICES ASSUME NEW i, StateOf(i)' # None, Clean(i)',
                    NEW q \in Process, q # By(i)', conf'[q] # None, Id(q)' = i, pc'[q] \in Checked
             PROVE  FALSE
  BY DEF IdTaken
<1>0. Shape /\ Alone(p) /\ Moves(p) /\ Clean(i)
  BY CleanBefore DEF Inv, Effect
<1>1. conf'[q] = conf[q] /\ Id(q) = i
  BY <1>0 DEF Alone, Checked, Id
<1>2. CASE StateOf(i) # None /\ By(i)' = By(i)
  <2>1. pc[q] \notin Checked
    BY <1>0, <1>1, <1>2 DEF Inv, IdTaken
  <2>2. q = p /\ StateOf(Id(p)) = None
    BY <1>0, <2>1 DEF Alone, Moves, Checked
  <2> QED
    BY <1>1, <1>2, <2>2
<1>3. CASE pc[p] = "save" /\ Id(p) = i /\ By(i)' = p /\ conf'[p] = conf[p] /\ Rivals(p) \subseteq raced'
  <2>1. q # p /\ pc[q] \in Before
    BY <1>0, <1>3 DEF Alone, Checked, Before
  <2>2. {p, q} \in raced'
    BY <1>3, <2>1 DEF Rivals
  <2>3. conf[p] # None /\ Id(p)' = i /\ Id(q)' = i
    BY <1>0, <1>1, <1>3 DEF Shape, Before, Id
  <2>4. Contested(i)'
    BY <1>1, <1>3, <2>1, <2>2, <2>3 DEF Contested
  <2> QED
    BY <2>4 DEF Clean
<1> QED
  BY <1>2, <1>3, StateStep

LEMMA NameTakenStep ==
  ASSUME Inv, Records', NEW p \in Process, Effect(p)
  PROVE  NameTaken'
<1> SUFFICES ASSUME NEW i, StateOf(i)' # None, Clean(i)', Name(By(i))' # None,
                    NEW q \in Process, conf'[q] # None, Id(q)' # i, Clean(Id(q))',
                    Name(q)' = Name(By(i))', {By(i)', q} \notin raced'
             PROVE  Finds(q, i)'
  BY DEF NameTaken
<1>0. Shape /\ Records /\ Alone(p) /\ Moves(p) /\ Clean(i)
  BY CleanBefore DEF Inv, Effect
<1>1. PICK j : j = Id(q)'
  OBVIOUS
<1>2. Clean(j)' /\ Clean(j) /\ i # j
  <2>1. Clean(j)'
    BY <1>1
  <2> QED
    BY <1>0, <1>1, <2>1, CleanBefore
<1>3. ASSUME NEW k, StateOf(k)' # None
      PROVE  By(k)' \in Process /\ pc'[By(k)'] \in {"created", "done", "dead"} /\ Id(By(k))' = k
  BY <1>3 DEF Records, MadeBy, By
<1>4. CASE conf'[q] # conf[q]
  BY <1>0, <1>1, <1>3, <1>4 DEF Alone, Finds
<1>5. CASE conf'[q] = conf[q]
  <2>1. Id(q) = j /\ Name(q)' = Name(q) /\ conf[q] # None
    BY <1>1, <1>5 DEF Id, Name
  <2>2. SUFFICES /\ pc'[q] = "names" => i \in ToSet(todo'[q])
                 /\ pc'[q] \notin {"mkdir", "config", "save", "created"}
                 /\ StateOf(j)' # None => By(j)' # q
    BY <1>1 DEF Finds
  <2>3. CASE StateOf(i) # None /\ By(i)' = By(i)
    <3>1. By(i) \in Process /\ conf[By(i)] # None /\ NameOf(i) = Name(By(i)) /\ i \in Ids
      BY <1>0, <2>3, ExistsIs DEF Records, MadeBy, By
    <3>2. Name(By(i))' = Name(By(i))
      BY <1>0, <2>3, <3>1 DEF Name, Shape, Alone
    <3>3. Finds(q, i)
      BY <1>0, <1>2, <2>1, <2>3, <3>1, <3>2 DEF Inv, NameTaken, Alone
    <3>4. pc'[q] = "names" => i \in ToSet(todo'[q])
      <4>1. CASE q # p
        BY <1>0, <3>3, <4>1 DEF Alone, Finds
      <4>2. CASE q = p /\ pc[q] = "scan" /\ todo'[q] = ids
        BY <1>0, <3>1, <4>2, IdsListed
      <4>3. CASE q = p /\ pc[q] = "names" /\ todo[q] # <<>> /\ todo'[q] = Tail(todo[q]) /\ NameOf(Head(todo[q])) # Name(q)
        <5>1. i \in ToSet(todo[q]) /\ i # Head(todo[q])
          BY <2>1, <3>1, <3>2, <3>3, <4>3 DEF Finds
        <5> QED
          BY <1>0, <4>3, <5>1, HeadAndTail DEF Shape
      <4> QED
        BY <1>0, <4>1, <4>2, <4>3 DEF Moves
    <3>5. pc'[q] \notin {"mkdir", "config", "save", "created"}
      <4>1. CASE q # p
        BY <1>0, <3>3, <4>1 DEF Alone, Finds
      <4>2. CASE q = p
        <5>1. ToSet(<<>>) = {}
          BY DEF ToSet
        <5> QED
          BY <1>0, <2>1, <3>2, <3>3, <4>2, <5>1 DEF Moves, Finds
      <4> QED
        BY <4>1, <4>2
    <3>6. StateOf(j)' # None => By(j)' # q
      <4> SUFFICES ASSUME StateOf(j)' # None, By(j)' = q PROVE FALSE
        OBVIOUS
      <4>1. CASE StateOf(j) # None /\ By(j)' = By(j)
        BY <2>1, <3>3, <4>1 DEF Finds
      <4>2. CASE pc[p] = "save" /\ By(j)' = p
        BY <3>3, <4>2 DEF Finds
      <4> QED
        BY <1>2, <4>1, <4>2, StateStep
    <3> QED
      BY <3>4, <3>5, <3>6
  <2>4. CASE pc[p] = "save" /\ Id(p) = i /\ By(i)' = p /\ conf'[p] = conf[p] /\ Rivals(p) \subseteq raced'
    <3>1. q # p /\ pc'[q] = pc[q] /\ conf[p] # None
      BY <1>0, <1>2, <2>1, <2>4 DEF Alone, Shape, Before
    <3>2. pc[q] \notin Before
      BY <2>4, <3>1 DEF Rivals
    <3>3. StateOf(j) # None => By(j) # q
      <4> SUFFICES ASSUME StateOf(j) # None, By(j) = q PROVE FALSE
        OBVIOUS
      <4>1. Name(By(i))' = Name(p)
        BY <2>4 DEF Name
      <4>2. {q, p} \notin raced
        <5>1. {q, p} = {p, q}
          OBVIOUS
        <5> QED
          BY <1>0, <2>4, <5>1 DEF Alone
      <4>3. Finds(p, j)
        BY <1>0, <1>2, <2>1, <2>4, <3>1, <4>1, <4>2 DEF Inv, NameTaken
      <4> QED
        BY <2>4, <4>3 DEF Finds
    <3>4. pc[q] # "created"
      BY <1>2, <2>1, <3>3 DEF Inv, OwnThere
    <3>5. StateOf(j)' # None => By(j)' # q
      BY <1>2, <2>4, <3>3, StateStep
    <3> QED
      BY <3>1, <3>2, <3>4, <3>5 DEF Before
  <2> QED
    BY <2>3, <2>4, StateStep
<1> QED
  BY <1>4, <1>5

LEMMA InvStep ==
  ASSUME Inv, [Next]_vars
  PROVE  Inv'
<1>1. CASE UNCHANGED vars
  <2> USE <1>1 DEF vars
  <2>1. Shape' = Shape
    BY DEF Shape
  <2>2. Records' = Records
    BY DEF Records, MadeBy, StateOf, Id, Name
  <2>3. Loaded' = Loaded
    BY DEF Loaded, MadeBy, Chosen, Id, Name
  <2>4. ASSUME NEW i PROVE Clean(i)' = Clean(i) /\ StateOf(i)' = StateOf(i) /\ By(i)' = By(i)
    BY DEF Clean, Contested, Id, StateOf, By
  <2>5. OwnThere' = OwnThere
    BY <2>4 DEF OwnThere, Id
  <2>6. LoadedThere' = LoadedThere
    BY <2>4 DEF LoadedThere, Chosen
  <2>7. IdTaken' = IdTaken
    BY <2>4 DEF IdTaken, Id
  <2>8. NameTaken' = NameTaken
    BY <2>4 DEF NameTaken, Finds, Id, Name
  <2> QED
    BY <2>1, <2>2, <2>3, <2>5, <2>6, <2>7, <2>8 DEF Inv
<1>2. ASSUME NEW p \in Process, Step(p) PROVE Inv'
  <2>1. Effect(p)
    BY <1>2, StepEffect DEF Inv
  <2>2. Shape' /\ Records' /\ Loaded'
    BY <1>2, ShapeStep, RecordsStep DEF Inv
  <2> QED
    BY <2>1, <2>2, OwnThereStep, LoadedThereStep, IdTakenStep, NameTakenStep DEF Inv
<1> QED
  BY <1>1, <1>2 DEF Next

LEMMA InvInit ==
  ASSUME Init
  PROVE  Inv
<1>1. \A i : StateOf(i) = None
  BY DEF Init, StateOf
<1>2. ASSUME NEW p \in Process PROVE pc[p] \in {"parse", "resolve", "none"}
  <2>1. cmd[p].kind \in {"create", "rm", "none"}
    BY StoreAssumption DEF Init
  <2> QED
    BY <2>1 DEF Init, First
<1>3. Shape
  <2>1. <<>> \in Seq(ToSet(<<>>))
    OBVIOUS
  <2> QED
    BY <1>2, <2>1 DEF Init, Shape, Before, RmSteps, Ended
<1>4. Records
  BY <1>1, FS_EmptySet DEF Init, Records
<1> QED
  BY <1>1, <1>2, <1>3, <1>4 DEF Inv, Loaded, OwnThere, LoadedThere, IdTaken, NameTaken

(* Two containers have the same name only if neither create had saved when *)
(* the other looked, or if one of the two ids was removed while another    *)
(* command was at work on it, or was created twice at once, for any number *)
(* of creates and rms and whichever of them are killed.                    *)
THEOREM NamesAreUnique == Spec => []NamesUniqueUnlessRaced
<1>1. Init => Inv
  BY InvInit
<1>2. Inv /\ [Next]_vars => Inv'
  BY InvStep
<1>3. Inv => NamesUniqueUnlessRaced
  <2> SUFFICES ASSUME Inv, NEW i \in Ids, NEW j \in Ids, i # j, NameOf(i) # None, NameOf(i) = NameOf(j),
                      {By(i), By(j)} \notin raced, Clean(i), Clean(j)
               PROVE  FALSE
    BY ExistsIs DEF NamesUniqueUnlessRaced, Clean, By, StateOf
  <2>1. StateOf(i) # None /\ StateOf(j) # None
    BY ExistsIs
  <2>2. /\ NameOf(i) = Name(By(i)) /\ NameOf(j) = Name(By(j))
        /\ By(j) \in Process /\ conf[By(j)] # None /\ Id(By(j)) = j
    BY <2>1, ExistsIs DEF Inv, Records, MadeBy, By
  <2>3. Finds(By(j), i)
    BY <2>1, <2>2 DEF Inv, NameTaken
  <2> QED
    BY <2>1, <2>2, <2>3 DEF Finds
<1> QED
  BY <1>1, <1>2, <1>3, PTL DEF Spec

-----------------------------------------------------------------------------
(* What rm resolves.                                                       *)

(* No container has a name that its own id begins with: the loop of        *)
(* resolve takes such a name for a prefix.                                 *)
NamesApart == \A i \in Ids : NameOf(i) # None => ~Starts(i, NameOf(i)[1])

(* The loop has noted the prefixes it has passed, and every container of   *)
(* that name is still ahead.                                               *)
Passed(p) ==
  /\ found[p] \cup {i \in ToSet(todo[p]) : Starts(i, Needle(p))} = Prefixed(Needle(p))
  /\ Named(Needle(p)) \subseteq ToSet(todo[p])

Resolving(p) ==
  /\ pc[p] \in {"list", "match"} => ~exists(Needle(p)) /\ expected[p] = Denoted(Needle(p))
  /\ pc[p] = "match" => Passed(p)
  /\ pc[p] = "load" => found[p] \subseteq expected[p]
  /\ pc[p] = "error" => expected[p] = {}

RInv ==
  /\ Inv /\ DOMAIN changed = Process /\ DOMAIN expected = Process
  /\ \A p \in Process : cmd[p].kind = "rm" =>
       /\ pc[p] \in RmSteps \cup Ended
       /\ pc[p] \in {"resolve", "list"} => found[p] = {}
       /\ ~changed[p] => Resolving(p)

LEMMA QuietIs ==
  ASSUME Quiet, NEW text
  PROVE  /\ exists(text)' = exists(text) /\ Ids' = Ids /\ Named(text)' = Named(text)
         /\ Prefixed(text)' = Prefixed(text) /\ Denoted(text)' = Denoted(text)
<1>1. ASSUME NEW i PROVE exists(i)' = exists(i) /\ NameOf(i)' = NameOf(i)
  BY DEF Quiet, StateOf, exists, NameOf
<1>2. Ids' = Ids
  <2>1. \A i : i \in Ids <=> StateOf(i) # None
    BY ExistsIs
  <2>2. \A i : i \in Ids' <=> StateOf(i)' # None
    BY DEF Ids, exists, StateOf
  <2> QED
    BY <2>1, <2>2 DEF Quiet
<1> QED
  BY <1>1, <1>2 DEF Named, Prefixed, Denoted

(* A step after which q does not know the store changed has not changed    *)
(* what can be resolved.                                                   *)
LEMMA Undisturbed ==
  ASSUME Shape, Records, DOMAIN changed = Process, NEW p \in Process, Step(p),
         NEW q \in Process, ~changed'[q], q # p
  PROVE  Quiet /\ ~changed[q]
<1>1. CASE SaveCreating(p) \/ SaveCreated(p) \/ Teardown(p) \/ Unlink(p) \/ Rmdir(p)
  BY <1>1 DEF SaveCreating, SaveCreated, Save, Teardown, Unlink, Rmdir, Disturb
<1>2. CASE ~(SaveCreating(p) \/ SaveCreated(p) \/ Teardown(p) \/ Unlink(p) \/ Rmdir(p))
  <2>1. pc'[p] = "dead" \/ pc[p] \notin {"save", "created", "teardown", "unlink"}
    BY <1>2 DEF Shape, Step, Parse, CheckId, Scan, CheckName, MakeDir, WriteConfig, ResolveId, ListIds, Match, Decide,
       Load, ReadDir, Crash, Goto, At
  <2>2. Quiet
    BY <2>1, StepEffect DEF Effect, Saves, Resaves, Unlinks
  <2>3. changed'[q] = changed[q]
    BY <1>2 DEF Step, Parse, CheckId, Scan, CheckName, MakeDir, WriteConfig, ResolveId, ListIds, Match, Decide,
       Load, ReadDir, Crash, Steady
  <2> QED
    BY <2>2, <2>3
<1> QED
  BY <1>1, <1>2

LEMMA ResolvingStep ==
  ASSUME RInv, NamesApart, NEW p \in Process, Step(p)
  PROVE  RInv'
<1> USE DEF Goto, At, Steady, rmVars, history
<1>0. Inv' /\ Shape /\ Records /\ Effect(p) /\ cmd' = cmd
  <2>1. [Next]_vars
    BY DEF Next
  <2>2. cmd' = cmd
    BY DEF Step, Parse, CheckId, Scan, CheckName, MakeDir, WriteConfig, SaveCreating, SaveCreated, Save,
       ResolveId, ListIds, Match, Decide, Load, Teardown, ReadDir, Unlink, Rmdir, Crash
  <2> QED
    BY <2>1, <2>2, InvStep, StepEffect DEF RInv, Inv
<1>1. /\ DOMAIN changed' = Process /\ DOMAIN expected' = Process
      /\ \A q \in Process \ {p} : expected'[q] = expected[q]
  BY DEF RInv, Step, Parse, CheckId, Scan, CheckName, MakeDir, WriteConfig, SaveCreating, SaveCreated, Save,
     ResolveId, ListIds, Match, Decide, Load, Teardown, ReadDir, Unlink, Rmdir, Crash, Disturb
<1>2. SUFFICES ASSUME NEW q \in Process, cmd[q].kind = "rm"
               PROVE  /\ pc'[q] \in RmSteps \cup Ended
                      /\ pc'[q] \in {"resolve", "list"} => found'[q] = {}
                      /\ ~changed'[q] => Resolving(q)'
  BY <1>0, <1>1 DEF RInv
<1>3. /\ pc[q] \in RmSteps \cup Ended
      /\ pc[q] \in {"resolve", "list"} => found[q] = {}
      /\ ~changed[q] => Resolving(q)
  BY <1>2 DEF RInv
<1>4. Needle(q)' = Needle(q)
  BY <1>0 DEF Needle
<1>5. CASE q # p
  <2>1. pc'[q] = pc[q] /\ found'[q] = found[q] /\ todo'[q] = todo[q] /\ expected'[q] = expected[q]
    BY <1>0, <1>1, <1>5 DEF Effect, Alone
  <2>2. ASSUME ~changed'[q] PROVE Resolving(q)'
    <3>1. Quiet /\ ~changed[q]
      BY <1>0, <1>5, <2>2, Undisturbed DEF RInv
    <3> QED
      BY <1>3, <1>4, <2>1, <3>1, QuietIs DEF Resolving, Passed, Starts
  <2> QED
    BY <1>3, <2>1, <2>2
<1>6. CASE q = p
  <2>0. \/ ResolveId(p) \/ ListIds(p) \/ Match(p) \/ Decide(p) \/ Load(p) \/ Teardown(p)
        \/ ReadDir(p) \/ Unlink(p) \/ Rmdir(p) \/ Crash(p)
    BY <1>3, <1>6 DEF Step, Parse, CheckId, Scan, CheckName, MakeDir, WriteConfig, SaveCreating, SaveCreated,
       RmSteps, Ended
  <2>1. pc'[p] \in {"list", "match", "load", "error"} => Quiet
    BY <1>0 DEF Effect, Saves, Resaves, Unlinks
  <2>2. CASE ResolveId(p)
    <3>1. /\ pc'[p] = IF exists(Needle(p)) THEN "load" ELSE "list"
          /\ found'[p] = IF exists(Needle(p)) THEN {Needle(p)} ELSE {}
          /\ expected'[p] = Denoted(Needle(p))
      BY <1>0, <1>3, <1>6, <2>2 DEF ResolveId, Shape, RInv
    <3>2. exists(Needle(p)) => Denoted(Needle(p)) = {Needle(p)}
      BY DEF Denoted
    <3>3. Quiet
      BY <2>1, <3>1
    <3> QED
      BY <1>4, <1>6, <3>1, <3>2, <3>3, QuietIs DEF Resolving, RmSteps
  <2>3. CASE ListIds(p)
    <3>1. pc'[p] = "match" /\ todo'[p] = ids /\ found'[p] = {} /\ expected'[p] = expected[p] /\ changed'[p] = changed[p]
      BY <1>0, <1>3, <1>6, <2>3 DEF ListIds, Shape
    <3>2. ASSUME ~changed'[q] PROVE Resolving(q)'
      <4>1. Quiet /\ ToSet(todo'[p]) = Ids
        BY <1>0, <2>1, <3>1, IdsListed
      <4>2. ~exists(Needle(p)) /\ expected[p] = Denoted(Needle(p))
        BY <1>3, <1>6, <2>3, <3>1, <3>2 DEF Resolving, ListIds
      <4> QED
        BY <1>4, <1>6, <3>1, <4>1, <4>2, QuietIs DEF Resolving, Passed, Prefixed, Named, Starts
    <3> QED
      BY <1>6, <3>1, <3>2 DEF RmSteps
  <2>4. CASE Match(p)
    <3> DEFINE id == Head(todo[p])
    <3>1. /\ pc[p] = "match" /\ todo[p] # <<>> /\ expected'[p] = expected[p] /\ changed'[p] = changed[p]
          /\ \/ /\ Starts(id, Needle(p)) /\ found'[p] = found[p] \cup {id}
                /\ todo'[p] = Tail(todo[p]) /\ pc'[p] = "match"
             \/ /\ ~Starts(id, Needle(p)) /\ NameOf(id) = <<Needle(p)>>
                /\ found'[p] = {id} /\ pc'[p] = "load"
             \/ /\ ~Starts(id, Needle(p)) /\ NameOf(id) # <<Needle(p)>>
                /\ todo'[p] = Tail(todo[p]) /\ found'[p] = found[p] /\ pc'[p] = "match"
      BY <1>0, <2>4 DEF Match, Shape, Some
    <3>2. /\ id \in ToSet(todo[p])
          /\ \A x \in ToSet(todo[p]) : x = id \/ x \in ToSet(Tail(todo[p]))
          /\ ToSet(Tail(todo[p])) \subseteq ToSet(todo[p])
      BY <1>0, <3>1, HeadAndTail DEF Shape
    <3>3. ASSUME ~changed'[q] PROVE Resolving(q)'
      <4>1. Quiet /\ ~changed[q] /\ Resolving(q)
        BY <1>3, <1>6, <2>1, <3>1, <3>3
      <4>2. ~exists(Needle(p)) /\ expected[p] = Denoted(Needle(p)) /\ Passed(p)
        BY <1>6, <3>1, <4>1 DEF Resolving
      <4>3. CASE NameOf(id) = <<Needle(p)>> /\ found'[p] = {id} /\ pc'[p] = "load"
        <5>1. id \in Ids
          BY <4>3 DEF NameOf, None, Ids, exists
        <5>2. id \in Named(Needle(p))
          BY <4>3, <5>1 DEF Named, Some
        <5> QED
          BY <1>6, <3>1, <4>2, <4>3, <5>2 DEF Resolving, Denoted
      <4>4. CASE /\ todo'[p] = Tail(todo[p]) /\ pc'[p] = "match"
                 /\ found'[p] = IF Starts(id, Needle(p)) THEN found[p] \cup {id} ELSE found[p]
                 /\ Starts(id, Needle(p)) \/ NameOf(id) # <<Needle(p)>>
        <5>1. id \notin Named(Needle(p))
          <6>1. CASE Starts(id, Needle(p))
            BY <6>1 DEF NamesApart, Named, Some, None
          <6> QED
            BY <4>4, <6>1 DEF Named, Some
        <5>2. Named(Needle(p)) \subseteq ToSet(todo'[p])
          BY <3>2, <4>2, <4>4, <5>1 DEF Passed
        <5>3. found'[p] \cup {i \in ToSet(todo'[p]) : Starts(i, Needle(p))} = Prefixed(Needle(p))
          BY <3>2, <4>2, <4>4 DEF Passed
        <5> QED
          BY <1>4, <1>6, <3>1, <4>1, <4>2, <4>4, <5>2, <5>3, QuietIs DEF Resolving, Passed, Starts
      <4> QED
        BY <3>1, <4>3, <4>4
    <3> QED
      BY <1>6, <3>1, <3>3 DEF RmSteps
  <2>5. CASE Decide(p)
    <3>1. /\ pc[p] = "match" /\ todo[p] = <<>> /\ expected'[p] = expected[p] /\ changed'[p] = changed[p]
          /\ found'[p] = found[p] /\ pc'[p] = IF Cardinality(found[p]) = 1 THEN "load" ELSE "error"
      BY <1>0, <2>5 DEF Decide, Shape
    <3>2. ASSUME ~changed'[q] PROVE Resolving(q)'
      <4>1. ~exists(Needle(p)) /\ expected[p] = Denoted(Needle(p)) /\ Passed(p)
        BY <1>3, <1>6, <3>1, <3>2 DEF Resolving
      <4>2. found[p] = Prefixed(Needle(p)) /\ Named(Needle(p)) = {}
        <5>1. ToSet(<<>>) = {}
          BY DEF ToSet
        <5> QED
          BY <3>1, <4>1, <5>1 DEF Passed
      <4> QED
        BY <1>6, <3>1, <4>1, <4>2 DEF Resolving, Denoted
    <3> QED
      BY <1>6, <3>1, <3>2 DEF RmSteps, Ended
  <2>6. CASE Load(p) \/ Teardown(p) \/ ReadDir(p) \/ Unlink(p) \/ Rmdir(p) \/ Crash(p)
    <3>1. pc'[p] \in {"teardown", "gone", "remove", "unlink", "done", "not empty", "dead"}
      BY <1>0, <2>6 DEF Load, Teardown, ReadDir, Unlink, Rmdir, Crash, Shape
    <3> QED
      BY <1>6, <3>1 DEF Resolving, RmSteps, Ended
  <2> QED
    BY <2>0, <2>2, <2>3, <2>4, <2>5, <2>6
<1> QED
  BY <1>5, <1>6

(* As long as no container has a name that its own id begins with, the     *)
(* text that is given to rm leads to the container it names, and to none   *)
(* if it names none or several, unless the store changes while rm looks.   *)
THEOREM TextsResolve == Spec /\ []NamesApart => []ResolveRight
<1>1. Init => RInv
  <2> SUFFICES ASSUME Init PROVE RInv
    OBVIOUS
  <2>1. \A p \in Process : cmd[p].kind = "rm" => pc[p] = "resolve"
    BY DEF Init, First
  <2> QED
    BY <2>1, InvInit DEF Init, RInv, Resolving, RmSteps
<1>2. RInv /\ NamesApart /\ [Next]_vars => RInv'
  <2>1. ASSUME RInv, UNCHANGED vars PROVE RInv'
    <3>1. Inv'
      BY <2>1, InvStep DEF RInv
    <3>2. Quiet
      BY <2>1 DEF vars, Quiet, StateOf
    <3>3. \A p : Needle(p)' = Needle(p)
      BY <2>1 DEF vars, Needle
    <3>4. \A p : Resolving(p) => Resolving(p)'
      BY <2>1, <3>2, <3>3, QuietIs DEF vars, Resolving, Passed, Starts
    <3> QED
      BY <2>1, <3>1, <3>4 DEF vars, RInv
  <2> QED
    BY <2>1, ResolvingStep DEF Next
<1>3. RInv => ResolveRight
  BY DEF RInv, ResolveRight, Resolving
<1> QED
  BY <1>1, <1>2, <1>3, PTL DEF Spec

-----------------------------------------------------------------------------
(* Configurations and their JSON.                                          *)

Fields ==
  {"id", "name", "rootfs", "command", "hostname", "env", "read_only", "privileged", "no_new_privs", "seccomp",
   "cap_drop", "memory", "memory_swap", "mode", "netns", "mtu", "publish"}

(* Limits that a signed word can hold.                                     *)
Fits(v) == v = None \/ \E n \in Nat : v = <<n>> /\ n < Word \div 2

Mappings == [host_port : 0 .. U16 - 1, container_port : 0 .. U16 - 1,
             protocol : Protocols \cup STRING]

(* A configuration that its JSON can hold.                                 *)
Writable(c) ==
  /\ DOMAIN c = Fields
  /\ Fits(c.memory) /\ Fits(c.memory_swap)
  /\ c.env = [k \in DOMAIN c.env |-> c.env[k]] /\ IsFiniteSet(DOMAIN c.env) /\ "PATH" \in DOMAIN c.env
  /\ c.publish \in Seq(Mappings)

Valid(c) == Writable(c) /\ c = [x \in Fields |-> c[x]] /\ c.mtu \in 0 .. Half32 - 1

(* Of the sizes that a text can give, those from 8 EiB up are negative in  *)
(* a file and are lost.                                                    *)
SizesFit == \A text \in DOMAIN Sizes : Fits(Sizes[text])

LEMMA DefaultFields == DOMAIN Default = Fields
  BY DEF Default, Fields

(* The fields that are read and written as they are.                       *)
Plain ==
  {"id", "name", "rootfs", "command", "hostname", "read_only", "privileged", "no_new_privs", "seccomp", "cap_drop",
   "mode", "netns"}

PlainRead(c, doc) == \A x \in Plain : c[x] = Field(doc, x, Default[x])

ReadFrom(c, doc) ==
  /\ DOMAIN c = Fields /\ c = [x \in Fields |-> c[x]]
  /\ PlainRead(c, doc)
  /\ c.env = set_each(DefaultEnv, Field(doc, "env", <<>>))
  /\ c.memory = IF "memory" \in DOMAIN doc THEN num_or_size(doc.memory) ELSE None
  /\ c.memory_swap = IF "memory_swap" \in DOMAIN doc THEN num_or_size(doc.memory_swap) ELSE None
  /\ c.mtu = mtu_of(doc)
  /\ c.publish = [i \in DOMAIN Field(doc, "publish", <<>>) |-> publish_of(Field(doc, "publish", <<>>)[i])]

LEMMA FromJsonIs ==
  ASSUME NEW doc, NEW c, c = from_json(doc)
  PROVE  ReadFrom(c, doc)
<1> DEFINE own == [Default EXCEPT
                !.id = Field(doc, "id", ""),
                !.name = Field(doc, "name", None),
                !.rootfs = Field(doc, "rootfs", ""),
                !.command = Field(doc, "command", <<>>),
                !.hostname = Field(doc, "hostname", ""),
                !.env = set_each(DefaultEnv, Field(doc, "env", <<>>)),
                !.read_only = Field(doc, "read_only", FALSE)]
           ports == [i \in DOMAIN Field(doc, "publish", <<>>) |-> publish_of(Field(doc, "publish", <<>>)[i])]
           memory == IF "memory" \in DOMAIN doc THEN num_or_size(doc.memory) ELSE None
           swap == IF "memory_swap" \in DOMAIN doc THEN num_or_size(doc.memory_swap) ELSE None
           c1 == resources_from_json(own, doc)
           c2 == network_from_json(c1, doc)
           c3 == security_from_json(c2, doc)
           c4 == namespaces_from_json(c3, doc)
           mode == Field(doc, "mode", "none")
           mtu == mtu_of(doc)
           priv == Field(doc, "privileged", FALSE)
           nnp == Field(doc, "no_new_privs", TRUE)
           sec == Field(doc, "seccomp", "default")
           caps == Field(doc, "cap_drop", <<>>)
           netns == Field(doc, "netns", TRUE)
<1>1. from_json(doc) = c4
  BY DEF from_json
<1>2. /\ DOMAIN own = Fields
      /\ own.id = Field(doc, "id", "") /\ own.name = Field(doc, "name", None) /\ own.rootfs = Field(doc, "rootfs", "")
      /\ own.command = Field(doc, "command", <<>>) /\ own.hostname = Field(doc, "hostname", "")
      /\ own.env = set_each(DefaultEnv, Field(doc, "env", <<>>)) /\ own.read_only = Field(doc, "read_only", FALSE)
  BY DEF Default, Fields
<1> HIDE DEF own
<1>3. c1 = [own EXCEPT !.memory = memory, !.memory_swap = swap]
  BY DEF resources_from_json
<1>4. c2 = [c1 EXCEPT !.mode = mode, !.mtu = mtu, !.publish = ports]
  BY DEF network_from_json
<1> HIDE DEF ports, memory, swap, c1, mode, mtu
<1>5. c3 = [c2 EXCEPT !.privileged = priv, !.no_new_privs = nnp, !.seccomp = sec, !.cap_drop = caps]
  BY DEF security_from_json
<1> HIDE DEF c2, priv, nnp, sec, caps
<1>6. c4 = [c3 EXCEPT !.netns = netns]
  BY DEF namespaces_from_json
<1> HIDE DEF c3, netns
<1>7. /\ DOMAIN c1 = Fields /\ c1.memory = memory /\ c1.memory_swap = swap
      /\ \A x \in Fields \ {"memory", "memory_swap"} : c1[x] = own[x]
  BY <1>2, <1>3 DEF Fields
<1>8. /\ DOMAIN c2 = Fields /\ c2.mode = mode /\ c2.mtu = mtu /\ c2.publish = ports
      /\ \A x \in Fields \ {"mode", "mtu", "publish"} : c2[x] = c1[x]
  BY <1>4, <1>7 DEF Fields
<1>9. /\ DOMAIN c3 = Fields /\ c3.privileged = priv /\ c3.no_new_privs = nnp /\ c3.seccomp = sec /\ c3.cap_drop = caps
      /\ \A x \in Fields \ {"privileged", "no_new_privs", "seccomp", "cap_drop"} : c3[x] = c2[x]
  BY <1>5, <1>8 DEF Fields
<1>10. /\ DOMAIN c4 = Fields /\ c4 = [x \in Fields |-> c4[x]] /\ c4.netns = netns
       /\ \A x \in Fields \ {"netns"} : c4[x] = c3[x]
  BY <1>6, <1>9 DEF Fields
<1> HIDE DEF c4
<1>11. \A x \in {"id", "name", "rootfs", "command", "hostname", "env", "read_only"} : c4[x] = own[x]
  BY <1>7, <1>8, <1>9, <1>10 DEF Fields
<1>12. \A x \in {"memory", "memory_swap"} : c4[x] = c1[x]
  BY <1>8, <1>9, <1>10 DEF Fields
<1>13. \A x \in {"mode", "mtu", "publish"} : c4[x] = c2[x]
  BY <1>9, <1>10 DEF Fields
<1>14. \A x \in {"privileged", "no_new_privs", "seccomp", "cap_drop"} : c4[x] = c3[x]
  BY <1>10 DEF Fields
<1>15. /\ c4.id = Field(doc, "id", "") /\ c4.name = Field(doc, "name", None) /\ c4.rootfs = Field(doc, "rootfs", "")
       /\ c4.command = Field(doc, "command", <<>>) /\ c4.hostname = Field(doc, "hostname", "")
       /\ c4.env = set_each(DefaultEnv, Field(doc, "env", <<>>)) /\ c4.read_only = Field(doc, "read_only", FALSE)
  BY <1>2, <1>11
<1>16. c4.memory = memory /\ c4.memory_swap = swap /\ c4.mode = mode /\ c4.mtu = mtu /\ c4.publish = ports
  BY <1>7, <1>8, <1>12, <1>13
<1>17. c4.privileged = priv /\ c4.no_new_privs = nnp /\ c4.seccomp = sec /\ c4.cap_drop = caps
  BY <1>9, <1>14
<1>18. c = c4
  BY <1>1
<1>19. DOMAIN c = Fields /\ c = [x \in Fields |-> c[x]]
  BY <1>10, <1>18
<1>20. /\ c.id = Field(doc, "id", "") /\ c.name = Field(doc, "name", None) /\ c.rootfs = Field(doc, "rootfs", "")
       /\ c.command = Field(doc, "command", <<>>) /\ c.hostname = Field(doc, "hostname", "")
       /\ c.env = set_each(DefaultEnv, Field(doc, "env", <<>>)) /\ c.read_only = Field(doc, "read_only", FALSE)
  BY <1>15, <1>18
<1>21. /\ c.memory = IF "memory" \in DOMAIN doc THEN num_or_size(doc.memory) ELSE None
       /\ c.memory_swap = IF "memory_swap" \in DOMAIN doc THEN num_or_size(doc.memory_swap) ELSE None
  BY <1>16, <1>18 DEF memory, swap
<1>22. c.mode = Field(doc, "mode", "none") /\ c.netns = Field(doc, "netns", TRUE)
  BY <1>10, <1>16, <1>18 DEF mode, netns
<1>23. c.mtu = mtu_of(doc)
  BY <1>16, <1>18 DEF mtu
<1>24. c.publish = [i \in DOMAIN Field(doc, "publish", <<>>) |-> publish_of(Field(doc, "publish", <<>>)[i])]
  BY <1>16, <1>18 DEF ports
<1>25. /\ c.privileged = Field(doc, "privileged", FALSE) /\ c.no_new_privs = Field(doc, "no_new_privs", TRUE)
       /\ c.seccomp = Field(doc, "seccomp", "default") /\ c.cap_drop = Field(doc, "cap_drop", <<>>)
  BY <1>17, <1>18 DEF priv, nnp, sec, caps
<1>26. \A x \in Plain : c[x] = Field(doc, x, Default[x])
  <2>1. /\ Default["id"] = "" /\ Default["name"] = None /\ Default["rootfs"] = "" /\ Default["command"] = <<>>
        /\ Default["hostname"] = "" /\ Default["read_only"] = FALSE /\ Default["privileged"] = FALSE
        /\ Default["no_new_privs"] = TRUE /\ Default["seccomp"] = "default" /\ Default["cap_drop"] = <<>>
        /\ Default["mode"] = "none" /\ Default["netns"] = TRUE
    BY DEF Default
  <2> QED
    BY <1>20, <1>22, <1>25, <2>1 DEF Plain
<1>27. c.env = set_each(DefaultEnv, Field(doc, "env", <<>>))
  BY <1>20
<1> QED
  BY <1>19, <1>21, <1>23, <1>24, <1>26, <1>27, Zenon DEF ReadFrom, PlainRead

(* What is written, and where a limit is left out.                         *)
WrittenTo(c, doc) ==
  /\ DOMAIN doc = Fields \ ((IF c.memory = None THEN {"memory"} ELSE {})
                            \cup (IF c.memory_swap = None THEN {"memory_swap"} ELSE {}))
  /\ \A x \in Plain \cup {"mtu"} : doc[x] = c[x]
  /\ doc.env = EnvDoc(c.env)
  /\ doc.publish = [i \in DOMAIN c.publish |-> port_to_json(c.publish[i])]
  /\ c.memory # None => doc.memory = [int |-> as_i64(c.memory[1])]
  /\ c.memory_swap # None => doc.memory_swap = [int |-> as_i64(c.memory_swap[1])]

LEMMA ToJsonIs ==
  ASSUME NEW c, NEW doc, doc = to_json(c)
  PROVE  WrittenTo(c, doc)
<1> DEFINE own == [id |-> c.id, name |-> c.name, rootfs |-> c.rootfs, command |-> c.command,
                   hostname |-> c.hostname, env |-> EnvDoc(c.env), read_only |-> c.read_only]
           mem == SizeDoc("memory", c.memory)
           swp == SizeDoc("memory_swap", c.memory_swap)
           net == network_to_json(c)
           sec == security_to_json(c)
           ns == namespaces_to_json(c)
           d3 == Over(sec, ns)
           d2 == Over(net, d3)
           res == Over(mem, swp)
           d1 == Over(res, d2)
<1>1. to_json(c) = Over(own, d1)
  BY DEF to_json, resources_to_json
<1>2. /\ DOMAIN own = {"id", "name", "rootfs", "command", "hostname", "env", "read_only"}
      /\ \A x \in {"id", "name", "rootfs", "command", "hostname", "read_only"} : own[x] = c[x]
      /\ own["env"] = EnvDoc(c.env)
  OBVIOUS
<1>3. /\ DOMAIN mem = (IF c.memory = None THEN {} ELSE {"memory"})
      /\ c.memory # None => mem["memory"] = [int |-> as_i64(c.memory[1])]
  BY DEF SizeDoc
<1>4. /\ DOMAIN swp = (IF c.memory_swap = None THEN {} ELSE {"memory_swap"})
      /\ c.memory_swap # None => swp["memory_swap"] = [int |-> as_i64(c.memory_swap[1])]
  BY DEF SizeDoc
<1>5. /\ DOMAIN net = {"mode", "mtu", "publish"} /\ net["mode"] = c["mode"] /\ net["mtu"] = c["mtu"]
      /\ net["publish"] = [i \in DOMAIN c.publish |-> port_to_json(c.publish[i])]
  BY DEF network_to_json
<1>6. /\ DOMAIN sec = {"privileged", "no_new_privs", "seccomp", "cap_drop"}
      /\ \A x \in DOMAIN sec : sec[x] = c[x]
  BY DEF security_to_json
<1>7. DOMAIN ns = {"netns"} /\ ns["netns"] = c["netns"]
  BY DEF namespaces_to_json
<1> HIDE DEF own, mem, swp, net, sec, ns
<1>8. /\ DOMAIN d3 = {"privileged", "no_new_privs", "seccomp", "cap_drop", "netns"}
      /\ \A x \in DOMAIN d3 : d3[x] = c[x]
  <2>1. /\ DOMAIN Over(sec, ns) = DOMAIN sec \cup DOMAIN ns
        /\ \A x \in DOMAIN sec : Over(sec, ns)[x] = sec[x]
        /\ \A x \in DOMAIN ns \ DOMAIN sec : Over(sec, ns)[x] = ns[x]
    BY OverIs, Zenon
  <2> QED
    BY <1>6, <1>7, <2>1
<1> HIDE DEF d3
<1>9. /\ DOMAIN d2 = {"mode", "mtu", "publish", "privileged", "no_new_privs", "seccomp", "cap_drop", "netns"}
      /\ \A x \in {"mode", "mtu", "privileged", "no_new_privs", "seccomp", "cap_drop", "netns"} : d2[x] = c[x]
      /\ d2["publish"] = [i \in DOMAIN c.publish |-> port_to_json(c.publish[i])]
  <2>1. /\ DOMAIN Over(net, d3) = DOMAIN net \cup DOMAIN d3
        /\ \A x \in DOMAIN net : Over(net, d3)[x] = net[x]
        /\ \A x \in DOMAIN d3 \ DOMAIN net : Over(net, d3)[x] = d3[x]
    BY OverIs, Zenon
  <2> QED
    BY <1>5, <1>8, <2>1
<1> HIDE DEF d2
<1>10. /\ DOMAIN res = (IF c.memory = None THEN {} ELSE {"memory"}) \cup (IF c.memory_swap = None THEN {} ELSE {"memory_swap"})
       /\ c.memory # None => res["memory"] = [int |-> as_i64(c.memory[1])]
       /\ c.memory_swap # None => res["memory_swap"] = [int |-> as_i64(c.memory_swap[1])]
  <2>1. /\ DOMAIN Over(mem, swp) = DOMAIN mem \cup DOMAIN swp
        /\ \A x \in DOMAIN mem : Over(mem, swp)[x] = mem[x]
        /\ \A x \in DOMAIN swp \ DOMAIN mem : Over(mem, swp)[x] = swp[x]
    BY OverIs, Zenon
  <2> QED
    BY <1>3, <1>4, <2>1
<1> HIDE DEF res
<1>11. /\ DOMAIN d1 = DOMAIN res \cup DOMAIN d2
       /\ \A x \in DOMAIN res : d1[x] = res[x]
       /\ \A x \in DOMAIN d2 : d1[x] = d2[x]
  <2>1. /\ DOMAIN Over(res, d2) = DOMAIN res \cup DOMAIN d2
        /\ \A x \in DOMAIN res : Over(res, d2)[x] = res[x]
        /\ \A x \in DOMAIN d2 \ DOMAIN res : Over(res, d2)[x] = d2[x]
    BY OverIs, Zenon
  <2>2. DOMAIN res \cap DOMAIN d2 = {}
    BY <1>9, <1>10
  <2> QED
    BY <2>1, <2>2
<1> HIDE DEF d1
<1>12. /\ DOMAIN to_json(c) = DOMAIN own \cup DOMAIN d1
       /\ \A x \in DOMAIN own : to_json(c)[x] = own[x]
       /\ \A x \in DOMAIN d1 \ DOMAIN own : to_json(c)[x] = d1[x]
  <2>1. /\ DOMAIN Over(own, d1) = DOMAIN own \cup DOMAIN d1
        /\ \A x \in DOMAIN own : Over(own, d1)[x] = own[x]
        /\ \A x \in DOMAIN d1 \ DOMAIN own : Over(own, d1)[x] = d1[x]
    BY OverIs, Zenon
  <2> QED
    BY <1>1, <2>1
<1>13. DOMAIN to_json(c) = Fields \ ((IF c.memory = None THEN {"memory"} ELSE {})
                                   \cup (IF c.memory_swap = None THEN {"memory_swap"} ELSE {}))
  BY <1>2, <1>9, <1>10, <1>11, <1>12 DEF Fields
<1>14. to_json(c)["env"] = EnvDoc(c.env) /\ to_json(c)["publish"] = [i \in DOMAIN c.publish |-> port_to_json(c.publish[i])]
  BY <1>2, <1>9, <1>11, <1>12
<1>15. \A x \in Plain \cup {"mtu"} : to_json(c)[x] = c[x]
  BY <1>2, <1>9, <1>11, <1>12 DEF Plain
<1>16. /\ c.memory # None => to_json(c)["memory"] = [int |-> as_i64(c.memory[1])]
       /\ c.memory_swap # None => to_json(c)["memory_swap"] = [int |-> as_i64(c.memory_swap[1])]
  BY <1>2, <1>9, <1>10, <1>11, <1>12
<1> QED
  BY <1>13, <1>14, <1>15, <1>16 DEF WrittenTo

(* The last value of a key in a list where each key is there once.         *)
LEMMA EnvTrip ==
  ASSUME NEW env, env = [k \in DOMAIN env |-> env[k]], IsFiniteSet(DOMAIN env), "PATH" \in DOMAIN env
  PROVE  set_each(DefaultEnv, EnvDoc(env)) = env
<1> DEFINE P == {<<k, env[k]>> : k \in DOMAIN env}
           list == EnvDoc(env)
           own == [k \in {list[i][1] : i \in DOMAIN list} |-> list[Max({i \in DOMAIN list : list[i][1] = k})][2]]
<1>1. IsFiniteSet(P)
  <2> DEFINE f == [k \in DOMAIN env |-> <<k, env[k]>>]
  <2>1. f \in Surjection(DOMAIN env, P)
    BY DEF Surjection
  <2> HIDE DEF f, P
  <2> QED
    BY <2>1, FS_Surjection
<1>2. list \in Seq(P) /\ ToSet(list) = P /\ IsInjective(list)
  <2>1. list = SetToSeq(P)
    BY DEF EnvDoc
  <2> HIDE DEF P, list
  <2> QED
    BY <1>1, <2>1, ListOfSet
<1>3. /\ Len(list) \in Nat /\ DOMAIN list = 1 .. Len(list)
      /\ \A i \in DOMAIN list : \E k \in DOMAIN env : list[i] = <<k, env[k]>>
      /\ \A k \in DOMAIN env : \E i \in DOMAIN list : list[i] = <<k, env[k]>>
      /\ \A i, j \in DOMAIN list : list[i] = list[j] => i = j
  <2>1. Len(list) \in Nat /\ DOMAIN list = 1 .. Len(list) /\ \A i \in DOMAIN list : list[i] \in P
    <3> HIDE DEF P, list
    <3> QED
      BY <1>2, LenProperties, ElementOfSeq
  <2>2. \A x \in P : \E i \in DOMAIN list : list[i] = x
    <3> HIDE DEF P, list
    <3> QED
      BY <1>2 DEF ToSet
  <2>3. \A i, j \in DOMAIN list : list[i] = list[j] => i = j
    <3> HIDE DEF list
    <3> QED
      BY <1>2 DEF IsInjective
  <2> HIDE DEF list
  <2> QED
    BY <2>1, <2>2, <2>3
<1> HIDE DEF list, P
<1>4. {list[i][1] : i \in DOMAIN list} = DOMAIN env
  <2>1. \A i \in DOMAIN list : list[i][1] \in DOMAIN env
    BY <1>3
  <2>2. ASSUME NEW k \in DOMAIN env PROVE \E i \in DOMAIN list : list[i][1] = k
    <3>1. PICK i \in DOMAIN list : list[i] = <<k, env[k]>>
      BY <1>3
    <3> QED
      BY <3>1
  <2> QED
    BY <2>1, <2>2
<1>5. ASSUME NEW k \in DOMAIN env PROVE list[Max({i \in DOMAIN list : list[i][1] = k})][2] = env[k]
  <2>1. PICK i \in DOMAIN list : list[i] = <<k, env[k]>>
    BY <1>3
  <2>2. {j \in DOMAIN list : list[j][1] = k} = {i}
    <3>1. ASSUME NEW j \in DOMAIN list, list[j][1] = k PROVE j = i
      <4>1. PICK l \in DOMAIN env : list[j] = <<l, env[l]>>
        BY <1>3
      <4> QED
        BY <1>3, <2>1, <3>1, <4>1
    <3> QED
      BY <2>1, <3>1
  <2>3. Max({i}) = i
    BY <1>3 DEF Max
  <2> QED
    BY <2>1, <2>2, <2>3
<1>6. own = [k \in DOMAIN env |-> env[k]]
  BY <1>4, <1>5
<1>7. set_each(DefaultEnv, EnvDoc(env)) = Over(own, DefaultEnv)
  BY DEF set_each, list
<1> HIDE DEF own
<1>8. DOMAIN own = DOMAIN env /\ \A k \in DOMAIN env : own[k] = env[k]
  BY <1>6
<1>9. DOMAIN DefaultEnv = {"PATH"}
  BY DEF DefaultEnv
<1>10. Over(own, DefaultEnv) = [k \in DOMAIN env |-> env[k]]
  BY <1>8, <1>9 DEF Over
<1> QED
  BY <1>7, <1>10

LEMMA SmallMod ==
  ASSUME NEW m \in Nat, NEW n \in Nat, n < m
  PROVE  n % m = n
  OBVIOUS

LEMMA PortsTrip ==
  ASSUME NEW s \in Seq(Mappings)
  PROVE  LET doc == [i \in DOMAIN s |-> port_to_json(s[i])] IN
         [i \in DOMAIN doc |-> publish_of(doc[i])] = s
<1>1. Len(s) \in Nat /\ DOMAIN s = 1 .. Len(s) /\ \A i \in DOMAIN s : s[i] \in Mappings
  BY LenProperties, ElementOfSeq
<1>2. ASSUME NEW m \in Mappings PROVE publish_of(port_to_json(m)) = m
  <2>1. m.host_port \in 0 .. U16 - 1 /\ m.container_port \in 0 .. U16 - 1
    BY DEF Mappings
  <2>2. m.host_port % U16 = m.host_port /\ m.container_port % U16 = m.container_port
    <3>1. U16 \in Nat
      BY DEF U16
    <3>2. \A n \in 0 .. U16 - 1 : n \in Nat /\ n < U16
      BY <3>1
    <3> QED
      BY <2>1, <3>1, <3>2, SmallMod
  <2>3. "text" \notin DOMAIN port_to_json(m)
    BY DEF port_to_json
  <2>4. publish_of(port_to_json(m)) = Mapping(m.host_port, m.container_port, m.protocol)
    BY <2>2, <2>3 DEF publish_of, cast_port, port_to_json, Field
  <2> QED
    BY <2>4 DEF Mapping, Mappings
<1>3. \A i \in DOMAIN s : publish_of(port_to_json(s[i])) = s[i]
  BY <1>1, <1>2
<1>4. s = [i \in DOMAIN s |-> s[i]]
  BY <1>1
<1> QED
  BY <1>3, <1>4

LEMMA SizeTrip ==
  ASSUME NEW v, Fits(v), v # None
  PROVE  num_or_size([int |-> as_i64(v[1])]) = v
<1>1. PICK n \in Nat : v = <<n>> /\ n < Word \div 2
  BY DEF Fits
<1>2. as_i64(n) = n
  BY <1>1, ConfigAssumption DEF as_i64
<1>3. "text" \notin DOMAIN [int |-> n]
  OBVIOUS
<1> QED
  BY <1>1, <1>2, <1>3 DEF num_or_size, as_u64, Some

(* What is written to a file is what is read back.                         *)
LEMMA RoundTrip ==
  ASSUME NEW c, Valid(c)
  PROVE  from_json(to_json(c)) = c
<1> DEFINE doc == to_json(c)
<1>0. Writable(c) /\ c.mtu \in 0 .. Half32 - 1 /\ c = [x \in Fields |-> c[x]]
  BY DEF Valid
<1>1. PICK d : d = from_json(doc)
  OBVIOUS
<1>2. WrittenTo(c, doc)
  BY ToJsonIs
<1>3. ReadFrom(d, doc)
  BY <1>1, FromJsonIs
<1> HIDE DEF doc
<1>4. \A x \in Fields \ {"memory", "memory_swap"} : x \in DOMAIN doc
  BY <1>2 DEF WrittenTo, Fields
<1>5. d.env = c.env
  <2>1. d.env = set_each(DefaultEnv, Field(doc, "env", <<>>)) /\ doc.env = EnvDoc(c.env)
    BY <1>2, <1>3 DEF ReadFrom, WrittenTo
  <2>2. Field(doc, "env", <<>>) = doc.env
    BY <1>4 DEF Field, Fields
  <2>3. set_each(DefaultEnv, EnvDoc(c.env)) = c.env
    BY <1>0, EnvTrip DEF Writable
  <2> QED
    BY <2>1, <2>2, <2>3
<1>6. d.publish = c.publish
  <2>1. PICK list : list = Field(doc, "publish", <<>>)
    OBVIOUS
  <2>2. d.publish = [i \in DOMAIN list |-> publish_of(list[i])]
    BY <1>3, <2>1 DEF ReadFrom
  <2>3. list = [i \in DOMAIN c.publish |-> port_to_json(c.publish[i])]
    <3>1. list = doc.publish
      BY <1>4, <2>1 DEF Field, Fields
    <3> QED
      BY <1>2, <3>1 DEF WrittenTo
  <2>4. [i \in DOMAIN list |-> publish_of(list[i])] = c.publish
    <3>1. c.publish \in Seq(Mappings)
      BY <1>0 DEF Writable
    <3> QED
      BY <2>3, <3>1, PortsTrip
  <2> QED
    BY <2>2, <2>4
<1>7. d.memory = c.memory /\ d.memory_swap = c.memory_swap
  <2>1. Fits(c.memory) /\ Fits(c.memory_swap)
    BY <1>0 DEF Writable
  <2>2. ("memory" \in DOMAIN doc <=> c.memory # None) /\ ("memory_swap" \in DOMAIN doc <=> c.memory_swap # None)
    BY <1>2 DEF WrittenTo, Fields
  <2>3. /\ d.memory = IF "memory" \in DOMAIN doc THEN num_or_size(doc.memory) ELSE None
        /\ d.memory_swap = IF "memory_swap" \in DOMAIN doc THEN num_or_size(doc.memory_swap) ELSE None
        /\ c.memory # None => doc.memory = [int |-> as_i64(c.memory[1])]
        /\ c.memory_swap # None => doc.memory_swap = [int |-> as_i64(c.memory_swap[1])]
    BY <1>2, <1>3 DEF ReadFrom, WrittenTo
  <2>4. /\ c.memory # None => num_or_size([int |-> as_i64(c.memory[1])]) = c.memory
        /\ c.memory_swap # None => num_or_size([int |-> as_i64(c.memory_swap[1])]) = c.memory_swap
    BY <2>1, SizeTrip
  <2> QED
    BY <2>2, <2>3, <2>4
<1>8. d.mtu = c.mtu
  <2>1. d.mtu = mtu_of(doc) /\ doc.mtu = c.mtu
    BY <1>2, <1>3 DEF ReadFrom, WrittenTo
  <2>2. Field(doc, "mtu", -1) = doc.mtu
    BY <1>4 DEF Field, Fields
  <2>3. ASSUME NEW n \in 0 .. Half32 - 1 PROVE n % Half32 = n /\ ~(n < 0)
    BY ConfigAssumption
  <2> QED
    BY <1>0, <2>1, <2>2, <2>3 DEF mtu_of
<1>9. ASSUME NEW x \in Plain PROVE d[x] = c[x]
  <2>1. d[x] = Field(doc, x, Default[x]) /\ doc[x] = c[x]
    <3>1. \A y \in Plain : d[y] = Field(doc, y, Default[y])
      <4>1. PlainRead(d, doc)
        BY <1>3 DEF ReadFrom
      <4> QED
        BY <4>1, Zenon DEF PlainRead
    <3>2. \A y \in Plain : doc[y] = c[y]
      BY <1>2 DEF WrittenTo
    <3> QED
      BY <3>1, <3>2, Zenon
  <2>2. x \in DOMAIN doc
    BY <1>4 DEF Plain, Fields
  <2> QED
    BY <2>1, <2>2 DEF Field
<1>10. \A x \in Fields : d[x] = c[x]
  BY <1>5, <1>6, <1>7, <1>8, <1>9 DEF Fields, Plain
<1>12. d = [x \in Fields |-> d[x]]
  BY <1>3 DEF ReadFrom
<1>13. d = c
  BY <1>0, <1>10, <1>12
<1> QED
  BY <1>1, <1>13 DEF doc

-----------------------------------------------------------------------------
(* Counting up.                                                            *)

LEMMA LeastOf ==
  ASSUME NEW S \in SUBSET Nat, S # {}
  PROVE  \E x \in S : \A y \in S : x <= y
<1> DEFINE R == {ss \in Nat \X Nat : ss[1] < ss[2]}
<1>1. IsWellFoundedOn(R, Nat)
  BY NatLessThanWellFounded, Zenon DEF OpToRel
<1>2. \E x \in S : \A y \in S : ~(<<y, x>> \in R)
  <2> HIDE DEF R
  <2> QED
    BY <1>1, WFMin
<1>3. PICK x \in S : \A y \in S : ~(<<y, x>> \in R)
  BY <1>2
<1>4. ASSUME NEW y \in S PROVE x <= y
  <2>1. x \in Nat /\ y \in Nat
    OBVIOUS
  <2>2. ~(<<y, x>>[1] < <<y, x>>[2])
    BY <1>3, <2>1
  <2> QED
    BY <2>1, <2>2
<1> QED
  BY <1>4

LEMMA UpTo ==
  ASSUME NEW n \in Nat, NEW S, 0 \in S, \A k \in 1 .. n : k - 1 \in S => k \in S
  PROVE  0 .. n \subseteq S
<1> DEFINE Bad == (0 .. n) \ S
<1>1. SUFFICES ASSUME Bad # {} PROVE FALSE
  OBVIOUS
<1>2. PICK k \in Bad : \A y \in Bad : k <= y
  <2>1. Bad \in SUBSET Nat
    OBVIOUS
  <2> HIDE DEF Bad
  <2> QED
    BY <1>1, <2>1, LeastOf
<1>3. k \in 1 .. n /\ k \notin S
  BY <1>2
<1>4. k - 1 \in S
  <2>1. k - 1 \in 0 .. n /\ ~(k <= k - 1)
    BY <1>3
  <2> QED
    BY <1>2, <2>1
<1> QED
  BY <1>3, <1>4

(* The loop over the arguments, as a function.                             *)
LEMMA LoopIs ==
  ASSUME NEW tokens, NEW base, Len(tokens) \in Nat
  PROVE  \E g : /\ parse_run_pass(tokens, base) = Finish(g[Len(tokens)])
                /\ g[0] = Start(base) /\ \A i \in 1 .. Len(tokens) : g[i] = Turn(g[i - 1], tokens[i])
<1> DEFINE n == Len(tokens)
           loop[i \in 0 .. n] == IF i = 0 THEN Start(base) ELSE Turn(loop[i - 1], tokens[i])
           Is(g, m) == g = [i \in 0 .. m |-> IF i = 0 THEN Start(base) ELSE Turn(g[i - 1], tokens[i])]
           Has == {m \in 0 .. n : \E g : Is(g, m)}
<1>1. parse_run_pass(tokens, base) = Finish(loop[n])
  BY DEF parse_run_pass
<1>2. 0 \in Has
  <2> DEFINE g == [i \in 0 .. 0 |-> Start(base)]
  <2>1. Is(g, 0)
    OBVIOUS
  <2> HIDE DEF g, Is
  <2> QED
    BY <2>1
<1>3. ASSUME NEW m \in 1 .. n, m - 1 \in Has PROVE m \in Has
  <2>1. PICK g : Is(g, m - 1)
    BY <1>3
  <2> DEFINE h == [i \in 0 .. m |-> IF i <= m - 1 THEN g[i] ELSE Turn(g[m - 1], tokens[m])]
  <2>2. ASSUME NEW i \in 0 .. m PROVE h[i] = IF i = 0 THEN Start(base) ELSE Turn(h[i - 1], tokens[i])
    <3>1. CASE i <= m - 1
      <4>1. i \in 0 .. m - 1 /\ (i # 0 => i - 1 \in 0 .. m /\ i - 1 <= m - 1)
        BY <3>1
      <4>2. g[i] = IF i = 0 THEN Start(base) ELSE Turn(g[i - 1], tokens[i])
        BY <2>1, <4>1
      <4> QED
        BY <3>1, <4>1, <4>2
    <3>2. CASE i = m
      <4>1. i # 0 /\ ~(i <= m - 1) /\ i - 1 \in 0 .. m /\ i - 1 <= m - 1
        BY <3>2
      <4> QED
        BY <3>2, <4>1
    <3> QED
      BY <3>1, <3>2
  <2>3. Is(h, m)
    <3>1. h = [i \in 0 .. m |-> h[i]]
      OBVIOUS
    <3> HIDE DEF h
    <3> QED
      BY <2>2, <3>1
  <2> HIDE DEF h, Is
  <2> QED
    BY <2>3
<1>4. n \in Has
  <2>1. n \in Nat /\ n \in 0 .. n
    OBVIOUS
  <2> HIDE DEF Has, n
  <2> QED
    BY <1>2, <1>3, <2>1, UpTo
<1>5. loop = [i \in 0 .. n |-> IF i = 0 THEN Start(base) ELSE Turn(loop[i - 1], tokens[i])]
  BY <1>4
<1> HIDE DEF loop
<1>6. loop[0] = Start(base) /\ \A i \in 1 .. n : loop[i] = Turn(loop[i - 1], tokens[i])
  BY <1>5
<1> QED
  BY <1>1, <1>6

LEMMA FlattenIsSeq ==
  ASSUME NEW S, NEW s \in Seq(Seq(S))
  PROVE  FlattenSeq(s) \in Seq(S)
<1> DEFINE n == Len(s)
           flatten[i \in 1 .. n] == IF i = 1 THEN s[i] ELSE flatten[i - 1] \o s[i]
           Is(g, m) == g = [i \in 1 .. m |-> IF i = 1 THEN s[i] ELSE g[i - 1] \o s[i]]
           Has == {m \in 0 .. n : \E g : Is(g, m) /\ \A i \in 1 .. m : g[i] \in Seq(S)}
<1>0. n \in Nat /\ \A i \in 1 .. n : s[i] \in Seq(S)
  BY LenProperties, ElementOfSeq
<1>1. CASE n = 0
  <2>1. s = <<>>
    BY <1>1, EmptySeq
  <2> QED
    BY <1>1, <2>1 DEF FlattenSeq
<1>2. CASE n # 0
  <2>1. FlattenSeq(s) = flatten[n]
    BY <1>2 DEF FlattenSeq
  <2>2. 0 \in Has
    <3> DEFINE g == [i \in 1 .. 0 |-> s[i]]
    <3>1. Is(g, 0) /\ \A i \in 1 .. 0 : g[i] \in Seq(S)
      OBVIOUS
    <3>2. 0 \in 0 .. n
      BY <1>0
    <3> HIDE DEF g, Is
    <3> QED
      BY <3>1, <3>2
  <2>3. ASSUME NEW m \in 1 .. n, m - 1 \in Has PROVE m \in Has
    <3>1. PICK g : Is(g, m - 1) /\ \A i \in 1 .. m - 1 : g[i] \in Seq(S)
      <4> HIDE DEF Is
      <4> QED
        BY <2>3
    <3> DEFINE h == [i \in 1 .. m |-> IF i <= m - 1 THEN g[i] ELSE IF m = 1 THEN s[m] ELSE g[m - 1] \o s[m]]
    <3>2. ASSUME NEW i \in 1 .. m PROVE h[i] = IF i = 1 THEN s[i] ELSE h[i - 1] \o s[i]
      <4>1. CASE i <= m - 1
        <5>1. i \in 1 .. m - 1 /\ (i # 1 => i - 1 \in 1 .. m /\ i - 1 <= m - 1)
          BY <4>1
        <5>2. g[i] = IF i = 1 THEN s[i] ELSE g[i - 1] \o s[i]
          BY <3>1, <5>1
        <5> QED
          BY <4>1, <5>1, <5>2
      <4>2. CASE i = m
        <5>1. ~(i <= m - 1) /\ (i # 1 => i - 1 \in 1 .. m /\ i - 1 <= m - 1)
          BY <4>2
        <5> QED
          BY <4>2, <5>1
      <4> QED
        BY <4>1, <4>2
    <3>3. ASSUME NEW i \in 1 .. m PROVE h[i] \in Seq(S)
      <4>1. CASE i <= m - 1
        <5>1. i \in 1 .. m - 1 /\ h[i] = g[i]
          BY <4>1
        <5> QED
          BY <3>1, <5>1
      <4>2. CASE i = m /\ m = 1
        BY <1>0, <4>2
      <4>3. CASE i = m /\ m # 1
        <5>1. m - 1 \in 1 .. m - 1 /\ ~(m <= m - 1)
          BY <4>3
        <5>2. g[m - 1] \in Seq(S) /\ s[m] \in Seq(S)
          BY <1>0, <3>1, <5>1
        <5>3. g[m - 1] \o s[m] \in Seq(S)
          BY <5>2, ConcatProperties
        <5> QED
          BY <4>3, <5>1, <5>3
      <4> QED
        BY <4>1, <4>2, <4>3
    <3>4. Is(h, m)
      <4>1. h = [i \in 1 .. m |-> h[i]]
        OBVIOUS
      <4> HIDE DEF h
      <4> QED
        BY <3>2, <4>1
    <3> HIDE DEF h, Is
    <3> QED
      BY <3>3, <3>4
  <2>4. n \in Has
    <3>1. n \in Nat /\ n \in 0 .. n
      BY <1>0
    <3> HIDE DEF Has, n
    <3> QED
      BY <2>2, <2>3, <3>1, UpTo
  <2>5. flatten = [i \in 1 .. n |-> IF i = 1 THEN s[i] ELSE flatten[i - 1] \o s[i]]
    BY <2>4
  <2> HIDE DEF flatten
  <2> DEFINE Good == {0} \cup {i \in 1 .. n : flatten[i] \in Seq(S)}
  <2>6. ASSUME NEW m \in 1 .. n, m - 1 \in Good PROVE m \in Good
    <3>1. CASE m = 1
      BY <1>0, <2>5, <3>1
    <3>2. CASE m # 1
      <4>1. m - 1 \in 1 .. n /\ flatten[m - 1] \in Seq(S) /\ s[m] \in Seq(S)
        BY <1>0, <2>6, <3>2
      <4>2. flatten[m - 1] \o s[m] \in Seq(S)
        BY <4>1, ConcatProperties
      <4> QED
        BY <2>5, <3>2, <4>2
    <3> QED
      BY <3>1, <3>2
  <2>7. n \in Good
    <3>1. n \in Nat /\ n \in 0 .. n /\ 0 \in Good
      BY <1>0
    <3> HIDE DEF Good, n
    <3> QED
      BY <2>6, <3>1, UpTo
  <2> QED
    BY <1>2, <2>1, <2>7
<1> QED
  BY <1>1, <1>2

LEMMA ShortLists ==
  ASSUME NEW S, NEW a \in S, NEW b \in S
  PROVE  <<>> \in Seq(S) /\ <<a>> \in Seq(S) /\ <<a, b>> \in Seq(S)
  OBVIOUS

(* The arguments of a line are a list.                                     *)
LEMMA RenderIsSeq ==
  ASSUME NEW l, LineOk(l)
  PROVE  Len(Render(l)) \in Nat
<1> DEFINE opts(s) == FlattenSeq([i \in DOMAIN s |-> Tokens(s[i])])
           Inline(o) == [text |-> o.flag, dash |-> TRUE, flag |-> o.flag, inline |-> <<o.text>>]
           Words == {Word1(t, TRUE) : t \in STRING \cup {"--"}} \cup {Word1(t, FALSE) : t \in STRING}
           Inlines == {Inline(o) : o \in Option}
           Toks == Token \cup Words \cup Inlines
<1>0. /\ \A t \in STRING : Word1(t, TRUE) \in Toks /\ Word1(t, FALSE) \in Toks
      /\ Word1("--", TRUE) \in Toks /\ Token \subseteq Toks
  <2>1. \A t \in STRING \cup {"--"} : Word1(t, TRUE) \in Words
    OBVIOUS
  <2>2. \A t \in STRING : Word1(t, FALSE) \in Words
    OBVIOUS
  <2> HIDE DEF Words, Inlines
  <2> QED
    BY <2>1, <2>2, Zenon
<1>a. \A o \in Option : Inline(o) \in Toks
  <2>1. \A o \in Option : Inline(o) \in Inlines
    <3> HIDE DEF Inline
    <3> QED
      OBVIOUS
  <2> HIDE DEF Words, Inlines, Inline
  <2> QED
    BY <2>1, Zenon
<1> HIDE DEF Toks
<1>1. ASSUME NEW o \in Option PROVE Tokens(o) \in Seq(Toks)
  <2>1. Word1(o.flag, TRUE) \in Toks /\ Word1(o.text, FALSE) \in Toks
    <3>1. o.flag \in STRING /\ o.text \in STRING
      BY DEF Option
    <3> QED
      BY <1>0, <3>1
  <2>2. Inline(o) \in Toks
    BY <1>a
  <2>3. Tokens(o) \in {<<Word1(o.flag, TRUE)>>, <<Word1(o.flag, TRUE), Word1(o.text, FALSE)>>, <<Inline(o)>>}
    BY DEF Tokens, Some
  <2> HIDE DEF Inline
  <2> QED
    BY <2>1, <2>2, <2>3, ShortLists
<1>2. l.command \in Seq(Toks)
  <2>1. l.command \in Seq(Token) /\ Token \subseteq Toks
    BY <1>0 DEF LineOk
  <2> QED
    BY <2>1
<1>3. Word1("--", TRUE) \in Toks
  BY <1>0
<1>4. ASSUME NEW t \in STRING PROVE Word1(t, FALSE) \in Toks
  BY <1>0
<1>5. ASSUME NEW s \in Seq(Option) PROVE opts(s) \in Seq(Toks)
  <2> DEFINE f == [i \in DOMAIN s |-> Tokens(s[i])]
  <2>1. Len(s) \in Nat /\ DOMAIN s = 1 .. Len(s) /\ \A i \in 1 .. Len(s) : s[i] \in Option
    BY LenProperties, ElementOfSeq
  <2>2. f \in [1 .. Len(s) -> Seq(Toks)]
    BY <1>1, <2>1
  <2>3. f \in Seq(Seq(Toks))
    <3> HIDE DEF f
    <3> QED
      BY <2>1, <2>2, SeqDef
  <2> HIDE DEF f
  <2>4. FlattenSeq(f) \in Seq(Toks)
    BY <2>3, FlattenIsSeq
  <2> QED
    BY <2>4 DEF f
<1>6. PICK a : a = opts(l.opts)
  OBVIOUS
<1>7. PICK b : b = IF l.rootfs = None THEN <<>> ELSE <<Word1(l.rootfs[1], FALSE)>>
  OBVIOUS
<1>8. PICK c : c = opts(l.late)
  OBVIOUS
<1>9. PICK d : d = IF l.sep THEN <<Word1("--", TRUE)>> ELSE <<>>
  OBVIOUS
<1>10. a \in Seq(Toks) /\ c \in Seq(Toks)
  <2>1. opts(l.opts) \in Seq(Toks) /\ opts(l.late) \in Seq(Toks)
    BY <1>5 DEF LineOk
  <2> QED
    BY <1>6, <1>8, <2>1
<1>11. b \in Seq(Toks)
  <2>1. CASE l.rootfs = None
    BY <1>7, <2>1
  <2>2. CASE l.rootfs # None
    <3>1. l.rootfs[1] \in STRING
      BY <2>2, EmptySeq, LenProperties, ElementOfSeq DEF LineOk, None
    <3>2. Word1(l.rootfs[1], FALSE) \in Toks
      BY <1>4, <3>1
    <3> QED
      BY <1>7, <2>2, <3>2, ShortLists
  <2> QED
    BY <2>1, <2>2
<1>12. d \in Seq(Toks)
  BY <1>3, <1>9, ShortLists
<1>13. Render(l) = a \o b \o c \o d \o l.command
  BY <1>6, <1>7, <1>8, <1>9 DEF Render
<1>14. ASSUME NEW e \in Seq(Toks) PROVE a \o b \o c \o d \o e \in Seq(Toks)
  BY <1>10, <1>11, <1>12
<1>15. Render(l) \in Seq(Toks)
  BY <1>2, <1>13, <1>14
<1> QED
  BY <1>15, LenProperties

-----------------------------------------------------------------------------
(* Every configuration that is parsed can be written.                      *)

Others == Fields \ {"memory", "memory_swap", "env", "publish"}

LEMMA OtherField ==
  ASSUME NEW c, Writable(c), NEW x \in Others, NEW v
  PROVE  Writable([c EXCEPT ![x] = v])
<1> DEFINE d == [c EXCEPT ![x] = v]
<1>1. x \in Fields /\ x # "memory" /\ x # "memory_swap" /\ x # "env" /\ x # "publish"
  BY DEF Others
<1>2. DOMAIN c = Fields
  BY DEF Writable
<1>3. DOMAIN d = Fields /\ \A y \in Fields \ {x} : d[y] = c[y]
  BY <1>1, <1>2
<1> HIDE DEF d
<1>4. d.memory = c.memory /\ d.memory_swap = c.memory_swap /\ d.env = c.env /\ d.publish = c.publish
  BY <1>1, <1>3 DEF Fields
<1>5. Writable(d)
  BY <1>3, <1>4 DEF Writable
<1> QED
  BY <1>5 DEF d

LEMMA SizeField ==
  ASSUME NEW c, Writable(c), NEW x \in {"memory", "memory_swap"}, NEW v, Fits(v)
  PROVE  Writable([c EXCEPT ![x] = v])
<1> DEFINE d == [c EXCEPT ![x] = v]
<1>2. DOMAIN c = Fields /\ x \in Fields /\ x # "env" /\ x # "publish"
  BY DEF Writable, Fields
<1>3. DOMAIN d = Fields /\ d[x] = v /\ \A y \in Fields \ {x} : d[y] = c[y]
  BY <1>2
<1> HIDE DEF d
<1>4. d.env = c.env /\ d.publish = c.publish /\ d["memory"] \in {v, c.memory} /\ d["memory_swap"] \in {v, c.memory_swap}
  BY <1>2, <1>3 DEF Fields
<1>5. Writable(d)
  BY <1>3, <1>4 DEF Writable
<1> QED
  BY <1>5 DEF d

EnvOk(env) == env = [k \in DOMAIN env |-> env[k]] /\ IsFiniteSet(DOMAIN env) /\ "PATH" \in DOMAIN env

LEMMA EnvField ==
  ASSUME NEW c, Writable(c), NEW v, EnvOk(v)
  PROVE  Writable([c EXCEPT !.env = v])
<1> DEFINE d == [c EXCEPT !.env = v]
<1>2. DOMAIN c = Fields
  BY DEF Writable
<1>3. DOMAIN d = Fields /\ d.env = v /\ \A y \in Fields \ {"env"} : d[y] = c[y]
  BY <1>2 DEF Fields
<1> HIDE DEF d
<1>4. d.memory = c.memory /\ d.memory_swap = c.memory_swap /\ d.publish = c.publish
  BY <1>3 DEF Fields
<1>5. Writable(d)
  BY <1>3, <1>4 DEF Writable, EnvOk
<1> QED
  BY <1>5 DEF d

LEMMA PublishField ==
  ASSUME NEW c, Writable(c), NEW v \in Seq(Mappings)
  PROVE  Writable([c EXCEPT !.publish = v])
<1> DEFINE d == [c EXCEPT !.publish = v]
<1>2. DOMAIN c = Fields
  BY DEF Writable
<1>3. DOMAIN d = Fields /\ d.publish = v /\ \A y \in Fields \ {"publish"} : d[y] = c[y]
  BY <1>2 DEF Fields
<1> HIDE DEF d
<1>4. d.memory = c.memory /\ d.memory_swap = c.memory_swap /\ d.env = c.env
  BY <1>3 DEF Fields
<1>5. Writable(d)
  BY <1>3, <1>4 DEF Writable
<1> QED
  BY <1>5 DEF d

LEMMA OverEnv ==
  ASSUME NEW own, IsFiniteSet(DOMAIN own), NEW env, EnvOk(env)
  PROVE  EnvOk(Over(own, env))
<1>1. DOMAIN Over(own, env) = DOMAIN own \cup DOMAIN env
  BY DEF Over
<1>2. Over(own, env) = [k \in DOMAIN Over(own, env) |-> Over(own, env)[k]]
  BY DEF Over
<1>3. IsFiniteSet(DOMAIN own \cup DOMAIN env)
  BY FS_Union DEF EnvOk
<1> QED
  BY <1>1, <1>2, <1>3 DEF EnvOk

LEMMA SetEnvOk ==
  ASSUME NEW env, EnvOk(env), NEW kv
  PROVE  EnvOk(set_env(env, kv))
<1>1. DOMAIN [k \in {kv[1]} |-> kv[2]] = {kv[1]} /\ IsFiniteSet({kv[1]})
  BY FS_Singleton
<1> QED
  BY <1>1, OverEnv DEF set_env

LEMMA U16Is == U16 \in Nat /\ U16 > 65535
  BY DEF U16

(* The value of a flag.                                                    *)
LEMMA SetValueKeeps ==
  ASSUME SizesFit, NEW c, Writable(c), NEW flag, NEW text, ValueOk(flag, text)
  PROVE  Writable(SetValue(c, flag, text))
<1>0. /\ "name" \in Others /\ "rootfs" \in Others /\ "mode" \in Others
      /\ "cap_drop" \in Others /\ "seccomp" \in Others /\ "mtu" \in Others
  BY DEF Others, Fields
<1>a. ASSUME NEW v
      PROVE  /\ Writable([c EXCEPT !["name"] = v]) /\ Writable([c EXCEPT !["rootfs"] = v])
             /\ Writable([c EXCEPT !["mode"] = v]) /\ Writable([c EXCEPT !["cap_drop"] = v])
             /\ Writable([c EXCEPT !["seccomp"] = v]) /\ Writable([c EXCEPT !["mtu"] = v])
  BY <1>0, OtherField
<1>1. CASE flag = "--env"
  <2>1. SetValue(c, flag, text) = [c EXCEPT !.env = set_env(c.env, Vars[text])]
    BY <1>1 DEF SetValue
  <2>2. EnvOk(set_env(c.env, Vars[text]))
    BY SetEnvOk DEF Writable, EnvOk
  <2> QED
    BY <2>1, <2>2, EnvField
<1>2. CASE flag \in {"--memory", "--memory-swap"}
  <2>1. Fits(Sizes[text])
    BY <1>2 DEF ValueOk, SizesFit
  <2>2. \/ SetValue(c, flag, text) = [c EXCEPT !["memory"] = Sizes[text]]
        \/ SetValue(c, flag, text) = [c EXCEPT !["memory_swap"] = Sizes[text]]
    BY <1>2 DEF SetValue
  <2> QED
    BY <2>1, <2>2, SizeField
<1>3. CASE flag = "--publish"
  <2>1. PortOk(text)
    BY <1>3 DEF ValueOk
  <2>2. parse_port(text) \in Mappings
    <3>1. /\ Ports[text][1] \in 0 .. U16 - 1 /\ Ports[text][2] \in 0 .. U16 - 1
          /\ Ports[text][3] \in Protocols
      BY <2>1, U16Is DEF PortOk
    <3> QED
      BY <3>1 DEF parse_port, Mapping, Mappings
  <2>3. Append(c.publish, parse_port(text)) \in Seq(Mappings)
    BY <2>2 DEF Writable
  <2>4. SetValue(c, flag, text) = [c EXCEPT !.publish = Append(c.publish, parse_port(text))]
    BY <1>3 DEF SetValue
  <2> QED
    BY <2>3, <2>4, PublishField
<1>4. CASE flag = "--name"
  <2>1. SetValue(c, flag, text) = [c EXCEPT !["name"] = Some(text)]
    BY <1>4 DEF SetValue
  <2> QED
    BY <1>a, <2>1
<1>5. CASE flag = "--rootfs"
  <2>1. SetValue(c, flag, text) = [c EXCEPT !["rootfs"] = text]
    BY <1>5 DEF SetValue
  <2> QED
    BY <1>a, <2>1
<1>6. CASE flag = "--network"
  <2>1. SetValue(c, flag, text) = [c EXCEPT !["mode"] = text]
    BY <1>6 DEF SetValue
  <2> QED
    BY <1>a, <2>1
<1>7. CASE flag = "--cap-drop"
  <2>1. SetValue(c, flag, text) = [c EXCEPT !["cap_drop"] = Append(c.cap_drop, text)]
    BY <1>7 DEF SetValue
  <2> QED
    BY <1>a, <2>1
<1>8. CASE flag = "--seccomp"
  <2>1. SetValue(c, flag, text) = [c EXCEPT !["seccomp"] = text]
    BY <1>8 DEF SetValue
  <2> QED
    BY <1>a, <2>1
<1>9. CASE flag = "--mtu"
  <2>1. SetValue(c, flag, text) = [c EXCEPT !["mtu"] = Sizes[text][1]]
    BY <1>9 DEF SetValue
  <2> QED
    BY <1>a, <2>1
<1>10. CASE flag \notin {"--env", "--memory", "--memory-swap", "--publish", "--name", "--rootfs", "--network",
                         "--cap-drop", "--seccomp", "--mtu"}
  BY <1>10 DEF SetValue
<1> QED
  BY <1>1, <1>2, <1>3, <1>4, <1>5, <1>6, <1>7, <1>8, <1>9, <1>10

ParserOk(st) ==
  /\ DOMAIN st = {"cfg", "positional", "end", "pending", "config_path", "detach", "failed"}
  /\ Writable(st.cfg)

LEMMA TurnKeeps ==
  ASSUME SizesFit, NEW st, ParserOk(st), NEW tok
  PROVE  ParserOk(Turn(st, tok))
<1>0. {"read_only", "privileged", "rootfs", "command"} \subseteq Others
  BY DEF Others, Fields
<1>1. ASSUME NEW flag, NEW text PROVE ParserOk(Value(st, flag, text))
  <2>1. CASE ~ValueOk(flag, text)
    BY <2>1 DEF Value, ParserOk
  <2>2. CASE ValueOk(flag, text)
    <3>1. Writable(SetValue(st.cfg, flag, text))
      BY <2>2, SetValueKeeps DEF ParserOk
    <3>2. /\ DOMAIN Value(st, flag, text) = DOMAIN st
          /\ Value(st, flag, text).cfg = SetValue(st.cfg, flag, text)
      BY <2>2 DEF Value, ParserOk
    <3> QED
      BY <3>1, <3>2 DEF ParserOk
  <2> QED
    BY <2>1, <2>2
<1>2. ASSUME NEW flag PROVE ParserOk(SetSwitch(st, flag))
  <2> DEFINE ro == st.cfg.read_only \/ flag = "--read-only"
             pr == st.cfg.privileged \/ flag = "--privileged"
  <2>1. SetSwitch(st, flag).cfg = [[st.cfg EXCEPT !["read_only"] = ro] EXCEPT !["privileged"] = pr]
    BY DEF SetSwitch, ParserOk, Writable, Fields
  <2>2. DOMAIN SetSwitch(st, flag) = DOMAIN st
    BY DEF SetSwitch
  <2> HIDE DEF ro, pr
  <2>3. Writable([st.cfg EXCEPT !["read_only"] = ro])
    BY <1>0, OtherField DEF ParserOk
  <2>4. Writable([[st.cfg EXCEPT !["read_only"] = ro] EXCEPT !["privileged"] = pr])
    BY <1>0, <2>3, OtherField
  <2> QED
    BY <2>1, <2>2, <2>4 DEF ParserOk
<1>3. ParserOk(Positional(st, tok))
  BY DEF Positional, ParserOk
<1>4. \A v : ParserOk([st EXCEPT !.end = v]) /\ ParserOk([st EXCEPT !.failed = v]) /\ ParserOk([st EXCEPT !.pending = v])
  BY DEF ParserOk
<1> QED
  BY <1>1, <1>2, <1>3, <1>4 DEF Turn

LEMMA PassKeeps ==
  ASSUME SizesFit, NEW tokens, Len(tokens) \in Nat, NEW base, Writable(base)
  PROVE  Writable(parse_run_pass(tokens, base).cfg)
<1>1. PICK g : /\ parse_run_pass(tokens, base) = Finish(g[Len(tokens)])
               /\ g[0] = Start(base) /\ \A i \in 1 .. Len(tokens) : g[i] = Turn(g[i - 1], tokens[i])
  BY LoopIs
<1> DEFINE Good == {i \in 0 .. Len(tokens) : ParserOk(g[i])}
<1>2. 0 \in Good
  <2>1. Start(base).cfg = base
    BY DEF Start
  <2>2. DOMAIN Start(base) = {"cfg", "positional", "end", "pending", "config_path", "detach", "failed"}
    BY DEF Start
  <2>3. ParserOk(Start(base)) /\ 0 \in 0 .. Len(tokens)
    BY <2>1, <2>2 DEF ParserOk
  <2> QED
    BY <1>1, <2>3
<1>3. \A i \in 1 .. Len(tokens) : i - 1 \in Good => i \in Good
  BY <1>1, TurnKeeps
<1>4. Len(tokens) \in 0 .. Len(tokens)
  OBVIOUS
<1>5. Len(tokens) \in Good
  <2> HIDE DEF Good
  <2> QED
    BY <1>2, <1>3, <1>4, UpTo
<1>6. PICK st : st = g[Len(tokens)] /\ ParserOk(st)
  BY <1>5
<1>7. {"rootfs", "command"} \subseteq Others
  BY DEF Others, Fields
<1>8. \E r, w : Finish(st).cfg = [[st.cfg EXCEPT !["rootfs"] = r] EXCEPT !["command"] = w]
  <2> DEFINE own  == st.cfg.rootfs = "" /\ st.positional # <<>>
             rest == IF own THEN Tail(st.positional) ELSE st.positional
             r == IF own THEN Head(st.positional) ELSE st.cfg.rootfs
             w == IF rest # <<>> THEN rest ELSE st.cfg.command
  <2>1. Finish(st).cfg = [[st.cfg EXCEPT !["rootfs"] = r] EXCEPT !["command"] = w]
    <3>1. Finish(st) = [st EXCEPT !.failed = @ \/ st.pending # "", !.cfg.rootfs = IF own THEN Head(st.positional) ELSE @,
                                  !.cfg.command = IF rest # <<>> THEN rest ELSE @]
      BY DEF Finish
    <3> HIDE DEF own, rest
    <3> QED
      BY <1>6, <3>1 DEF ParserOk, Writable, Fields
  <2> HIDE DEF r, w
  <2> QED
    BY <2>1
<1>9. PICK r, w : Finish(st).cfg = [[st.cfg EXCEPT !["rootfs"] = r] EXCEPT !["command"] = w]
  BY <1>8
<1>10. Writable([st.cfg EXCEPT !["rootfs"] = r])
  BY <1>6, <1>7, OtherField DEF ParserOk
<1>11. Writable([[st.cfg EXCEPT !["rootfs"] = r] EXCEPT !["command"] = w])
  BY <1>7, <1>10, OtherField
<1> QED
  BY <1>1, <1>6, <1>9, <1>11

LEMMA DefaultOk == Writable(Default)
<1>1. EnvOk(DefaultEnv)
  BY FS_Singleton DEF EnvOk, DefaultEnv
<1>3. Default.memory = None /\ Default.memory_swap = None /\ Default.publish = <<>> /\ Default.env = DefaultEnv
  BY DEF Default
<1>4. <<>> \in Seq(Mappings)
  OBVIOUS
<1> QED
  BY <1>1, <1>3, <1>4, DefaultFields DEF Writable, EnvOk, Fits

PublishEntry ==
  [text : STRING] \cup [host : Int, container : Int]
  \cup [host : Int, container : Int, protocol : STRING]

LEMMA FileOk ==
  ASSUME SizesFit, NEW path \in DOMAIN Files, DocOk(Files[path])
  PROVE  Writable(from_json(Files[path]))
<1>1. PICK doc : doc = Files[path]
  OBVIOUS
<1>2. PICK c : c = from_json(doc)
  OBVIOUS
<1>3. ReadFrom(c, doc)
  BY <1>2, FromJsonIs
<1>4. /\ \A key \in {"memory", "memory_swap"} : key \in DOMAIN doc => SizeOk(doc[key])
      /\ "env" \in DOMAIN doc => doc.env \in Seq(STRING \X STRING)
      /\ "publish" \in DOMAIN doc => doc.publish \in Seq(PublishEntry)
  BY <1>1, ConfigAssumption DEF PublishEntry
<1>5. ASSUME NEW v, SizeOk(v) PROVE Fits(num_or_size(v))
  <2>1. CASE "text" \in DOMAIN v
    BY <1>5, <2>1 DEF SizeOk, num_or_size, SizesFit
  <2>2. CASE "text" \notin DOMAIN v
    <3>1. v.int \in Int /\ v.int < Word \div 2
      BY <1>5, <2>2, ConfigAssumption DEF SizeOk
    <3> QED
      BY <2>2, <3>1 DEF num_or_size, as_u64, Fits, Some
  <2> QED
    BY <2>1, <2>2
<1>6. Fits(c.memory) /\ Fits(c.memory_swap)
  <2>1. Fits(None)
    BY DEF Fits
  <2>2. /\ c.memory = IF "memory" \in DOMAIN doc THEN num_or_size(doc["memory"]) ELSE None
        /\ c.memory_swap = IF "memory_swap" \in DOMAIN doc THEN num_or_size(doc["memory_swap"]) ELSE None
    BY <1>3 DEF ReadFrom
  <2> QED
    BY <1>4, <1>5, <2>1, <2>2
<1>7. EnvOk(c.env)
  <2>1. PICK list : list = Field(doc, "env", <<>>)
    OBVIOUS
  <2>2. IsFiniteSet(DOMAIN list)
    <3>1. list \in Seq(STRING \X STRING)
      BY <1>4, <2>1 DEF Field
    <3>2. Len(list) \in Nat /\ DOMAIN list = 1 .. Len(list)
      BY <3>1, LenProperties
    <3> QED
      BY <3>2, FS_Interval
  <2> DEFINE Keys == {list[i][1] : i \in DOMAIN list}
             own == [k \in Keys |-> list[Max({i \in DOMAIN list : list[i][1] = k})][2]]
             f == [i \in DOMAIN list |-> list[i][1]]
  <2>3. IsFiniteSet(Keys)
    <3>1. f \in Surjection(DOMAIN list, Keys)
      BY DEF Surjection
    <3> HIDE DEF f, Keys
    <3> QED
      BY <2>2, <3>1, FS_Surjection
  <2>4. c.env = Over(own, DefaultEnv) /\ DOMAIN own = Keys
    BY <1>3, <2>1 DEF ReadFrom, set_each
  <2>5. EnvOk(DefaultEnv)
    BY FS_Singleton DEF EnvOk, DefaultEnv
  <2> HIDE DEF own, Keys
  <2> QED
    BY <2>3, <2>4, <2>5, OverEnv
<1>8. c.publish \in Seq(Mappings)
  <2>1. PICK list : list = Field(doc, "publish", <<>>)
    OBVIOUS
  <2>2. c.publish = [i \in DOMAIN list |-> publish_of(list[i])]
    BY <1>3, <2>1 DEF ReadFrom
  <2>3. list \in Seq(PublishEntry)
    BY <1>4, <2>1 DEF Field
  <2>4. Len(list) \in Nat /\ DOMAIN list = 1 .. Len(list)
        /\ \A i \in 1 .. Len(list) : list[i] \in PublishEntry
    BY <2>3, LenProperties, ElementOfSeq
  <2>5. ASSUME NEW i \in 1 .. Len(list) PROVE publish_of(list[i]) \in Mappings
    <3>1. PICK e : e = list[i] /\ e \in PublishEntry
      BY <2>4
    <3>0. PublishOk(e)
      BY <1>1, <2>1, <2>4, <3>1 DEF DocOk, ToSet
    <3>2. CASE "text" \in DOMAIN e
      <4>2. /\ Ports[e.text][1] \in 0 .. U16 - 1 /\ Ports[e.text][2] \in 0 .. U16 - 1
            /\ Ports[e.text][3] \in Protocols
        BY <3>2, <3>0, U16Is DEF PublishOk, PortOk
      <4> QED
        BY <3>1, <3>2, <4>2 DEF publish_of, parse_port, Mapping, Mappings
    <3>3. CASE "text" \notin DOMAIN e
      <4>1. e.host \in Nat /\ e.container \in Nat
        <5>1. e.host \in Int /\ e.container \in Int
          BY <3>1, <3>3 DEF PublishEntry
        <5>2. e.host >= 0 /\ e.container >= 0
          BY <3>0, <3>3 DEF PublishOk
        <5> QED
          BY <5>1, <5>2
      <4>2. ASSUME NEW n \in Nat PROVE n % U16 \in 0 .. U16 - 1
        BY U16Is
      <4>3. e.host % U16 \in 0 .. U16 - 1 /\ e.container % U16 \in 0 .. U16 - 1
        BY <4>1, <4>2
      <4>4. Field(e, "protocol", "tcp") \in Protocols \cup STRING
        <5>1. "tcp" \in Protocols
          BY DEF Protocols
        <5>2. "protocol" \in DOMAIN e => e["protocol"] \in STRING
          <6>1. CASE e \in [host : Int, container : Int, protocol : STRING]
            BY <6>1
          <6>2. CASE e \notin [host : Int, container : Int, protocol : STRING]
            BY <3>1, <3>3, <6>2 DEF PublishEntry
          <6> QED
            BY <6>1, <6>2
        <5> QED
          BY <5>1, <5>2 DEF Field
      <4> QED
        BY <3>1, <3>3, <4>3, <4>4 DEF publish_of, cast_port, Mapping, Mappings
    <3> QED
      BY <3>2, <3>3
  <2>6. c.publish \in [1 .. Len(list) -> Mappings]
    BY <2>2, <2>4, <2>5
  <2> QED
    BY <2>4, <2>6, SeqDef
<1>9. DOMAIN c = Fields
  BY <1>3 DEF ReadFrom
<1>10. Writable(c)
  BY <1>6, <1>7, <1>8, <1>9 DEF Writable, EnvOk
<1> QED
  BY <1>1, <1>2, <1>10

LEMMA MaxMtuIs == MaxMtu \in Nat
  BY DEF MaxMtu

(* The configuration of a create can be written and read back.             *)
LEMMA ParsedOk ==
  ASSUME SizesFit, NEW l, LineOk(l), NEW fresh,
         parse_run(Render(l)) # Failure, validate(finalize(parse_run(Render(l)), fresh))
  PROVE  Valid(finalize(parse_run(Render(l)), fresh))
<1> DEFINE tokens == Render(l)
           probe == parse_run_pass(tokens, Default)
           path  == probe.config_path
           bad   == path # None /\ (path[1] \notin DOMAIN Files \/ ~DocOk(Files[path[1]]))
           base  == IF path = None THEN Default ELSE from_json(Files[path[1]])
           st    == parse_run_pass(tokens, base)
<1>1. Len(tokens) \in Nat
  BY RenderIsSeq
<1>2. parse_run(tokens) = IF probe.failed \/ bad \/ st.failed THEN Failure ELSE st.cfg
  BY DEF parse_run
<1>3. parse_run(tokens) = st.cfg /\ ~bad
  BY <1>2
<1> HIDE DEF tokens, probe
<1>4. Writable(base)
  BY <1>3, DefaultOk, FileOk
<1>5. Writable(st.cfg)
  <2> HIDE DEF base
  <2> QED
    BY <1>1, <1>4, PassKeeps
<1>6. PICK c : c = parse_run(tokens) /\ Writable(c)
  BY <1>3, <1>5
<1>7. PICK f : f = finalize(c, fresh) /\ validate(f)
  BY <1>6 DEF tokens
<1> DEFINE id   == IF c.id = "" THEN fresh ELSE c.id
           host == IF c.hostname # "" THEN c.hostname ELSE IF c.name # None THEN c.name[1] ELSE id
           net  == IF c.mode = "host" THEN FALSE ELSE c.netns
           sec  == IF c.privileged THEN "unconfined" ELSE c.seccomp
<1>8. f = [c EXCEPT !.id = id, !.hostname = host, !.env = set_env(c.env, <<"HOSTNAME", host>>), !.netns = net, !.seccomp = sec]
  <2>1. DOMAIN c = Fields
    BY <1>6 DEF Writable
  <2>2. f = [c EXCEPT !.id = id, !.hostname = host, !.env = set_env(@, <<"HOSTNAME", host>>),
                      !.netns = IF c.mode = "host" THEN FALSE ELSE @, !.seccomp = IF c.privileged THEN "unconfined" ELSE @]
    BY <1>7, Zenon DEF finalize
  <2> HIDE DEF id, host
  <2> QED
    BY <2>1, <2>2 DEF Fields
<1> HIDE DEF id, host, net, sec
<1>9. PICK env : env = set_env(c.env, <<"HOSTNAME", host>>) /\ EnvOk(env)
  BY <1>6, SetEnvOk DEF Writable, EnvOk
<1>10. /\ DOMAIN f = Fields /\ f = [x \in Fields |-> f[x]] /\ f.env = env
       /\ f.memory = c.memory /\ f.memory_swap = c.memory_swap /\ f.publish = c.publish
  BY <1>6, <1>8, <1>9 DEF Writable, Fields
<1>11. Writable(f)
  BY <1>6, <1>9, <1>10 DEF Writable, EnvOk
<1>12. f.mtu \in 0 .. Half32 - 1
  <2>1. f.mtu \in 68 .. MaxMtu /\ MaxMtu \in Nat
    BY <1>7, MaxMtuIs DEF validate
  <2> QED
    BY <2>1, ConfigAssumption
<1> QED
  BY <1>6, <1>7, <1>10, <1>11, <1>12 DEF Valid, tokens

-----------------------------------------------------------------------------
(* What is stored.                                                         *)

ConfigOf(i) == IF i \in DOMAIN store THEN store[i].config ELSE None

ConfsOk ==
  /\ cmd \in Scenarios
  /\ \A p \in Process :
       /\ pc[p] = "parse" => cmd[p].kind = "create"
       /\ conf[p] # None => Valid(conf[p][1])

(* Every state.json holds the configuration of its create, and so does     *)
(* what rm has loaded.                                                     *)
WrittenAs ==
  /\ \A i : StateOf(i) # None => StateOf(i)[1].conf = to_json(conf[By(i)][1])
  /\ \A r \in Process : pc[r] = "teardown" => record[r][1].conf = conf[record[r][1].by][1]

(* rm works on one container.                                              *)
OneChosen ==
  \A r \in Process :
    /\ IsFiniteSet(found[r])
    /\ pc[r] \in {"load", "teardown", "remove", "unlink"} => found[r] = {Chosen(r)}

Same(p) == {q \in Process \ {p} : pc[q] = "save" /\ Id(q) = Id(p)}

(* Before the first save config.json is that of this create, or of another *)
(* of the same id that has not saved either.                               *)
ConfigReady ==
  \A p \in Process : pc[p] = "save" /\ Clean(Id(p)) /\ Same(p) = {} =>
    ConfigOf(Id(p)) = <<to_json(conf[p][1])>>

ConfigThere ==
  \A i : StateOf(i) # None /\ Clean(i) /\ ~Removing(i) => ConfigOf(i) = <<to_json(conf[By(i)][1])>>

SInv == Inv /\ ConfsOk /\ WrittenAs /\ OneChosen /\ ConfigReady /\ ConfigThere

Writes(p) ==
  /\ pc[p] = "config" /\ pc'[p] = "save" /\ conf'[p] = conf[p]
  /\ \A i : ConfigOf(i)' = IF i = Id(p) THEN <<to_json(conf[p][1])>> ELSE ConfigOf(i)

UnlinksFrom(p) ==
  /\ pc[p] = "unlink" /\ pc'[p] = "unlink" /\ found'[p] = found[p]
  /\ \A i : i # Chosen(p) => ConfigOf(i)' = ConfigOf(i)
  /\ Creating(Chosen(p)) # {} => Chosen(p) \in undermined'

ConfigEffect(p) ==
  /\ (pc'[p] # "save" /\ \A i : ConfigOf(i)' = ConfigOf(i)) \/ Writes(p) \/ UnlinksFrom(p)
  /\ pc[p] = "save" => Rivals(p) \subseteq raced'
  /\ pc[p] \notin {"not empty", "dead"}
  /\ pc[p] = "unlink" /\ pc'[p] \notin {"unlink", "not empty", "dead"} => StateOf(Chosen(p))' = None
  /\ pc[p] = "unlink" => found'[p] = found[p]

LEMMA ConfigUpdate ==
  ASSUME NEW id, NEW d, Update(id, d)
  PROVE  \A i : ConfigOf(i)' = IF i = id THEN d.config ELSE ConfigOf(i)
  BY UpdateIs DEF ConfigOf

LEMMA ConfigKept ==
  ASSUME Records, NEW id, NEW v, Update(id, [Contents(id) EXCEPT !.state = v]) \/ Update(id, Contents(id))
  PROVE  \A i : ConfigOf(i)' = ConfigOf(i)
<1>1. Contents(id).config = ConfigOf(id) /\ [Contents(id) EXCEPT !.state = v].config = ConfigOf(id)
  BY ContentsFields DEF Contents, ConfigOf, Dir
<1> QED
  BY <1>1, ConfigUpdate

LEMMA StepConfigEffect ==
  ASSUME Shape, Records, NEW p \in Process, Step(p)
  PROVE  ConfigEffect(p)
<1> USE DEF Shape, Goto, At, Steady, rmVars, history
<1>0. pc[p] \notin {"not empty", "dead"}
  BY DEF Step, Parse, CheckId, Scan, CheckName, MakeDir, WriteConfig, SaveCreating, SaveCreated,
     ResolveId, ListIds, Match, Decide, Load, Teardown, ReadDir, Unlink, Rmdir, Crash, Ended
<1>1. CASE Parse(p) \/ CheckId(p) \/ Scan(p) \/ CheckName(p) \/ ResolveId(p) \/ ListIds(p) \/ Match(p) \/ Decide(p)
           \/ ReadDir(p)
  <2>1. store' = store /\ pc[p] \notin {"save", "unlink"} /\ pc'[p] # "save"
    BY <1>1 DEF Parse, CheckId, Scan, CheckName, ResolveId, ListIds, Match, Decide, ReadDir
  <2> QED
    BY <1>0, <2>1 DEF ConfigEffect, ConfigOf
<1>2. CASE MakeDir(p)
  <2>1. pc[p] = "mkdir" /\ pc'[p] = "config" /\ Update(Id(p), Contents(Id(p)))
    BY <1>2 DEF MakeDir
  <2> QED
    BY <1>0, <2>1, ConfigKept DEF ConfigEffect
<1>3. CASE WriteConfig(p)
  <2>1. CASE Id(p) \notin DOMAIN store
    BY <1>0, <1>3, <2>1 DEF WriteConfig, ConfigEffect, ConfigOf
  <2>2. CASE Id(p) \in DOMAIN store
    <3> DEFINE d == [store[Id(p)] EXCEPT !.config = Some(to_json(conf[p][1]))]
    <3>1. Update(Id(p), d) /\ pc[p] = "config" /\ pc'[p] = "save" /\ conf'[p] = conf[p]
      BY <1>3, <2>2 DEF WriteConfig
    <3>2. d.config = <<to_json(conf[p][1])>>
      BY <2>2 DEF Some, Records
    <3> HIDE DEF d
    <3>3. Writes(p)
      BY <3>1, <3>2, ConfigUpdate DEF Writes
    <3> QED
      BY <1>0, <3>1, <3>3 DEF ConfigEffect
  <2> QED
    BY <2>1, <2>2
<1>4. CASE SaveCreating(p) \/ SaveCreated(p)
  <2>1. PICK v : Update(Id(p), [Contents(Id(p)) EXCEPT !.state = v])
    BY <1>4 DEF SaveCreating, SaveCreated, Save
  <2>2. pc[p] \in {"save", "created"} /\ pc'[p] # "save" /\ Rivals(p) \subseteq raced'
    BY <1>4 DEF SaveCreating, SaveCreated, Save
  <2> QED
    BY <1>0, <2>1, <2>2, ConfigKept DEF ConfigEffect
<1>5. CASE Load(p)
  <2>1. pc[p] = "load" /\ pc'[p] # "save" /\ Update(Chosen(p), Contents(Chosen(p)))
    BY <1>5 DEF Load
  <2> QED
    BY <1>0, <2>1, ConfigKept DEF ConfigEffect
<1>6. CASE Teardown(p)
  <2>1. PICK v : Update(Chosen(p), [Contents(Chosen(p)) EXCEPT !.state = v])
    BY <1>6 DEF Teardown
  <2>2. pc[p] = "teardown" /\ pc'[p] # "save"
    BY <1>6 DEF Teardown
  <2> QED
    BY <1>0, <2>1, <2>2, ConfigKept DEF ConfigEffect
<1>7. CASE Unlink(p)
  <2>1. /\ pc[p] = "unlink" /\ pc'[p] = "unlink" /\ found'[p] = found[p]
        /\ Creating(Chosen(p)) # {} => Chosen(p) \in undermined'
        /\ store' = store \/ \E d : Update(Chosen(p), d)
    BY <1>7 DEF Unlink, Undermine
  <2>2. \A i : i # Chosen(p) => ConfigOf(i)' = ConfigOf(i)
    <3>1. CASE store' = store
      BY <3>1 DEF ConfigOf
    <3>2. CASE \E d : Update(Chosen(p), d)
      BY <3>2, ConfigUpdate
    <3> QED
      BY <2>1, <3>1, <3>2
  <2> QED
    BY <1>0, <2>1, <2>2 DEF ConfigEffect, UnlinksFrom
<1>8. CASE Rmdir(p)
  <2>1. pc[p] = "unlink" /\ pc'[p] \in {"done", "not empty"} /\ found'[p] = found[p]
    BY <1>8 DEF Rmdir
  <2>2. CASE Contents(Chosen(p)) = Dir(None, None)
    <3>1. store' = [i \in DOMAIN store \ {Chosen(p)} |-> store[i]]
      BY <1>8, <2>2 DEF Rmdir
    <3>2. ConfigOf(Chosen(p)) = None
      BY <2>2 DEF Contents, ConfigOf, Dir
    <3>3. \A i : ConfigOf(i)' = ConfigOf(i)
      BY <3>1, <3>2 DEF ConfigOf
    <3>4. StateOf(Chosen(p))' = None
      <4>1. PICK id : id = Chosen(p)
        OBVIOUS
      <4>2. StateOf(id)' = None
        BY <3>1, <4>1 DEF StateOf
      <4>3. Chosen(p)' = Chosen(p)
        BY <2>1 DEF Chosen
      <4> QED
        BY <4>1, <4>2, <4>3
    <3> QED
      BY <1>0, <2>1, <3>3, <3>4 DEF ConfigEffect
  <2>3. CASE Contents(Chosen(p)) # Dir(None, None)
    <3>1. store' = store /\ pc'[p] = "not empty"
      BY <1>8, <2>3 DEF Rmdir
    <3> QED
      BY <1>0, <2>1, <3>1 DEF ConfigEffect, ConfigOf
  <2> QED
    BY <2>2, <2>3
<1>9. CASE Crash(p)
  <2>1. /\ store' = store /\ pc'[p] = "dead" /\ found' = found
        /\ pc[p] = "save" => Rivals(p) \subseteq raced'
    BY <1>9 DEF Crash, Before
  <2> QED
    BY <1>0, <2>1 DEF ConfigEffect, ConfigOf
<1> QED
  BY <1>1, <1>2, <1>3, <1>4, <1>5, <1>6, <1>7, <1>8, <1>9 DEF Step

(* Two creates of an id of which one is in the way of the other.           *)
LEMMA MetAtSave ==
  ASSUME Shape, NEW p \in Process, Alone(p), NEW q \in Process, p # q, conf[p] # None, conf[q] # None,
         Id(p) = Id(q), pc[q] \in Before, Rivals(p) \subseteq raced'
  PROVE  ~Clean(Id(p))'
<1>1. {p, q} \in raced'
  BY DEF Rivals
<1>2. conf'[p] = conf[p] /\ conf'[q] = conf[q]
  BY DEF Alone, Shape
<1>3. PICK i : i = Id(p)'
  OBVIOUS
<1>4. i = Id(p) /\ i = Id(q)' /\ conf'[p] # None /\ conf'[q] # None
  BY <1>2, <1>3 DEF Id
<1>5. Contested(i)'
  BY <1>1, <1>3, <1>4 DEF Contested
<1> QED
  BY <1>3, <1>5 DEF Clean

LEMMA ConfsOkStep ==
  ASSUME SizesFit, Shape, Records, ConfsOk, NEW p \in Process, Step(p)
  PROVE  ConfsOk'
<1> USE DEF Goto, At, Steady, rmVars, history
<1>1. cmd' = cmd
  BY DEF Step, Parse, CheckId, Scan, CheckName, MakeDir, WriteConfig, SaveCreating, SaveCreated, Save,
     ResolveId, ListIds, Match, Decide, Load, Teardown, ReadDir, Unlink, Rmdir, Crash
<1>2. pc'[p] # "parse"
  BY DEF Shape, Step, Parse, CheckId, Scan, CheckName, MakeDir, WriteConfig, SaveCreating, SaveCreated, Save,
     ResolveId, ListIds, Match, Decide, Load, Teardown, ReadDir, Unlink, Rmdir, Crash
<1>3. conf'[p] = conf[p] \/ (conf'[p] # None => Valid(conf'[p][1]))
  <2>1. CASE Parse(p)
    <3> DEFINE c == finalize(parse_run(Render(cmd[p].line)), Fresh[p])
    <3>1. CASE parse_run(Render(cmd[p].line)) # Failure /\ validate(c)
      <4>1. LineOk(cmd[p].line)
        BY <2>1, StoreAssumption DEF ConfsOk, Parse
      <4>2. Valid(c)
        BY <3>1, <4>1, ParsedOk
      <4>3. conf'[p] = <<c>>
        BY <2>1, <3>1 DEF Parse, Some, Shape
      <4> HIDE DEF c
      <4> QED
        BY <4>2, <4>3
    <3>2. CASE ~(parse_run(Render(cmd[p].line)) # Failure /\ validate(c))
      BY <2>1, <3>2 DEF Parse
    <3> QED
      BY <3>1, <3>2
  <2>2. CASE ~Parse(p)
    BY <2>2 DEF Step, CheckId, Scan, CheckName, MakeDir, WriteConfig, SaveCreating, SaveCreated, Save,
       ResolveId, ListIds, Match, Decide, Load, Teardown, ReadDir, Unlink, Rmdir, Crash
  <2> QED
    BY <2>1, <2>2
<1>4. Alone(p)
  BY StepEffect DEF Effect
<1> QED
  BY <1>1, <1>2, <1>3, <1>4 DEF ConfsOk, Alone

LEMMA WrittenAsStep ==
  ASSUME SInv, NEW p \in Process, Effect(p)
  PROVE  WrittenAs'
<1>0. Shape /\ Records /\ Loaded /\ WrittenAs /\ ConfsOk /\ Alone(p) /\ Moves(p)
  BY DEF SInv, Inv, Effect
<1>1. \A q \in Process : conf[q] # None => conf'[q] = conf[q]
  BY <1>0 DEF Shape, Alone
<1>2. ASSUME NEW i, StateOf(i)' # None PROVE StateOf(i)'[1].conf = to_json(conf'[By(i)'][1])
  <2>1. CASE StateOf(i)' = StateOf(i)
    <3>1. By(i)' = By(i) /\ conf'[By(i)] = conf[By(i)]
      BY <1>0, <1>1, <1>2, <2>1 DEF By, Records, MadeBy
    <3> QED
      BY <1>0, <1>2, <2>1, <3>1 DEF WrittenAs
  <2>2. CASE Saves(p) /\ Id(p) = i
    <3>1. PICK status : StateOf(i)' = <<state_to_json(conf[p][1], status, p)>>
      BY <2>2 DEF Saves
    <3>2. StateOf(i)'[1].conf = to_json(conf[p][1]) /\ By(i)' = p
      BY <3>1 DEF state_to_json, By
    <3> QED
      BY <2>2, <3>2 DEF Saves
  <2>3. CASE Resaves(p) /\ Chosen(p) = i
    <3> DEFINE st == record[p][1]
    <3>1. StateOf(i)' = <<state_to_json(st.conf, st.status, st.by)>> /\ pc[p] = "teardown"
      BY <2>3 DEF Resaves
    <3>2. StateOf(i)'[1].conf = to_json(st.conf) /\ By(i)' = st.by
      BY <3>1 DEF state_to_json, By
    <3>3. st.conf = conf[st.by][1] /\ conf'[st.by] = conf[st.by]
      BY <1>0, <1>1, <3>1 DEF WrittenAs, Loaded, MadeBy
    <3> QED
      BY <3>2, <3>3
  <2> QED
    BY <1>2, <2>1, <2>2, <2>3 DEF Effect, Quiet, Saves, Resaves, Unlinks
<1>3. ASSUME NEW r \in Process, pc'[r] = "teardown" PROVE record'[r][1].conf = conf'[record'[r][1].by][1]
  <2>1. CASE r # p
    <3>1. record'[r] = record[r] /\ pc[r] = "teardown"
      BY <1>0, <1>3, <2>1 DEF Alone
    <3> QED
      BY <1>0, <1>1, <3>1 DEF WrittenAs, Loaded, MadeBy
  <2>2. CASE r = p
    <3>1. PICK i : i = Chosen(p)
      OBVIOUS
    <3>2. StateOf(i) # None /\ record'[p] = <<state_from_json(StateOf(i)[1])>>
      BY <1>0, <1>3, <2>2, <3>1 DEF Moves
    <3>3. PICK st : st = StateOf(i)[1]
      OBVIOUS
    <3>4. /\ DOMAIN st = {"conf", "status", "by"} /\ st.by \in Process /\ conf[st.by] # None
          /\ st.conf = to_json(conf[st.by][1])
      BY <1>0, <3>2, <3>3 DEF Records, MadeBy, WrittenAs, By
    <3>5. record'[p][1].conf = from_json(st.conf) /\ record'[p][1].by = st.by
      BY <3>2, <3>3, <3>4 DEF state_from_json
    <3>6. from_json(to_json(conf[st.by][1])) = conf[st.by][1]
      BY <1>0, <3>4, RoundTrip DEF ConfsOk
    <3> QED
      BY <1>1, <2>2, <3>4, <3>5, <3>6
  <2> QED
    BY <2>1, <2>2
<1> QED
  BY <1>2, <1>3 DEF WrittenAs

LEMMA OneChosenStep ==
  ASSUME Shape, Records, OneChosen, NEW p \in Process, Step(p)
  PROVE  OneChosen'
<1> USE DEF Goto, At, Steady, rmVars, history
<1>0. Alone(p)
  BY StepEffect DEF Effect
<1>1. ASSUME NEW r \in Process, r # p
      PROVE  /\ IsFiniteSet(found'[r])
             /\ pc'[r] \in {"load", "teardown", "remove", "unlink"} => found'[r] = {Chosen(r)'}
  BY <1>0, <1>1 DEF Alone, OneChosen, Chosen
<1>2. \A x : (CHOOSE id \in {x} : TRUE) = x
  OBVIOUS
<1>3. SUFFICES /\ IsFiniteSet(found'[p])
               /\ pc'[p] \in {"load", "teardown", "remove", "unlink"} => \E x : found'[p] = {x}
  BY <1>1, <1>2 DEF OneChosen, Chosen
<1>4. IsFiniteSet(found[p]) /\ \A x : IsFiniteSet({x})
  BY FS_Singleton DEF OneChosen
<1>5. CASE found'[p] = found[p] /\ pc[p] \in {"load", "teardown", "remove", "unlink"}
  BY <1>4, <1>5 DEF OneChosen
<1>6. CASE ResolveId(p)
  <2>1. \/ found'[p] = found[p] /\ pc'[p] = "list"
        \/ found'[p] = {Needle(p)}
    BY <1>6 DEF ResolveId, Shape
  <2> QED
    BY <1>4, <2>1
<1>7. CASE Match(p)
  <2>1. PICK id : \/ found'[p] = found[p] \cup {id} /\ pc'[p] = "match"
                  \/ found'[p] = {id} /\ pc'[p] = "load"
                  \/ found'[p] = found[p] /\ pc'[p] = "match"
    BY <1>7 DEF Match, Shape
  <2>2. IsFiniteSet(found[p] \cup {id})
    BY <1>4, FS_AddElement
  <2> QED
    BY <1>4, <2>1, <2>2
<1>8. CASE Decide(p)
  <2>1. found'[p] = found[p] /\ (pc'[p] = "error" \/ Cardinality(found[p]) = 1)
    BY <1>8 DEF Decide, Shape
  <2>2. Cardinality(found[p]) = 1 => \E x : found[p] = {x}
    BY <1>4, FS_Singleton
  <2>3. pc'[p] \in {"load", "error"}
    BY <1>8 DEF Decide, Shape
  <2> QED
    BY <1>4, <2>1, <2>2, <2>3
<1>9. CASE ~(ResolveId(p) \/ Match(p) \/ Decide(p))
  <2>1. found'[p] = found[p]
    BY <1>9 DEF Step, Parse, CheckId, Scan, CheckName, MakeDir, WriteConfig, SaveCreating, SaveCreated, Save,
       ListIds, Load, Teardown, ReadDir, Unlink, Rmdir, Crash
  <2>2. pc[p] \in {"load", "teardown", "remove", "unlink"} \/ pc'[p] \notin {"load", "teardown", "remove", "unlink"}
    BY <1>9 DEF Shape, Step, Parse, CheckId, Scan, CheckName, MakeDir, WriteConfig, SaveCreating, SaveCreated, Save,
       ListIds, Load, Teardown, ReadDir, Unlink, Rmdir, Crash
  <2> QED
    BY <1>4, <1>5, <2>1, <2>2
<1> QED
  BY <1>6, <1>7, <1>8, <1>9

LEMMA ConfigReadyStep ==
  ASSUME SInv, NEW p \in Process, Effect(p), ConfigEffect(p)
  PROVE  ConfigReady'
<1>0. Shape /\ Alone(p) /\ Moves(p)
  BY DEF SInv, Inv, Effect
<1> SUFFICES ASSUME NEW q \in Process, pc'[q] = "save", Clean(Id(q))', Same(q)' = {}
             PROVE  ConfigOf(Id(q))' = <<to_json(conf'[q][1])>>
  BY DEF ConfigReady
<1>1. PICK i : i = Id(q)'
  OBVIOUS
<1>2. SUFFICES ConfigOf(i)' = <<to_json(conf'[q][1])>>
  BY <1>1 DEF ConfigOf
<1>3. Clean(i)' /\ Clean(i)
  <2>1. Clean(i)'
    BY <1>1
  <2> QED
    BY <1>0, <2>1, CleanBefore
<1>4. CASE q = p
  <2>1. Writes(p)
    BY <1>4 DEF ConfigEffect, UnlinksFrom
  <2>2. i = Id(p)
    BY <1>1, <1>4, <2>1 DEF Writes, Id
  <2> QED
    BY <1>4, <2>1, <2>2 DEF Writes
<1>5. CASE q # p
  <2>1. pc[q] = "save" /\ conf'[q] = conf[q] /\ conf[q] # None /\ i = Id(q)
    BY <1>0, <1>1, <1>5 DEF Alone, Shape, Before, Id
  <2>2. ASSUME NEW r \in Same(q) PROVE FALSE
    <3>1. r \in Process /\ r # q /\ pc[r] = "save" /\ Id(r) = i /\ conf[r] # None /\ conf'[r] = conf[r]
      BY <1>0, <2>1 DEF Same, Shape, Before, Alone
    <3>2. CASE r = p
      <4>1. ~Clean(Id(p))'
        BY <1>0, <2>1, <3>1, <3>2, MetAtSave DEF ConfigEffect, Before
      <4>2. Id(p)' = i
        BY <3>1, <3>2 DEF Id
      <4> QED
        BY <1>3, <4>1, <4>2
    <3>3. CASE r # p
      <4>1. pc'[r] = "save" /\ Id(r)' = i
        BY <1>0, <3>1, <3>3 DEF Alone, Id
      <4> QED
        BY <1>1, <3>1, <4>1 DEF Same
    <3> QED
      BY <3>2, <3>3
  <2>3. ConfigOf(i) = <<to_json(conf[q][1])>>
    BY <1>3, <2>1, <2>2 DEF SInv, ConfigReady
  <2>4. CASE \A j : ConfigOf(j)' = ConfigOf(j)
    BY <2>1, <2>3, <2>4
  <2>5. CASE Writes(p)
    <3>1. Id(p) # i
      <4>1. ASSUME Id(p) = i PROVE FALSE
        <5>1. pc'[p] = "save" /\ Id(p)' = i
          BY <2>5, <4>1 DEF Writes, Id
        <5>2. p \in Same(q)'
          BY <1>1, <1>5, <5>1 DEF Same
        <5> QED
          BY <5>2
      <4> QED
        BY <4>1
    <3> QED
      BY <2>1, <2>3, <2>5, <3>1 DEF Writes
  <2>6. CASE UnlinksFrom(p)
    <3>1. Chosen(p) # i
      <4>1. q \in Creating(i)
        BY <2>1 DEF Creating, Before
      <4> QED
        BY <1>3, <2>6, <4>1 DEF UnlinksFrom, Clean
    <3> QED
      BY <2>1, <2>3, <2>6, <3>1 DEF UnlinksFrom
  <2> QED
    BY <2>4, <2>5, <2>6 DEF ConfigEffect
<1> QED
  BY <1>4, <1>5

LEMMA ConfigThereStep ==
  ASSUME SInv, NEW p \in Process, Effect(p), ConfigEffect(p)
  PROVE  ConfigThere'
<1>0. Inv /\ Shape /\ Records /\ IdTaken /\ OneChosen /\ Alone(p) /\ Moves(p)
  BY DEF SInv, Inv, Effect
<1> SUFFICES ASSUME NEW i, StateOf(i)' # None, Clean(i)', ~Removing(i)'
             PROVE  ConfigOf(i)' = <<to_json(conf'[By(i)'][1])>>
  BY DEF ConfigThere
<1>1. Clean(i)
  BY <1>0, CleanBefore
<1>2. \A q \in Process : conf[q] # None => conf'[q] = conf[q]
  BY <1>0 DEF Shape, Alone
<1>3. ~Removing(i)
  <2> SUFFICES ASSUME NEW r \in Process, pc[r] \in {"unlink", "not empty", "dead"}, found[r] = {i}
               PROVE  FALSE
    BY DEF Removing
  <2>1. CASE r # p
    BY <1>0, <2>1 DEF Alone, Removing
  <2>2. CASE r = p
    <3>1. pc[p] = "unlink" /\ found'[p] = {i}
      BY <2>2 DEF ConfigEffect
    <3>2. pc'[p] \notin {"unlink", "not empty", "dead"}
      BY <3>1 DEF Removing
    <3>3. StateOf(Chosen(p))' = None
      BY <3>1, <3>2 DEF ConfigEffect
    <3>4. Chosen(p)' = i
      BY <3>1 DEF Chosen
    <3> QED
      BY <3>3, <3>4
  <2> QED
    BY <2>1, <2>2
<1>4. CASE StateOf(i) # None /\ By(i)' = By(i)
  <2>1. By(i) \in Process /\ conf'[By(i)] = conf[By(i)] /\ pc[By(i)] \in {"created", "done", "dead"}
    BY <1>0, <1>2, <1>4 DEF Records, MadeBy, By
  <2>2. ConfigOf(i) = <<to_json(conf[By(i)][1])>>
    BY <1>1, <1>3, <1>4 DEF SInv, ConfigThere
  <2>3. CASE \A j : ConfigOf(j)' = ConfigOf(j)
    BY <1>4, <2>1, <2>2, <2>3
  <2>4. CASE Writes(p)
    <3>1. p # By(i) /\ conf[p] # None /\ pc[p] \in Checked
      BY <1>0, <2>1, <2>4 DEF Writes, Shape, Before, Checked
    <3>2. Id(p) # i
      BY <1>0, <1>1, <1>4, <3>1 DEF IdTaken
    <3> QED
      BY <1>4, <2>1, <2>2, <2>4, <3>2 DEF Writes
  <2>5. CASE UnlinksFrom(p)
    <3>1. Chosen(p) # i
      BY <1>0, <2>5 DEF UnlinksFrom, OneChosen, Removing
    <3> QED
      BY <1>4, <2>1, <2>2, <2>5, <3>1 DEF UnlinksFrom
  <2> QED
    BY <2>3, <2>4, <2>5 DEF ConfigEffect
<1>5. CASE /\ pc[p] = "save" /\ Id(p) = i /\ By(i)' = p
           /\ conf'[p] = conf[p] /\ Rivals(p) \subseteq raced'
  <2>1. ConfigOf(i)' = ConfigOf(i)
    BY <1>5 DEF ConfigEffect, Writes, UnlinksFrom
  <2>2. ASSUME NEW r \in Same(p) PROVE FALSE
    <3>1. r \in Process /\ r # p /\ conf[r] # None /\ conf[p] # None /\ Id(p) = Id(r) /\ pc[r] \in Before
      BY <1>0, <1>5 DEF Same, Shape, Before
    <3>2. ~Clean(Id(p))'
      BY <1>0, <1>5, <3>1, MetAtSave
    <3>3. Id(p)' = i
      BY <1>5 DEF Id
    <3> QED
      BY <3>2, <3>3
  <2>3. ConfigOf(i) = <<to_json(conf[p][1])>>
    BY <1>1, <1>5, <2>2 DEF SInv, ConfigReady
  <2> QED
    BY <1>5, <2>1, <2>3
<1> QED
  BY <1>0, <1>4, <1>5, StateStep

LEMMA SInvStep ==
  ASSUME SizesFit, SInv, [Next]_vars
  PROVE  SInv'
<1>0. Inv'
  BY InvStep DEF SInv
<1>1. CASE UNCHANGED vars
  <2> USE <1>1 DEF vars
  <2>1. ConfsOk' = ConfsOk
    BY DEF ConfsOk
  <2>2. ASSUME NEW i
        PROVE  Clean(i)' = Clean(i) /\ StateOf(i)' = StateOf(i) /\ By(i)' = By(i) /\ ConfigOf(i)' = ConfigOf(i)
               /\ Removing(i)' = Removing(i)
    BY DEF Clean, Contested, Id, StateOf, By, ConfigOf, Removing
  <2>3. WrittenAs' = WrittenAs
    BY <2>2 DEF WrittenAs
  <2>4. OneChosen' = OneChosen
    BY DEF OneChosen, Chosen
  <2>5. ConfigReady' = ConfigReady
    BY <2>2 DEF ConfigReady, Same, Id
  <2>6. ConfigThere' = ConfigThere
    BY <2>2 DEF ConfigThere
  <2> QED
    BY <1>0, <2>1, <2>3, <2>4, <2>5, <2>6 DEF SInv
<1>2. ASSUME NEW p \in Process, Step(p) PROVE SInv'
  <2>1. Shape /\ Records /\ ConfsOk /\ OneChosen
    BY DEF SInv, Inv
  <2>2. Effect(p) /\ ConfigEffect(p)
    BY <1>2, <2>1, StepEffect, StepConfigEffect
  <2>3. ConfsOk' /\ OneChosen'
    BY <1>2, <2>1, ConfsOkStep, OneChosenStep
  <2>4. WrittenAs' /\ ConfigReady' /\ ConfigThere'
    BY <2>2, WrittenAsStep, ConfigReadyStep, ConfigThereStep
  <2> QED
    BY <1>0, <2>3, <2>4 DEF SInv
<1> QED
  BY <1>1, <1>2 DEF Next

(* If no size is 8 EiB or more, a container that is in the store has the   *)
(* configuration that was validated for it, in state.json and in           *)
(* config.json, read back from JSON: for every command line and every      *)
(* file, any number of creates and rms and whichever of them are killed.   *)
THEOREM StoredIsValidated == SizesFit => (Spec => []StoredAsValidated)
<1> SUFFICES ASSUME SizesFit PROVE Spec => []StoredAsValidated
  OBVIOUS
<1>1. Init => SInv
  <2> SUFFICES ASSUME Init PROVE SInv
    OBVIOUS
  <2>1. Inv /\ \A i : StateOf(i) = None
    BY InvInit DEF Init, StateOf
  <2>2. \A p \in Process : pc[p] \in {"parse", "resolve", "none"} /\ (pc[p] = "parse" => cmd[p].kind = "create")
    <3>1. \A p \in Process : cmd[p].kind \in {"create", "rm", "none"}
      BY StoreAssumption DEF Init
    <3> QED
      BY <3>1 DEF Init, First
  <2>3. ConfsOk
    BY <2>2 DEF Init, ConfsOk
  <2>4. OneChosen
    BY <2>2, FS_EmptySet DEF Init, OneChosen
  <2> QED
    BY <2>1, <2>2, <2>3, <2>4 DEF SInv, WrittenAs, ConfigReady, ConfigThere
<1>2. SInv /\ [Next]_vars => SInv'
  BY SInvStep
<1>3. SInv => StoredAsValidated
  <2> SUFFICES ASSUME SInv, NEW i \in Ids, ~Removing(i), Clean(i)
               PROVE  LET st == state_from_json(store[i].state[1]) IN
                      /\ st.conf = conf[st.by][1]
                      /\ store[i].config # None /\ from_json(store[i].config[1]) = conf[st.by][1]
    BY DEF StoredAsValidated, Clean
  <2>1. PICK doc : doc = store[i].state[1]
    OBVIOUS
  <2>2. i \in DOMAIN store /\ StateOf(i) # None /\ doc = StateOf(i)[1]
    BY <2>1, ExistsIs DEF StateOf
  <2>3. /\ DOMAIN doc = {"conf", "status", "by"} /\ doc.by \in Process /\ conf[doc.by] # None
        /\ doc.conf = to_json(conf[doc.by][1])
    BY <2>2 DEF SInv, Inv, Records, MadeBy, WrittenAs, By
  <2>4. PICK st : st = state_from_json(doc)
    OBVIOUS
  <2>5. st.conf = from_json(doc.conf) /\ st.by = doc.by
    BY <2>3, <2>4 DEF state_from_json
  <2>6. from_json(to_json(conf[doc.by][1])) = conf[doc.by][1]
    BY <2>3, RoundTrip DEF SInv, ConfsOk
  <2>7. store[i].config = <<to_json(conf[doc.by][1])>>
    BY <2>2 DEF SInv, ConfigThere, ConfigOf, By
  <2>8. store[i].config # None /\ store[i].config[1] = to_json(conf[doc.by][1])
    BY <2>7 DEF None
  <2> QED
    BY <2>1, <2>3, <2>4, <2>5, <2>6, <2>8
<1> QED
  BY <1>1, <1>2, <1>3, PTL DEF Spec
=============================================================================
