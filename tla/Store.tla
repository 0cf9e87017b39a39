-------------------------------- MODULE Store --------------------------------
(***************************************************************************)
(* The container store (src/runtime/state.rs, Store) and the commands that *)
(* add to it and take from it: create, from its arguments to the saved     *)
(* record (src/main.rs build_state and cmd_create, src/runtime/            *)
(* supervisor.rs create), and rm, from the text that names a container to  *)
(* the removed directory.  No lock covers the store as a whole.            *)
(***************************************************************************)
EXTENDS Config

CONSTANTS
  Process,    \* commands that run
  Scenarios,  \* what they are: functions from Process to commands
  Fresh,      \* Fresh[p]: the id that generate_id gives to p
  StartsWith, \* pairs of texts, the second is a prefix of the first
  MaxCrashes  \* bound: commands killed

ASSUME StoreAssumption ==
  /\ MaxCrashes \in Nat
  /\ \A cmds \in Scenarios, p \in Process : cmds[p].kind \in {"create", "rm", "none"}
  /\ \A cmds \in Scenarios, p \in Process : cmds[p].kind = "create" => LineOk(cmds[p].line)
  /\ \A p, q \in Process : p # q => Fresh[p] # Fresh[q]

VARIABLES
  cmd,      \* the command of each process
  pc,       \* its next step
  conf,     \* create: its configuration
  todo,     \* the ids it has listed and not yet looked at
  found,    \* rm: the ids that begin with the text; then the one chosen
  record,   \* rm: the state it loaded
  left,     \* rm: the files it has listed and not yet unlinked
  store,    \* directories by id, each with its config.json and state.json
  raced,    \* history: creates of which one saved, or was killed, while the other
            \* had not yet saved
  undermined, \* history: ids that rm changed while another command was not done with them
  changed,  \* history: the store has changed since rm began to resolve
  expected, \* history: what the text named when rm began
  crashes

vars == <<cmd, pc, conf, todo, found, record, left, store, raced, undermined, changed, expected, crashes>>

rmVars == <<found, record, left, expected>>

history == <<raced, undermined>>

Idle == [kind |-> "none"]

Dir(config, state) == [config |-> config, state |-> state]

Update(id, dir) == store' = [i \in DOMAIN store \cup {id} |-> IF i = id THEN dir ELSE store[i]]

(* What the directory holds after mkdir_p.                                 *)
Contents(id) == IF id \in DOMAIN store THEN store[id] ELSE Dir(None, None)

(* ContainerState as JSON; `by' is the create that made it.                *)
state_to_json(c, status, by) == [conf |-> to_json(c), status |-> status, by |-> by]

state_from_json(doc) == [doc EXCEPT !.conf = from_json(@)]

(* exists: state.json makes the container.                                 *)
exists(id) == id \in DOMAIN store /\ store[id].state # None

Ids == {id \in DOMAIN store : exists(id)}

(* ids: sorted, and the order is one that TLC chooses for the texts.       *)
ids == SetToSeq(Ids)

NameOf(id) == IF exists(id) THEN store[id].state[1].conf.name ELSE None

Goto(p, label) == pc' = [pc EXCEPT ![p] = label]

At(p, label) == pc[p] = label

Steady == UNCHANGED <<cmd, conf, todo, history, changed, crashes, rmVars>>

(* A step that changes what can be resolved.                               *)
Disturb(p) == changed' = [q \in Process |-> IF q = p THEN changed[q] ELSE TRUE]

-----------------------------------------------------------------------------
(* create.                                                                 *)

(* parse_run, build_state: an error ends the command before anything is    *)
(* created.                                                                *)
Parse(p) ==
  LET parsed == parse_run(Render(cmd[p].line))
      c      == finalize(parsed, Fresh[p]) IN
  /\ At(p, "parse")
  /\ IF parsed # Failure /\ validate(c)
       THEN conf' = [conf EXCEPT ![p] = Some(c)] /\ Goto(p, "exists")
       ELSE Goto(p, "error") /\ UNCHANGED conf
  /\ UNCHANGED <<cmd, todo, store, history, changed, crashes, rmVars>>

Id(p) == conf[p][1].id

CheckId(p) ==
  /\ At(p, "exists")
  /\ Goto(p, IF exists(Id(p)) THEN "error" ELSE IF conf[p][1].name = None THEN "mkdir" ELSE "scan")
  /\ Steady /\ UNCHANGED store

Scan(p) ==
  /\ At(p, "scan")
  /\ todo' = [todo EXCEPT ![p] = ids]
  /\ Goto(p, "names")
  /\ UNCHANGED <<cmd, conf, store, history, changed, crashes, rmVars>>

(* Variant: a container that is still being created is passed over.        *)
CheckNameOfCreated(p) ==
  /\ At(p, "names")
  /\ IF todo[p] = <<>> THEN Goto(p, "mkdir") /\ UNCHANGED todo
     ELSE /\ todo' = [todo EXCEPT ![p] = Tail(@)]
          /\ Goto(p, IF /\ NameOf(Head(todo[p])) = conf[p][1].name
                        /\ store[Head(todo[p])].state[1].status = "created"
                     THEN "error" ELSE "names")
  /\ UNCHANGED <<cmd, conf, store, history, changed, crashes, rmVars>>

(* Each listed record is loaded; one that has gone is skipped.             *)
CheckName(p) ==
  /\ At(p, "names")
  /\ IF todo[p] = <<>> THEN Goto(p, "mkdir") /\ UNCHANGED todo
     ELSE /\ todo' = [todo EXCEPT ![p] = Tail(@)]
          /\ Goto(p, IF NameOf(Head(todo[p])) = conf[p][1].name THEN "error" ELSE "names")
  /\ UNCHANGED <<cmd, conf, store, history, changed, crashes, rmVars>>

(* Variant: the id is reserved with a first state.json.                    *)
MakeDirAndState(p) ==
  /\ At(p, "mkdir")
  /\ Update(Id(p), [Contents(Id(p)) EXCEPT !.state = Some(state_to_json(conf[p][1], "creating", p))])
  /\ Goto(p, "config")
  /\ Steady

MakeDir(p) ==
  /\ At(p, "mkdir")
  /\ Update(Id(p), Contents(Id(p)))
  /\ Goto(p, "config")
  /\ Steady

(* write_atomic fails if the directory has gone.                           *)
WriteConfig(p) ==
  /\ At(p, "config")
  /\ IF Id(p) \notin DOMAIN store THEN Goto(p, "error") /\ UNCHANGED store
     ELSE /\ Update(Id(p), [store[Id(p)] EXCEPT !.config = Some(to_json(conf[p][1]))])
          /\ Goto(p, "save")
  /\ Steady

Before == {"exists", "scan", "names", "mkdir", "config", "save"}

(* The creates that p meets before they have saved.                        *)
Rivals(p) == {{p, q} : q \in {r \in Process \ {p} : pc[r] \in Before}}

(* save makes the directory again if it has gone.                          *)
Save(p, status) ==
  /\ Update(Id(p), [Contents(Id(p)) EXCEPT !.state = Some(state_to_json(conf[p][1], status, p))])
  /\ raced' = raced \cup Rivals(p)
  /\ Disturb(p)
  /\ UNCHANGED <<cmd, conf, todo, undermined, crashes, rmVars>>

SaveCreating(p) == At(p, "save") /\ Save(p, "creating") /\ Goto(p, "created")

SaveCreated(p) == At(p, "created") /\ Save(p, "created") /\ Goto(p, "done")

-----------------------------------------------------------------------------
(* rm.                                                                     *)

Needle(p) == cmd[p].needle

Starts(id, text) == <<id, text>> \in StartsWith

(* What a text names: an id, else the container of that name, else the one *)
(* container whose id begins with it.                                      *)
Named(text) == {id \in Ids : NameOf(id) = Some(text)}

Prefixed(text) == {id \in Ids : Starts(id, text)}

Denoted(text) ==
  IF exists(text) THEN {text}
  ELSE IF Named(text) # {} THEN Named(text)
  ELSE IF Cardinality(Prefixed(text)) = 1 THEN Prefixed(text) ELSE {}

ResolveId(p) ==
  /\ At(p, "resolve")
  /\ expected' = [expected EXCEPT ![p] = Denoted(Needle(p))]
  /\ changed' = [changed EXCEPT ![p] = FALSE]
  /\ IF exists(Needle(p)) THEN found' = [found EXCEPT ![p] = {Needle(p)}] /\ Goto(p, "load")
     ELSE UNCHANGED found /\ Goto(p, "list")
  /\ UNCHANGED <<cmd, conf, todo, record, left, store, history, crashes>>

ListIds(p) ==
  /\ At(p, "list")
  /\ todo' = [todo EXCEPT ![p] = ids]
  /\ Goto(p, "match")
  /\ UNCHANGED <<cmd, conf, store, history, changed, crashes, rmVars>>

(* One turn of the loop of resolve: a prefix is noted, a name decides.     *)
Match(p) ==
  LET id == Head(todo[p]) IN
  /\ At(p, "match") /\ todo[p] # <<>>
  /\ \/ /\ Starts(id, Needle(p))
        /\ found' = [found EXCEPT ![p] = @ \cup {id}]
        /\ todo' = [todo EXCEPT ![p] = Tail(@)] /\ UNCHANGED pc
     \/ /\ ~Starts(id, Needle(p)) /\ NameOf(id) = Some(Needle(p))
        /\ found' = [found EXCEPT ![p] = {id}]
        /\ todo' = [todo EXCEPT ![p] = <<>>] /\ Goto(p, "load")
     \/ /\ ~Starts(id, Needle(p)) /\ NameOf(id) # Some(Needle(p))
        /\ todo' = [todo EXCEPT ![p] = Tail(@)] /\ UNCHANGED <<found, pc>>
  /\ UNCHANGED <<cmd, conf, record, left, store, history, changed, expected, crashes>>

(* Variant: the first container that begins with the text.                 *)
DecideFirst(p) ==
  /\ At(p, "match") /\ todo[p] = <<>>
  /\ Goto(p, IF found[p] # {} THEN "load" ELSE "error")
  /\ Steady /\ UNCHANGED store

Decide(p) ==
  /\ At(p, "match") /\ todo[p] = <<>>
  /\ Goto(p, IF Cardinality(found[p]) = 1 THEN "load" ELSE "error")
  /\ Steady /\ UNCHANGED store

Chosen(p) == CHOOSE id \in found[p] : TRUE

(* Steps of rm on a container are noted if its create is not done, or if   *)
(* another rm has loaded it and is going to save it again.                 *)
Creating(id) == {q \in Process : conf[q] # None /\ Id(q) = id /\ pc[q] \in Before \cup {"created"}}

Reviving(id) == {q \in Process : pc[q] = "teardown" /\ Chosen(q) = id}

Undermine(id, others) == undermined' = IF others # {} THEN undermined \cup {id} ELSE undermined

(* lock makes the directory if it has gone, then the state is loaded.  A   *)
(* container that was only created is not live.                            *)
Load(p) ==
  LET id == Chosen(p) IN
  /\ At(p, "load")
  /\ Update(id, Contents(id))
  /\ IF exists(id)
       THEN record' = [record EXCEPT ![p] = Some(state_from_json(store[id].state[1]))] /\ Goto(p, "teardown")
       ELSE Goto(p, "gone") /\ UNCHANGED record
  /\ UNCHANGED <<cmd, conf, todo, found, left, expected, history, changed, crashes>>

(* The lock again; teardown ends with a save of what was loaded.           *)
Teardown(p) ==
  LET id == Chosen(p)
      st == record[p][1] IN
  /\ At(p, "teardown")
  /\ Update(id, [Contents(id) EXCEPT !.state = Some(state_to_json(st.conf, st.status, st.by))])
  /\ Goto(p, "remove")
  /\ Undermine(id, Creating(id)) /\ Disturb(p)
  /\ UNCHANGED <<cmd, conf, todo, raced, crashes, rmVars>>

(* remove_dir_all: the directory is read, the files that are still there   *)
(* are unlinked, and the directory is removed, which fails if there is a   *)
(* new file.                                                               *)
ReadDir(p) ==
  LET dir == Contents(Chosen(p)) IN
  /\ At(p, "remove")
  /\ left' = [left EXCEPT ![p] = {f \in {"config", "state"} : dir[f] # None}]
  /\ Goto(p, IF Chosen(p) \in DOMAIN store THEN "unlink" ELSE "done")
  /\ UNCHANGED <<cmd, conf, todo, store, found, record, expected, history, changed, crashes>>

Unlink(p) ==
  LET id == Chosen(p) IN
  /\ At(p, "unlink")
  /\ \E f \in left[p] :
       /\ left' = [left EXCEPT ![p] = @ \ {f}]
       /\ IF id \in DOMAIN store THEN Update(id, [store[id] EXCEPT ![f] = None]) ELSE UNCHANGED store
  /\ Undermine(id, Creating(id) \cup Reviving(id)) /\ Disturb(p)
  /\ UNCHANGED <<cmd, pc, conf, todo, found, record, expected, raced, crashes>>

Rmdir(p) ==
  LET id == Chosen(p) IN
  /\ At(p, "unlink") /\ left[p] = {}
  /\ IF Contents(id) = Dir(None, None)
       THEN store' = [i \in DOMAIN store \ {id} |-> store[i]] /\ Goto(p, "done")
       ELSE UNCHANGED store /\ Goto(p, "not empty")
  /\ Undermine(id, Creating(id) \cup Reviving(id)) /\ Disturb(p)
  /\ UNCHANGED <<cmd, conf, todo, raced, crashes, rmVars>>

Ended == {"done", "error", "gone", "not empty", "dead", "none"}

Crash(p) ==
  /\ crashes < MaxCrashes /\ pc[p] \notin Ended \cup {"parse"}
  /\ crashes' = crashes + 1 /\ Goto(p, "dead")
  /\ raced' = IF pc[p] \in Before THEN raced \cup Rivals(p) ELSE raced
  /\ UNCHANGED <<cmd, conf, todo, store, undermined, changed, rmVars>>

-----------------------------------------------------------------------------
First(c) == CASE c.kind = "create" -> "parse" [] c.kind = "rm" -> "resolve" [] c.kind = "none" -> "none"

Init ==
  /\ cmd \in Scenarios
  /\ pc = [p \in Process |-> First(cmd[p])]
  /\ conf = [p \in Process |-> None] /\ todo = [p \in Process |-> <<>>]
  /\ found = [p \in Process |-> {}] /\ expected = [p \in Process |-> {}]
  /\ record = [p \in Process |-> None] /\ left = [p \in Process |-> {}]
  /\ store = <<>> /\ raced = {} /\ undermined = {} /\ changed = [p \in Process |-> FALSE] /\ crashes = 0

Step(p) ==
  \/ Parse(p) \/ CheckId(p) \/ Scan(p) \/ CheckName(p) \/ MakeDir(p) \/ WriteConfig(p)
  \/ SaveCreating(p) \/ SaveCreated(p)
  \/ ResolveId(p) \/ ListIds(p) \/ Match(p) \/ Decide(p) \/ Load(p) \/ Teardown(p)
  \/ ReadDir(p) \/ Unlink(p) \/ Rmdir(p)
  \/ Crash(p)

Next == \E p \in Process : Step(p)

Spec == Init /\ [][Next]_vars

-----------------------------------------------------------------------------
(* Properties.                                                             *)

(* A command line that is accepted gives the container it asks for:        *)
(* whatever the order of options and --config, options override the file,  *)
(* the words of the command are passed on as they are, and every number    *)
(* arrives as written, save those of a file that from_json does not look   *)
(* at (Slips).                                                             *)
ParsedAsMeant ==
  \A p \in Process : conf[p] # None /\ ~Slips(cmd[p].line) => Means(conf[p][1], cmd[p].line)

Decided(p) == cmd[p].kind = "create" /\ pc[p] \notin {"parse", "dead"}

(* A create fails before it looks at the store exactly if its line, with   *)
(* its file, asks for something that cannot be, and no good line is        *)
(* refused; the numbers in Slips are excepted.                             *)
AcceptedIffSane ==
  \A p \in Process :
     Decided(p) /\ ~Slips(cmd[p].line) => (conf[p] # None) = Sane(cmd[p].line)

(* No number slips through because it is given in a file.  Not so: port 0  *)
(* or 65616 and any protocol in the map form of publish, a negative size   *)
(* and an MTU above 32 bits are accepted and changed.                      *)
NothingSlipsThrough ==
  \A p \in Process : Decided(p) /\ conf[p] # None => Sane(cmd[p].line)

Removing(id) == \E p \in Process : pc[p] \in {"unlink", "not empty", "dead"} /\ found[p] = {id}

(* Two creates of this id met.                                             *)
Contested(id) ==
  \E p, q \in Process : /\ p # q /\ conf[p] # None /\ conf[q] # None
                        /\ Id(p) = id /\ Id(q) = id /\ {p, q} \in raced

(* Whatever is killed and whatever overlaps, a container in the store has  *)
(* the configuration that was validated for it, when it is read back from  *)
(* the JSON of state.json and of the config.json of init.                  *)
StoredAsValidated ==
  \A id \in Ids :
     LET st == state_from_json(store[id].state[1]) IN
     \/ Removing(id) \/ id \in undermined \/ Contested(id)
     \/ /\ st.conf = conf[st.by][1]
        /\ store[id].config # None /\ from_json(store[id].config[1]) = conf[st.by][1]

(* The second create of a name fails and leaves the first alone.           *)
NamesUnique ==
  \A i, j \in Ids : i # j /\ NameOf(i) # None => NameOf(i) # NameOf(j)

(* Two containers have the same name only if their creates overlapped (one *)
(* saved, or was killed, while the other had not saved yet), or if one of  *)
(* them was removed while another command was not done with it, or created *)
(* twice at once.                                                          *)
NamesUniqueUnlessRaced ==
  \A i, j \in Ids :
     i # j /\ NameOf(i) # None /\ NameOf(i) = NameOf(j) =>
       \/ {store[i].state[1].by, store[j].state[1].by} \in raced
       \/ \E k \in {i, j} : k \in undermined \/ Contested(k)

(* A text that names a container leads to it, and one that names none or   *)
(* several leads nowhere, unless the store changed meanwhile.              *)
ResolveRight ==
  \A p \in Process :
     cmd[p].kind = "rm" /\ ~changed[p] =>
       /\ pc[p] = "load" => found[p] \subseteq expected[p]
       /\ pc[p] = "error" => expected[p] = {}
=============================================================================
