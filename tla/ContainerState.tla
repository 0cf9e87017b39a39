--------------------------- MODULE ContainerState ---------------------------
(***************************************************************************)
(* The container state machine of src/runtime/state.rs as pure operators:  *)
(* the statuses, which of them are live, the legal transitions, and what   *)
(* transition() and record_exit() do to one state record.                  *)
(*                                                                         *)
(* A record keeps the fields the lifecycle code decides on.  `pid` is the  *)
(* init process named by init_pid and init_start_time together; the same   *)
(* save first writes cgroup_path and network, so it stands for them too.   *)
(* `shim` is shim_pid, `exit` is exit_code ("code"), exit_signal ("sig")   *)
(* or neither (None).  Timestamps, the error text and oom_killed are left  *)
(* out: no operation branches on them.                                     *)
(***************************************************************************)
CONSTANTS Sup,   \* the supervisors, each naming the one init it may launch
          None   \* Option::None, pid 0, or "there is no state.json"

Status == {"Creating", "Created", "Running", "Paused", "Stopping", "Stopped"}

ExitStatus == {"code", "sig"}

State == [status : Status,
          pid    : Sup \cup {None},
          shim   : Sup \cup {None},
          exit   : ExitStatus \cup {None}]

ASSUME NoneAssumption == None \notin Sup /\ None \notin ExitStatus /\ None \notin State

(* Variant: Stopping forgotten.                                            *)
is_live_without_stopping(s) == s \in {"Running", "Paused"}

is_live(s) == s \in {"Running", "Paused", "Stopping"}

can_transition_to(s, next) ==
  <<s, next>> \in { <<"Creating", "Created">>, <<"Creating", "Stopped">>,
                    <<"Created", "Running">>,  <<"Created", "Stopped">>,
                    <<"Running", "Paused">>,   <<"Running", "Stopping">>,
                    <<"Running", "Stopped">>,  <<"Paused", "Running">>,
                    <<"Paused", "Stopping">>,  <<"Paused", "Stopped">>,
                    <<"Stopping", "Stopped">> }

(* An illegal transition is an Err that leaves the record as it was; the   *)
(* callers that ignore the Err go on with that record.                     *)
transition(st, next) ==
  IF can_transition_to(st.status, next) THEN [st EXCEPT !.status = next] ELSE st

(* reconcile(), teardown() and the shim's error path assign the status     *)
(* directly instead of calling transition().                               *)
mark_stopped(st) == [st EXCEPT !.status = "Stopped"]

record_exit(st, e) == [st EXCEPT !.exit = e]

(* ContainerState::new followed by supervisor::create.                     *)
CreatedState == [status |-> "Created", pid |-> None, shim |-> None, exit |-> None]
=============================================================================
