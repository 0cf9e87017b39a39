------------------------------ MODULE Session ------------------------------
(***************************************************************************)
(* What the protocol between a supervisor and the container's init         *)
(* promises (the diagram at the head of src/runtime/ipc.rs): the workload  *)
(* starts only when the host's side is ready, the supervisor calls the     *)
(* container running only when the workload has been started, and the exit *)
(* it records is the workload's or a SIGKILL.  No channel, no init.        *)
(***************************************************************************)
CONSTANTS Exit,      \* the ways a process can end
          Killed,    \* the one that is a SIGKILL
          None

VARIABLES host,      \* the host's side of the network is in place
          workload,  \* "none", "running" or "ended"
          exit,      \* how the workload ended
          verdict,   \* the supervisor's: "starting", "running", "failed" or "ended"
          recorded   \* the exit it has recorded

vars == <<host, workload, exit, verdict, recorded>>

Init ==
  /\ host = FALSE /\ workload = "none" /\ exit = None
  /\ verdict = "starting" /\ recorded = None

HostReady ==
  /\ verdict = "starting" /\ host' = TRUE
  /\ UNCHANGED <<workload, exit, verdict, recorded>>

Start ==
  /\ host /\ workload = "none" /\ workload' = "running"
  /\ UNCHANGED <<host, exit, verdict, recorded>>

End(e) ==
  /\ workload = "running"
  /\ workload' = "ended" /\ exit' = e
  /\ UNCHANGED <<host, verdict, recorded>>

DeclareRunning ==
  /\ verdict = "starting" /\ workload # "none"
  /\ verdict' = "running"
  /\ UNCHANGED <<host, workload, exit, recorded>>

DeclareFailed ==
  /\ verdict = "starting" /\ verdict' = "failed"
  /\ UNCHANGED <<host, workload, exit, recorded>>

Record ==
  /\ verdict = "running" /\ workload = "ended"
  /\ verdict' = "ended" /\ recorded' \in {exit, Killed}
  /\ UNCHANGED <<host, workload, exit>>

Next ==
  \/ HostReady \/ Start \/ (\E e \in Exit : End(e))
  \/ DeclareRunning \/ DeclareFailed \/ Record

Spec == Init /\ [][Next]_vars
=============================================================================
