-------------------------- MODULE Lifecycle_proofs --------------------------
(***************************************************************************)
(* Proofs about Lifecycle, for every number of terminals and commands.     *)
(* Type correctness holds for all commands.  One init per container, the   *)
(* truth of state.json about it, the freezer and the meaning of a returned *)
(* command hold for the commands that keep the container: rm, gc and       *)
(* start -a, a --rm container and killed commands are where the code does  *)
(* not keep these promises (Lifecycle_rm_start, Lifecycle_start_attached). *)
(***************************************************************************)
EXTENDS Lifecycle, FiniteSetTheorems, TLAPS

-----------------------------------------------------------------------------
(* What the operations of state.rs do to a record.                         *)

LEMMA TransitionKeeps ==
  ASSUME NEW st \in State, NEW next \in Status
  PROVE  /\ transition(st, next) \in State
         /\ transition(st, next).pid = st.pid
         /\ transition(st, next).shim = st.shim
         /\ transition(st, next).status = IF can_transition_to(st.status, next) THEN next ELSE st.status
  BY DEF transition, State

LEMMA StoppingKeeps ==
  ASSUME NEW st \in State
  PROVE  /\ mark_stopped(st) \in State
         /\ mark_stopped(st).pid = st.pid
         /\ mark_stopped(st).shim = st.shim
         /\ mark_stopped(st).status = "Stopped"
  BY DEF mark_stopped, State, Status

LEMMA TornKeeps ==
  ASSUME NEW st \in State
  PROVE  /\ Torn(st) \in State
         /\ Torn(st).pid = st.pid
         /\ Torn(st).status = IF is_live(st.status) THEN "Stopped" ELSE st.status
  BY StoppingKeeps DEF Torn

LEMMA RecordExitKeeps ==
  ASSUME NEW st \in State, NEW e \in ExitStatus \cup {None}
  PROVE  /\ record_exit(st, e) \in State
         /\ record_exit(st, e).pid = st.pid
         /\ record_exit(st, e).status = st.status
  BY DEF record_exit, State

LEMMA ThawedKeeps ==
  ASSUME NEW st \in State
  PROVE  /\ Thawed(st) \in State
         /\ Thawed(st).pid = st.pid
         /\ Thawed(st).status = IF st.status = "Paused" THEN "Running" ELSE st.status
<1>1. "Running" \in Status /\ can_transition_to("Paused", "Running")
  BY DEF Status, can_transition_to
<1> QED
  BY <1>1, TransitionKeeps DEF Thawed

(* The record a launch, the shim and start write their pids into.          *)
LEMMA FieldsKeep ==
  ASSUME NEW st \in State, NEW s \in Sup
  PROVE  /\ [st EXCEPT !.pid = s] \in State
         /\ [st EXCEPT !.pid = s].status = st.status
         /\ [st EXCEPT !.pid = s].pid = s
         /\ [st EXCEPT !.shim = s] \in State
         /\ [st EXCEPT !.shim = s].status = st.status
         /\ [st EXCEPT !.shim = s].pid = st.pid
  BY DEF State

LEMMA CreatedIsState ==
  CreatedState \in State
  BY DEF CreatedState, State, Status

-----------------------------------------------------------------------------
(* Type correctness.                                                       *)

TypeControl ==
  /\ pc \in [Cli -> CliPc] /\ op \in [Cli -> AllOps \cup {None}]
  /\ site \in [Cli -> {"main", "stop", "kill", "fin", "del"}]
  /\ out \in [Cli -> {"ok", "err", None}] /\ ops \in 0 .. MaxOps
  /\ supPc \in [Sup -> SupPc] /\ verdict \in [Sup -> {"ok", "err", None}]

TypeKernel ==
  /\ holders \subseteq Cli
  /\ init \in [Sup -> {"none", "alive", "zombie", "gone"}]
  /\ initExit \in [Sup -> ExitStatus \cup {None}]
  /\ doomed \subseteq Sup /\ frozen \in BOOLEAN /\ stray \in BOOLEAN
  /\ res \subseteq {"cgroup", "net"}

TypeLock == lockFile \in Nat /\ fd \in [Cli -> Nat]

TypeRecords ==
  /\ file \in State \cup {None}
  /\ mem \in [Cli -> State \cup {None}] /\ smem \in [Sup -> State \cup {None}]

(* Steps that use a loaded record come after a step that loaded one.       *)
Using == {"reconcile", "act", "save", "sigterm", "tearKill", "tearRelease", "tearSave"}
SupUsing == SupPc \ {"off", "load", "remove", "done", "dead"}

Known ==
  /\ \A p \in Cli : /\ pc[p] \in Using => mem[p] # None
                    /\ pc[p] \in {"open", "flock"} /\ site[p] = "del" => mem[p] # None
  /\ \A s \in Sup : supPc[s] \in SupUsing => smem[s] # None

LEMMA TypeParts == TypeOK <=> TypeControl /\ TypeKernel /\ TypeLock /\ TypeRecords
  BY DEF TypeOK, TypeControl, TypeKernel, TypeLock, TypeRecords

LEMMA ControlStep ==
  ASSUME TypeControl, [Next]_vars
  PROVE  TypeControl'
<1> USE DEF TypeControl, CliPc, SupPc, AllOps, Cli
<1>1. ASSUME NEW p \in Cli, LockOpen(p) PROVE TypeControl'
  BY <1>1, BoundAssumption DEF LockOpen, Goto, kernVars, supVars
<1>2. ASSUME NEW p \in Cli, LockAcquire(p) PROVE TypeControl'
  BY <1>2, BoundAssumption DEF LockAcquire, Goto, fsVars, kernVars, supVars
<1>3. ASSUME NEW p \in Cli, Load(p) PROVE TypeControl'
  BY <1>3, BoundAssumption DEF Load, Finish, Goto, Unlock, Remember,
     lockVars, fsVars, kernVars, supVars
<1>4. ASSUME NEW p \in Cli, Reconcile(p) PROVE TypeControl'
  BY <1>4, BoundAssumption DEF Reconcile, Remember, Save, Goto, lockVars,
     kernVars, supVars
<1>5. ASSUME NEW p \in Cli, SaveMem(p) PROVE TypeControl'
  BY <1>5, BoundAssumption DEF SaveMem, Save, Finish, Goto, Unlock, kernVars,
     supVars
<1>6. ASSUME NEW p \in Cli, StartAct(p) PROVE TypeControl'
  BY <1>6, BoundAssumption DEF StartAct, Acting, ForkShim, Goto, fsVars,
     lockVars, kernVars, Refuse, Finish, Unlock, supVars
<1>7. ASSUME NEW p \in Cli, RunFork(p) PROVE TypeControl'
  BY <1>7, BoundAssumption DEF RunFork, ForkShim, Goto, fsVars, lockVars,
     kernVars
<1>8. ASSUME NEW p \in Cli, StartAttachedAct(p) PROVE TypeControl'
  BY <1>8, BoundAssumption DEF StartAttachedAct, Acting, Refuse, Finish,
     Goto, Unlock, fsVars, kernVars, supVars, lockVars
<1>9. ASSUME NEW p \in Cli, Notified(p) PROVE TypeControl'
  BY <1>9, BoundAssumption DEF Notified, Goto, lockVars, Finish, Unlock,
     fsVars, kernVars, supVars
<1>10. ASSUME NEW p \in Cli, StartReload(p) PROVE TypeControl'
  BY <1>10, BoundAssumption DEF StartReload, Finish, Goto, Unlock, Remember,
     lockVars, fsVars, kernVars, supVars
<1>11. ASSUME NEW p \in Cli, AttachedDone(p) PROVE TypeControl'
  BY <1>11, BoundAssumption DEF AttachedDone, Finish, Goto, Unlock, fsVars,
     kernVars, supVars
<1>12. ASSUME NEW p \in Cli, KillAct(p) PROVE TypeControl'
  BY <1>12, BoundAssumption DEF KillAct, Refuse, Finish, Goto, Unlock,
     fsVars, kernVars, supVars, ThawFor, KillAll, Remember, lockVars,
     SendKill
<1>13. ASSUME NEW p \in Cli, PauseAct(p) PROVE TypeControl'
  BY <1>13, BoundAssumption DEF PauseAct, Acting, Refuse, Finish, Goto,
     Unlock, fsVars, kernVars, supVars, Remember, lockVars
<1>14. ASSUME NEW p \in Cli, UnpauseAct(p) PROVE TypeControl'
  BY <1>14, BoundAssumption DEF UnpauseAct, Acting, Refuse, Finish, Goto,
     Unlock, fsVars, kernVars, supVars, Remember, lockVars
<1>15. ASSUME NEW p \in Cli, StopAct(p) PROVE TypeControl'
  BY <1>15, BoundAssumption DEF StopAct, StopReturns, Goto, Unlock, Finish,
     ThawFor, Remember, Save, lockVars, supVars
<1>16. ASSUME NEW p \in Cli, SigTerm(p) PROVE TypeControl'
  BY <1>16, BoundAssumption DEF SigTerm, Unlock, Goto, fsVars, supVars
<1>17. ASSUME NEW p \in Cli, PollDead(p) PROVE TypeControl'
  BY <1>17, BoundAssumption DEF PollDead, GiveUp, Finish, Goto, Unlock,
     fsVars, kernVars, supVars, LockFor, lockVars
<1>18. ASSUME NEW p \in Cli, PollDeadline(p) PROVE TypeControl'
  BY <1>18, BoundAssumption DEF PollDeadline, LockFor, Goto, fsVars,
     lockVars, kernVars, supVars
<1>19. ASSUME NEW p \in Cli, StopKill(p) PROVE TypeControl'
  BY <1>19, BoundAssumption DEF StopKill, KillAll, SendKill, Unlock, Goto,
     fsVars, supVars
<1>20. ASSUME NEW p \in Cli, PollKilled(p) PROVE TypeControl'
  BY <1>20, BoundAssumption DEF PollKilled, GiveUp, Finish, Goto, Unlock,
     fsVars, kernVars, supVars, LockFor, lockVars
<1>21. ASSUME NEW p \in Cli, FinalizeAct(p) PROVE TypeControl'
  BY <1>21, BoundAssumption DEF FinalizeAct, GiveUp, Finish, Goto, Unlock,
     fsVars, kernVars, supVars, lockVars
<1>22. ASSUME NEW p \in Cli, FinWaitSeen(p) PROVE TypeControl'
  BY <1>22, BoundAssumption DEF FinWaitSeen, GiveUp, Finish, Goto, Unlock,
     fsVars, kernVars, supVars, Remember, StopReturns
<1>23. ASSUME NEW p \in Cli, FinWaitExpired(p) PROVE TypeControl'
  BY <1>23, BoundAssumption DEF FinWaitExpired, Remember, Goto, fsVars,
     lockVars, kernVars, supVars
<1>24. ASSUME NEW p \in Cli, CliTearKill(p) PROVE TypeControl'
  BY <1>24, BoundAssumption DEF CliTearKill, TearKill, Goto, fsVars,
     lockVars, supVars
<1>25. ASSUME NEW p \in Cli, CliTearRelease(p) PROVE TypeControl'
  BY <1>25, BoundAssumption DEF CliTearRelease, TearRelease, Goto, fsVars,
     lockVars, supVars
<1>26. ASSUME NEW p \in Cli, CliTearSave(p) PROVE TypeControl'
  BY <1>26, BoundAssumption DEF CliTearSave, Remember, Save, Goto, lockVars,
     Unlock, StopReturns, Finish, kernVars, supVars
<1>27. ASSUME NEW p \in Cli, DeleteAct(p) PROVE TypeControl'
  BY <1>27, BoundAssumption DEF DeleteAct, Refuse, Finish, Goto, Unlock,
     fsVars, kernVars, supVars, LockFor
<1>28. ASSUME NEW p \in Cli, DeleteReload(p) PROVE TypeControl'
  BY <1>28, BoundAssumption DEF DeleteReload, GiveUp, Finish, Goto, Unlock,
     fsVars, kernVars, supVars, Remember, LockFor, lockVars
<1>29. ASSUME NEW p \in Cli, Remove(p) PROVE TypeControl'
  BY <1>29, BoundAssumption DEF Remove, RemoveDir, Finish, Goto, Unlock,
     kernVars, supVars
<1>30. ASSUME NEW p \in Cli, WaitAct(p) PROVE TypeControl'
  BY <1>30, BoundAssumption DEF WaitAct, Acting, Goto, lockVars, Finish,
     Unlock, fsVars, kernVars, supVars
<1>31. ASSUME NEW p \in Cli, WaitTimeout(p) PROVE TypeControl'
  BY <1>31, BoundAssumption DEF WaitTimeout, Acting, Refuse, Finish, Goto,
     Unlock, fsVars, kernVars, supVars
<1>32. ASSUME NEW p \in Cli, GcCollect(p) PROVE TypeControl'
  BY <1>32, BoundAssumption DEF GcCollect, Finish, Goto, Unlock, fsVars,
     supVars
<1>33. ASSUME NEW p \in Cli, CliKilled(p) PROVE TypeControl'
  BY <1>33, BoundAssumption DEF CliKilled, Goto, lockVars, Unlock, fsVars,
     kernVars, supVars
<1>34. ASSUME NEW p \in Cli, NEW o \in Ops, Begin(p, o) PROVE TypeControl'
  BY <1>34, BoundAssumption DEF Begin, Remember, Goto, fsVars, lockVars,
     kernVars, supVars
<1>35. ASSUME NEW s \in Sup, SupLoad(s) PROVE TypeControl'
  BY <1>35, BoundAssumption DEF SupLoad, SupGoto, Notify, SupRemember,
     fsVars, lockVars, kernVars, cliVars
<1>36. ASSUME NEW s \in Sup, LaunchCgroup(s) PROVE TypeControl'
  BY <1>36, BoundAssumption DEF LaunchCgroup, SupGoto, fsVars, lockVars,
     cliVars
<1>37. ASSUME NEW s \in Sup, LaunchClone(s) PROVE TypeControl'
  BY <1>37, BoundAssumption DEF LaunchClone, SupRemember, SupGoto, fsVars,
     lockVars, cliVars
<1>38. ASSUME NEW s \in Sup, LaunchNet(s) PROVE TypeControl'
  BY <1>38, BoundAssumption DEF LaunchNet, SupGoto, fsVars, lockVars, cliVars
<1>39. ASSUME NEW s \in Sup, LaunchRunning(s) PROVE TypeControl'
  BY <1>39, BoundAssumption DEF LaunchRunning, SupRemember, Save, SupGoto,
     lockVars, kernVars, cliVars
<1>40. ASSUME NEW s \in Sup, LaunchFail(s) PROVE TypeControl'
  BY <1>40, BoundAssumption DEF LaunchFail, SupGoto, fsVars, lockVars,
     cliVars
<1>41. ASSUME NEW s \in Sup, LaunchFailed(s) PROVE TypeControl'
  BY <1>41, BoundAssumption DEF LaunchFailed, RemoveDir, SupRemember, Save,
     Notify, SupGoto, lockVars, kernVars, cliVars
<1>42. ASSUME NEW s \in Sup, ShimSave(s) PROVE TypeControl'
  BY <1>42, BoundAssumption DEF ShimSave, SupRemember, Save, Notify, SupGoto,
     lockVars, kernVars, cliVars
<1>43. ASSUME NEW s \in Sup, SupReap(s) PROVE TypeControl'
  BY <1>43, BoundAssumption DEF SupReap, SupRemember, SupGoto, fsVars,
     lockVars, cliVars
<1>44. ASSUME NEW s \in Sup, SupSaveExit(s) PROVE TypeControl'
  BY <1>44, BoundAssumption DEF SupSaveExit, Save, SupGoto, lockVars,
     kernVars, cliVars
<1>45. ASSUME NEW s \in Sup, SupTearKill(s) PROVE TypeControl'
  BY <1>45, BoundAssumption DEF SupTearKill, TearKill, SupGoto, fsVars,
     lockVars, cliVars
<1>46. ASSUME NEW s \in Sup, SupTearRelease(s) PROVE TypeControl'
  BY <1>46, BoundAssumption DEF SupTearRelease, TearRelease, SupGoto, fsVars,
     lockVars, cliVars
<1>47. ASSUME NEW s \in Sup, SupTearSave(s) PROVE TypeControl'
  BY <1>47, BoundAssumption DEF SupTearSave, Save, SupGoto, lockVars,
     kernVars, cliVars
<1>48. ASSUME NEW s \in Sup, SupRemove(s) PROVE TypeControl'
  BY <1>48, BoundAssumption DEF SupRemove, RemoveDir, SupGoto, lockVars,
     kernVars, cliVars
<1>49. ASSUME NEW s \in Sup, SupCrash(s) PROVE TypeControl'
  BY <1>49, BoundAssumption DEF SupCrash, SupGoto, Finish, Goto, Unlock,
     lockVars, fsVars
<1>50. ASSUME NEW s \in Sup, InitExit(s) PROVE TypeControl'
  BY <1>50, BoundAssumption DEF InitExit, fsVars, lockVars, cliVars, supVars
<1>51. ASSUME NEW s \in Sup, InitKilled(s) PROVE TypeControl'
  BY <1>51, BoundAssumption DEF InitKilled, fsVars, lockVars, cliVars,
     supVars
<1>52. ASSUME NEW s \in Sup, InitReaped(s) PROVE TypeControl'
  BY <1>52, BoundAssumption DEF InitReaped, fsVars, lockVars, cliVars,
     supVars
<1>53. CASE UNCHANGED vars
  BY <1>53, BoundAssumption DEF vars, fsVars, lockVars, kernVars, cliVars,
     supVars
<1> QED
  BY <1>1, <1>2, <1>3, <1>4, <1>5, <1>6, <1>7, <1>8, <1>9, <1>10, <1>11,
     <1>12, <1>13, <1>14, <1>15, <1>16, <1>17, <1>18, <1>19, <1>20, <1>21,
     <1>22, <1>23, <1>24, <1>25, <1>26, <1>27, <1>28, <1>29, <1>30, <1>31,
     <1>32, <1>33, <1>34, <1>35, <1>36, <1>37, <1>38, <1>39, <1>40, <1>41,
     <1>42, <1>43, <1>44, <1>45, <1>46, <1>47, <1>48, <1>49, <1>50, <1>51,
     <1>52, <1>53 DEF Next, CliStep, SupStep

LEMMA KernelStep ==
  ASSUME TypeKernel, [Next]_vars
  PROVE  TypeKernel'
<1> USE DEF TypeKernel, Cli
<1>1. ASSUME NEW p \in Cli, LockOpen(p) PROVE TypeKernel'
  BY <1>1 DEF LockOpen, Goto, kernVars, supVars
<1>2. ASSUME NEW p \in Cli, LockAcquire(p) PROVE TypeKernel'
  BY <1>2 DEF LockAcquire, Goto, fsVars, kernVars, supVars
<1>3. ASSUME NEW p \in Cli, Load(p) PROVE TypeKernel'
  BY <1>3 DEF Load, Finish, Goto, Unlock, Remember, lockVars, fsVars,
     kernVars, supVars
<1>4. ASSUME NEW p \in Cli, Reconcile(p) PROVE TypeKernel'
  BY <1>4 DEF Reconcile, Remember, Save, Goto, lockVars, kernVars, supVars
<1>5. ASSUME NEW p \in Cli, SaveMem(p) PROVE TypeKernel'
  BY <1>5 DEF SaveMem, Save, Finish, Goto, Unlock, kernVars, supVars
<1>6. ASSUME NEW p \in Cli, StartAct(p) PROVE TypeKernel'
  BY <1>6 DEF StartAct, Acting, ForkShim, Goto, fsVars, lockVars, kernVars,
     Refuse, Finish, Unlock, supVars
<1>7. ASSUME NEW p \in Cli, RunFork(p) PROVE TypeKernel'
  BY <1>7 DEF RunFork, ForkShim, Goto, fsVars, lockVars, kernVars
<1>8. ASSUME NEW p \in Cli, StartAttachedAct(p) PROVE TypeKernel'
  BY <1>8 DEF StartAttachedAct, Acting, Refuse, Finish, Goto, Unlock, fsVars,
     kernVars, supVars, lockVars
<1>9. ASSUME NEW p \in Cli, Notified(p) PROVE TypeKernel'
  BY <1>9 DEF Notified, Goto, lockVars, Finish, Unlock, fsVars, kernVars,
     supVars
<1>10. ASSUME NEW p \in Cli, StartReload(p) PROVE TypeKernel'
  BY <1>10 DEF StartReload, Finish, Goto, Unlock, Remember, lockVars, fsVars,
     kernVars, supVars
<1>11. ASSUME NEW p \in Cli, AttachedDone(p) PROVE TypeKernel'
  BY <1>11 DEF AttachedDone, Finish, Goto, Unlock, fsVars, kernVars, supVars
<1>12. ASSUME NEW p \in Cli, KillAct(p) PROVE TypeKernel'
  BY <1>12 DEF KillAct, Refuse, Finish, Goto, Unlock, fsVars, kernVars,
     supVars, ThawFor, KillAll, Alive, Remember, lockVars, SendKill
<1>13. ASSUME NEW p \in Cli, PauseAct(p) PROVE TypeKernel'
  BY <1>13 DEF PauseAct, Acting, Refuse, Finish, Goto, Unlock, fsVars,
     kernVars, supVars, Remember, lockVars
<1>14. ASSUME NEW p \in Cli, UnpauseAct(p) PROVE TypeKernel'
  BY <1>14 DEF UnpauseAct, Acting, Refuse, Finish, Goto, Unlock, fsVars,
     kernVars, supVars, Remember, lockVars
<1>15. ASSUME NEW p \in Cli, StopAct(p) PROVE TypeKernel'
  BY <1>15 DEF StopAct, StopReturns, Goto, Unlock, Finish, ThawFor, Remember,
     Save, lockVars, supVars
<1>16. ASSUME NEW p \in Cli, SigTerm(p) PROVE TypeKernel'
  BY <1>16 DEF SigTerm, Unlock, Goto, fsVars, supVars
<1>17. ASSUME NEW p \in Cli, PollDead(p) PROVE TypeKernel'
  BY <1>17 DEF PollDead, GiveUp, Finish, Goto, Unlock, fsVars, kernVars,
     supVars, LockFor, lockVars
<1>18. ASSUME NEW p \in Cli, PollDeadline(p) PROVE TypeKernel'
  BY <1>18 DEF PollDeadline, LockFor, Goto, fsVars, lockVars, kernVars,
     supVars
<1>19. ASSUME NEW p \in Cli, StopKill(p) PROVE TypeKernel'
  BY <1>19 DEF StopKill, KillAll, Alive, SendKill, Unlock, Goto, fsVars,
     supVars
<1>20. ASSUME NEW p \in Cli, PollKilled(p) PROVE TypeKernel'
  BY <1>20 DEF PollKilled, GiveUp, Finish, Goto, Unlock, fsVars, kernVars,
     supVars, LockFor, lockVars
<1>21. ASSUME NEW p \in Cli, FinalizeAct(p) PROVE TypeKernel'
  BY <1>21 DEF FinalizeAct, GiveUp, Finish, Goto, Unlock, fsVars, kernVars,
     supVars, lockVars
<1>22. ASSUME NEW p \in Cli, FinWaitSeen(p) PROVE TypeKernel'
  BY <1>22 DEF FinWaitSeen, GiveUp, Finish, Goto, Unlock, fsVars, kernVars,
     supVars, Remember, StopReturns
<1>23. ASSUME NEW p \in Cli, FinWaitExpired(p) PROVE TypeKernel'
  BY <1>23 DEF FinWaitExpired, Remember, Goto, fsVars, lockVars, kernVars,
     supVars
<1>24. ASSUME NEW p \in Cli, CliTearKill(p) PROVE TypeKernel'
  BY <1>24 DEF CliTearKill, TearKill, Alive, Goto, fsVars, lockVars, supVars
<1>25. ASSUME NEW p \in Cli, CliTearRelease(p) PROVE TypeKernel'
  BY <1>25 DEF CliTearRelease, TearRelease, Alive, Goto, fsVars, lockVars,
     supVars
<1>26. ASSUME NEW p \in Cli, CliTearSave(p) PROVE TypeKernel'
  BY <1>26 DEF CliTearSave, Remember, Save, Goto, lockVars, Unlock,
     StopReturns, Finish, kernVars, supVars
<1>27. ASSUME NEW p \in Cli, DeleteAct(p) PROVE TypeKernel'
  BY <1>27 DEF DeleteAct, Refuse, Finish, Goto, Unlock, fsVars, kernVars,
     supVars, LockFor
<1>28. ASSUME NEW p \in Cli, DeleteReload(p) PROVE TypeKernel'
  BY <1>28 DEF DeleteReload, GiveUp, Finish, Goto, Unlock, fsVars, kernVars,
     supVars, Remember, LockFor, lockVars
<1>29. ASSUME NEW p \in Cli, Remove(p) PROVE TypeKernel'
  BY <1>29 DEF Remove, RemoveDir, Finish, Goto, Unlock, kernVars, supVars
<1>30. ASSUME NEW p \in Cli, WaitAct(p) PROVE TypeKernel'
  BY <1>30 DEF WaitAct, Acting, Goto, lockVars, Finish, Unlock, fsVars,
     kernVars, supVars
<1>31. ASSUME NEW p \in Cli, WaitTimeout(p) PROVE TypeKernel'
  BY <1>31 DEF WaitTimeout, Acting, Refuse, Finish, Goto, Unlock, fsVars,
     kernVars, supVars
<1>32. ASSUME NEW p \in Cli, GcCollect(p) PROVE TypeKernel'
  BY <1>32 DEF GcCollect, Finish, Goto, Unlock, fsVars, supVars
<1>33. ASSUME NEW p \in Cli, CliKilled(p) PROVE TypeKernel'
  BY <1>33 DEF CliKilled, Goto, lockVars, Unlock, fsVars, kernVars, supVars
<1>34. ASSUME NEW p \in Cli, NEW o \in Ops, Begin(p, o) PROVE TypeKernel'
  BY <1>34 DEF Begin, Remember, Goto, fsVars, lockVars, kernVars, supVars
<1>35. ASSUME NEW s \in Sup, SupLoad(s) PROVE TypeKernel'
  BY <1>35 DEF SupLoad, SupGoto, Notify, SupRemember, fsVars, lockVars,
     kernVars, cliVars
<1>36. ASSUME NEW s \in Sup, LaunchCgroup(s) PROVE TypeKernel'
  BY <1>36 DEF LaunchCgroup, Alive, SupGoto, fsVars, lockVars, cliVars
<1>37. ASSUME NEW s \in Sup, LaunchClone(s) PROVE TypeKernel'
  BY <1>37 DEF LaunchClone, SupRemember, SupGoto, fsVars, lockVars, cliVars
<1>38. ASSUME NEW s \in Sup, LaunchNet(s) PROVE TypeKernel'
  BY <1>38 DEF LaunchNet, SupGoto, fsVars, lockVars, cliVars
<1>39. ASSUME NEW s \in Sup, LaunchRunning(s) PROVE TypeKernel'
  BY <1>39 DEF LaunchRunning, SupRemember, Save, SupGoto, lockVars, kernVars,
     cliVars
<1>40. ASSUME NEW s \in Sup, LaunchFail(s) PROVE TypeKernel'
  BY <1>40 DEF LaunchFail, Alive, SupGoto, fsVars, lockVars, cliVars
<1>41. ASSUME NEW s \in Sup, LaunchFailed(s) PROVE TypeKernel'
  BY <1>41 DEF LaunchFailed, RemoveDir, SupRemember, Save, Notify, SupGoto,
     lockVars, kernVars, cliVars
<1>42. ASSUME NEW s \in Sup, ShimSave(s) PROVE TypeKernel'
  BY <1>42 DEF ShimSave, SupRemember, Save, Notify, SupGoto, lockVars,
     kernVars, cliVars
<1>43. ASSUME NEW s \in Sup, SupReap(s) PROVE TypeKernel'
  BY <1>43 DEF SupReap, SupRemember, SupGoto, fsVars, lockVars, cliVars
<1>44. ASSUME NEW s \in Sup, SupSaveExit(s) PROVE TypeKernel'
  BY <1>44 DEF SupSaveExit, Save, SupGoto, lockVars, kernVars, cliVars
<1>45. ASSUME NEW s \in Sup, SupTearKill(s) PROVE TypeKernel'
  BY <1>45 DEF SupTearKill, TearKill, Alive, SupGoto, fsVars, lockVars,
     cliVars
<1>46. ASSUME NEW s \in Sup, SupTearRelease(s) PROVE TypeKernel'
  BY <1>46 DEF SupTearRelease, TearRelease, Alive, SupGoto, fsVars, lockVars,
     cliVars
<1>47. ASSUME NEW s \in Sup, SupTearSave(s) PROVE TypeKernel'
  BY <1>47 DEF SupTearSave, Save, SupGoto, lockVars, kernVars, cliVars
<1>48. ASSUME NEW s \in Sup, SupRemove(s) PROVE TypeKernel'
  BY <1>48 DEF SupRemove, RemoveDir, SupGoto, lockVars, kernVars, cliVars
<1>49. ASSUME NEW s \in Sup, SupCrash(s) PROVE TypeKernel'
  BY <1>49 DEF SupCrash, SupGoto, Alive, Finish, Goto, Unlock, lockVars,
     fsVars
<1>50. ASSUME NEW s \in Sup, InitExit(s) PROVE TypeKernel'
  BY <1>50 DEF InitExit, fsVars, lockVars, cliVars, supVars
<1>51. ASSUME NEW s \in Sup, InitKilled(s) PROVE TypeKernel'
  BY <1>51 DEF ExitStatus, InitKilled, fsVars, lockVars, cliVars, supVars
<1>52. ASSUME NEW s \in Sup, InitReaped(s) PROVE TypeKernel'
  BY <1>52 DEF InitReaped, fsVars, lockVars, cliVars, supVars
<1>53. CASE UNCHANGED vars
  BY <1>53 DEF vars, fsVars, lockVars, kernVars, cliVars, supVars
<1> QED
  BY <1>1, <1>2, <1>3, <1>4, <1>5, <1>6, <1>7, <1>8, <1>9, <1>10, <1>11,
     <1>12, <1>13, <1>14, <1>15, <1>16, <1>17, <1>18, <1>19, <1>20, <1>21,
     <1>22, <1>23, <1>24, <1>25, <1>26, <1>27, <1>28, <1>29, <1>30, <1>31,
     <1>32, <1>33, <1>34, <1>35, <1>36, <1>37, <1>38, <1>39, <1>40, <1>41,
     <1>42, <1>43, <1>44, <1>45, <1>46, <1>47, <1>48, <1>49, <1>50, <1>51,
     <1>52, <1>53 DEF Next, CliStep, SupStep

(* Of one more inode numbers than there are terminals, one is not open.    *)
LEMMA SpareInode ==
  ASSUME NEW g \in [Cli -> Nat]
  PROVE  \E i \in 1 .. Cardinality(Cli) + 1 : \A q \in Cli : g[q] # i
<1> DEFINE Inodes == 1 .. Cardinality(Cli) + 1
           opener == [i \in Inodes |-> CHOOSE q \in Cli : g[q] = i]
<1>1. IsFiniteSet(Cli) /\ Cardinality(Cli) \in Nat
  BY BoundAssumption, FS_CardinalityType DEF Cli
<1>2. IsFiniteSet(Inodes) /\ Cardinality(Inodes) = Cardinality(Cli) + 1
  BY <1>1, FS_Interval
<1> SUFFICES ASSUME \A i \in Inodes : \E q \in Cli : g[q] = i PROVE FALSE
  OBVIOUS
<1>3. opener \in [Inodes -> Cli] /\ \A i \in Inodes : g[opener[i]] = i
  OBVIOUS
<1> HIDE DEF opener, Inodes
<1>4. \E i, j \in Inodes : i # j /\ opener[i] = opener[j]
  <2>1. Cardinality(Cli) < Cardinality(Inodes)
    BY <1>1, <1>2
  <2> QED
    BY <1>1, <1>2, <1>3, <2>1, FS_PigeonHole
<1> QED
  BY <1>3, <1>4

LEMMA FreshInodeIsFresh ==
  ASSUME TypeLock
  PROVE  FreshInode \in Nat /\ FreshInode # 0 /\ \A q \in Cli : fd[q] # FreshInode
<1> PICK g : g = fd
  OBVIOUS
<1>1. \E i \in 1 .. Cardinality(Cli) + 1 : \A q \in Cli : g[q] # i
  BY SpareInode DEF TypeLock
<1>2. FreshInode \in 1 .. Cardinality(Cli) + 1 /\ \A q \in Cli : fd[q] # FreshInode
  BY <1>1 DEF FreshInode
<1>3. Cardinality(Cli) \in Nat
  BY BoundAssumption, FS_CardinalityType DEF Cli
<1> QED
  BY <1>2, <1>3

LEMMA LockStep ==
  ASSUME TypeLock, [Next]_vars
  PROVE  TypeLock'
<1> USE DEF TypeLock
<1>1. ASSUME NEW p \in Cli, LockOpen(p) PROVE TypeLock'
  BY <1>1, FreshInodeIsFresh DEF LockOpen, Goto, kernVars, supVars
<1>2. ASSUME NEW p \in Cli, LockAcquire(p) PROVE TypeLock'
  BY <1>2 DEF LockAcquire, Goto, fsVars, kernVars, supVars
<1>3. ASSUME NEW p \in Cli, Load(p) PROVE TypeLock'
  BY <1>3 DEF Load, Finish, Goto, Unlock, Remember, lockVars, fsVars,
     kernVars, supVars
<1>4. ASSUME NEW p \in Cli, Reconcile(p) PROVE TypeLock'
  BY <1>4 DEF Reconcile, Remember, Save, Goto, lockVars, kernVars, supVars
<1>5. ASSUME NEW p \in Cli, SaveMem(p) PROVE TypeLock'
  BY <1>5 DEF SaveMem, Save, Finish, Goto, Unlock, kernVars, supVars
<1>6. ASSUME NEW p \in Cli, StartAct(p) PROVE TypeLock'
  BY <1>6 DEF StartAct, Acting, ForkShim, Goto, fsVars, lockVars, kernVars,
     Refuse, Finish, Unlock, supVars
<1>7. ASSUME NEW p \in Cli, RunFork(p) PROVE TypeLock'
  BY <1>7 DEF RunFork, ForkShim, Goto, fsVars, lockVars, kernVars
<1>8. ASSUME NEW p \in Cli, StartAttachedAct(p) PROVE TypeLock'
  BY <1>8 DEF StartAttachedAct, Acting, Refuse, Finish, Goto, Unlock, fsVars,
     kernVars, supVars, lockVars
<1>9. ASSUME NEW p \in Cli, Notified(p) PROVE TypeLock'
  BY <1>9 DEF Notified, Goto, lockVars, Finish, Unlock, fsVars, kernVars,
     supVars
<1>10. ASSUME NEW p \in Cli, StartReload(p) PROVE TypeLock'
  BY <1>10 DEF StartReload, Finish, Goto, Unlock, Remember, lockVars, fsVars,
     kernVars, supVars
<1>11. ASSUME NEW p \in Cli, AttachedDone(p) PROVE TypeLock'
  BY <1>11 DEF AttachedDone, Finish, Goto, Unlock, fsVars, kernVars, supVars
<1>12. ASSUME NEW p \in Cli, KillAct(p) PROVE TypeLock'
  BY <1>12 DEF KillAct, Refuse, Finish, Goto, Unlock, fsVars, kernVars,
     supVars, ThawFor, KillAll, Remember, lockVars, SendKill
<1>13. ASSUME NEW p \in Cli, PauseAct(p) PROVE TypeLock'
  BY <1>13 DEF PauseAct, Acting, Refuse, Finish, Goto, Unlock, fsVars,
     kernVars, supVars, Remember, lockVars
<1>14. ASSUME NEW p \in Cli, UnpauseAct(p) PROVE TypeLock'
  BY <1>14 DEF UnpauseAct, Acting, Refuse, Finish, Goto, Unlock, fsVars,
     kernVars, supVars, Remember, lockVars
<1>15. ASSUME NEW p \in Cli, StopAct(p) PROVE TypeLock'
  BY <1>15 DEF StopAct, StopReturns, Goto, Unlock, Finish, ThawFor, Remember,
     Save, lockVars, supVars
<1>16. ASSUME NEW p \in Cli, SigTerm(p) PROVE TypeLock'
  BY <1>16 DEF SigTerm, Unlock, Goto, fsVars, supVars
<1>17. ASSUME NEW p \in Cli, PollDead(p) PROVE TypeLock'
  BY <1>17 DEF PollDead, GiveUp, Finish, Goto, Unlock, fsVars, kernVars,
     supVars, LockFor, lockVars
<1>18. ASSUME NEW p \in Cli, PollDeadline(p) PROVE TypeLock'
  BY <1>18 DEF PollDeadline, LockFor, Goto, fsVars, lockVars, kernVars,
     supVars
<1>19. ASSUME NEW p \in Cli, StopKill(p) PROVE TypeLock'
  BY <1>19 DEF StopKill, KillAll, SendKill, Unlock, Goto, fsVars, supVars
<1>20. ASSUME NEW p \in Cli, PollKilled(p) PROVE TypeLock'
  BY <1>20 DEF PollKilled, GiveUp, Finish, Goto, Unlock, fsVars, kernVars,
     supVars, LockFor, lockVars
<1>21. ASSUME NEW p \in Cli, FinalizeAct(p) PROVE TypeLock'
  BY <1>21 DEF FinalizeAct, GiveUp, Finish, Goto, Unlock, fsVars, kernVars,
     supVars, lockVars
<1>22. ASSUME NEW p \in Cli, FinWaitSeen(p) PROVE TypeLock'
  BY <1>22 DEF FinWaitSeen, GiveUp, Finish, Goto, Unlock, fsVars, kernVars,
     supVars, Remember, StopReturns
<1>23. ASSUME NEW p \in Cli, FinWaitExpired(p) PROVE TypeLock'
  BY <1>23 DEF FinWaitExpired, Remember, Goto, fsVars, lockVars, kernVars,
     supVars
<1>24. ASSUME NEW p \in Cli, CliTearKill(p) PROVE TypeLock'
  BY <1>24 DEF CliTearKill, TearKill, Goto, fsVars, lockVars, supVars
<1>25. ASSUME NEW p \in Cli, CliTearRelease(p) PROVE TypeLock'
  BY <1>25 DEF CliTearRelease, TearRelease, Goto, fsVars, lockVars, supVars
<1>26. ASSUME NEW p \in Cli, CliTearSave(p) PROVE TypeLock'
  BY <1>26 DEF CliTearSave, Remember, Save, Goto, lockVars, Unlock,
     StopReturns, Finish, kernVars, supVars
<1>27. ASSUME NEW p \in Cli, DeleteAct(p) PROVE TypeLock'
  BY <1>27 DEF DeleteAct, Refuse, Finish, Goto, Unlock, fsVars, kernVars,
     supVars, LockFor
<1>28. ASSUME NEW p \in Cli, DeleteReload(p) PROVE TypeLock'
  BY <1>28 DEF DeleteReload, GiveUp, Finish, Goto, Unlock, fsVars, kernVars,
     supVars, Remember, LockFor, lockVars
<1>29. ASSUME NEW p \in Cli, Remove(p) PROVE TypeLock'
  BY <1>29 DEF Remove, RemoveDir, Finish, Goto, Unlock, kernVars, supVars
<1>30. ASSUME NEW p \in Cli, WaitAct(p) PROVE TypeLock'
  BY <1>30 DEF WaitAct, Acting, Goto, lockVars, Finish, Unlock, fsVars,
     kernVars, supVars
<1>31. ASSUME NEW p \in Cli, WaitTimeout(p) PROVE TypeLock'
  BY <1>31 DEF WaitTimeout, Acting, Refuse, Finish, Goto, Unlock, fsVars,
     kernVars, supVars
<1>32. ASSUME NEW p \in Cli, GcCollect(p) PROVE TypeLock'
  BY <1>32 DEF GcCollect, Finish, Goto, Unlock, fsVars, supVars
<1>33. ASSUME NEW p \in Cli, CliKilled(p) PROVE TypeLock'
  BY <1>33 DEF CliKilled, Goto, lockVars, Unlock, fsVars, kernVars, supVars
<1>34. ASSUME NEW p \in Cli, NEW o \in Ops, Begin(p, o) PROVE TypeLock'
  BY <1>34 DEF Begin, Remember, Goto, fsVars, lockVars, kernVars, supVars
<1>35. ASSUME NEW s \in Sup, SupLoad(s) PROVE TypeLock'
  BY <1>35 DEF SupLoad, SupGoto, Notify, SupRemember, fsVars, lockVars,
     kernVars, cliVars
<1>36. ASSUME NEW s \in Sup, LaunchCgroup(s) PROVE TypeLock'
  BY <1>36 DEF LaunchCgroup, SupGoto, fsVars, lockVars, cliVars
<1>37. ASSUME NEW s \in Sup, LaunchClone(s) PROVE TypeLock'
  BY <1>37 DEF LaunchClone, SupRemember, SupGoto, fsVars, lockVars, cliVars
<1>38. ASSUME NEW s \in Sup, LaunchNet(s) PROVE TypeLock'
  BY <1>38 DEF LaunchNet, SupGoto, fsVars, lockVars, cliVars
<1>39. ASSUME NEW s \in Sup, LaunchRunning(s) PROVE TypeLock'
  BY <1>39 DEF LaunchRunning, SupRemember, Save, SupGoto, lockVars, kernVars,
     cliVars
<1>40. ASSUME NEW s \in Sup, LaunchFail(s) PROVE TypeLock'
  BY <1>40 DEF LaunchFail, SupGoto, fsVars, lockVars, cliVars
<1>41. ASSUME NEW s \in Sup, LaunchFailed(s) PROVE TypeLock'
  BY <1>41 DEF LaunchFailed, RemoveDir, SupRemember, Save, Notify, SupGoto,
     lockVars, kernVars, cliVars
<1>42. ASSUME NEW s \in Sup, ShimSave(s) PROVE TypeLock'
  BY <1>42 DEF ShimSave, SupRemember, Save, Notify, SupGoto, lockVars,
     kernVars, cliVars
<1>43. ASSUME NEW s \in Sup, SupReap(s) PROVE TypeLock'
  BY <1>43 DEF SupReap, SupRemember, SupGoto, fsVars, lockVars, cliVars
<1>44. ASSUME NEW s \in Sup, SupSaveExit(s) PROVE TypeLock'
  BY <1>44 DEF SupSaveExit, Save, SupGoto, lockVars, kernVars, cliVars
<1>45. ASSUME NEW s \in Sup, SupTearKill(s) PROVE TypeLock'
  BY <1>45 DEF SupTearKill, TearKill, SupGoto, fsVars, lockVars, cliVars
<1>46. ASSUME NEW s \in Sup, SupTearRelease(s) PROVE TypeLock'
  BY <1>46 DEF SupTearRelease, TearRelease, SupGoto, fsVars, lockVars,
     cliVars
<1>47. ASSUME NEW s \in Sup, SupTearSave(s) PROVE TypeLock'
  BY <1>47 DEF SupTearSave, Save, SupGoto, lockVars, kernVars, cliVars
<1>48. ASSUME NEW s \in Sup, SupRemove(s) PROVE TypeLock'
  BY <1>48 DEF SupRemove, RemoveDir, SupGoto, lockVars, kernVars, cliVars
<1>49. ASSUME NEW s \in Sup, SupCrash(s) PROVE TypeLock'
  BY <1>49 DEF SupCrash, SupGoto, Finish, Goto, Unlock, lockVars, fsVars
<1>50. ASSUME NEW s \in Sup, InitExit(s) PROVE TypeLock'
  BY <1>50 DEF InitExit, fsVars, lockVars, cliVars, supVars
<1>51. ASSUME NEW s \in Sup, InitKilled(s) PROVE TypeLock'
  BY <1>51 DEF InitKilled, fsVars, lockVars, cliVars, supVars
<1>52. ASSUME NEW s \in Sup, InitReaped(s) PROVE TypeLock'
  BY <1>52 DEF InitReaped, fsVars, lockVars, cliVars, supVars
<1>53. CASE UNCHANGED vars
  BY <1>53 DEF vars, fsVars, lockVars, kernVars, cliVars, supVars
<1> QED
  BY <1>1, <1>2, <1>3, <1>4, <1>5, <1>6, <1>7, <1>8, <1>9, <1>10, <1>11,
     <1>12, <1>13, <1>14, <1>15, <1>16, <1>17, <1>18, <1>19, <1>20, <1>21,
     <1>22, <1>23, <1>24, <1>25, <1>26, <1>27, <1>28, <1>29, <1>30, <1>31,
     <1>32, <1>33, <1>34, <1>35, <1>36, <1>37, <1>38, <1>39, <1>40, <1>41,
     <1>42, <1>43, <1>44, <1>45, <1>46, <1>47, <1>48, <1>49, <1>50, <1>51,
     <1>52, <1>53 DEF Next, CliStep, SupStep

LEMMA RecordsStep ==
  ASSUME TypeControl, TypeKernel, TypeRecords, Known, [Next]_vars
  PROVE  TypeRecords' /\ Known'
<1> USE DEF TypeControl, TypeKernel, TypeRecords, Known, Cli, Using, SupUsing
<1>1. ASSUME NEW p \in Cli, LockOpen(p) PROVE TypeRecords' /\ Known'
  BY <1>1, NoneAssumption DEF LockOpen, Goto, kernVars, supVars
<1>2. ASSUME NEW p \in Cli, LockAcquire(p) PROVE TypeRecords' /\ Known'
  BY <1>2, NoneAssumption DEF LockAcquire, Goto, fsVars, kernVars, supVars
<1>3. ASSUME NEW p \in Cli, Load(p) PROVE TypeRecords' /\ Known'
  BY <1>3, NoneAssumption DEF Load, Finish, Goto, Unlock, Remember, lockVars,
     fsVars, kernVars, supVars
<1>4. ASSUME NEW p \in Cli, Reconcile(p) PROVE TypeRecords' /\ Known'
  <2>1. mem[p] \in State
    BY <1>4, NoneAssumption DEF Reconcile, TypeRecords, Known, Using, SupUsing, SupPc
  <2>2. mark_stopped(mem[p]) \in State
    BY <2>1, StoppingKeeps
  <2> QED
    BY <1>4, <2>1, <2>2, NoneAssumption DEF Reconcile, Remember, Save, Goto,
       lockVars, kernVars, supVars
<1>5. ASSUME NEW p \in Cli, SaveMem(p) PROVE TypeRecords' /\ Known'
  BY <1>5, NoneAssumption DEF SaveMem, Save, Finish, Goto, Unlock, kernVars,
     supVars
<1>6. ASSUME NEW p \in Cli, StartAct(p) PROVE TypeRecords' /\ Known'
  BY <1>6, NoneAssumption DEF StartAct, Acting, ForkShim, Goto, fsVars,
     lockVars, kernVars, Refuse, Finish, Unlock, supVars
<1>7. ASSUME NEW p \in Cli, RunFork(p) PROVE TypeRecords' /\ Known'
  BY <1>7, NoneAssumption DEF RunFork, ForkShim, Goto, fsVars, lockVars,
     kernVars
<1>8. ASSUME NEW p \in Cli, StartAttachedAct(p) PROVE TypeRecords' /\ Known'
  BY <1>8, NoneAssumption DEF StartAttachedAct, Acting, Refuse, Finish, Goto,
     Unlock, fsVars, kernVars, supVars, lockVars
<1>9. ASSUME NEW p \in Cli, Notified(p) PROVE TypeRecords' /\ Known'
  BY <1>9, NoneAssumption DEF Notified, Goto, lockVars, Finish, Unlock,
     fsVars, kernVars, supVars
<1>10. ASSUME NEW p \in Cli, StartReload(p) PROVE TypeRecords' /\ Known'
  <2>1. file # None => [file EXCEPT !.shim = p] \in State
    BY FieldsKeep DEF TypeRecords, Cli
  <2> QED
    BY <1>10, <2>1, NoneAssumption DEF StartReload, Finish, Goto, Unlock,
       Remember, lockVars, fsVars, kernVars, supVars
<1>11. ASSUME NEW p \in Cli, AttachedDone(p) PROVE TypeRecords' /\ Known'
  BY <1>11, NoneAssumption DEF AttachedDone, Finish, Goto, Unlock, fsVars,
     kernVars, supVars
<1>12. ASSUME NEW p \in Cli, KillAct(p) PROVE TypeRecords' /\ Known'
  <2>1. mem[p] \in State
    BY <1>12, NoneAssumption DEF KillAct, TypeRecords, Known, Using, SupUsing, SupPc
  <2>2. Thawed(mem[p]) \in State
    BY <2>1, ThawedKeeps
  <2> QED
    BY <1>12, <2>1, <2>2, NoneAssumption DEF KillAct, Refuse, Finish, Goto,
       Unlock, fsVars, kernVars, supVars, ThawFor, KillAll, Remember,
       lockVars, SendKill
<1>13. ASSUME NEW p \in Cli, PauseAct(p) PROVE TypeRecords' /\ Known'
  <2>1. mem[p] \in State
    BY <1>13, NoneAssumption DEF PauseAct, TypeRecords, Known, Using, SupUsing, SupPc, Acting
  <2>2. transition(mem[p], "Paused") \in State
    BY <2>1, TransitionKeeps DEF Status
  <2> QED
    BY <1>13, <2>1, <2>2, NoneAssumption DEF PauseAct, Acting, Refuse, Finish,
       Goto, Unlock, fsVars, kernVars, supVars, Remember, lockVars
<1>14. ASSUME NEW p \in Cli, UnpauseAct(p) PROVE TypeRecords' /\ Known'
  <2>1. mem[p] \in State
    BY <1>14, NoneAssumption DEF UnpauseAct, TypeRecords, Known, Using, SupUsing, SupPc, Acting
  <2>2. transition(mem[p], "Running") \in State
    BY <2>1, TransitionKeeps DEF Status
  <2> QED
    BY <1>14, <2>1, <2>2, NoneAssumption DEF UnpauseAct, Acting, Refuse, Finish,
       Goto, Unlock, fsVars, kernVars, supVars, Remember, lockVars
<1>15. ASSUME NEW p \in Cli, StopAct(p) PROVE TypeRecords' /\ Known'
  <2>1. mem[p] \in State
    BY <1>15, NoneAssumption DEF StopAct, TypeRecords, Known, Using, SupUsing, SupPc
  <2>2. transition(Thawed(mem[p]), "Stopping") \in State
    BY <2>1, ThawedKeeps, TransitionKeeps DEF Status
  <2> QED
    BY <1>15, <2>1, <2>2, NoneAssumption DEF StopAct, StopReturns, Goto, Unlock,
       Finish, ThawFor, Remember, Save, lockVars, supVars
<1>16. ASSUME NEW p \in Cli, SigTerm(p) PROVE TypeRecords' /\ Known'
  BY <1>16, NoneAssumption DEF SigTerm, Unlock, Goto, fsVars, supVars
<1>17. ASSUME NEW p \in Cli, PollDead(p) PROVE TypeRecords' /\ Known'
  BY <1>17, NoneAssumption DEF PollDead, GiveUp, Finish, Goto, Unlock,
     fsVars, kernVars, supVars, LockFor, lockVars
<1>18. ASSUME NEW p \in Cli, PollDeadline(p) PROVE TypeRecords' /\ Known'
  BY <1>18, NoneAssumption DEF PollDeadline, LockFor, Goto, fsVars, lockVars,
     kernVars, supVars
<1>19. ASSUME NEW p \in Cli, StopKill(p) PROVE TypeRecords' /\ Known'
  BY <1>19, NoneAssumption DEF StopKill, KillAll, SendKill, Unlock, Goto,
     fsVars, supVars
<1>20. ASSUME NEW p \in Cli, PollKilled(p) PROVE TypeRecords' /\ Known'
  BY <1>20, NoneAssumption DEF PollKilled, GiveUp, Finish, Goto, Unlock,
     fsVars, kernVars, supVars, LockFor, lockVars
<1>21. ASSUME NEW p \in Cli, FinalizeAct(p) PROVE TypeRecords' /\ Known'
  BY <1>21, NoneAssumption DEF FinalizeAct, GiveUp, Finish, Goto, Unlock,
     fsVars, kernVars, supVars, lockVars
<1>22. ASSUME NEW p \in Cli, FinWaitSeen(p) PROVE TypeRecords' /\ Known'
  BY <1>22, NoneAssumption DEF FinWaitSeen, GiveUp, Finish, Goto, Unlock,
     fsVars, kernVars, supVars, Remember, StopReturns
<1>23. ASSUME NEW p \in Cli, FinWaitExpired(p) PROVE TypeRecords' /\ Known'
  BY <1>23, NoneAssumption DEF FinWaitExpired, Remember, Goto, fsVars,
     lockVars, kernVars, supVars
<1>24. ASSUME NEW p \in Cli, CliTearKill(p) PROVE TypeRecords' /\ Known'
  BY <1>24, NoneAssumption DEF CliTearKill, TearKill, Goto, fsVars, lockVars,
     supVars
<1>25. ASSUME NEW p \in Cli, CliTearRelease(p) PROVE TypeRecords' /\ Known'
  BY <1>25, NoneAssumption DEF CliTearRelease, TearRelease, Goto, fsVars,
     lockVars, supVars
<1>26. ASSUME NEW p \in Cli, CliTearSave(p) PROVE TypeRecords' /\ Known'
  <2>1. mem[p] \in State
    BY <1>26, NoneAssumption DEF CliTearSave, TypeRecords, Known, Using, SupUsing, SupPc
  <2>2. Torn(mem[p]) \in State
    BY <2>1, TornKeeps
  <2> QED
    BY <1>26, <2>1, <2>2, NoneAssumption DEF CliTearSave, Remember, Save, Goto,
       lockVars, Unlock, StopReturns, Finish, kernVars, supVars
<1>27. ASSUME NEW p \in Cli, DeleteAct(p) PROVE TypeRecords' /\ Known'
  BY <1>27, NoneAssumption DEF DeleteAct, Refuse, Finish, Goto, Unlock,
     fsVars, kernVars, supVars, LockFor
<1>28. ASSUME NEW p \in Cli, DeleteReload(p) PROVE TypeRecords' /\ Known'
  BY <1>28, NoneAssumption DEF DeleteReload, GiveUp, Finish, Goto, Unlock,
     fsVars, kernVars, supVars, Remember, LockFor, lockVars
<1>29. ASSUME NEW p \in Cli, Remove(p) PROVE TypeRecords' /\ Known'
  BY <1>29, NoneAssumption DEF Remove, RemoveDir, Finish, Goto, Unlock,
     kernVars, supVars
<1>30. ASSUME NEW p \in Cli, WaitAct(p) PROVE TypeRecords' /\ Known'
  BY <1>30, NoneAssumption DEF WaitAct, Acting, Goto, lockVars, Finish,
     Unlock, fsVars, kernVars, supVars
<1>31. ASSUME NEW p \in Cli, WaitTimeout(p) PROVE TypeRecords' /\ Known'
  BY <1>31, NoneAssumption DEF WaitTimeout, Acting, Refuse, Finish, Goto,
     Unlock, fsVars, kernVars, supVars
<1>32. ASSUME NEW p \in Cli, GcCollect(p) PROVE TypeRecords' /\ Known'
  BY <1>32, NoneAssumption DEF GcCollect, Finish, Goto, Unlock, fsVars,
     supVars
<1>33. ASSUME NEW p \in Cli, CliKilled(p) PROVE TypeRecords' /\ Known'
  BY <1>33, NoneAssumption DEF CliKilled, Goto, lockVars, Unlock, fsVars,
     kernVars, supVars
<1>34. ASSUME NEW p \in Cli, NEW o \in Ops, Begin(p, o) PROVE TypeRecords' /\ Known'
  BY <1>34, NoneAssumption DEF Begin, Remember, Goto, fsVars, lockVars,
     kernVars, supVars
<1>35. ASSUME NEW s \in Sup, SupLoad(s) PROVE TypeRecords' /\ Known'
  BY <1>35, NoneAssumption DEF SupLoad, SupGoto, Notify, SupRemember, fsVars,
     lockVars, kernVars, cliVars
<1>36. ASSUME NEW s \in Sup, LaunchCgroup(s) PROVE TypeRecords' /\ Known'
  BY <1>36, NoneAssumption DEF LaunchCgroup, SupGoto, fsVars, lockVars,
     cliVars
<1>37. ASSUME NEW s \in Sup, LaunchClone(s) PROVE TypeRecords' /\ Known'
  <2>1. smem[s] \in State
    BY <1>37, NoneAssumption DEF LaunchClone, TypeRecords, Known, Using, SupUsing, SupPc
  <2>2. [smem[s] EXCEPT !.pid = s] \in State
    BY <2>1, FieldsKeep
  <2> QED
    BY <1>37, <2>1, <2>2, NoneAssumption DEF LaunchClone, SupRemember, SupGoto,
       fsVars, lockVars, cliVars
<1>38. ASSUME NEW s \in Sup, LaunchNet(s) PROVE TypeRecords' /\ Known'
  BY <1>38, NoneAssumption DEF LaunchNet, SupGoto, fsVars, lockVars, cliVars
<1>39. ASSUME NEW s \in Sup, LaunchRunning(s) PROVE TypeRecords' /\ Known'
  <2>1. smem[s] \in State
    BY <1>39, NoneAssumption DEF LaunchRunning, TypeRecords, Known, Using, SupUsing, SupPc
  <2>2. transition(smem[s], "Running") \in State
    BY <2>1, TransitionKeeps DEF Status
  <2> QED
    BY <1>39, <2>1, <2>2, NoneAssumption DEF LaunchRunning, SupRemember, Save,
       SupGoto, lockVars, kernVars, cliVars
<1>40. ASSUME NEW s \in Sup, LaunchFail(s) PROVE TypeRecords' /\ Known'
  BY <1>40, NoneAssumption DEF LaunchFail, SupGoto, fsVars, lockVars, cliVars
<1>41. ASSUME NEW s \in Sup, LaunchFailed(s) PROVE TypeRecords' /\ Known'
  <2>1. smem[s] \in State
    BY <1>41, NoneAssumption DEF LaunchFailed, TypeRecords, Known, Using, SupUsing, SupPc
  <2>2. mark_stopped(smem[s]) \in State
    BY <2>1, StoppingKeeps
  <2> QED
    BY <1>41, <2>1, <2>2, NoneAssumption DEF LaunchFailed, RemoveDir,
       SupRemember, Save, Notify, SupGoto, lockVars, kernVars, cliVars
<1>42. ASSUME NEW s \in Sup, ShimSave(s) PROVE TypeRecords' /\ Known'
  <2>1. smem[s] \in State
    BY <1>42, NoneAssumption DEF ShimSave, TypeRecords, Known, Using, SupUsing, SupPc
  <2>2. [smem[s] EXCEPT !.shim = s] \in State
    BY <2>1, FieldsKeep
  <2> QED
    BY <1>42, <2>1, <2>2, NoneAssumption DEF ShimSave, SupRemember, Save, Notify,
       SupGoto, lockVars, kernVars, cliVars
<1>43. ASSUME NEW s \in Sup, SupReap(s) PROVE TypeRecords' /\ Known'
  <2>1. smem[s] \in State /\ initExit[s] \in ExitStatus \cup {None}
    BY <1>43 DEF SupReap, TypeRecords, TypeKernel, Known, SupUsing, SupPc
  <2>2. record_exit(smem[s], initExit[s]) \in State
    BY <2>1, RecordExitKeeps
  <2>3. transition(record_exit(smem[s], initExit[s]), "Stopped") \in State
    BY <2>2, TransitionKeeps DEF Status
  <2> QED
    BY <1>43, <2>1, <2>3, NoneAssumption DEF SupReap, SupRemember, SupGoto,
       fsVars, lockVars, cliVars
<1>44. ASSUME NEW s \in Sup, SupSaveExit(s) PROVE TypeRecords' /\ Known'
  BY <1>44, NoneAssumption DEF SupSaveExit, Save, SupGoto, lockVars,
     kernVars, cliVars
<1>45. ASSUME NEW s \in Sup, SupTearKill(s) PROVE TypeRecords' /\ Known'
  BY <1>45, NoneAssumption DEF SupTearKill, TearKill, SupGoto, fsVars,
     lockVars, cliVars
<1>46. ASSUME NEW s \in Sup, SupTearRelease(s) PROVE TypeRecords' /\ Known'
  BY <1>46, NoneAssumption DEF SupTearRelease, TearRelease, SupGoto, fsVars,
     lockVars, cliVars
<1>47. ASSUME NEW s \in Sup, SupTearSave(s) PROVE TypeRecords' /\ Known'
  BY <1>47, NoneAssumption DEF SupTearSave, Save, SupGoto, lockVars,
     kernVars, cliVars
<1>48. ASSUME NEW s \in Sup, SupRemove(s) PROVE TypeRecords' /\ Known'
  BY <1>48, NoneAssumption DEF SupRemove, RemoveDir, SupGoto, lockVars,
     kernVars, cliVars
<1>49. ASSUME NEW s \in Sup, SupCrash(s) PROVE TypeRecords' /\ Known'
  BY <1>49, NoneAssumption DEF SupCrash, SupGoto, Finish, Goto, Unlock,
     lockVars, fsVars
<1>50. ASSUME NEW s \in Sup, InitExit(s) PROVE TypeRecords' /\ Known'
  BY <1>50, NoneAssumption DEF InitExit, fsVars, lockVars, cliVars, supVars
<1>51. ASSUME NEW s \in Sup, InitKilled(s) PROVE TypeRecords' /\ Known'
  BY <1>51, NoneAssumption DEF InitKilled, fsVars, lockVars, cliVars, supVars
<1>52. ASSUME NEW s \in Sup, InitReaped(s) PROVE TypeRecords' /\ Known'
  BY <1>52, NoneAssumption DEF InitReaped, fsVars, lockVars, cliVars, supVars
<1>53. CASE UNCHANGED vars
  BY <1>53, NoneAssumption DEF vars, fsVars, lockVars, kernVars, cliVars,
     supVars
<1> QED
  BY <1>1, <1>2, <1>3, <1>4, <1>5, <1>6, <1>7, <1>8, <1>9, <1>10, <1>11,
     <1>12, <1>13, <1>14, <1>15, <1>16, <1>17, <1>18, <1>19, <1>20, <1>21,
     <1>22, <1>23, <1>24, <1>25, <1>26, <1>27, <1>28, <1>29, <1>30, <1>31,
     <1>32, <1>33, <1>34, <1>35, <1>36, <1>37, <1>38, <1>39, <1>40, <1>41,
     <1>42, <1>43, <1>44, <1>45, <1>46, <1>47, <1>48, <1>49, <1>50, <1>51,
     <1>52, <1>53 DEF Next, CliStep, SupStep

(* Whatever the commands, their interleaving and the crashes: every        *)
(* variable stays in its domain, and no step uses a record it has not      *)
(* loaded.                                                                 *)
THEOREM TypeCorrect == Spec => []TypeOK
<1> DEFINE TInv == TypeControl /\ TypeKernel /\ TypeLock /\ TypeRecords /\ Known
<1>1. Init => TInv
  <2> SUFFICES ASSUME Init PROVE TInv
    OBVIOUS
  <2>1. 0 \in 0 .. MaxOps
    BY BoundAssumption
  <2>2. TypeControl
    BY <2>1 DEF Init, TypeControl, CliPc, SupPc, Cli
  <2>3. TypeKernel /\ TypeLock
    BY DEF Init, TypeKernel, TypeLock, Cli
  <2>4. TypeRecords
    BY CreatedIsState DEF Init, TypeRecords
  <2>5. Known
    BY DEF Init, Known, Using, SupUsing, Cli
  <2> QED
    BY <2>2, <2>3, <2>4, <2>5
<1>2. TInv /\ [Next]_vars => TInv'
  BY ControlStep, KernelStep, LockStep, RecordsStep
<1>3. TInv => TypeOK
  BY TypeParts
<1> QED
  BY <1>1, <1>2, <1>3, PTL DEF Spec

-----------------------------------------------------------------------------
(* The commands that keep the container.                                   *)

Keeping == {"start", "stop", "term", "kill9", "pause", "unpause", "wait"}

(* Only such commands are issued, none is killed, and the container is not *)
(* one that is removed when it ends.                                       *)
Keeps == Ops \subseteq Keeping /\ ~CliCrash /\ ~AutoRemove

Tearing == {"tearKill", "tearRelease", "tearSave"}

(* Where a command can be; which steps belong to which command.            *)
Shape == \A p \in Cli :
  /\ op[p] \in Keeping \cup {None}
  /\ pc[p] # "idle" => op[p] # None
  /\ pc[p] \notin {"fork", "attached", "delReload", "remove", "collect", "crashed"}
  /\ op[p] = "wait" => pc[p] \in {"idle", "load", "reconcile", "act"}
  /\ op[p] = "stop" <=> site[p] # "main"
  /\ site[p] # "del"
  /\ pc[p] = "save" => op[p] \in {"start", "term", "kill9", "pause", "unpause"}
  /\ pc[p] \in {"notify", "reload"} => op[p] = "start"
  /\ pc[p] \in {"sigterm", "poll", "pollKill", "finWait"} \cup Tearing => op[p] = "stop"
  /\ pc[p] = "reconcile" => site[p] \in {"main", "stop"}
  /\ supPc[p] # "remove"

(* The steps taken with the lock held, by any command but wait.            *)
Section == {"load", "reconcile", "act", "save", "notify", "reload", "sigterm"}

(* Nobody removes the lock file, so all open the same one, and one command *)
(* at a time is past flock.                                                *)
Lock ==
  /\ \A p \in Cli :
     /\ pc[p] \in Section /\ op[p] # "wait" => p \in holders
     /\ p \in holders => pc[p] \in Section \cup Tearing /\ op[p] # "wait"
     /\ p \in holders \/ pc[p] = "flock" => fd[p] = lockFile /\ lockFile # 0
  /\ \A p, q \in holders : p = q

(* No launch has come to an end yet.                                       *)
Fresh == file.status = "Created"

Launched(s) == init[s] # "none" /\ ~DiedLaunching(s)

AllDead == \A s \in Alive : DiedLaunching(s)

(* The stages of a launch before it has saved anything.                    *)
Before == {"load", "launch", "clone", "net", "started", "failed"}

(* What a supervisor knows at each stage.  Until it reports, the start     *)
(* that forked it waits for it, with the lock.                             *)
Progress == \A s \in Sup :
  /\ supPc[s] \in Before \cup {"shimSave"} => pc[s] = "notify" /\ verdict[s] = None
  /\ supPc[s] = "off" => verdict[s] = None
  /\ op[s] = "start" /\ pc[s] \in {"open", "flock", "load", "reconcile", "act"} => supPc[s] = "off"
  /\ supPc[s] \in {"off", "load", "launch", "clone"} => init[s] = "none"
  /\ supPc[s] \in Before \ {"load"} => smem[s].status = "Created"
  /\ supPc[s] \in {"launch", "clone"} => smem[s].pid = None
  /\ supPc[s] \in {"net", "started"} => smem[s].pid = s /\ init[s] # "none"
  /\ supPc[s] = "failed" => \/ smem[s].pid = s /\ init[s] = "gone"
                            \/ smem[s].pid = None /\ init[s] = "none"
  /\ supPc[s] \in {"shimSave", "wait"}
       => smem[s].status = "Running" /\ smem[s].pid = s /\ init[s] # "none"
  /\ supPc[s] \in {"saveExit"} \cup Tearing
       => smem[s].status = "Stopped" /\ smem[s].pid = s /\ init[s] = "gone"

(* state.json says Created exactly until a launch has come to an end; a    *)
(* supervisor killed before leaves nothing behind but a dying init.        *)
Launching == \A s \in Sup :
  /\ supPc[s] \in Before => Fresh
  /\ Fresh => \/ supPc[s] \in Before \cup {"off"}
              \/ supPc[s] = "dead" /\ (init[s] # "none" => DiedLaunching(s))

OneLaunch == \A s, t \in Sup : Launched(s) /\ Launched(t) => s = t

(* A record is right about the container, however old it is.               *)
Sound(st) ==
  /\ st.status # "Creating" /\ (st.status # "Created" => ~Fresh)
  /\ st.status = "Created" => st.pid = None
  /\ is_live(st.status) => st.pid \in Sup /\ Launched(st.pid)
  /\ st.status = "Stopped" => AllDead /\ (st.pid = None \/ (st.pid \in Sup /\ Launched(st.pid)))
  /\ st.status = "Paused" => HasCgroup

InUse(st) == st = file \/ \E p \in Cli : st = mem[p]

Records == file # None /\ \A st \in State : InUse(st) => Sound(st)

(* While the container lives, what the holder of the lock has loaded is    *)
(* the file; those without the lock write only after its end.              *)
Current == \A p \in Cli :
  p \in holders /\ pc[p] \in {"reconcile", "act"}
    => (AllDead \/ mem[p] = file) /\ (mem[p].status = "Created" => Fresh)

(* What is past at each step of a command.                                 *)
Ended == \A p \in Cli :
  /\ pc[p] \in {"sigterm", "poll", "pollKill", "reload", "save"} => ~Fresh
  /\ pc[p] \in {"open", "flock", "load"} /\ site[p] \in {"kill", "fin"} => ~Fresh
  /\ (pc[p] = "act" /\ site[p] \in {"kill", "fin"}) \/ pc[p] \in Tearing \cup {"save"}
       => mem[p].status # "Created"
  /\ pc[p] \in Tearing \cup {"finWait"} => AllDead /\ ~Fresh
  /\ pc[p] = "notify" /\ verdict[p] = "ok" => ~Fresh
  /\ pc[p] = "idle" /\ op[p] \in {"stop", "wait"} /\ out[p] = "ok"
       => mem[p] # None /\ ~is_live(mem[p].status)

(* The launch that has saved Running saves once more, with the same status.*)
Untouched == \A s \in Sup : supPc[s] = "shimSave" => AllDead \/ file.status = "Running"

Sync == Current /\ Ended /\ Untouched

(* The freezer agrees with the record, or a command has changed the one    *)
(* and is about to save the other.                                         *)
Changing == \E p \in Cli : pc[p] = "save" /\ op[p] # "start"

Agree ==
  /\ Changing \/ (frozen <=> file.status = "Paused")
  /\ \A p \in Cli : pc[p] = "save"
       => IF op[p] = "start" THEN mem[p].status = file.status
          ELSE frozen <=> mem[p].status = "Paused"

Freezer ==
  /\ Fresh => ~frozen
  /\ frozen => HasCgroup /\ \E t \in Sup : Launched(t)
  /\ ~AllDead /\ ~Fresh => Agree

(* Inits live in the container's cgroup; a new launch waits for it to be   *)
(* empty.                                                                  *)
Populated ==
  /\ CgroupExists => HasCgroup
  /\ HasCgroup => /\ Alive # {} => CgroupExists
                  /\ \A s \in Sup : supPc[s] = "clone" => Alive = {}
                  /\ (\E s \in Alive : DiedLaunching(s)) => \A t \in Sup : ~Launched(t)

(* The steps that are left when the container is kept.                     *)
KeepingStep ==
  \/ \E p \in Cli :
     \/ LockOpen(p) \/ LockAcquire(p) \/ Load(p) \/ Reconcile(p)
     \/ SaveMem(p) \/ StartAct(p) \/ Notified(p) \/ StartReload(p)
     \/ KillAct(p) \/ PauseAct(p) \/ UnpauseAct(p) \/ StopAct(p)
     \/ SigTerm(p) \/ PollDead(p) \/ PollDeadline(p) \/ StopKill(p)
     \/ PollKilled(p) \/ FinalizeAct(p) \/ FinWaitSeen(p)
     \/ FinWaitExpired(p) \/ CliTearKill(p) \/ CliTearRelease(p)
     \/ CliTearSave(p) \/ WaitAct(p) \/ WaitTimeout(p)
     \/ \E o \in Keeping : Begin(p, o)
  \/ \E s \in Sup :
     \/ SupLoad(s) \/ LaunchCgroup(s) \/ LaunchClone(s) \/ LaunchNet(s)
     \/ LaunchRunning(s) \/ LaunchFail(s) \/ LaunchFailed(s) \/ ShimSave(s)
     \/ SupReap(s) \/ SupSaveExit(s) \/ SupTearKill(s) \/ SupTearRelease(s)
     \/ SupTearSave(s) \/ SupCrash(s) \/ InitExit(s) \/ InitKilled(s)
     \/ InitReaped(s)

LEMMA OnlyKeeping ==
  ASSUME Keeps, Shape, Next
  PROVE  KeepingStep
<1>1. ASSUME NEW p \in Cli,
             RunFork(p) \/ StartAttachedAct(p) \/ AttachedDone(p) \/ DeleteAct(p)
               \/ DeleteReload(p) \/ Remove(p) \/ GcCollect(p) \/ CliKilled(p)
      PROVE  FALSE
  BY <1>1 DEF Keeps, Shape, Keeping, RunFork, StartAttachedAct, AttachedDone, DeleteAct,
     DeleteReload, Remove, GcCollect, CliKilled, Acting
<1>2. ASSUME NEW s \in Sup, SupRemove(s) PROVE FALSE
  BY <1>2 DEF SupRemove, Shape, Cli
<1>3. CASE \E p \in Cli : CliStep(p) \/ CliKilled(p)
  BY <1>1, <1>3 DEF CliStep, KeepingStep
<1>4. CASE \E p \in Cli, o \in Ops : Begin(p, o)
  BY <1>4 DEF Keeps, KeepingStep
<1>5. CASE \E s \in Sup : SupStep(s) \/ SupCrash(s) \/ InitExit(s) \/ InitKilled(s) \/ InitReaped(s)
  BY <1>2, <1>5 DEF SupStep, KeepingStep
<1> QED
  BY <1>3, <1>4, <1>5 DEF Next

LEMMA ShapeStep ==
  ASSUME Keeps, TypeControl, Shape, KeepingStep \/ UNCHANGED vars
  PROVE  Shape'
<1> USE DEF Shape, TypeControl, Keeping, Tearing, Cli
<1>1. ASSUME NEW p \in Cli, LockOpen(p) PROVE Shape'
  BY <1>1, BoundAssumption DEF LockOpen, Goto, kernVars, supVars, AllOps
<1>2. ASSUME NEW p \in Cli, LockAcquire(p) PROVE Shape'
  BY <1>2, BoundAssumption DEF LockAcquire, Goto, fsVars, kernVars, supVars,
     AllOps
<1>3. ASSUME NEW p \in Cli, Load(p) PROVE Shape'
  BY <1>3, BoundAssumption DEF Load, Finish, Goto, Unlock, Remember,
     lockVars, fsVars, kernVars, supVars, AllOps
<1>4. ASSUME NEW p \in Cli, Reconcile(p) PROVE Shape'
  BY <1>4, BoundAssumption DEF Reconcile, Remember, Save, Goto, lockVars,
     kernVars, supVars, AllOps
<1>5. ASSUME NEW p \in Cli, SaveMem(p) PROVE Shape'
  BY <1>5, BoundAssumption DEF SaveMem, Save, Finish, Goto, Unlock, kernVars,
     supVars, AllOps
<1>6. ASSUME NEW p \in Cli, StartAct(p) PROVE Shape'
  BY <1>6, BoundAssumption DEF StartAct, Acting, ForkShim, Goto, fsVars,
     lockVars, kernVars, Refuse, Finish, Unlock, supVars, AllOps
<1>7. ASSUME NEW p \in Cli, Notified(p) PROVE Shape'
  BY <1>7, BoundAssumption DEF Notified, Goto, lockVars, Finish, Unlock,
     fsVars, kernVars, supVars, AllOps
<1>8. ASSUME NEW p \in Cli, StartReload(p) PROVE Shape'
  BY <1>8, BoundAssumption DEF StartReload, Finish, Goto, Unlock, Remember,
     lockVars, fsVars, kernVars, supVars, AllOps
<1>9. ASSUME NEW p \in Cli, KillAct(p) PROVE Shape'
  BY <1>9, BoundAssumption DEF KillAct, Refuse, Finish, Goto, Unlock, fsVars,
     kernVars, supVars, ThawFor, KillAll, Remember, lockVars, SendKill,
     AllOps
<1>10. ASSUME NEW p \in Cli, PauseAct(p) PROVE Shape'
  BY <1>10, BoundAssumption DEF PauseAct, Acting, Refuse, Finish, Goto,
     Unlock, fsVars, kernVars, supVars, Remember, lockVars, AllOps
<1>11. ASSUME NEW p \in Cli, UnpauseAct(p) PROVE Shape'
  BY <1>11, BoundAssumption DEF UnpauseAct, Acting, Refuse, Finish, Goto,
     Unlock, fsVars, kernVars, supVars, Remember, lockVars, AllOps
<1>12. ASSUME NEW p \in Cli, StopAct(p) PROVE Shape'
  BY <1>12, BoundAssumption DEF StopAct, StopReturns, Goto, Unlock, Finish,
     ThawFor, Remember, Save, lockVars, supVars, AllOps
<1>13. ASSUME NEW p \in Cli, SigTerm(p) PROVE Shape'
  BY <1>13, BoundAssumption DEF SigTerm, Unlock, Goto, fsVars, supVars,
     AllOps
<1>14. ASSUME NEW p \in Cli, PollDead(p) PROVE Shape'
  BY <1>14, BoundAssumption DEF PollDead, GiveUp, Finish, Goto, Unlock,
     fsVars, kernVars, supVars, LockFor, lockVars, AllOps
<1>15. ASSUME NEW p \in Cli, PollDeadline(p) PROVE Shape'
  BY <1>15, BoundAssumption DEF PollDeadline, LockFor, Goto, fsVars,
     lockVars, kernVars, supVars, AllOps
<1>16. ASSUME NEW p \in Cli, StopKill(p) PROVE Shape'
  BY <1>16, BoundAssumption DEF StopKill, KillAll, SendKill, Unlock, Goto,
     fsVars, supVars, AllOps
<1>17. ASSUME NEW p \in Cli, PollKilled(p) PROVE Shape'
  BY <1>17, BoundAssumption DEF PollKilled, GiveUp, Finish, Goto, Unlock,
     fsVars, kernVars, supVars, LockFor, lockVars, AllOps
<1>18. ASSUME NEW p \in Cli, FinalizeAct(p) PROVE Shape'
  BY <1>18, BoundAssumption DEF FinalizeAct, GiveUp, Finish, Goto, Unlock,
     fsVars, kernVars, supVars, lockVars, AllOps
<1>19. ASSUME NEW p \in Cli, FinWaitSeen(p) PROVE Shape'
  BY <1>19, BoundAssumption DEF FinWaitSeen, GiveUp, Finish, Goto, Unlock,
     fsVars, kernVars, supVars, Remember, StopReturns, AllOps
<1>20. ASSUME NEW p \in Cli, FinWaitExpired(p) PROVE Shape'
  BY <1>20, BoundAssumption DEF FinWaitExpired, Remember, Goto, fsVars,
     lockVars, kernVars, supVars, AllOps
<1>21. ASSUME NEW p \in Cli, CliTearKill(p) PROVE Shape'
  BY <1>21, BoundAssumption DEF CliTearKill, TearKill, Goto, fsVars,
     lockVars, supVars, AllOps
<1>22. ASSUME NEW p \in Cli, CliTearRelease(p) PROVE Shape'
  BY <1>22, BoundAssumption DEF CliTearRelease, TearRelease, Goto, fsVars,
     lockVars, supVars, AllOps
<1>23. ASSUME NEW p \in Cli, CliTearSave(p) PROVE Shape'
  BY <1>23, BoundAssumption DEF CliTearSave, Remember, Save, Goto, lockVars,
     Unlock, StopReturns, Finish, kernVars, supVars, AllOps
<1>24. ASSUME NEW p \in Cli, WaitAct(p) PROVE Shape'
  BY <1>24, BoundAssumption DEF WaitAct, Acting, Goto, lockVars, Finish,
     Unlock, fsVars, kernVars, supVars, AllOps
<1>25. ASSUME NEW p \in Cli, WaitTimeout(p) PROVE Shape'
  BY <1>25, BoundAssumption DEF WaitTimeout, Acting, Refuse, Finish, Goto,
     Unlock, fsVars, kernVars, supVars, AllOps
<1>26. ASSUME NEW p \in Cli, NEW o \in Keeping, Begin(p, o) PROVE Shape'
  BY <1>26, BoundAssumption DEF Begin, Remember, Goto, fsVars, lockVars,
     kernVars, supVars, AllOps
<1>27. ASSUME NEW s \in Sup, SupLoad(s) PROVE Shape'
  BY <1>27, BoundAssumption DEF SupLoad, SupGoto, Notify, SupRemember,
     fsVars, lockVars, kernVars, cliVars, AllOps
<1>28. ASSUME NEW s \in Sup, LaunchCgroup(s) PROVE Shape'
  BY <1>28, BoundAssumption DEF LaunchCgroup, SupGoto, fsVars, lockVars,
     cliVars, AllOps
<1>29. ASSUME NEW s \in Sup, LaunchClone(s) PROVE Shape'
  BY <1>29, BoundAssumption DEF LaunchClone, SupRemember, SupGoto, fsVars,
     lockVars, cliVars, AllOps
<1>30. ASSUME NEW s \in Sup, LaunchNet(s) PROVE Shape'
  BY <1>30, BoundAssumption DEF LaunchNet, SupGoto, fsVars, lockVars,
     cliVars, AllOps
<1>31. ASSUME NEW s \in Sup, LaunchRunning(s) PROVE Shape'
  BY <1>31, BoundAssumption DEF LaunchRunning, SupRemember, Save, SupGoto,
     lockVars, kernVars, cliVars, AllOps
<1>32. ASSUME NEW s \in Sup, LaunchFail(s) PROVE Shape'
  BY <1>32, BoundAssumption DEF LaunchFail, SupGoto, fsVars, lockVars,
     cliVars, AllOps
<1>33. ASSUME NEW s \in Sup, LaunchFailed(s) PROVE Shape'
  BY <1>33, BoundAssumption DEF LaunchFailed, RemoveDir, SupRemember, Save,
     Notify, SupGoto, lockVars, kernVars, cliVars, AllOps
<1>34. ASSUME NEW s \in Sup, ShimSave(s) PROVE Shape'
  BY <1>34, BoundAssumption DEF ShimSave, SupRemember, Save, Notify, SupGoto,
     lockVars, kernVars, cliVars, AllOps
<1>35. ASSUME NEW s \in Sup, SupReap(s) PROVE Shape'
  BY <1>35, BoundAssumption DEF SupReap, SupRemember, SupGoto, fsVars,
     lockVars, cliVars, AllOps
<1>36. ASSUME NEW s \in Sup, SupSaveExit(s) PROVE Shape'
  BY <1>36, BoundAssumption DEF SupSaveExit, Save, SupGoto, lockVars,
     kernVars, cliVars, AllOps
<1>37. ASSUME NEW s \in Sup, SupTearKill(s) PROVE Shape'
  BY <1>37, BoundAssumption DEF SupTearKill, TearKill, SupGoto, fsVars,
     lockVars, cliVars, AllOps
<1>38. ASSUME NEW s \in Sup, SupTearRelease(s) PROVE Shape'
  BY <1>38, BoundAssumption DEF SupTearRelease, TearRelease, SupGoto, fsVars,
     lockVars, cliVars, AllOps
<1>39. ASSUME NEW s \in Sup, SupTearSave(s) PROVE Shape'
  BY <1>39, BoundAssumption DEF SupTearSave, Save, SupGoto, lockVars,
     kernVars, cliVars, AllOps, Keeps
<1>40. ASSUME NEW s \in Sup, SupCrash(s) PROVE Shape'
  BY <1>40, BoundAssumption DEF SupCrash, SupGoto, Finish, Goto, Unlock,
     lockVars, fsVars, AllOps
<1>41. ASSUME NEW s \in Sup, InitExit(s) PROVE Shape'
  BY <1>41, BoundAssumption DEF InitExit, fsVars, lockVars, cliVars, supVars,
     AllOps
<1>42. ASSUME NEW s \in Sup, InitKilled(s) PROVE Shape'
  BY <1>42, BoundAssumption DEF InitKilled, fsVars, lockVars, cliVars,
     supVars, AllOps
<1>43. ASSUME NEW s \in Sup, InitReaped(s) PROVE Shape'
  BY <1>43, BoundAssumption DEF InitReaped, fsVars, lockVars, cliVars,
     supVars, AllOps
<1>44. CASE UNCHANGED vars
  BY <1>44, BoundAssumption DEF vars, fsVars, lockVars, kernVars, cliVars,
     supVars, AllOps
<1> QED
  BY <1>1, <1>2, <1>3, <1>4, <1>5, <1>6, <1>7, <1>8, <1>9, <1>10, <1>11,
     <1>12, <1>13, <1>14, <1>15, <1>16, <1>17, <1>18, <1>19, <1>20, <1>21,
     <1>22, <1>23, <1>24, <1>25, <1>26, <1>27, <1>28, <1>29, <1>30, <1>31,
     <1>32, <1>33, <1>34, <1>35, <1>36, <1>37, <1>38, <1>39, <1>40, <1>41,
     <1>42, <1>43, <1>44 DEF KeepingStep

LEMMA LockKept ==
  ASSUME TypeControl, TypeKernel, TypeLock, Shape, Lock, KeepingStep \/ UNCHANGED vars
  PROVE  Lock'
<1> USE DEF Lock, Shape, TypeControl, TypeKernel, TypeLock, Keeping, Section, Tearing, Cli
<1>1. ASSUME NEW p \in Cli, LockOpen(p) PROVE Lock'
  BY <1>1, FreshInodeIsFresh DEF LockOpen, Goto, kernVars, supVars
<1>2. ASSUME NEW p \in Cli, LockAcquire(p) PROVE Lock'
  BY <1>2 DEF LockAcquire, Goto, fsVars, kernVars, supVars, Locked
<1>3. ASSUME NEW p \in Cli, Load(p) PROVE Lock'
  BY <1>3 DEF Load, Finish, Goto, Unlock, Remember, lockVars, fsVars,
     kernVars, supVars
<1>4. ASSUME NEW p \in Cli, Reconcile(p) PROVE Lock'
  BY <1>4 DEF Reconcile, Remember, Save, Goto, lockVars, kernVars, supVars
<1>5. ASSUME NEW p \in Cli, SaveMem(p) PROVE Lock'
  BY <1>5 DEF SaveMem, Save, Finish, Goto, Unlock, kernVars, supVars
<1>6. ASSUME NEW p \in Cli, StartAct(p) PROVE Lock'
  BY <1>6 DEF StartAct, Acting, ForkShim, Goto, fsVars, lockVars, kernVars,
     Refuse, Finish, Unlock, supVars
<1>7. ASSUME NEW p \in Cli, Notified(p) PROVE Lock'
  BY <1>7 DEF Notified, Goto, lockVars, Finish, Unlock, fsVars, kernVars,
     supVars
<1>8. ASSUME NEW p \in Cli, StartReload(p) PROVE Lock'
  BY <1>8 DEF StartReload, Finish, Goto, Unlock, Remember, lockVars, fsVars,
     kernVars, supVars
<1>9. ASSUME NEW p \in Cli, KillAct(p) PROVE Lock'
  BY <1>9 DEF KillAct, Refuse, Finish, Goto, Unlock, fsVars, kernVars,
     supVars, ThawFor, KillAll, Remember, lockVars, SendKill
<1>10. ASSUME NEW p \in Cli, PauseAct(p) PROVE Lock'
  BY <1>10 DEF PauseAct, Acting, Refuse, Finish, Goto, Unlock, fsVars,
     kernVars, supVars, Remember, lockVars
<1>11. ASSUME NEW p \in Cli, UnpauseAct(p) PROVE Lock'
  BY <1>11 DEF UnpauseAct, Acting, Refuse, Finish, Goto, Unlock, fsVars,
     kernVars, supVars, Remember, lockVars
<1>12. ASSUME NEW p \in Cli, StopAct(p) PROVE Lock'
  BY <1>12 DEF StopAct, StopReturns, Goto, Unlock, Finish, ThawFor, Remember,
     Save, lockVars, supVars
<1>13. ASSUME NEW p \in Cli, SigTerm(p) PROVE Lock'
  BY <1>13 DEF SigTerm, Unlock, Goto, fsVars, supVars
<1>14. ASSUME NEW p \in Cli, PollDead(p) PROVE Lock'
  BY <1>14 DEF PollDead, GiveUp, Finish, Goto, Unlock, fsVars, kernVars,
     supVars, LockFor, lockVars
<1>15. ASSUME NEW p \in Cli, PollDeadline(p) PROVE Lock'
  BY <1>15 DEF PollDeadline, LockFor, Goto, fsVars, lockVars, kernVars,
     supVars
<1>16. ASSUME NEW p \in Cli, StopKill(p) PROVE Lock'
  BY <1>16 DEF StopKill, KillAll, SendKill, Unlock, Goto, fsVars, supVars
<1>17. ASSUME NEW p \in Cli, PollKilled(p) PROVE Lock'
  BY <1>17 DEF PollKilled, GiveUp, Finish, Goto, Unlock, fsVars, kernVars,
     supVars, LockFor, lockVars
<1>18. ASSUME NEW p \in Cli, FinalizeAct(p) PROVE Lock'
  BY <1>18 DEF FinalizeAct, GiveUp, Finish, Goto, Unlock, fsVars, kernVars,
     supVars, lockVars
<1>19. ASSUME NEW p \in Cli, FinWaitSeen(p) PROVE Lock'
  BY <1>19 DEF FinWaitSeen, GiveUp, Finish, Goto, Unlock, fsVars, kernVars,
     supVars, Remember, StopReturns
<1>20. ASSUME NEW p \in Cli, FinWaitExpired(p) PROVE Lock'
  BY <1>20 DEF FinWaitExpired, Remember, Goto, fsVars, lockVars, kernVars,
     supVars
<1>21. ASSUME NEW p \in Cli, CliTearKill(p) PROVE Lock'
  BY <1>21 DEF CliTearKill, TearKill, Goto, fsVars, lockVars, supVars
<1>22. ASSUME NEW p \in Cli, CliTearRelease(p) PROVE Lock'
  BY <1>22 DEF CliTearRelease, TearRelease, Goto, fsVars, lockVars, supVars
<1>23. ASSUME NEW p \in Cli, CliTearSave(p) PROVE Lock'
  BY <1>23 DEF CliTearSave, Remember, Save, Goto, lockVars, Unlock,
     StopReturns, Finish, kernVars, supVars
<1>24. ASSUME NEW p \in Cli, WaitAct(p) PROVE Lock'
  BY <1>24 DEF WaitAct, Acting, Goto, lockVars, Finish, Unlock, fsVars,
     kernVars, supVars
<1>25. ASSUME NEW p \in Cli, WaitTimeout(p) PROVE Lock'
  BY <1>25 DEF WaitTimeout, Acting, Refuse, Finish, Goto, Unlock, fsVars,
     kernVars, supVars
<1>26. ASSUME NEW p \in Cli, NEW o \in Keeping, Begin(p, o) PROVE Lock'
  BY <1>26 DEF Begin, Remember, Goto, fsVars, lockVars, kernVars, supVars
<1>27. ASSUME NEW s \in Sup, SupLoad(s) PROVE Lock'
  BY <1>27 DEF SupLoad, SupGoto, Notify, SupRemember, fsVars, lockVars,
     kernVars, cliVars
<1>28. ASSUME NEW s \in Sup, LaunchCgroup(s) PROVE Lock'
  BY <1>28 DEF LaunchCgroup, SupGoto, fsVars, lockVars, cliVars
<1>29. ASSUME NEW s \in Sup, LaunchClone(s) PROVE Lock'
  BY <1>29 DEF LaunchClone, SupRemember, SupGoto, fsVars, lockVars, cliVars
<1>30. ASSUME NEW s \in Sup, LaunchNet(s) PROVE Lock'
  BY <1>30 DEF LaunchNet, SupGoto, fsVars, lockVars, cliVars
<1>31. ASSUME NEW s \in Sup, LaunchRunning(s) PROVE Lock'
  BY <1>31 DEF LaunchRunning, SupRemember, Save, SupGoto, lockVars, kernVars,
     cliVars
<1>32. ASSUME NEW s \in Sup, LaunchFail(s) PROVE Lock'
  BY <1>32 DEF LaunchFail, SupGoto, fsVars, lockVars, cliVars
<1>33. ASSUME NEW s \in Sup, LaunchFailed(s) PROVE Lock'
  BY <1>33, BoundAssumption DEF Attached, AllOps, LaunchFailed, RemoveDir, SupRemember, Save, Notify, SupGoto,
     lockVars, kernVars, cliVars
<1>34. ASSUME NEW s \in Sup, ShimSave(s) PROVE Lock'
  BY <1>34 DEF ShimSave, SupRemember, Save, Notify, SupGoto, lockVars,
     kernVars, cliVars
<1>35. ASSUME NEW s \in Sup, SupReap(s) PROVE Lock'
  BY <1>35 DEF SupReap, SupRemember, SupGoto, fsVars, lockVars, cliVars
<1>36. ASSUME NEW s \in Sup, SupSaveExit(s) PROVE Lock'
  BY <1>36 DEF SupSaveExit, Save, SupGoto, lockVars, kernVars, cliVars
<1>37. ASSUME NEW s \in Sup, SupTearKill(s) PROVE Lock'
  BY <1>37 DEF SupTearKill, TearKill, SupGoto, fsVars, lockVars, cliVars
<1>38. ASSUME NEW s \in Sup, SupTearRelease(s) PROVE Lock'
  BY <1>38 DEF SupTearRelease, TearRelease, SupGoto, fsVars, lockVars,
     cliVars
<1>39. ASSUME NEW s \in Sup, SupTearSave(s) PROVE Lock'
  BY <1>39 DEF SupTearSave, Save, SupGoto, lockVars, kernVars, cliVars
<1>40. ASSUME NEW s \in Sup, SupCrash(s) PROVE Lock'
  BY <1>40 DEF SupCrash, SupGoto, Finish, Goto, Unlock, lockVars, fsVars
<1>41. ASSUME NEW s \in Sup, InitExit(s) PROVE Lock'
  BY <1>41 DEF InitExit, fsVars, lockVars, cliVars, supVars
<1>42. ASSUME NEW s \in Sup, InitKilled(s) PROVE Lock'
  BY <1>42 DEF InitKilled, fsVars, lockVars, cliVars, supVars
<1>43. ASSUME NEW s \in Sup, InitReaped(s) PROVE Lock'
  BY <1>43 DEF InitReaped, fsVars, lockVars, cliVars, supVars
<1>44. CASE UNCHANGED vars
  BY <1>44 DEF vars, fsVars, lockVars, kernVars, cliVars, supVars
<1> QED
  BY <1>1, <1>2, <1>3, <1>4, <1>5, <1>6, <1>7, <1>8, <1>9, <1>10, <1>11,
     <1>12, <1>13, <1>14, <1>15, <1>16, <1>17, <1>18, <1>19, <1>20, <1>21,
     <1>22, <1>23, <1>24, <1>25, <1>26, <1>27, <1>28, <1>29, <1>30, <1>31,
     <1>32, <1>33, <1>34, <1>35, <1>36, <1>37, <1>38, <1>39, <1>40, <1>41,
     <1>42, <1>43, <1>44 DEF KeepingStep


(* At most one launch is under way, and it has the lock.                   *)
LEMMA OneUnderWay ==
  ASSUME Shape, Lock, Progress, NEW s \in Sup, supPc[s] \in Before \cup {"shimSave"}
  PROVE  /\ s \in holders /\ pc[s] = "notify" /\ op[s] = "start"
         /\ \A p \in holders : p = s
         /\ \A t \in Sup : supPc[t] \in Before \cup {"shimSave"} => t = s
  BY DEF Shape, Lock, Progress, Section, Cli

LEMMA ProgressStep ==
  ASSUME TypeControl, TypeKernel, TypeRecords, Known, Shape, Lock, Progress, Launching, Records,
         KeepingStep \/ UNCHANGED vars
  PROVE  Progress'
<1> USE DEF Progress, Shape, TypeControl, TypeKernel, TypeRecords, Before, Tearing, Cli
<1>1. ASSUME NEW p \in Cli, LockOpen(p) PROVE Progress'
  BY <1>1 DEF LockOpen, Goto, kernVars, supVars
<1>2. ASSUME NEW p \in Cli, LockAcquire(p) PROVE Progress'
  BY <1>2 DEF LockAcquire, Goto, fsVars, kernVars, supVars
<1>3. ASSUME NEW p \in Cli, Load(p) PROVE Progress'
  BY <1>3 DEF Load, Finish, Goto, Unlock, Remember, lockVars, fsVars,
     kernVars, supVars
<1>4. ASSUME NEW p \in Cli, Reconcile(p) PROVE Progress'
  BY <1>4 DEF Reconcile, Remember, Save, Goto, lockVars, kernVars, supVars
<1>5. ASSUME NEW p \in Cli, SaveMem(p) PROVE Progress'
  BY <1>5 DEF SaveMem, Save, Finish, Goto, Unlock, kernVars, supVars
<1>6. ASSUME NEW p \in Cli, StartAct(p) PROVE Progress'
  BY <1>6 DEF StartAct, Acting, ForkShim, Goto, fsVars, lockVars, kernVars,
     Refuse, Finish, Unlock, supVars
<1>7. ASSUME NEW p \in Cli, Notified(p) PROVE Progress'
  BY <1>7, BoundAssumption DEF Notified, Goto, lockVars, Finish, Unlock,
     fsVars, kernVars, supVars
<1>8. ASSUME NEW p \in Cli, StartReload(p) PROVE Progress'
  BY <1>8 DEF StartReload, Finish, Goto, Unlock, Remember, lockVars, fsVars,
     kernVars, supVars
<1>9. ASSUME NEW p \in Cli, KillAct(p) PROVE Progress'
  BY <1>9 DEF KillAct, Refuse, Finish, Goto, Unlock, fsVars, kernVars,
     supVars, ThawFor, KillAll, Remember, lockVars, SendKill
<1>10. ASSUME NEW p \in Cli, PauseAct(p) PROVE Progress'
  BY <1>10 DEF PauseAct, Acting, Refuse, Finish, Goto, Unlock, fsVars,
     kernVars, supVars, Remember, lockVars
<1>11. ASSUME NEW p \in Cli, UnpauseAct(p) PROVE Progress'
  BY <1>11 DEF UnpauseAct, Acting, Refuse, Finish, Goto, Unlock, fsVars,
     kernVars, supVars, Remember, lockVars
<1>12. ASSUME NEW p \in Cli, StopAct(p) PROVE Progress'
  BY <1>12 DEF StopAct, StopReturns, Goto, Unlock, Finish, ThawFor, Remember,
     Save, lockVars, supVars
<1>13. ASSUME NEW p \in Cli, SigTerm(p) PROVE Progress'
  BY <1>13 DEF SigTerm, Unlock, Goto, fsVars, supVars
<1>14. ASSUME NEW p \in Cli, PollDead(p) PROVE Progress'
  BY <1>14 DEF PollDead, GiveUp, Finish, Goto, Unlock, fsVars, kernVars,
     supVars, LockFor, lockVars
<1>15. ASSUME NEW p \in Cli, PollDeadline(p) PROVE Progress'
  BY <1>15 DEF PollDeadline, LockFor, Goto, fsVars, lockVars, kernVars,
     supVars
<1>16. ASSUME NEW p \in Cli, StopKill(p) PROVE Progress'
  BY <1>16 DEF StopKill, KillAll, SendKill, Unlock, Goto, fsVars, supVars
<1>17. ASSUME NEW p \in Cli, PollKilled(p) PROVE Progress'
  BY <1>17 DEF PollKilled, GiveUp, Finish, Goto, Unlock, fsVars, kernVars,
     supVars, LockFor, lockVars
<1>18. ASSUME NEW p \in Cli, FinalizeAct(p) PROVE Progress'
  BY <1>18 DEF FinalizeAct, GiveUp, Finish, Goto, Unlock, fsVars, kernVars,
     supVars, lockVars
<1>19. ASSUME NEW p \in Cli, FinWaitSeen(p) PROVE Progress'
  BY <1>19 DEF FinWaitSeen, GiveUp, Finish, Goto, Unlock, fsVars, kernVars,
     supVars, Remember, StopReturns
<1>20. ASSUME NEW p \in Cli, FinWaitExpired(p) PROVE Progress'
  BY <1>20 DEF FinWaitExpired, Remember, Goto, fsVars, lockVars, kernVars,
     supVars
<1>21. ASSUME NEW p \in Cli, CliTearKill(p) PROVE Progress'
  BY <1>21 DEF CliTearKill, TearKill, Goto, fsVars, lockVars, supVars
<1>22. ASSUME NEW p \in Cli, CliTearRelease(p) PROVE Progress'
  BY <1>22 DEF CliTearRelease, TearRelease, Goto, fsVars, lockVars, supVars
<1>23. ASSUME NEW p \in Cli, CliTearSave(p) PROVE Progress'
  BY <1>23 DEF CliTearSave, Remember, Save, Goto, lockVars, Unlock,
     StopReturns, Finish, kernVars, supVars
<1>24. ASSUME NEW p \in Cli, WaitAct(p) PROVE Progress'
  BY <1>24 DEF WaitAct, Acting, Goto, lockVars, Finish, Unlock, fsVars,
     kernVars, supVars
<1>25. ASSUME NEW p \in Cli, WaitTimeout(p) PROVE Progress'
  BY <1>25 DEF WaitTimeout, Acting, Refuse, Finish, Goto, Unlock, fsVars,
     kernVars, supVars
<1>26. ASSUME NEW p \in Cli, NEW o \in Keeping, Begin(p, o) PROVE Progress'
  BY <1>26 DEF Begin, Remember, Goto, fsVars, lockVars, kernVars, supVars
<1>27. ASSUME NEW s \in Sup, SupLoad(s) PROVE Progress'
  <2>1. supPc[s] = "load" => file.status = "Created" /\ file.pid = None
    BY DEF Launching, Records, Sound, Fresh, InUse
  <2> QED
    BY <1>27, <2>1 DEF Records, SupLoad, SupGoto, Notify, SupRemember, fsVars,
       lockVars, kernVars, cliVars
<1>28. ASSUME NEW s \in Sup, LaunchCgroup(s) PROVE Progress'
  BY <1>28 DEF LaunchCgroup, SupGoto, fsVars, lockVars, cliVars
<1>29. ASSUME NEW s \in Sup, LaunchClone(s) PROVE Progress'
  <2>1. smem[s] \in State
    BY <1>29, NoneAssumption DEF LaunchClone, TypeRecords, Known, SupUsing, SupPc
  <2>2. [smem[s] EXCEPT !.pid = s].status = smem[s].status /\ [smem[s] EXCEPT !.pid = s].pid = s
    BY <2>1, FieldsKeep
  <2> QED
    BY <1>29, <2>1, <2>2 DEF LaunchClone, SupRemember, SupGoto, fsVars, lockVars,
       cliVars
<1>30. ASSUME NEW s \in Sup, LaunchNet(s) PROVE Progress'
  BY <1>30 DEF LaunchNet, SupGoto, fsVars, lockVars, cliVars
<1>31. ASSUME NEW s \in Sup, LaunchRunning(s) PROVE Progress'
  <2>1. smem[s] \in State
    BY <1>31, NoneAssumption DEF LaunchRunning, TypeRecords, Known, SupUsing, SupPc
  <2>2. smem[s].status = "Created"
          => /\ transition(smem[s], "Running").status = "Running"
             /\ transition(smem[s], "Running").pid = smem[s].pid
    BY <2>1, TransitionKeeps DEF Status, can_transition_to
  <2> QED
    BY <1>31, <2>1, <2>2 DEF LaunchRunning, SupRemember, Save, SupGoto, Attached,
       lockVars, kernVars, cliVars
<1>32. ASSUME NEW s \in Sup, LaunchFail(s) PROVE Progress'
  BY <1>32 DEF LaunchFail, SupGoto, fsVars, lockVars, cliVars
<1>33. ASSUME NEW s \in Sup, LaunchFailed(s) PROVE Progress'
  BY <1>33 DEF LaunchFailed, RemoveDir, SupRemember, Save, Notify, SupGoto,
     lockVars, kernVars, cliVars
<1>34. ASSUME NEW s \in Sup, ShimSave(s) PROVE Progress'
  <2>1. smem[s] \in State
    BY <1>34, NoneAssumption DEF ShimSave, TypeRecords, Known, SupUsing, SupPc
  <2>2. [smem[s] EXCEPT !.shim = s].status = smem[s].status /\ [smem[s] EXCEPT !.shim = s].pid = smem[s].pid
    BY <2>1, FieldsKeep
  <2> QED
    BY <1>34, <2>1, <2>2 DEF ShimSave, SupRemember, Save, Notify, SupGoto,
       lockVars, kernVars, cliVars
<1>35. ASSUME NEW s \in Sup, SupReap(s) PROVE Progress'
  <2>1. smem[s] \in State /\ initExit[s] \in ExitStatus \cup {None}
    BY <1>35 DEF SupReap, TypeRecords, TypeKernel, Known, SupUsing, SupPc
  <2> DEFINE st == record_exit(smem[s], initExit[s])
  <2>2. st \in State /\ st.status = smem[s].status /\ st.pid = smem[s].pid
    BY <2>1, RecordExitKeeps
  <2>3. smem[s].status = "Running" /\ smem[s].pid = s
    BY <1>35 DEF SupReap
  <2>4. transition(st, "Stopped").status = "Stopped" /\ transition(st, "Stopped").pid = s
    BY <2>2, <2>3, TransitionKeeps DEF Status, can_transition_to
  <2> QED
    BY <1>35, <2>4 DEF SupReap, SupRemember, SupGoto, fsVars, lockVars, cliVars
<1>36. ASSUME NEW s \in Sup, SupSaveExit(s) PROVE Progress'
  BY <1>36 DEF SupSaveExit, Save, SupGoto, lockVars, kernVars, cliVars
<1>37. ASSUME NEW s \in Sup, SupTearKill(s) PROVE Progress'
  BY <1>37 DEF SupTearKill, TearKill, SupGoto, fsVars, lockVars, cliVars
<1>38. ASSUME NEW s \in Sup, SupTearRelease(s) PROVE Progress'
  BY <1>38 DEF SupTearRelease, TearRelease, SupGoto, fsVars, lockVars,
     cliVars
<1>39. ASSUME NEW s \in Sup, SupTearSave(s) PROVE Progress'
  BY <1>39 DEF SupTearSave, Save, SupGoto, lockVars, kernVars, cliVars
<1>40. ASSUME NEW s \in Sup, SupCrash(s) PROVE Progress'
  BY <1>40 DEF SupCrash, SupGoto, Finish, Goto, Unlock, lockVars, fsVars,
     SupRunning
<1>41. ASSUME NEW s \in Sup, InitExit(s) PROVE Progress'
  BY <1>41 DEF InitExit, fsVars, lockVars, cliVars, supVars
<1>42. ASSUME NEW s \in Sup, InitKilled(s) PROVE Progress'
  BY <1>42 DEF InitKilled, fsVars, lockVars, cliVars, supVars
<1>43. ASSUME NEW s \in Sup, InitReaped(s) PROVE Progress'
  BY <1>43 DEF InitReaped, fsVars, lockVars, cliVars, supVars
<1>44. CASE UNCHANGED vars
  BY <1>44 DEF vars, fsVars, lockVars, kernVars, cliVars, supVars
<1> QED
  BY <1>1, <1>2, <1>3, <1>4, <1>5, <1>6, <1>7, <1>8, <1>9, <1>10, <1>11,
     <1>12, <1>13, <1>14, <1>15, <1>16, <1>17, <1>18, <1>19, <1>20, <1>21,
     <1>22, <1>23, <1>24, <1>25, <1>26, <1>27, <1>28, <1>29, <1>30, <1>31,
     <1>32, <1>33, <1>34, <1>35, <1>36, <1>37, <1>38, <1>39, <1>40, <1>41,
     <1>42, <1>43, <1>44 DEF KeepingStep


(* Only a launch that ends makes the record say something else than        *)
(* Created, and nothing brings that back.                                  *)
LEMMA FreshStep ==
  ASSUME TypeControl, TypeKernel, TypeRecords, Known, Shape, Lock, Progress, Launching, Records, Sync,
         KeepingStep \/ UNCHANGED vars
  PROVE  /\ file' # None
         /\ Fresh' => Fresh
         /\ Fresh' => \A t \in Sup : supPc[t] \in Before => supPc'[t] \in Before \cup {"dead"}
         /\ Fresh /\ ~Fresh' => /\ \E t \in Sup : supPc[t] \in Before /\ supPc'[t] \notin Before
                                /\ file'.status # "Paused" /\ UNCHANGED <<pc, frozen>>
<1> DEFINE G == /\ file' # None
                /\ Fresh' => Fresh
                /\ Fresh' => \A t \in Sup : supPc[t] \in Before => supPc'[t] \in Before \cup {"dead"}
                /\ Fresh /\ ~Fresh' => /\ \E t \in Sup : supPc[t] \in Before /\ supPc'[t] \notin Before
                                       /\ file'.status # "Paused" /\ UNCHANGED <<pc, frozen>>
<1> USE DEF TypeControl, Before
<1>0. file \in State
  BY DEF Records, TypeRecords
<1>1. ASSUME NEW p \in Cli, LockOpen(p) PROVE G
  BY <1>1, <1>0, NoneAssumption DEF LockOpen, Goto, kernVars, supVars, Fresh
<1>2. ASSUME NEW p \in Cli, LockAcquire(p) PROVE G
  BY <1>2, <1>0, NoneAssumption DEF LockAcquire, Goto, fsVars, kernVars,
     supVars, Fresh
<1>3. ASSUME NEW p \in Cli, Load(p) PROVE G
  BY <1>3, <1>0, NoneAssumption DEF Load, Finish, Goto, Unlock, Remember,
     lockVars, fsVars, kernVars, supVars, Fresh
<1>4. ASSUME NEW p \in Cli, Reconcile(p) PROVE G
  <2>1. mem[p] \in State
    BY <1>4, NoneAssumption DEF Reconcile, TypeRecords, Known, Using
  <2>2. mark_stopped(mem[p]) \in State /\ mark_stopped(mem[p]).status = "Stopped"
    BY <2>1, StoppingKeeps
  <2>3. is_live(mem[p].status) => ~Fresh
    BY <2>1 DEF is_live, Records, Sound, InUse
  <2> QED
    BY <1>4, <1>0, <2>1, <2>2, <2>3, NoneAssumption DEF Fresh, Reconcile,
       Remember, Save, Goto, lockVars, kernVars, supVars
<1>5. ASSUME NEW p \in Cli, SaveMem(p) PROVE G
  <2>1. mem[p] \in State
    BY <1>5, NoneAssumption DEF SaveMem, TypeRecords, Known, Using
  <2>2. ~Fresh /\ mem[p].status # "Created"
    BY <1>5 DEF SaveMem, Sync, Ended
  <2> QED
    BY <1>5, <2>1, <2>2, NoneAssumption DEF Fresh, SaveMem, Save, Finish, Goto,
       Unlock, kernVars, supVars
<1>6. ASSUME NEW p \in Cli, StartAct(p) PROVE G
  BY <1>6, <1>0, NoneAssumption DEF StartAct, Acting, ForkShim, Goto, fsVars,
     lockVars, kernVars, Refuse, Finish, Unlock, supVars, Fresh
<1>7. ASSUME NEW p \in Cli, Notified(p) PROVE G
  BY <1>7, <1>0, NoneAssumption DEF Notified, Goto, lockVars, Finish, Unlock,
     fsVars, kernVars, supVars, Fresh
<1>8. ASSUME NEW p \in Cli, StartReload(p) PROVE G
  BY <1>8, <1>0, NoneAssumption DEF StartReload, Finish, Goto, Unlock,
     Remember, lockVars, fsVars, kernVars, supVars, Fresh
<1>9. ASSUME NEW p \in Cli, KillAct(p) PROVE G
  BY <1>9, <1>0, NoneAssumption DEF KillAct, Refuse, Finish, Goto, Unlock,
     fsVars, kernVars, supVars, ThawFor, KillAll, Remember, lockVars,
     SendKill, Fresh
<1>10. ASSUME NEW p \in Cli, PauseAct(p) PROVE G
  BY <1>10, <1>0, NoneAssumption DEF PauseAct, Acting, Refuse, Finish, Goto,
     Unlock, fsVars, kernVars, supVars, Remember, lockVars, Fresh
<1>11. ASSUME NEW p \in Cli, UnpauseAct(p) PROVE G
  BY <1>11, <1>0, NoneAssumption DEF UnpauseAct, Acting, Refuse, Finish,
     Goto, Unlock, fsVars, kernVars, supVars, Remember, lockVars, Fresh
<1>12. ASSUME NEW p \in Cli, StopAct(p) PROVE G
  <2>1. mem[p] \in State
    BY <1>12, NoneAssumption DEF StopAct, TypeRecords, Known, Using
  <2> DEFINE st == transition(Thawed(mem[p]), "Stopping")
  <2>2. Thawed(mem[p]) \in State /\ (is_live(mem[p].status) => is_live(Thawed(mem[p]).status))
    BY <2>1, ThawedKeeps DEF is_live
  <2>3. st \in State /\ (is_live(mem[p].status) => st.status # "Created")
    BY <2>2, TransitionKeeps DEF is_live, Status
  <2>4. is_live(mem[p].status) => ~Fresh
    BY <2>1 DEF is_live, Records, Sound, InUse
  <2> QED
    BY <1>12, <1>0, <2>1, <2>3, <2>4, NoneAssumption DEF Fresh, StopAct,
       StopReturns, Goto, Unlock, Finish, ThawFor, Remember, Save, lockVars,
       supVars
<1>13. ASSUME NEW p \in Cli, SigTerm(p) PROVE G
  BY <1>13, <1>0, NoneAssumption DEF SigTerm, Unlock, Goto, fsVars, supVars,
     Fresh
<1>14. ASSUME NEW p \in Cli, PollDead(p) PROVE G
  BY <1>14, <1>0, NoneAssumption DEF PollDead, GiveUp, Finish, Goto, Unlock,
     fsVars, kernVars, supVars, LockFor, lockVars, Fresh
<1>15. ASSUME NEW p \in Cli, PollDeadline(p) PROVE G
  BY <1>15, <1>0, NoneAssumption DEF PollDeadline, LockFor, Goto, fsVars,
     lockVars, kernVars, supVars, Fresh
<1>16. ASSUME NEW p \in Cli, StopKill(p) PROVE G
  BY <1>16, <1>0, NoneAssumption DEF StopKill, KillAll, SendKill, Unlock,
     Goto, fsVars, supVars, Fresh
<1>17. ASSUME NEW p \in Cli, PollKilled(p) PROVE G
  BY <1>17, <1>0, NoneAssumption DEF PollKilled, GiveUp, Finish, Goto,
     Unlock, fsVars, kernVars, supVars, LockFor, lockVars, Fresh
<1>18. ASSUME NEW p \in Cli, FinalizeAct(p) PROVE G
  BY <1>18, <1>0, NoneAssumption DEF FinalizeAct, GiveUp, Finish, Goto,
     Unlock, fsVars, kernVars, supVars, lockVars, Fresh
<1>19. ASSUME NEW p \in Cli, FinWaitSeen(p) PROVE G
  BY <1>19, <1>0, NoneAssumption DEF FinWaitSeen, GiveUp, Finish, Goto,
     Unlock, fsVars, kernVars, supVars, Remember, StopReturns, Fresh
<1>20. ASSUME NEW p \in Cli, FinWaitExpired(p) PROVE G
  BY <1>20, <1>0, NoneAssumption DEF FinWaitExpired, Remember, Goto, fsVars,
     lockVars, kernVars, supVars, Fresh
<1>21. ASSUME NEW p \in Cli, CliTearKill(p) PROVE G
  BY <1>21, <1>0, NoneAssumption DEF CliTearKill, TearKill, Goto, fsVars,
     lockVars, supVars, Fresh
<1>22. ASSUME NEW p \in Cli, CliTearRelease(p) PROVE G
  BY <1>22, <1>0, NoneAssumption DEF CliTearRelease, TearRelease, Goto,
     fsVars, lockVars, supVars, Fresh
<1>23. ASSUME NEW p \in Cli, CliTearSave(p) PROVE G
  <2>1. mem[p] \in State
    BY <1>23, NoneAssumption DEF CliTearSave, TypeRecords, Known, Using
  <2>2. ~Fresh /\ mem[p].status # "Created"
    BY <1>23 DEF CliTearSave, Sync, Ended, Tearing
  <2>3. Torn(mem[p]) \in State /\ Torn(mem[p]).status # "Created"
    BY <2>1, <2>2, TornKeeps
  <2> QED
    BY <1>23, <2>1, <2>2, <2>3, NoneAssumption DEF Fresh, CliTearSave, Remember,
       Save, Goto, lockVars, Unlock, StopReturns, Finish, kernVars, supVars
<1>24. ASSUME NEW p \in Cli, WaitAct(p) PROVE G
  BY <1>24, <1>0, NoneAssumption DEF WaitAct, Acting, Goto, lockVars, Finish,
     Unlock, fsVars, kernVars, supVars, Fresh
<1>25. ASSUME NEW p \in Cli, WaitTimeout(p) PROVE G
  BY <1>25, <1>0, NoneAssumption DEF WaitTimeout, Acting, Refuse, Finish,
     Goto, Unlock, fsVars, kernVars, supVars, Fresh
<1>26. ASSUME NEW p \in Cli, NEW o \in Keeping, Begin(p, o) PROVE G
  BY <1>26, <1>0, NoneAssumption DEF Begin, Remember, Goto, fsVars, lockVars,
     kernVars, supVars, Fresh
<1>27. ASSUME NEW s \in Sup, SupLoad(s) PROVE G
  BY <1>27, <1>0, NoneAssumption DEF SupLoad, SupGoto, Notify, SupRemember,
     fsVars, lockVars, kernVars, cliVars, Fresh
<1>28. ASSUME NEW s \in Sup, LaunchCgroup(s) PROVE G
  BY <1>28, <1>0, NoneAssumption DEF LaunchCgroup, SupGoto, fsVars, lockVars,
     cliVars, Fresh
<1>29. ASSUME NEW s \in Sup, LaunchClone(s) PROVE G
  BY <1>29, <1>0, NoneAssumption DEF LaunchClone, SupRemember, SupGoto,
     fsVars, lockVars, cliVars, Fresh
<1>30. ASSUME NEW s \in Sup, LaunchNet(s) PROVE G
  BY <1>30, <1>0, NoneAssumption DEF LaunchNet, SupGoto, fsVars, lockVars,
     cliVars, Fresh
<1>31. ASSUME NEW s \in Sup, LaunchRunning(s) PROVE G
  <2>1. smem[s] \in State /\ smem[s].status = "Created" /\ ~Attached(s)
    BY <1>31, NoneAssumption DEF LaunchRunning, TypeRecords, Known, SupUsing, SupPc, Progress, Before, Shape,
       Attached, Cli
  <2>2. transition(smem[s], "Running") \in State /\ transition(smem[s], "Running").status \notin {"Created", "Paused"}
    BY <2>1, TransitionKeeps DEF Status, can_transition_to
  <2>3. Fresh
    BY <1>31 DEF LaunchRunning, Launching, Before
  <2> QED
    BY <1>31, <2>1, <2>2, <2>3, NoneAssumption DEF Fresh, LaunchRunning,
       SupRemember, Save, SupGoto, lockVars, kernVars, cliVars
<1>32. ASSUME NEW s \in Sup, LaunchFail(s) PROVE G
  BY <1>32, <1>0, NoneAssumption DEF LaunchFail, SupGoto, fsVars, lockVars,
     cliVars, Fresh
<1>33. ASSUME NEW s \in Sup, LaunchFailed(s) PROVE G
  <2>1. smem[s] \in State /\ smem[s].status = "Created" /\ ~Attached(s)
    BY <1>33, NoneAssumption DEF LaunchFailed, TypeRecords, Known, SupUsing, SupPc, Progress, Before, Shape,
       Attached, Cli
  <2>2. mark_stopped(smem[s]) \in State /\ mark_stopped(smem[s]).status \notin {"Created", "Paused"}
    BY <2>1, StoppingKeeps
  <2>3. Fresh
    BY <1>33 DEF LaunchFailed, Launching, Before
  <2> QED
    BY <1>33, <2>1, <2>2, <2>3, NoneAssumption DEF Fresh, LaunchFailed,
       RemoveDir, SupRemember, Save, Notify, SupGoto, lockVars, kernVars,
       cliVars
<1>34. ASSUME NEW s \in Sup, ShimSave(s) PROVE G
  <2>1. smem[s] \in State /\ smem[s].status # "Created" /\ ~Fresh
    BY <1>34, NoneAssumption DEF ShimSave, TypeRecords, Known, SupUsing, SupPc, Progress, Launching, Before,
       Tearing
  <2>2. [smem[s] EXCEPT !.shim = s] \in State /\ [smem[s] EXCEPT !.shim = s].status # "Created"
    BY <2>1, FieldsKeep
  <2> QED
    BY <1>34, <2>1, <2>2, NoneAssumption DEF Fresh, ShimSave, SupRemember, Save,
       Notify, SupGoto, lockVars, kernVars, cliVars
<1>35. ASSUME NEW s \in Sup, SupReap(s) PROVE G
  BY <1>35, <1>0, NoneAssumption DEF SupReap, SupRemember, SupGoto, fsVars,
     lockVars, cliVars, Fresh
<1>36. ASSUME NEW s \in Sup, SupSaveExit(s) PROVE G
  <2>1. smem[s] \in State /\ smem[s].status # "Created" /\ ~Fresh
    BY <1>36, NoneAssumption DEF SupSaveExit, TypeRecords, Known, SupUsing, SupPc, Progress, Launching, Before,
       Tearing
  <2>2. smem[s] \in State /\ smem[s].status # "Created"
    BY <2>1
  <2> QED
    BY <1>36, <2>1, <2>2, NoneAssumption DEF Fresh, SupSaveExit, Save, SupGoto,
       lockVars, kernVars, cliVars
<1>37. ASSUME NEW s \in Sup, SupTearKill(s) PROVE G
  BY <1>37, <1>0, NoneAssumption DEF SupTearKill, TearKill, SupGoto, fsVars,
     lockVars, cliVars, Fresh
<1>38. ASSUME NEW s \in Sup, SupTearRelease(s) PROVE G
  BY <1>38, <1>0, NoneAssumption DEF SupTearRelease, TearRelease, SupGoto,
     fsVars, lockVars, cliVars, Fresh
<1>39. ASSUME NEW s \in Sup, SupTearSave(s) PROVE G
  <2>1. smem[s] \in State /\ smem[s].status # "Created" /\ ~Fresh
    BY <1>39, NoneAssumption DEF SupTearSave, TypeRecords, Known, SupUsing, SupPc, Progress, Launching, Before,
       Tearing
  <2>2. smem[s] \in State /\ smem[s].status # "Created"
    BY <2>1
  <2> QED
    BY <1>39, <2>1, <2>2, NoneAssumption DEF Fresh, SupTearSave, Save, SupGoto,
       lockVars, kernVars, cliVars
<1>40. ASSUME NEW s \in Sup, SupCrash(s) PROVE G
  BY <1>40, <1>0, NoneAssumption DEF SupCrash, SupGoto, Finish, Goto, Unlock,
     lockVars, fsVars, Fresh
<1>41. ASSUME NEW s \in Sup, InitExit(s) PROVE G
  BY <1>41, <1>0, NoneAssumption DEF InitExit, fsVars, lockVars, cliVars,
     supVars, Fresh
<1>42. ASSUME NEW s \in Sup, InitKilled(s) PROVE G
  BY <1>42, <1>0, NoneAssumption DEF InitKilled, fsVars, lockVars, cliVars,
     supVars, Fresh
<1>43. ASSUME NEW s \in Sup, InitReaped(s) PROVE G
  BY <1>43, <1>0, NoneAssumption DEF InitReaped, fsVars, lockVars, cliVars,
     supVars, Fresh
<1>44. CASE UNCHANGED vars
  BY <1>44, <1>0, NoneAssumption DEF vars, fsVars, lockVars, kernVars,
     cliVars, supVars, Fresh
<1> QED
  BY <1>1, <1>2, <1>3, <1>4, <1>5, <1>6, <1>7, <1>8, <1>9, <1>10, <1>11,
     <1>12, <1>13, <1>14, <1>15, <1>16, <1>17, <1>18, <1>19, <1>20, <1>21,
     <1>22, <1>23, <1>24, <1>25, <1>26, <1>27, <1>28, <1>29, <1>30, <1>31,
     <1>32, <1>33, <1>34, <1>35, <1>36, <1>37, <1>38, <1>39, <1>40, <1>41,
     <1>42, <1>43, <1>44 DEF KeepingStep


(* Once a launch has come to an end, what is launched stays launched, and  *)
(* what is dead stays dead.                                                *)
LEMMA DeadStep ==
  ASSUME TypeControl, TypeKernel, TypeRecords, Shape, Progress, Launching,
         KeepingStep \/ UNCHANGED vars
  PROVE  \A t \in Sup : /\ Launched(t)' => Launched(t) \/ supPc[t] = "clone"
                        /\ Launched(t) => Launched(t)' \/ Fresh
                        /\ t \in Alive' => t \in Alive \/ supPc[t] = "clone"
                        /\ DiedLaunching(t) => DiedLaunching(t)'
<1> DEFINE G == \A t \in Sup : /\ Launched(t)' => Launched(t) \/ supPc[t] = "clone"
                               /\ Launched(t) => Launched(t)' \/ Fresh
                               /\ t \in Alive' => t \in Alive \/ supPc[t] = "clone"
                               /\ DiedLaunching(t) => DiedLaunching(t)'
<1> USE DEF Launched, Alive, DiedLaunching, TypeControl, TypeKernel, TypeRecords, Cli
<1>1. ASSUME NEW p \in Cli, LockOpen(p) PROVE G
  BY <1>1 DEF LockOpen, Goto, kernVars, supVars
<1>2. ASSUME NEW p \in Cli, LockAcquire(p) PROVE G
  BY <1>2 DEF LockAcquire, Goto, fsVars, kernVars, supVars
<1>3. ASSUME NEW p \in Cli, Load(p) PROVE G
  BY <1>3 DEF Load, Finish, Goto, Unlock, Remember, lockVars, fsVars,
     kernVars, supVars
<1>4. ASSUME NEW p \in Cli, Reconcile(p) PROVE G
  BY <1>4 DEF Reconcile, Remember, Save, Goto, lockVars, kernVars, supVars
<1>5. ASSUME NEW p \in Cli, SaveMem(p) PROVE G
  BY <1>5 DEF SaveMem, Save, Finish, Goto, Unlock, kernVars, supVars
<1>6. ASSUME NEW p \in Cli, StartAct(p) PROVE G
  BY <1>6 DEF StartAct, Acting, ForkShim, Goto, fsVars, lockVars, kernVars,
     Refuse, Finish, Unlock, supVars, Progress
<1>7. ASSUME NEW p \in Cli, Notified(p) PROVE G
  BY <1>7 DEF Notified, Goto, lockVars, Finish, Unlock, fsVars, kernVars,
     supVars
<1>8. ASSUME NEW p \in Cli, StartReload(p) PROVE G
  BY <1>8 DEF StartReload, Finish, Goto, Unlock, Remember, lockVars, fsVars,
     kernVars, supVars
<1>9. ASSUME NEW p \in Cli, KillAct(p) PROVE G
  BY <1>9 DEF KillAct, Refuse, Finish, Goto, Unlock, fsVars, kernVars,
     supVars, ThawFor, KillAll, Remember, lockVars, SendKill
<1>10. ASSUME NEW p \in Cli, PauseAct(p) PROVE G
  BY <1>10 DEF PauseAct, Acting, Refuse, Finish, Goto, Unlock, fsVars,
     kernVars, supVars, Remember, lockVars
<1>11. ASSUME NEW p \in Cli, UnpauseAct(p) PROVE G
  BY <1>11 DEF UnpauseAct, Acting, Refuse, Finish, Goto, Unlock, fsVars,
     kernVars, supVars, Remember, lockVars
<1>12. ASSUME NEW p \in Cli, StopAct(p) PROVE G
  BY <1>12 DEF StopAct, StopReturns, Goto, Unlock, Finish, ThawFor, Remember,
     Save, lockVars, supVars
<1>13. ASSUME NEW p \in Cli, SigTerm(p) PROVE G
  BY <1>13 DEF SigTerm, Unlock, Goto, fsVars, supVars
<1>14. ASSUME NEW p \in Cli, PollDead(p) PROVE G
  BY <1>14 DEF PollDead, GiveUp, Finish, Goto, Unlock, fsVars, kernVars,
     supVars, LockFor, lockVars
<1>15. ASSUME NEW p \in Cli, PollDeadline(p) PROVE G
  BY <1>15 DEF PollDeadline, LockFor, Goto, fsVars, lockVars, kernVars,
     supVars
<1>16. ASSUME NEW p \in Cli, StopKill(p) PROVE G
  BY <1>16 DEF StopKill, KillAll, SendKill, Unlock, Goto, fsVars, supVars
<1>17. ASSUME NEW p \in Cli, PollKilled(p) PROVE G
  BY <1>17 DEF PollKilled, GiveUp, Finish, Goto, Unlock, fsVars, kernVars,
     supVars, LockFor, lockVars
<1>18. ASSUME NEW p \in Cli, FinalizeAct(p) PROVE G
  BY <1>18 DEF FinalizeAct, GiveUp, Finish, Goto, Unlock, fsVars, kernVars,
     supVars, lockVars
<1>19. ASSUME NEW p \in Cli, FinWaitSeen(p) PROVE G
  BY <1>19 DEF FinWaitSeen, GiveUp, Finish, Goto, Unlock, fsVars, kernVars,
     supVars, Remember, StopReturns
<1>20. ASSUME NEW p \in Cli, FinWaitExpired(p) PROVE G
  BY <1>20 DEF FinWaitExpired, Remember, Goto, fsVars, lockVars, kernVars,
     supVars
<1>21. ASSUME NEW p \in Cli, CliTearKill(p) PROVE G
  BY <1>21 DEF CliTearKill, TearKill, Goto, fsVars, lockVars, supVars
<1>22. ASSUME NEW p \in Cli, CliTearRelease(p) PROVE G
  BY <1>22 DEF CliTearRelease, TearRelease, Goto, fsVars, lockVars, supVars
<1>23. ASSUME NEW p \in Cli, CliTearSave(p) PROVE G
  BY <1>23 DEF CliTearSave, Remember, Save, Goto, lockVars, Unlock,
     StopReturns, Finish, kernVars, supVars
<1>24. ASSUME NEW p \in Cli, WaitAct(p) PROVE G
  BY <1>24 DEF WaitAct, Acting, Goto, lockVars, Finish, Unlock, fsVars,
     kernVars, supVars
<1>25. ASSUME NEW p \in Cli, WaitTimeout(p) PROVE G
  BY <1>25 DEF WaitTimeout, Acting, Refuse, Finish, Goto, Unlock, fsVars,
     kernVars, supVars
<1>26. ASSUME NEW p \in Cli, NEW o \in Keeping, Begin(p, o) PROVE G
  BY <1>26 DEF Begin, Remember, Goto, fsVars, lockVars, kernVars, supVars
<1>27. ASSUME NEW s \in Sup, SupLoad(s) PROVE G
  BY <1>27 DEF SupLoad, SupGoto, Notify, SupRemember, fsVars, lockVars,
     kernVars, cliVars
<1>28. ASSUME NEW s \in Sup, LaunchCgroup(s) PROVE G
  BY <1>28 DEF LaunchCgroup, SupGoto, fsVars, lockVars, cliVars
<1>29. ASSUME NEW s \in Sup, LaunchClone(s) PROVE G
  BY <1>29 DEF LaunchClone, SupRemember, SupGoto, fsVars, lockVars, cliVars
<1>30. ASSUME NEW s \in Sup, LaunchNet(s) PROVE G
  BY <1>30 DEF LaunchNet, SupGoto, fsVars, lockVars, cliVars
<1>31. ASSUME NEW s \in Sup, LaunchRunning(s) PROVE G
  BY <1>31 DEF LaunchRunning, SupRemember, Save, SupGoto, lockVars, kernVars,
     cliVars
<1>32. ASSUME NEW s \in Sup, LaunchFail(s) PROVE G
  BY <1>32 DEF LaunchFail, SupGoto, fsVars, lockVars, cliVars, Progress,
     Before
<1>33. ASSUME NEW s \in Sup, LaunchFailed(s) PROVE G
  BY <1>33 DEF LaunchFailed, RemoveDir, SupRemember, Save, Notify, SupGoto,
     lockVars, kernVars, cliVars
<1>34. ASSUME NEW s \in Sup, ShimSave(s) PROVE G
  BY <1>34 DEF ShimSave, SupRemember, Save, Notify, SupGoto, lockVars,
     kernVars, cliVars
<1>35. ASSUME NEW s \in Sup, SupReap(s) PROVE G
  BY <1>35 DEF SupReap, SupRemember, SupGoto, fsVars, lockVars, cliVars
<1>36. ASSUME NEW s \in Sup, SupSaveExit(s) PROVE G
  BY <1>36 DEF SupSaveExit, Save, SupGoto, lockVars, kernVars, cliVars
<1>37. ASSUME NEW s \in Sup, SupTearKill(s) PROVE G
  BY <1>37 DEF SupTearKill, TearKill, SupGoto, fsVars, lockVars, cliVars
<1>38. ASSUME NEW s \in Sup, SupTearRelease(s) PROVE G
  BY <1>38 DEF SupTearRelease, TearRelease, SupGoto, fsVars, lockVars,
     cliVars
<1>39. ASSUME NEW s \in Sup, SupTearSave(s) PROVE G
  BY <1>39 DEF SupTearSave, Save, SupGoto, lockVars, kernVars, cliVars
<1>40. ASSUME NEW s \in Sup, SupCrash(s) PROVE G
  BY <1>40 DEF SupCrash, SupGoto, Finish, Goto, Unlock, lockVars, fsVars,
     SupRunning, Shape, Progress, Launching, Before, Tearing, SupPc
<1>41. ASSUME NEW s \in Sup, InitExit(s) PROVE G
  BY <1>41 DEF InitExit, fsVars, lockVars, cliVars, supVars
<1>42. ASSUME NEW s \in Sup, InitKilled(s) PROVE G
  BY <1>42 DEF InitKilled, fsVars, lockVars, cliVars, supVars
<1>43. ASSUME NEW s \in Sup, InitReaped(s) PROVE G
  BY <1>43 DEF InitReaped, fsVars, lockVars, cliVars, supVars
<1>44. CASE UNCHANGED vars
  BY <1>44 DEF vars, fsVars, lockVars, kernVars, cliVars, supVars
<1> QED
  BY <1>1, <1>2, <1>3, <1>4, <1>5, <1>6, <1>7, <1>8, <1>9, <1>10, <1>11,
     <1>12, <1>13, <1>14, <1>15, <1>16, <1>17, <1>18, <1>19, <1>20, <1>21,
     <1>22, <1>23, <1>24, <1>25, <1>26, <1>27, <1>28, <1>29, <1>30, <1>31,
     <1>32, <1>33, <1>34, <1>35, <1>36, <1>37, <1>38, <1>39, <1>40, <1>41,
     <1>42, <1>43, <1>44 DEF KeepingStep


LEMMA EndedStays ==
  ASSUME TypeControl, TypeKernel, TypeRecords, Known, Shape, Lock, Progress, Launching, Records, Sync,
         KeepingStep \/ UNCHANGED vars, ~Fresh
  PROVE  /\ ~Fresh'
         /\ AllDead => AllDead'
         /\ \A t \in Sup : Launched(t)' <=> Launched(t)
<1>1. ~Fresh'
  BY FreshStep
<1>2. \A t \in Sup : supPc[t] # "clone"
  BY DEF Launching, Before
<1> QED
  BY <1>1, <1>2, DeadStep DEF AllDead, Alive

(* Under a launch that has not ended nothing else is launched.             *)
LEMMA FreshMeansAlone ==
  ASSUME Shape, Lock, Progress, Launching, Fresh, NEW t \in Sup, Launched(t)
  PROVE  supPc[t] \in Before
  BY DEF Launching, Progress, Launched

LEMMA OneLaunchStep ==
  ASSUME TypeControl, TypeKernel, TypeRecords, Known, Shape, Lock, Progress, Launching, OneLaunch,
         Records, Sync, KeepingStep \/ UNCHANGED vars
  PROVE  OneLaunch'
<1>1. CASE ~Fresh
  BY <1>1, EndedStays DEF OneLaunch
<1>2. CASE Fresh
  <2>1. \A t \in Sup : Launched(t)' => supPc[t] \in Before
    BY <1>2, DeadStep, FreshMeansAlone DEF Before
  <2> QED
    BY <2>1, OneUnderWay DEF OneLaunch
<1> QED
  BY <1>1, <1>2

(* With one init, a dead one means that all are dead.                      *)
LEMMA DeadInitMeansAllDead ==
  ASSUME OneLaunch, NEW s \in Sup, Launched(s), s \notin Alive
  PROVE  AllDead
  BY DEF OneLaunch, AllDead, Alive, Launched

LEMMA LaunchingStep ==
  ASSUME TypeControl, TypeKernel, TypeRecords, Known, Shape, Lock, Progress, Launching, Records, Sync,
         KeepingStep \/ UNCHANGED vars
  PROVE  Launching'
<1> DEFINE Left(t) == \/ supPc[t] \in Before \cup {"off"}
                      \/ supPc[t] = "dead" /\ (init[t] # "none" => DiedLaunching(t))
           H == \A t \in Sup : /\ supPc'[t] \in Before => supPc[t] \in Before \/ Fresh'
                               /\ Fresh' /\ Left(t) => Left(t)'
<1>a. /\ Fresh' => Fresh
      /\ Fresh' => \A t \in Sup : supPc[t] \in Before => supPc'[t] \in Before \cup {"dead"}
      /\ Fresh /\ ~Fresh' => \E t \in Sup : supPc[t] \in Before /\ supPc'[t] \notin Before
  BY FreshStep
<1>b. H => Launching'
  <2> SUFFICES ASSUME H, NEW t \in Sup
               PROVE  (supPc'[t] \in Before => Fresh') /\ (Fresh' => Left(t)')
    BY DEF Launching
  <2>1. ASSUME supPc'[t] \in Before, ~Fresh' PROVE FALSE
    <3>1. supPc[t] \in Before /\ Fresh
      BY <2>1 DEF Launching
    <3>2. PICK u \in Sup : supPc[u] \in Before /\ supPc'[u] \notin Before
      BY <1>a, <2>1, <3>1
    <3> QED
      BY <2>1, <3>1, <3>2, OneUnderWay
  <2>2. ASSUME Fresh' PROVE Left(t)'
    BY <1>a, <2>2 DEF Launching
  <2> QED
    BY <2>1, <2>2
<1>c. H
  <2> USE DEF TypeControl, TypeKernel, Before, DiedLaunching, Cli
  <2>1. ASSUME NEW p \in Cli, LockOpen(p) PROVE H
    BY <2>1 DEF LockOpen, Goto, kernVars, supVars
  <2>2. ASSUME NEW p \in Cli, LockAcquire(p) PROVE H
    BY <2>2 DEF LockAcquire, Goto, fsVars, kernVars, supVars
  <2>3. ASSUME NEW p \in Cli, Load(p) PROVE H
    BY <2>3 DEF Load, Finish, Goto, Unlock, Remember, lockVars, fsVars,
       kernVars, supVars
  <2>4. ASSUME NEW p \in Cli, Reconcile(p) PROVE H
    BY <2>4 DEF Reconcile, Remember, Save, Goto, lockVars, kernVars, supVars
  <2>5. ASSUME NEW p \in Cli, SaveMem(p) PROVE H
    BY <2>5 DEF SaveMem, Save, Finish, Goto, Unlock, kernVars, supVars
  <2>6. ASSUME NEW p \in Cli, StartAct(p) PROVE H
    <3>1. mem[p].status = "Created" => Fresh
      BY <2>6 DEF StartAct, Acting, Shape, Lock, Section, Sync, Current
    <3> QED
      BY <2>6, <3>1 DEF Fresh, StartAct, Acting, ForkShim, Goto, fsVars, lockVars,
         kernVars, Refuse, Finish, Unlock, supVars
  <2>7. ASSUME NEW p \in Cli, Notified(p) PROVE H
    BY <2>7 DEF Notified, Goto, lockVars, Finish, Unlock, fsVars, kernVars,
       supVars
  <2>8. ASSUME NEW p \in Cli, StartReload(p) PROVE H
    BY <2>8 DEF StartReload, Finish, Goto, Unlock, Remember, lockVars, fsVars,
       kernVars, supVars
  <2>9. ASSUME NEW p \in Cli, KillAct(p) PROVE H
    BY <2>9 DEF KillAct, Refuse, Finish, Goto, Unlock, fsVars, kernVars,
       supVars, ThawFor, KillAll, Remember, lockVars, SendKill
  <2>10. ASSUME NEW p \in Cli, PauseAct(p) PROVE H
    BY <2>10 DEF PauseAct, Acting, Refuse, Finish, Goto, Unlock, fsVars,
       kernVars, supVars, Remember, lockVars
  <2>11. ASSUME NEW p \in Cli, UnpauseAct(p) PROVE H
    BY <2>11 DEF UnpauseAct, Acting, Refuse, Finish, Goto, Unlock, fsVars,
       kernVars, supVars, Remember, lockVars
  <2>12. ASSUME NEW p \in Cli, StopAct(p) PROVE H
    BY <2>12 DEF StopAct, StopReturns, Goto, Unlock, Finish, ThawFor, Remember,
       Save, lockVars, supVars
  <2>13. ASSUME NEW p \in Cli, SigTerm(p) PROVE H
    BY <2>13 DEF SigTerm, Unlock, Goto, fsVars, supVars
  <2>14. ASSUME NEW p \in Cli, PollDead(p) PROVE H
    BY <2>14 DEF PollDead, GiveUp, Finish, Goto, Unlock, fsVars, kernVars,
       supVars, LockFor, lockVars
  <2>15. ASSUME NEW p \in Cli, PollDeadline(p) PROVE H
    BY <2>15 DEF PollDeadline, LockFor, Goto, fsVars, lockVars, kernVars,
       supVars
  <2>16. ASSUME NEW p \in Cli, StopKill(p) PROVE H
    BY <2>16 DEF StopKill, KillAll, SendKill, Unlock, Goto, fsVars, supVars
  <2>17. ASSUME NEW p \in Cli, PollKilled(p) PROVE H
    BY <2>17 DEF PollKilled, GiveUp, Finish, Goto, Unlock, fsVars, kernVars,
       supVars, LockFor, lockVars
  <2>18. ASSUME NEW p \in Cli, FinalizeAct(p) PROVE H
    BY <2>18 DEF FinalizeAct, GiveUp, Finish, Goto, Unlock, fsVars, kernVars,
       supVars, lockVars
  <2>19. ASSUME NEW p \in Cli, FinWaitSeen(p) PROVE H
    BY <2>19 DEF FinWaitSeen, GiveUp, Finish, Goto, Unlock, fsVars, kernVars,
       supVars, Remember, StopReturns
  <2>20. ASSUME NEW p \in Cli, FinWaitExpired(p) PROVE H
    BY <2>20 DEF FinWaitExpired, Remember, Goto, fsVars, lockVars, kernVars,
       supVars
  <2>21. ASSUME NEW p \in Cli, CliTearKill(p) PROVE H
    BY <2>21 DEF CliTearKill, TearKill, Goto, fsVars, lockVars, supVars
  <2>22. ASSUME NEW p \in Cli, CliTearRelease(p) PROVE H
    BY <2>22 DEF CliTearRelease, TearRelease, Goto, fsVars, lockVars, supVars
  <2>23. ASSUME NEW p \in Cli, CliTearSave(p) PROVE H
    BY <2>23 DEF CliTearSave, Remember, Save, Goto, lockVars, Unlock,
       StopReturns, Finish, kernVars, supVars
  <2>24. ASSUME NEW p \in Cli, WaitAct(p) PROVE H
    BY <2>24 DEF WaitAct, Acting, Goto, lockVars, Finish, Unlock, fsVars,
       kernVars, supVars
  <2>25. ASSUME NEW p \in Cli, WaitTimeout(p) PROVE H
    BY <2>25 DEF WaitTimeout, Acting, Refuse, Finish, Goto, Unlock, fsVars,
       kernVars, supVars
  <2>26. ASSUME NEW p \in Cli, NEW o \in Keeping, Begin(p, o) PROVE H
    BY <2>26 DEF Begin, Remember, Goto, fsVars, lockVars, kernVars, supVars
  <2>27. ASSUME NEW s \in Sup, SupLoad(s) PROVE H
    BY <2>27, <1>a DEF SupLoad, SupGoto, Notify, SupRemember, fsVars, lockVars,
       kernVars, cliVars, Records, TypeRecords
  <2>28. ASSUME NEW s \in Sup, LaunchCgroup(s) PROVE H
    BY <2>28 DEF LaunchCgroup, SupGoto, fsVars, lockVars, cliVars
  <2>29. ASSUME NEW s \in Sup, LaunchClone(s) PROVE H
    BY <2>29 DEF LaunchClone, SupRemember, SupGoto, fsVars, lockVars, cliVars
  <2>30. ASSUME NEW s \in Sup, LaunchNet(s) PROVE H
    BY <2>30 DEF LaunchNet, SupGoto, fsVars, lockVars, cliVars
  <2>31. ASSUME NEW s \in Sup, LaunchRunning(s) PROVE H
    BY <2>31, <1>a DEF LaunchRunning, SupRemember, Save, SupGoto, lockVars,
       kernVars, cliVars
  <2>32. ASSUME NEW s \in Sup, LaunchFail(s) PROVE H
    BY <2>32 DEF LaunchFail, SupGoto, fsVars, lockVars, cliVars, Progress
  <2>33. ASSUME NEW s \in Sup, LaunchFailed(s) PROVE H
    BY <2>33, <1>a DEF LaunchFailed, RemoveDir, SupRemember, Save, Notify,
       SupGoto, lockVars, kernVars, cliVars
  <2>34. ASSUME NEW s \in Sup, ShimSave(s) PROVE H
    BY <2>34 DEF ShimSave, SupRemember, Save, Notify, SupGoto, lockVars,
       kernVars, cliVars
  <2>35. ASSUME NEW s \in Sup, SupReap(s) PROVE H
    BY <2>35 DEF SupReap, SupRemember, SupGoto, fsVars, lockVars, cliVars
  <2>36. ASSUME NEW s \in Sup, SupSaveExit(s) PROVE H
    BY <2>36 DEF SupSaveExit, Save, SupGoto, lockVars, kernVars, cliVars
  <2>37. ASSUME NEW s \in Sup, SupTearKill(s) PROVE H
    BY <2>37 DEF SupTearKill, TearKill, SupGoto, fsVars, lockVars, cliVars
  <2>38. ASSUME NEW s \in Sup, SupTearRelease(s) PROVE H
    BY <2>38 DEF SupTearRelease, TearRelease, SupGoto, fsVars, lockVars,
       cliVars
  <2>39. ASSUME NEW s \in Sup, SupTearSave(s) PROVE H
    BY <2>39 DEF SupTearSave, Save, SupGoto, lockVars, kernVars, cliVars
  <2>40. ASSUME NEW s \in Sup, SupCrash(s) PROVE H
    BY <2>40 DEF SupCrash, SupGoto, Finish, Goto, Unlock, lockVars, fsVars,
       SupRunning, Shape, Progress, Tearing, SupPc
  <2>41. ASSUME NEW s \in Sup, InitExit(s) PROVE H
    BY <2>41 DEF InitExit, fsVars, lockVars, cliVars, supVars
  <2>42. ASSUME NEW s \in Sup, InitKilled(s) PROVE H
    BY <2>42 DEF InitKilled, fsVars, lockVars, cliVars, supVars
  <2>43. ASSUME NEW s \in Sup, InitReaped(s) PROVE H
    BY <2>43 DEF InitReaped, fsVars, lockVars, cliVars, supVars
  <2>44. CASE UNCHANGED vars
    BY <2>44 DEF vars, fsVars, lockVars, kernVars, cliVars, supVars
  <2> QED
    BY <2>1, <2>2, <2>3, <2>4, <2>5, <2>6, <2>7, <2>8, <2>9, <2>10, <2>11,
       <2>12, <2>13, <2>14, <2>15, <2>16, <2>17, <2>18, <2>19, <2>20, <2>21,
       <2>22, <2>23, <2>24, <2>25, <2>26, <2>27, <2>28, <2>29, <2>30, <2>31,
       <2>32, <2>33, <2>34, <2>35, <2>36, <2>37, <2>38, <2>39, <2>40, <2>41,
       <2>42, <2>43, <2>44 DEF KeepingStep
<1> QED
  BY <1>b, <1>c


(* A record that is right stays right: nothing it says can become false.   *)
LEMMA SoundStays ==
  ASSUME TypeControl, TypeKernel, TypeRecords, Known, Shape, Lock, Progress, Launching, Records, Sync,
         KeepingStep \/ UNCHANGED vars
  PROVE  \A st \in State : Sound(st) => Sound(st)'
<1> SUFFICES ASSUME NEW st \in State, Sound(st) PROVE Sound(st)'
  OBVIOUS
<1>1. CASE Fresh
  <2>1. st.status = "Created"
    BY <1>1 DEF Sound
  <2> QED
    BY <2>1 DEF Sound, is_live
<1>2. CASE ~Fresh
  BY <1>2, EndedStays DEF Sound
<1> QED
  BY <1>1, <1>2

(* Changing a live record into another live one, or into Stopped when      *)
(* everything is dead, keeps it right.                                     *)
LEMMA StillSound ==
  ASSUME NEW st \in State, NEW new \in State, Sound(st), new.pid = st.pid, st.status # "Created",
         \/ new.status = st.status
         \/ is_live(st.status) /\ is_live(new.status) /\ (new.status = "Paused" => HasCgroup)
         \/ AllDead /\ new.status = "Stopped"
  PROVE  Sound(new)
  BY DEF Sound, is_live, State, Status

LEMMA DeadRecordMeansAllDead ==
  ASSUME OneLaunch, NEW st \in State, Sound(st), st.status # "Created", ~init_is_alive(st)
  PROVE  AllDead
<1>1. CASE is_live(st.status)
  BY <1>1, DeadInitMeansAllDead DEF Sound, init_is_alive
<1>2. CASE ~is_live(st.status)
  BY <1>2 DEF Sound, is_live, State, Status
<1> QED
  BY <1>1, <1>2

LEMMA RecordsKept ==
  ASSUME TypeControl, TypeKernel, TypeRecords, Known, Shape, Lock, Progress, Launching, OneLaunch,
         Records, Sync, Populated, KeepingStep \/ UNCHANGED vars
  PROVE  Records'
<1> DEFINE New == \A st \in State : InUse(st)' => Sound(st) \/ Sound(st)'
<1>a. New => Records'
  BY FreshStep, SoundStays DEF Records
<1>b. New
  <2> USE DEF InUse, TypeControl, TypeRecords, Cli
  <2>1. ASSUME NEW p \in Cli, LockOpen(p) PROVE New
    BY <2>1, NoneAssumption DEF LockOpen, Goto, kernVars, supVars, Records
  <2>2. ASSUME NEW p \in Cli, LockAcquire(p) PROVE New
    BY <2>2, NoneAssumption DEF LockAcquire, Goto, fsVars, kernVars, supVars,
       Records
  <2>3. ASSUME NEW p \in Cli, Load(p) PROVE New
    BY <2>3, NoneAssumption DEF Load, Finish, Goto, Unlock, Remember, lockVars,
       fsVars, kernVars, supVars, Records
  <2>4. ASSUME NEW p \in Cli, Reconcile(p) PROVE New
    <3>1. mem[p] \in State /\ Sound(mem[p])
      BY <2>4, NoneAssumption DEF Reconcile, Acting, Known, Using, Records
    <3> DEFINE new == mark_stopped(mem[p])
    <3>2. new \in State /\ new.pid = mem[p].pid /\ new.status = "Stopped"
      BY <3>1, StoppingKeeps
    <3>9. is_live(mem[p].status) /\ ~init_is_alive(mem[p]) => Sound(new)
      <4> SUFFICES ASSUME is_live(mem[p].status), ~init_is_alive(mem[p]) PROVE Sound(new)
        OBVIOUS
      <4> HIDE DEF new
      <4>1. mem[p].status # "Created"
        BY DEF is_live
      <4>2. AllDead
        BY <3>1, <4>1, DeadRecordMeansAllDead
      <4> QED
        BY <3>1, <3>2, <4>1, <4>2, StillSound
    <3> QED
      BY <2>4, <3>1, <3>9, NoneAssumption DEF Records, Reconcile, Remember, Save,
         Goto, lockVars, kernVars, supVars
  <2>5. ASSUME NEW p \in Cli, SaveMem(p) PROVE New
    BY <2>5, NoneAssumption DEF SaveMem, Save, Finish, Goto, Unlock, kernVars,
       supVars, Records, Known, Using
  <2>6. ASSUME NEW p \in Cli, StartAct(p) PROVE New
    BY <2>6, NoneAssumption DEF StartAct, Acting, ForkShim, Goto, fsVars,
       lockVars, kernVars, Refuse, Finish, Unlock, supVars, Records
  <2>7. ASSUME NEW p \in Cli, Notified(p) PROVE New
    BY <2>7, NoneAssumption DEF Notified, Goto, lockVars, Finish, Unlock,
       fsVars, kernVars, supVars, Records
  <2>8. ASSUME NEW p \in Cli, StartReload(p) PROVE New
    <3>1. file \in State /\ Sound(file) /\ file.status # "Created"
      BY <2>8 DEF StartReload, Records, Sync, Ended, Fresh
    <3> DEFINE new == [file EXCEPT !.shim = p]
    <3>2. new \in State /\ new.pid = file.pid /\ new.status = file.status
      BY <3>1, FieldsKeep
    <3>9. Sound(new)
      <4> HIDE DEF new
      <4> QED
        BY <3>1, <3>2, StillSound
    <3> QED
      BY <2>8, <3>1, <3>9, NoneAssumption DEF Records, StartReload, Finish, Goto,
         Unlock, Remember, lockVars, fsVars, kernVars, supVars
  <2>9. ASSUME NEW p \in Cli, KillAct(p) PROVE New
    <3>1. mem[p] \in State /\ Sound(mem[p])
      BY <2>9, NoneAssumption DEF KillAct, Acting, Known, Using, Records
    <3> DEFINE new == Thawed(mem[p])
    <3>2. new \in State /\ new.pid = mem[p].pid
          /\ (is_live(mem[p].status) => new.status \in {"Running", "Stopping"})
      BY <3>1, ThawedKeeps DEF is_live
    <3>9. is_live(mem[p].status) => Sound(new)
      <4> HIDE DEF new
      <4> QED
        BY <3>1, <3>2, StillSound DEF is_live
    <3> QED
      BY <2>9, <3>1, <3>9, NoneAssumption DEF Records, KillAct, Refuse, Finish,
         Goto, Unlock, fsVars, kernVars, supVars, ThawFor, KillAll, Remember,
         lockVars, SendKill
  <2>10. ASSUME NEW p \in Cli, PauseAct(p) PROVE New
    <3>1. mem[p] \in State /\ Sound(mem[p])
      BY <2>10, NoneAssumption DEF PauseAct, Acting, Known, Using, Records
    <3> DEFINE new == transition(mem[p], "Paused")
    <3>2. new \in State /\ new.pid = mem[p].pid
          /\ (mem[p].status \in {"Running", "Paused"} => new.status \in {"Running", "Paused"})
      BY <3>1, TransitionKeeps DEF Status
    <3>9. mem[p].status \in {"Running", "Paused"} /\ CgroupExists => Sound(new)
      <4> HIDE DEF new
      <4> QED
        BY <3>1, <3>2, StillSound DEF is_live, Populated
    <3> QED
      BY <2>10, <3>1, <3>9, NoneAssumption DEF Records, PauseAct, Acting, Refuse,
         Finish, Goto, Unlock, fsVars, kernVars, supVars, Remember, lockVars
  <2>11. ASSUME NEW p \in Cli, UnpauseAct(p) PROVE New
    <3>1. mem[p] \in State /\ Sound(mem[p])
      BY <2>11, NoneAssumption DEF UnpauseAct, Acting, Known, Using, Records
    <3> DEFINE new == transition(mem[p], "Running")
    <3>2. new \in State /\ new.pid = mem[p].pid
          /\ (mem[p].status \in {"Running", "Paused"} => new.status \in {"Running", "Paused"})
      BY <3>1, TransitionKeeps DEF Status
    <3>9. mem[p].status \in {"Running", "Paused"} /\ CgroupExists => Sound(new)
      <4> HIDE DEF new
      <4> QED
        BY <3>1, <3>2, StillSound DEF is_live, Populated
    <3> QED
      BY <2>11, <3>1, <3>9, NoneAssumption DEF Records, UnpauseAct, Acting, Refuse,
         Finish, Goto, Unlock, fsVars, kernVars, supVars, Remember, lockVars
  <2>12. ASSUME NEW p \in Cli, StopAct(p) PROVE New
    <3>1. mem[p] \in State /\ Sound(mem[p])
      BY <2>12, NoneAssumption DEF StopAct, Acting, Known, Using, Records
    <3> DEFINE new == transition(Thawed(mem[p]), "Stopping")
    <3>2. Thawed(mem[p]) \in State /\ Thawed(mem[p]).pid = mem[p].pid
          /\ (is_live(mem[p].status) => Thawed(mem[p]).status \in {"Running", "Stopping"})
      BY <3>1, ThawedKeeps DEF is_live
    <3>3. new \in State /\ new.pid = mem[p].pid /\ (is_live(mem[p].status) => new.status = "Stopping")
      BY <3>2, TransitionKeeps DEF Status, can_transition_to
    <3>9. is_live(mem[p].status) => Sound(new)
      <4> HIDE DEF new
      <4> QED
        BY <3>1, <3>3, StillSound DEF is_live
    <3> QED
      BY <2>12, <3>1, <3>9, NoneAssumption DEF Records, StopAct, StopReturns, Goto,
         Unlock, Finish, ThawFor, Remember, Save, lockVars, supVars
  <2>13. ASSUME NEW p \in Cli, SigTerm(p) PROVE New
    BY <2>13, NoneAssumption DEF SigTerm, Unlock, Goto, fsVars, supVars,
       Records
  <2>14. ASSUME NEW p \in Cli, PollDead(p) PROVE New
    BY <2>14, NoneAssumption DEF PollDead, GiveUp, Finish, Goto, Unlock,
       fsVars, kernVars, supVars, LockFor, lockVars, Records
  <2>15. ASSUME NEW p \in Cli, PollDeadline(p) PROVE New
    BY <2>15, NoneAssumption DEF PollDeadline, LockFor, Goto, fsVars, lockVars,
       kernVars, supVars, Records
  <2>16. ASSUME NEW p \in Cli, StopKill(p) PROVE New
    BY <2>16, NoneAssumption DEF StopKill, KillAll, SendKill, Unlock, Goto,
       fsVars, supVars, Records
  <2>17. ASSUME NEW p \in Cli, PollKilled(p) PROVE New
    BY <2>17, NoneAssumption DEF PollKilled, GiveUp, Finish, Goto, Unlock,
       fsVars, kernVars, supVars, LockFor, lockVars, Records
  <2>18. ASSUME NEW p \in Cli, FinalizeAct(p) PROVE New
    BY <2>18, NoneAssumption DEF FinalizeAct, GiveUp, Finish, Goto, Unlock,
       fsVars, kernVars, supVars, lockVars, Records
  <2>19. ASSUME NEW p \in Cli, FinWaitSeen(p) PROVE New
    BY <2>19, NoneAssumption DEF FinWaitSeen, GiveUp, Finish, Goto, Unlock,
       fsVars, kernVars, supVars, Remember, StopReturns, Records
  <2>20. ASSUME NEW p \in Cli, FinWaitExpired(p) PROVE New
    BY <2>20, NoneAssumption DEF FinWaitExpired, Remember, Goto, fsVars,
       lockVars, kernVars, supVars, Records
  <2>21. ASSUME NEW p \in Cli, CliTearKill(p) PROVE New
    BY <2>21, NoneAssumption DEF CliTearKill, TearKill, Goto, fsVars, lockVars,
       supVars, Records
  <2>22. ASSUME NEW p \in Cli, CliTearRelease(p) PROVE New
    BY <2>22, NoneAssumption DEF CliTearRelease, TearRelease, Goto, fsVars,
       lockVars, supVars, Records
  <2>23. ASSUME NEW p \in Cli, CliTearSave(p) PROVE New
    <3>1. mem[p] \in State /\ Sound(mem[p])
      BY <2>23, NoneAssumption DEF CliTearSave, Acting, Known, Using, Records
    <3> DEFINE new == Torn(mem[p])
    <3>2. AllDead /\ mem[p].status # "Created"
      BY <2>23 DEF CliTearSave, Sync, Ended, Tearing
    <3>3. new \in State /\ new.pid = mem[p].pid /\ new.status \in {"Stopped", mem[p].status}
      BY <3>1, TornKeeps
    <3>9. Sound(new)
      <4> HIDE DEF new
      <4> QED
        BY <3>1, <3>2, <3>3, StillSound
    <3> QED
      BY <2>23, <3>1, <3>9, NoneAssumption DEF Records, CliTearSave, Remember,
         Save, Goto, lockVars, Unlock, StopReturns, Finish, kernVars, supVars
  <2>24. ASSUME NEW p \in Cli, WaitAct(p) PROVE New
    BY <2>24, NoneAssumption DEF WaitAct, Acting, Goto, lockVars, Finish,
       Unlock, fsVars, kernVars, supVars, Records
  <2>25. ASSUME NEW p \in Cli, WaitTimeout(p) PROVE New
    BY <2>25, NoneAssumption DEF WaitTimeout, Acting, Refuse, Finish, Goto,
       Unlock, fsVars, kernVars, supVars, Records
  <2>26. ASSUME NEW p \in Cli, NEW o \in Keeping, Begin(p, o) PROVE New
    BY <2>26, NoneAssumption DEF Begin, Remember, Goto, fsVars, lockVars,
       kernVars, supVars, Records
  <2>27. ASSUME NEW s \in Sup, SupLoad(s) PROVE New
    BY <2>27, NoneAssumption DEF SupLoad, SupGoto, Notify, SupRemember, fsVars,
       lockVars, kernVars, cliVars, Records
  <2>28. ASSUME NEW s \in Sup, LaunchCgroup(s) PROVE New
    BY <2>28, NoneAssumption DEF LaunchCgroup, SupGoto, fsVars, lockVars,
       cliVars, Records
  <2>29. ASSUME NEW s \in Sup, LaunchClone(s) PROVE New
    BY <2>29, NoneAssumption DEF LaunchClone, SupRemember, SupGoto, fsVars,
       lockVars, cliVars, Records
  <2>30. ASSUME NEW s \in Sup, LaunchNet(s) PROVE New
    BY <2>30, NoneAssumption DEF LaunchNet, SupGoto, fsVars, lockVars, cliVars,
       Records
  <2>31. ASSUME NEW s \in Sup, LaunchRunning(s) PROVE New
    <3>1. smem[s] \in State /\ smem[s].status = "Created" /\ smem[s].pid = s /\ init[s] # "none"
      BY <2>31, NoneAssumption DEF LaunchRunning, Known, SupUsing, SupPc, Progress, Before
    <3> DEFINE new == transition(smem[s], "Running")
    <3>2. new \in State /\ new.pid = s /\ new.status = "Running"
      BY <3>1, TransitionKeeps DEF Status, can_transition_to
    <3>3. Launched(s)' /\ ~Fresh'
      BY <2>31, <3>1, <3>2 DEF Launched, DiedLaunching, Fresh, LaunchRunning,
         SupRemember, Save, SupGoto, lockVars, kernVars, cliVars
    <3>4. PICK new0 \in State : new0 = new
      BY <3>2
    <3>5. Sound(new0)'
      BY <3>2, <3>3, <3>4 DEF Sound, is_live
    <3> QED
      BY <2>31, <3>4, <3>5 DEF Records, LaunchRunning, SupRemember, Save, SupGoto,
         lockVars, kernVars, cliVars
  <2>32. ASSUME NEW s \in Sup, LaunchFail(s) PROVE New
    BY <2>32, NoneAssumption DEF LaunchFail, SupGoto, fsVars, lockVars,
       cliVars, Records
  <2>33. ASSUME NEW s \in Sup, LaunchFailed(s) PROVE New
    <3>1. smem[s] \in State /\ smem[s].status = "Created" /\ ~Attached(s) /\ Fresh
          /\ ((smem[s].pid = s /\ init[s] = "gone") \/ (smem[s].pid = None /\ init[s] = "none"))
      BY <2>33, NoneAssumption DEF LaunchFailed, Known, SupUsing, SupPc, Progress, Launching, Before, Shape,
         Attached
    <3> DEFINE new == mark_stopped(smem[s])
    <3>2. new \in State /\ new.pid = smem[s].pid /\ new.status = "Stopped"
      BY <3>1, StoppingKeeps
    <3>3. ~Fresh' /\ (smem[s].pid = s => Launched(s)')
      BY <2>33, <3>1, <3>2, NoneAssumption DEF Launched, DiedLaunching, Fresh,
         LaunchFailed, RemoveDir, SupRemember, Save, Notify, SupGoto, lockVars,
         kernVars, cliVars
    <3>4. AllDead'
      <4>1. s \notin Alive
        BY <3>1 DEF Alive
      <4>2. \A t \in Alive : DiedLaunching(t)
        BY <2>33, <3>1, <4>1, FreshMeansAlone, OneUnderWay DEF LaunchFailed, Launched, Before, Alive
      <4> QED
        BY <2>33, <4>1, <4>2 DEF AllDead, Alive, DiedLaunching, LaunchFailed,
           RemoveDir, SupRemember, Save, Notify, SupGoto, lockVars, kernVars,
           cliVars
    <3>5. PICK new0 \in State : new0 = new
      BY <3>2
    <3>6. Sound(new0)'
      BY <3>1, <3>2, <3>3, <3>4, <3>5 DEF Sound, is_live
    <3> QED
      BY <2>33, <3>1, <3>5, <3>6 DEF Records, LaunchFailed, RemoveDir, SupRemember,
         Save, Notify, SupGoto, lockVars, kernVars, cliVars
  <2>34. ASSUME NEW s \in Sup, ShimSave(s) PROVE New
    <3>1. smem[s] \in State /\ smem[s].status = "Running" /\ smem[s].pid = s
      BY <2>34, NoneAssumption DEF ShimSave, Known, SupUsing, SupPc, Progress
    <3> DEFINE new == [smem[s] EXCEPT !.shim = s]
    <3>2. new \in State /\ new.pid = s /\ new.status = "Running"
      BY <3>1, FieldsKeep
    <3>3. Launched(s) /\ ~Fresh
      BY <2>34 DEF ShimSave, Launched, DiedLaunching, Progress, Launching, Before
    <3>9. Sound(new)
      <4> HIDE DEF new
      <4> QED
        BY <3>2, <3>3 DEF Sound, is_live
    <3> QED
      BY <2>34, <3>9 DEF Records, ShimSave, SupRemember, Save, Notify, SupGoto,
         lockVars, kernVars, cliVars
  <2>35. ASSUME NEW s \in Sup, SupReap(s) PROVE New
    BY <2>35, NoneAssumption DEF SupReap, SupRemember, SupGoto, fsVars,
       lockVars, cliVars, Records
  <2>36. ASSUME NEW s \in Sup, SupSaveExit(s) PROVE New
    <3>1. smem[s] \in State /\ smem[s].status = "Stopped" /\ smem[s].pid = s
      BY <2>36, NoneAssumption DEF SupSaveExit, Known, SupUsing, SupPc, Progress, Tearing
    <3>2. Launched(s) /\ s \notin Alive /\ ~Fresh
      BY <2>36 DEF SupSaveExit, Launched, DiedLaunching, Progress, Launching, Before, Tearing, Alive
    <3>3. AllDead
      BY <3>2, DeadInitMeansAllDead
    <3>9. Sound(smem[s])
      BY <3>1, <3>2, <3>3 DEF Sound, is_live
    <3> QED
      BY <2>36, <3>9 DEF Records, SupSaveExit, Save, SupGoto, lockVars, kernVars,
         cliVars
  <2>37. ASSUME NEW s \in Sup, SupTearKill(s) PROVE New
    BY <2>37, NoneAssumption DEF SupTearKill, TearKill, SupGoto, fsVars,
       lockVars, cliVars, Records
  <2>38. ASSUME NEW s \in Sup, SupTearRelease(s) PROVE New
    BY <2>38, NoneAssumption DEF SupTearRelease, TearRelease, SupGoto, fsVars,
       lockVars, cliVars, Records
  <2>39. ASSUME NEW s \in Sup, SupTearSave(s) PROVE New
    <3>1. smem[s] \in State /\ smem[s].status = "Stopped" /\ smem[s].pid = s
      BY <2>39, NoneAssumption DEF SupTearSave, Known, SupUsing, SupPc, Progress, Tearing
    <3>2. Launched(s) /\ s \notin Alive /\ ~Fresh
      BY <2>39 DEF SupTearSave, Launched, DiedLaunching, Progress, Launching, Before, Tearing, Alive
    <3>3. AllDead
      BY <3>2, DeadInitMeansAllDead
    <3>9. Sound(smem[s])
      BY <3>1, <3>2, <3>3 DEF Sound, is_live
    <3> QED
      BY <2>39, <3>9 DEF Records, SupTearSave, Save, SupGoto, lockVars, kernVars,
         cliVars
  <2>40. ASSUME NEW s \in Sup, SupCrash(s) PROVE New
    BY <2>40, NoneAssumption DEF SupCrash, SupGoto, Finish, Goto, Unlock,
       lockVars, fsVars, Records
  <2>41. ASSUME NEW s \in Sup, InitExit(s) PROVE New
    BY <2>41, NoneAssumption DEF InitExit, fsVars, lockVars, cliVars, supVars,
       Records
  <2>42. ASSUME NEW s \in Sup, InitKilled(s) PROVE New
    BY <2>42, NoneAssumption DEF InitKilled, fsVars, lockVars, cliVars,
       supVars, Records
  <2>43. ASSUME NEW s \in Sup, InitReaped(s) PROVE New
    BY <2>43, NoneAssumption DEF InitReaped, fsVars, lockVars, cliVars,
       supVars, Records
  <2>44. CASE UNCHANGED vars
    BY <2>44, NoneAssumption DEF vars, fsVars, lockVars, kernVars, cliVars,
       supVars, Records
  <2> QED
    BY <2>1, <2>2, <2>3, <2>4, <2>5, <2>6, <2>7, <2>8, <2>9, <2>10, <2>11,
       <2>12, <2>13, <2>14, <2>15, <2>16, <2>17, <2>18, <2>19, <2>20, <2>21,
       <2>22, <2>23, <2>24, <2>25, <2>26, <2>27, <2>28, <2>29, <2>30, <2>31,
       <2>32, <2>33, <2>34, <2>35, <2>36, <2>37, <2>38, <2>39, <2>40, <2>41,
       <2>42, <2>43, <2>44 DEF KeepingStep
<1> QED
  BY <1>a, <1>b


(* Who writes state.json: the holder of the lock, its launch, or somebody  *)
(* who has seen the container dead.                                        *)
LEMMA FileChanges ==
  ASSUME TypeControl, TypeKernel, TypeRecords, Known, Shape, Lock, Progress, Launching, OneLaunch,
         Records, Sync, KeepingStep \/ UNCHANGED vars
  PROVE  \/ file' = file
         \/ AllDead /\ ~Fresh
         \/ \E q \in holders : \/ pc[q] \in {"save", "act"} /\ pc'[q] \notin {"reconcile", "act"}
                               \/ /\ supPc[q] \in {"started", "failed", "shimSave"}
                                  /\ supPc'[q] # supPc[q]
<1> DEFINE G == \/ file' = file
                \/ AllDead /\ ~Fresh
                \/ \E q \in holders : \/ pc[q] \in {"save", "act"} /\ pc'[q] \notin {"reconcile", "act"}
                                      \/ /\ supPc[q] \in {"started", "failed", "shimSave"}
                                         /\ supPc'[q] # supPc[q]
<1> USE DEF TypeControl, TypeRecords, Cli
<1>1. ASSUME NEW p \in Cli, LockOpen(p) PROVE G
  BY <1>1 DEF LockOpen, Goto, kernVars, supVars
<1>2. ASSUME NEW p \in Cli, LockAcquire(p) PROVE G
  BY <1>2 DEF LockAcquire, Goto, fsVars, kernVars, supVars
<1>3. ASSUME NEW p \in Cli, Load(p) PROVE G
  BY <1>3 DEF Load, Finish, Goto, Unlock, Remember, lockVars, fsVars,
     kernVars, supVars
<1>4. ASSUME NEW p \in Cli, Reconcile(p) PROVE G
  <2>1. mem[p] \in State /\ Sound(mem[p])
    BY <1>4, NoneAssumption DEF Reconcile, Known, Using, Records, InUse
  <2>2. is_live(mem[p].status) /\ ~init_is_alive(mem[p]) => AllDead /\ ~Fresh
    BY <2>1, DeadRecordMeansAllDead DEF is_live, Sound
  <2> QED
    BY <1>4, <2>2 DEF Reconcile, Remember, Save, Goto, lockVars, kernVars,
       supVars
<1>5. ASSUME NEW p \in Cli, SaveMem(p) PROVE G
  BY <1>5 DEF SaveMem, Save, Finish, Goto, Unlock, kernVars, supVars, Shape,
     Lock, Section
<1>6. ASSUME NEW p \in Cli, StartAct(p) PROVE G
  BY <1>6 DEF StartAct, Acting, ForkShim, Goto, fsVars, lockVars, kernVars,
     Refuse, Finish, Unlock, supVars
<1>7. ASSUME NEW p \in Cli, Notified(p) PROVE G
  BY <1>7 DEF Notified, Goto, lockVars, Finish, Unlock, fsVars, kernVars,
     supVars
<1>8. ASSUME NEW p \in Cli, StartReload(p) PROVE G
  BY <1>8 DEF StartReload, Finish, Goto, Unlock, Remember, lockVars, fsVars,
     kernVars, supVars
<1>9. ASSUME NEW p \in Cli, KillAct(p) PROVE G
  BY <1>9 DEF KillAct, Refuse, Finish, Goto, Unlock, fsVars, kernVars,
     supVars, ThawFor, KillAll, Remember, lockVars, SendKill
<1>10. ASSUME NEW p \in Cli, PauseAct(p) PROVE G
  BY <1>10 DEF PauseAct, Acting, Refuse, Finish, Goto, Unlock, fsVars,
     kernVars, supVars, Remember, lockVars
<1>11. ASSUME NEW p \in Cli, UnpauseAct(p) PROVE G
  BY <1>11 DEF UnpauseAct, Acting, Refuse, Finish, Goto, Unlock, fsVars,
     kernVars, supVars, Remember, lockVars
<1>12. ASSUME NEW p \in Cli, StopAct(p) PROVE G
  BY <1>12 DEF StopAct, StopReturns, Goto, Unlock, Finish, ThawFor, Remember,
     Save, lockVars, supVars, Shape, Lock, Section
<1>13. ASSUME NEW p \in Cli, SigTerm(p) PROVE G
  BY <1>13 DEF SigTerm, Unlock, Goto, fsVars, supVars
<1>14. ASSUME NEW p \in Cli, PollDead(p) PROVE G
  BY <1>14 DEF PollDead, GiveUp, Finish, Goto, Unlock, fsVars, kernVars,
     supVars, LockFor, lockVars
<1>15. ASSUME NEW p \in Cli, PollDeadline(p) PROVE G
  BY <1>15 DEF PollDeadline, LockFor, Goto, fsVars, lockVars, kernVars,
     supVars
<1>16. ASSUME NEW p \in Cli, StopKill(p) PROVE G
  BY <1>16 DEF StopKill, KillAll, SendKill, Unlock, Goto, fsVars, supVars
<1>17. ASSUME NEW p \in Cli, PollKilled(p) PROVE G
  BY <1>17 DEF PollKilled, GiveUp, Finish, Goto, Unlock, fsVars, kernVars,
     supVars, LockFor, lockVars
<1>18. ASSUME NEW p \in Cli, FinalizeAct(p) PROVE G
  BY <1>18 DEF FinalizeAct, GiveUp, Finish, Goto, Unlock, fsVars, kernVars,
     supVars, lockVars
<1>19. ASSUME NEW p \in Cli, FinWaitSeen(p) PROVE G
  BY <1>19 DEF FinWaitSeen, GiveUp, Finish, Goto, Unlock, fsVars, kernVars,
     supVars, Remember, StopReturns
<1>20. ASSUME NEW p \in Cli, FinWaitExpired(p) PROVE G
  BY <1>20 DEF FinWaitExpired, Remember, Goto, fsVars, lockVars, kernVars,
     supVars
<1>21. ASSUME NEW p \in Cli, CliTearKill(p) PROVE G
  BY <1>21 DEF CliTearKill, TearKill, Goto, fsVars, lockVars, supVars
<1>22. ASSUME NEW p \in Cli, CliTearRelease(p) PROVE G
  BY <1>22 DEF CliTearRelease, TearRelease, Goto, fsVars, lockVars, supVars
<1>23. ASSUME NEW p \in Cli, CliTearSave(p) PROVE G
  BY <1>23 DEF CliTearSave, Sync, Ended, Tearing
<1>24. ASSUME NEW p \in Cli, WaitAct(p) PROVE G
  BY <1>24 DEF WaitAct, Acting, Goto, lockVars, Finish, Unlock, fsVars,
     kernVars, supVars
<1>25. ASSUME NEW p \in Cli, WaitTimeout(p) PROVE G
  BY <1>25 DEF WaitTimeout, Acting, Refuse, Finish, Goto, Unlock, fsVars,
     kernVars, supVars
<1>26. ASSUME NEW p \in Cli, NEW o \in Keeping, Begin(p, o) PROVE G
  BY <1>26 DEF Begin, Remember, Goto, fsVars, lockVars, kernVars, supVars
<1>27. ASSUME NEW s \in Sup, SupLoad(s) PROVE G
  BY <1>27 DEF SupLoad, SupGoto, Notify, SupRemember, fsVars, lockVars,
     kernVars, cliVars
<1>28. ASSUME NEW s \in Sup, LaunchCgroup(s) PROVE G
  BY <1>28 DEF LaunchCgroup, SupGoto, fsVars, lockVars, cliVars
<1>29. ASSUME NEW s \in Sup, LaunchClone(s) PROVE G
  BY <1>29 DEF LaunchClone, SupRemember, SupGoto, fsVars, lockVars, cliVars
<1>30. ASSUME NEW s \in Sup, LaunchNet(s) PROVE G
  BY <1>30 DEF LaunchNet, SupGoto, fsVars, lockVars, cliVars
<1>31. ASSUME NEW s \in Sup, LaunchRunning(s) PROVE G
  <2>1. s \in holders /\ ~Attached(s)
    BY <1>31, OneUnderWay DEF LaunchRunning, Before, Attached
  <2> QED
    BY <1>31, <2>1 DEF LaunchRunning, SupRemember, Save, SupGoto, lockVars,
       kernVars, cliVars
<1>32. ASSUME NEW s \in Sup, LaunchFail(s) PROVE G
  BY <1>32 DEF LaunchFail, SupGoto, fsVars, lockVars, cliVars
<1>33. ASSUME NEW s \in Sup, LaunchFailed(s) PROVE G
  <2>1. s \in holders /\ ~Attached(s)
    BY <1>33, OneUnderWay DEF LaunchFailed, Before, Attached
  <2> QED
    BY <1>33, <2>1 DEF LaunchFailed, RemoveDir, SupRemember, Save, Notify,
       SupGoto, lockVars, kernVars, cliVars
<1>34. ASSUME NEW s \in Sup, ShimSave(s) PROVE G
  <2>1. s \in holders /\ ~Attached(s)
    BY <1>34, OneUnderWay DEF ShimSave, Before, Attached
  <2> QED
    BY <1>34, <2>1 DEF ShimSave, SupRemember, Save, Notify, SupGoto, lockVars,
       kernVars, cliVars
<1>35. ASSUME NEW s \in Sup, SupReap(s) PROVE G
  BY <1>35 DEF SupReap, SupRemember, SupGoto, fsVars, lockVars, cliVars
<1>36. ASSUME NEW s \in Sup, SupSaveExit(s) PROVE G
  <2>1. Launched(s) /\ s \notin Alive /\ ~Fresh
    BY <1>36 DEF SupSaveExit, Launched, DiedLaunching, Progress, Launching, Before, Tearing, Alive
  <2> QED
    BY <2>1, DeadInitMeansAllDead
<1>37. ASSUME NEW s \in Sup, SupTearKill(s) PROVE G
  BY <1>37 DEF SupTearKill, TearKill, SupGoto, fsVars, lockVars, cliVars
<1>38. ASSUME NEW s \in Sup, SupTearRelease(s) PROVE G
  BY <1>38 DEF SupTearRelease, TearRelease, SupGoto, fsVars, lockVars,
     cliVars
<1>39. ASSUME NEW s \in Sup, SupTearSave(s) PROVE G
  <2>1. Launched(s) /\ s \notin Alive /\ ~Fresh
    BY <1>39 DEF SupTearSave, Launched, DiedLaunching, Progress, Launching, Before, Tearing, Alive
  <2> QED
    BY <2>1, DeadInitMeansAllDead
<1>40. ASSUME NEW s \in Sup, SupCrash(s) PROVE G
  BY <1>40 DEF SupCrash, SupGoto, Finish, Goto, Unlock, lockVars, fsVars
<1>41. ASSUME NEW s \in Sup, InitExit(s) PROVE G
  BY <1>41 DEF InitExit, fsVars, lockVars, cliVars, supVars
<1>42. ASSUME NEW s \in Sup, InitKilled(s) PROVE G
  BY <1>42 DEF InitKilled, fsVars, lockVars, cliVars, supVars
<1>43. ASSUME NEW s \in Sup, InitReaped(s) PROVE G
  BY <1>43 DEF InitReaped, fsVars, lockVars, cliVars, supVars
<1>44. CASE UNCHANGED vars
  BY <1>44 DEF vars, fsVars, lockVars, kernVars, cliVars, supVars
<1> QED
  BY <1>1, <1>2, <1>3, <1>4, <1>5, <1>6, <1>7, <1>8, <1>9, <1>10, <1>11,
     <1>12, <1>13, <1>14, <1>15, <1>16, <1>17, <1>18, <1>19, <1>20, <1>21,
     <1>22, <1>23, <1>24, <1>25, <1>26, <1>27, <1>28, <1>29, <1>30, <1>31,
     <1>32, <1>33, <1>34, <1>35, <1>36, <1>37, <1>38, <1>39, <1>40, <1>41,
     <1>42, <1>43, <1>44 DEF KeepingStep


LEMMA CurrentStep ==
  ASSUME TypeControl, TypeKernel, TypeRecords, Known, Shape, Lock, Progress, Launching, OneLaunch,
         Records, Sync, KeepingStep \/ UNCHANGED vars
  PROVE  Current'
<1> DEFINE Holding(q) == q \in holders /\ pc[q] \in {"reconcile", "act"}
           Loaded(q) == (AllDead \/ mem[q] = file) /\ (mem[q].status = "Created" => Fresh)
           K == \A q \in Cli : Holding(q)' => (Holding(q) /\ mem'[q] = mem[q]) \/ Loaded(q)'
<1>a. ASSUME NEW q \in Cli, Holding(q), Holding(q)', mem'[q] = mem[q] PROVE Loaded(q)'
  <2>1. Loaded(q)
    BY <1>a DEF Sync, Current
  <2>2. \A t \in Sup : supPc[t] \notin Before \cup {"shimSave"}
    BY <1>a, OneUnderWay
  <2>3. Fresh => Fresh'
    BY <2>2, FreshStep
  <2>4. AllDead => AllDead'
    BY <2>2, DeadStep DEF Before, AllDead, Alive
  <2>5. \A r \in holders : r = q
    BY <1>a DEF Lock
  <2>6. file' = file \/ (AllDead /\ ~Fresh)
    BY <1>a, <2>2, <2>5, FileChanges DEF Before, TypeKernel, Cli
  <2> QED
    BY <1>a, <2>1, <2>3, <2>4, <2>6
<1>b. K
  <2> HIDE DEF Loaded
  <2> USE DEF TypeControl, TypeKernel, TypeRecords, Shape, Cli
  <2>1. ASSUME NEW p \in Cli, LockOpen(p) PROVE K
    BY <2>1 DEF LockOpen, Goto, kernVars, supVars
  <2>2. ASSUME NEW p \in Cli, LockAcquire(p) PROVE K
    BY <2>2 DEF LockAcquire, Goto, fsVars, kernVars, supVars
  <2>3. ASSUME NEW p \in Cli, Load(p) PROVE K
    <3>1. Holding(p)' => Loaded(p)'
      BY <2>3 DEF Loaded, Records, Fresh, Load, Finish, Goto, Unlock, Remember,
         lockVars, fsVars, kernVars, supVars
    <3> QED
      BY <2>3, <3>1 DEF Load, Finish, Goto, Unlock, Remember, lockVars, fsVars,
         kernVars, supVars
  <2>4. ASSUME NEW p \in Cli, Reconcile(p) PROVE K
    <3>1. mem[p] \in State
      BY <2>4, NoneAssumption DEF Reconcile, Known, Using
    <3>2. mark_stopped(mem[p]).status = "Stopped"
      BY <3>1, StoppingKeeps
    <3>3. mem'[p] = mem[p] \/ Loaded(p)'
      BY <2>4, <3>2 DEF Loaded, Reconcile, Remember, Save, Goto, lockVars,
         kernVars, supVars
    <3> QED
      BY <2>4, <3>3 DEF Reconcile, Remember, Save, Goto, lockVars, kernVars,
         supVars
  <2>5. ASSUME NEW p \in Cli, SaveMem(p) PROVE K
    BY <2>5 DEF SaveMem, Save, Finish, Goto, Unlock, kernVars, supVars
  <2>6. ASSUME NEW p \in Cli, StartAct(p) PROVE K
    BY <2>6 DEF StartAct, Acting, ForkShim, Goto, fsVars, lockVars, kernVars,
       Refuse, Finish, Unlock, supVars
  <2>7. ASSUME NEW p \in Cli, Notified(p) PROVE K
    BY <2>7 DEF Notified, Goto, lockVars, Finish, Unlock, fsVars, kernVars,
       supVars
  <2>8. ASSUME NEW p \in Cli, StartReload(p) PROVE K
    BY <2>8 DEF StartReload, Finish, Goto, Unlock, Remember, lockVars, fsVars,
       kernVars, supVars
  <2>9. ASSUME NEW p \in Cli, KillAct(p) PROVE K
    BY <2>9 DEF KillAct, Refuse, Finish, Goto, Unlock, fsVars, kernVars,
       supVars, ThawFor, KillAll, Remember, lockVars, SendKill
  <2>10. ASSUME NEW p \in Cli, PauseAct(p) PROVE K
    BY <2>10 DEF PauseAct, Acting, Refuse, Finish, Goto, Unlock, fsVars,
       kernVars, supVars, Remember, lockVars
  <2>11. ASSUME NEW p \in Cli, UnpauseAct(p) PROVE K
    BY <2>11 DEF UnpauseAct, Acting, Refuse, Finish, Goto, Unlock, fsVars,
       kernVars, supVars, Remember, lockVars
  <2>12. ASSUME NEW p \in Cli, StopAct(p) PROVE K
    BY <2>12 DEF StopAct, StopReturns, Goto, Unlock, Finish, ThawFor, Remember,
       Save, lockVars, supVars
  <2>13. ASSUME NEW p \in Cli, SigTerm(p) PROVE K
    BY <2>13 DEF SigTerm, Unlock, Goto, fsVars, supVars
  <2>14. ASSUME NEW p \in Cli, PollDead(p) PROVE K
    BY <2>14 DEF PollDead, GiveUp, Finish, Goto, Unlock, fsVars, kernVars,
       supVars, LockFor, lockVars
  <2>15. ASSUME NEW p \in Cli, PollDeadline(p) PROVE K
    BY <2>15 DEF PollDeadline, LockFor, Goto, fsVars, lockVars, kernVars,
       supVars
  <2>16. ASSUME NEW p \in Cli, StopKill(p) PROVE K
    BY <2>16 DEF StopKill, KillAll, SendKill, Unlock, Goto, fsVars, supVars
  <2>17. ASSUME NEW p \in Cli, PollKilled(p) PROVE K
    BY <2>17 DEF PollKilled, GiveUp, Finish, Goto, Unlock, fsVars, kernVars,
       supVars, LockFor, lockVars
  <2>18. ASSUME NEW p \in Cli, FinalizeAct(p) PROVE K
    BY <2>18 DEF FinalizeAct, GiveUp, Finish, Goto, Unlock, fsVars, kernVars,
       supVars, lockVars
  <2>19. ASSUME NEW p \in Cli, FinWaitSeen(p) PROVE K
    BY <2>19 DEF FinWaitSeen, GiveUp, Finish, Goto, Unlock, fsVars, kernVars,
       supVars, Remember, StopReturns
  <2>20. ASSUME NEW p \in Cli, FinWaitExpired(p) PROVE K
    BY <2>20 DEF FinWaitExpired, Remember, Goto, fsVars, lockVars, kernVars,
       supVars
  <2>21. ASSUME NEW p \in Cli, CliTearKill(p) PROVE K
    BY <2>21 DEF CliTearKill, TearKill, Goto, fsVars, lockVars, supVars
  <2>22. ASSUME NEW p \in Cli, CliTearRelease(p) PROVE K
    BY <2>22 DEF CliTearRelease, TearRelease, Goto, fsVars, lockVars, supVars
  <2>23. ASSUME NEW p \in Cli, CliTearSave(p) PROVE K
    BY <2>23 DEF CliTearSave, Remember, Save, Goto, lockVars, Unlock,
       StopReturns, Finish, kernVars, supVars
  <2>24. ASSUME NEW p \in Cli, WaitAct(p) PROVE K
    BY <2>24 DEF WaitAct, Acting, Goto, lockVars, Finish, Unlock, fsVars,
       kernVars, supVars
  <2>25. ASSUME NEW p \in Cli, WaitTimeout(p) PROVE K
    BY <2>25 DEF WaitTimeout, Acting, Refuse, Finish, Goto, Unlock, fsVars,
       kernVars, supVars
  <2>26. ASSUME NEW p \in Cli, NEW o \in Keeping, Begin(p, o) PROVE K
    BY <2>26 DEF Begin, Remember, Goto, fsVars, lockVars, kernVars, supVars
  <2>27. ASSUME NEW s \in Sup, SupLoad(s) PROVE K
    BY <2>27 DEF SupLoad, SupGoto, Notify, SupRemember, fsVars, lockVars,
       kernVars, cliVars
  <2>28. ASSUME NEW s \in Sup, LaunchCgroup(s) PROVE K
    BY <2>28 DEF LaunchCgroup, SupGoto, fsVars, lockVars, cliVars
  <2>29. ASSUME NEW s \in Sup, LaunchClone(s) PROVE K
    BY <2>29 DEF LaunchClone, SupRemember, SupGoto, fsVars, lockVars, cliVars
  <2>30. ASSUME NEW s \in Sup, LaunchNet(s) PROVE K
    BY <2>30 DEF LaunchNet, SupGoto, fsVars, lockVars, cliVars
  <2>31. ASSUME NEW s \in Sup, LaunchRunning(s) PROVE K
    BY <2>31 DEF LaunchRunning, SupRemember, Save, SupGoto, lockVars, kernVars,
       cliVars
  <2>32. ASSUME NEW s \in Sup, LaunchFail(s) PROVE K
    BY <2>32 DEF LaunchFail, SupGoto, fsVars, lockVars, cliVars
  <2>33. ASSUME NEW s \in Sup, LaunchFailed(s) PROVE K
    BY <2>33 DEF LaunchFailed, RemoveDir, SupRemember, Save, Notify, SupGoto,
       lockVars, kernVars, cliVars
  <2>34. ASSUME NEW s \in Sup, ShimSave(s) PROVE K
    BY <2>34 DEF ShimSave, SupRemember, Save, Notify, SupGoto, lockVars,
       kernVars, cliVars
  <2>35. ASSUME NEW s \in Sup, SupReap(s) PROVE K
    BY <2>35 DEF SupReap, SupRemember, SupGoto, fsVars, lockVars, cliVars
  <2>36. ASSUME NEW s \in Sup, SupSaveExit(s) PROVE K
    BY <2>36 DEF SupSaveExit, Save, SupGoto, lockVars, kernVars, cliVars
  <2>37. ASSUME NEW s \in Sup, SupTearKill(s) PROVE K
    BY <2>37 DEF SupTearKill, TearKill, SupGoto, fsVars, lockVars, cliVars
  <2>38. ASSUME NEW s \in Sup, SupTearRelease(s) PROVE K
    BY <2>38 DEF SupTearRelease, TearRelease, SupGoto, fsVars, lockVars,
       cliVars
  <2>39. ASSUME NEW s \in Sup, SupTearSave(s) PROVE K
    BY <2>39 DEF SupTearSave, Save, SupGoto, lockVars, kernVars, cliVars
  <2>40. ASSUME NEW s \in Sup, SupCrash(s) PROVE K
    BY <2>40 DEF SupCrash, SupGoto, Finish, Goto, Unlock, lockVars, fsVars
  <2>41. ASSUME NEW s \in Sup, InitExit(s) PROVE K
    BY <2>41 DEF InitExit, fsVars, lockVars, cliVars, supVars
  <2>42. ASSUME NEW s \in Sup, InitKilled(s) PROVE K
    BY <2>42 DEF InitKilled, fsVars, lockVars, cliVars, supVars
  <2>43. ASSUME NEW s \in Sup, InitReaped(s) PROVE K
    BY <2>43 DEF InitReaped, fsVars, lockVars, cliVars, supVars
  <2>44. CASE UNCHANGED vars
    BY <2>44 DEF vars, fsVars, lockVars, kernVars, cliVars, supVars
  <2> QED
    BY <2>1, <2>2, <2>3, <2>4, <2>5, <2>6, <2>7, <2>8, <2>9, <2>10, <2>11,
       <2>12, <2>13, <2>14, <2>15, <2>16, <2>17, <2>18, <2>19, <2>20, <2>21,
       <2>22, <2>23, <2>24, <2>25, <2>26, <2>27, <2>28, <2>29, <2>30, <2>31,
       <2>32, <2>33, <2>34, <2>35, <2>36, <2>37, <2>38, <2>39, <2>40, <2>41,
       <2>42, <2>43, <2>44 DEF KeepingStep
<1> QED
  BY <1>a, <1>b DEF Current


LEMMA EndedStep ==
  ASSUME TypeControl, TypeKernel, TypeRecords, Known, Shape, Lock, Progress, Launching, OneLaunch,
         Records, Sync, KeepingStep \/ UNCHANGED vars
  PROVE  Ended'
<1>a. ~Fresh => ~Fresh' /\ (AllDead => AllDead')
  BY EndedStays
<1>0. Ended
  BY DEF Sync
<1> USE DEF Shape, TypeControl, TypeKernel, TypeRecords, Tearing, Cli
<1>1. ASSUME NEW p \in Cli, LockOpen(p) PROVE Ended'
  BY <1>1, <1>0, <1>a DEF LockOpen, Goto, kernVars, supVars, Ended
<1>2. ASSUME NEW p \in Cli, LockAcquire(p) PROVE Ended'
  BY <1>2, <1>0, <1>a DEF LockAcquire, Goto, fsVars, kernVars, supVars, Ended
<1>3. ASSUME NEW p \in Cli, Load(p) PROVE Ended'
  BY <1>3, <1>0, <1>a DEF Load, Finish, Goto, Unlock, Remember, lockVars,
     fsVars, kernVars, supVars, Ended, Fresh, Records
<1>4. ASSUME NEW p \in Cli, Reconcile(p) PROVE Ended'
  BY <1>4, <1>0, <1>a DEF Reconcile, Remember, Save, Goto, lockVars,
     kernVars, supVars, Ended, Keeping
<1>5. ASSUME NEW p \in Cli, SaveMem(p) PROVE Ended'
  BY <1>5, <1>0, <1>a DEF SaveMem, Save, Finish, Goto, Unlock, kernVars,
     supVars, Ended
<1>6. ASSUME NEW p \in Cli, StartAct(p) PROVE Ended'
  BY <1>6, <1>0, <1>a, BoundAssumption DEF StartAct, Acting, ForkShim, Goto,
     fsVars, lockVars, kernVars, Refuse, Finish, Unlock, supVars, Ended,
     Progress
<1>7. ASSUME NEW p \in Cli, Notified(p) PROVE Ended'
  BY <1>7, <1>0, <1>a DEF Notified, Goto, lockVars, Finish, Unlock, fsVars,
     kernVars, supVars, Ended
<1>8. ASSUME NEW p \in Cli, StartReload(p) PROVE Ended'
  <2>1. file \in State /\ file # None /\ ~Fresh
    BY <1>8, <1>0 DEF StartReload, Records, Ended
  <2>2. PICK new : new = [file EXCEPT !.shim = p]
    OBVIOUS
  <2>3. new.status # "Created"
    BY <2>1, <2>2, FieldsKeep DEF Fresh
  <2>4. /\ mem' = [mem EXCEPT ![p] = new] /\ pc' = [pc EXCEPT ![p] = "save"]
        /\ UNCHANGED <<op, site, out, verdict>>
    BY <1>8, <2>1, <2>2 DEF StartReload, Finish, Goto, Unlock, Remember,
       lockVars, fsVars, kernVars, supVars
  <2>5. pc[p] = "reload"
    BY <1>8, <1>0 DEF StartReload
  <2> HIDE DEF TypeRecords
  <2> QED
    BY <1>0, <1>a, <2>1, <2>3, <2>4, <2>5 DEF Ended, TypeRecords
<1>9. ASSUME NEW p \in Cli, KillAct(p) PROVE Ended'
  <2>1. mem[p] \in State /\ Sound(mem[p])
    BY <1>9, NoneAssumption DEF KillAct, Acting, Known, Using, Records, InUse
  <2>2. is_live(mem[p].status) => ~Fresh
    BY <2>1 DEF Sound, is_live
  <2>3. is_live(mem[p].status) => Thawed(mem[p]).status # "Created"
    BY <2>1, ThawedKeeps DEF is_live
  <2> QED
    BY <1>9, <1>0, <1>a, <2>2, <2>3, NoneAssumption DEF Ended, KillAct, Refuse,
       Finish, Goto, Unlock, fsVars, kernVars, supVars, ThawFor, KillAll,
       Remember, lockVars, SendKill
<1>10. ASSUME NEW p \in Cli, PauseAct(p) PROVE Ended'
  <2>1. mem[p] \in State /\ Sound(mem[p])
    BY <1>10, NoneAssumption DEF PauseAct, Acting, Known, Using, Records, InUse
  <2>2. mem[p].status \in {"Running", "Paused"} => ~Fresh
    BY <2>1 DEF Sound
  <2>3. mem[p].status \in {"Running", "Paused"} => transition(mem[p], "Paused").status # "Created"
    BY <2>1, TransitionKeeps DEF Status
  <2> QED
    BY <1>10, <1>0, <1>a, <2>2, <2>3, NoneAssumption DEF Ended, PauseAct, Acting,
       Refuse, Finish, Goto, Unlock, fsVars, kernVars, supVars, Remember,
       lockVars
<1>11. ASSUME NEW p \in Cli, UnpauseAct(p) PROVE Ended'
  <2>1. mem[p] \in State /\ Sound(mem[p])
    BY <1>11, NoneAssumption DEF UnpauseAct, Acting, Known, Using, Records, InUse
  <2>2. mem[p].status \in {"Running", "Paused"} => ~Fresh
    BY <2>1 DEF Sound
  <2>3. mem[p].status \in {"Running", "Paused"} => transition(mem[p], "Running").status # "Created"
    BY <2>1, TransitionKeeps DEF Status
  <2> QED
    BY <1>11, <1>0, <1>a, <2>2, <2>3, NoneAssumption DEF Ended, UnpauseAct, Acting,
       Refuse, Finish, Goto, Unlock, fsVars, kernVars, supVars, Remember,
       lockVars
<1>12. ASSUME NEW p \in Cli, StopAct(p) PROVE Ended'
  <2>1. mem[p] \in State /\ Sound(mem[p])
    BY <1>12, NoneAssumption DEF StopAct, Acting, Known, Using, Records, InUse
  <2>2. is_live(mem[p].status) => ~Fresh
    BY <2>1 DEF Sound, is_live
  <2> QED
    BY <1>12, <1>0, <1>a, <2>1, <2>2, NoneAssumption DEF Ended, StopAct, StopReturns,
       Goto, Unlock, Finish, ThawFor, Remember, Save, lockVars, supVars
<1>13. ASSUME NEW p \in Cli, SigTerm(p) PROVE Ended'
  BY <1>13, <1>0, <1>a DEF SigTerm, Unlock, Goto, fsVars, supVars, Ended
<1>14. ASSUME NEW p \in Cli, PollDead(p) PROVE Ended'
  BY <1>14, <1>0, <1>a DEF PollDead, GiveUp, Finish, Goto, Unlock, fsVars,
     kernVars, supVars, LockFor, lockVars, Ended
<1>15. ASSUME NEW p \in Cli, PollDeadline(p) PROVE Ended'
  BY <1>15, <1>0, <1>a DEF PollDeadline, LockFor, Goto, fsVars, lockVars,
     kernVars, supVars, Ended
<1>16. ASSUME NEW p \in Cli, StopKill(p) PROVE Ended'
  <2>1. mem[p] \in State /\ Sound(mem[p])
    BY <1>16, NoneAssumption DEF StopKill, Acting, Known, Using, Records, InUse
  <2>2. ~Fresh
    BY <1>16, <1>0, <2>1 DEF StopKill, Ended, Sound
  <2> QED
    BY <1>16, <1>0, <1>a, <2>2, NoneAssumption DEF Ended, StopKill, KillAll, SendKill,
       Unlock, Goto, fsVars, supVars
<1>17. ASSUME NEW p \in Cli, PollKilled(p) PROVE Ended'
  BY <1>17, <1>0, <1>a DEF PollKilled, GiveUp, Finish, Goto, Unlock, fsVars,
     kernVars, supVars, LockFor, lockVars, Ended
<1>18. ASSUME NEW p \in Cli, FinalizeAct(p) PROVE Ended'
  <2>1. mem[p] \in State /\ Sound(mem[p])
    BY <1>18, NoneAssumption DEF FinalizeAct, Acting, Known, Using, Records, InUse
  <2>2. mem[p].status # "Created" /\ ~Fresh
    BY <1>18, <1>0, <2>1 DEF FinalizeAct, Ended, Sound
  <2>3. ~init_is_alive(mem[p]) => AllDead
    BY <2>1, <2>2, DeadRecordMeansAllDead
  <2> QED
    BY <1>18, <1>0, <1>a, <2>2, <2>3, NoneAssumption DEF Ended, FinalizeAct, GiveUp,
       Finish, Goto, Unlock, fsVars, kernVars, supVars, lockVars
<1>19. ASSUME NEW p \in Cli, FinWaitSeen(p) PROVE Ended'
  BY <1>19, <1>0, <1>a DEF FinWaitSeen, GiveUp, Finish, Goto, Unlock, fsVars,
     kernVars, supVars, Remember, StopReturns, Ended, Fresh, Records, is_live
<1>20. ASSUME NEW p \in Cli, FinWaitExpired(p) PROVE Ended'
  BY <1>20, <1>0, <1>a DEF FinWaitExpired, Remember, Goto, fsVars, lockVars,
     kernVars, supVars, Ended, Fresh, Records
<1>21. ASSUME NEW p \in Cli, CliTearKill(p) PROVE Ended'
  BY <1>21, <1>0, <1>a DEF CliTearKill, TearKill, Goto, fsVars, lockVars,
     supVars, Ended
<1>22. ASSUME NEW p \in Cli, CliTearRelease(p) PROVE Ended'
  BY <1>22, <1>0, <1>a DEF CliTearRelease, TearRelease, Goto, fsVars,
     lockVars, supVars, Ended
<1>23. ASSUME NEW p \in Cli, CliTearSave(p) PROVE Ended'
  <2>1. mem[p] \in State /\ Sound(mem[p])
    BY <1>23, NoneAssumption DEF CliTearSave, Acting, Known, Using, Records, InUse
  <2>2. Torn(mem[p]) \in State /\ ~is_live(Torn(mem[p]).status)
    BY <2>1, TornKeeps DEF is_live
  <2> QED
    BY <1>23, <1>0, <1>a, <2>2, NoneAssumption DEF Ended, CliTearSave, Remember, Save,
       Goto, lockVars, Unlock, StopReturns, Finish, kernVars, supVars
<1>24. ASSUME NEW p \in Cli, WaitAct(p) PROVE Ended'
  <2>1. mem[p] \in State /\ Sound(mem[p])
    BY <1>24, NoneAssumption DEF WaitAct, Acting, Known, Using, Records, InUse
  <2> QED
    BY <1>24, <1>0, <1>a, <2>1, NoneAssumption DEF Ended, WaitAct, Acting, Goto,
       lockVars, Finish, Unlock, fsVars, kernVars, supVars
<1>25. ASSUME NEW p \in Cli, WaitTimeout(p) PROVE Ended'
  BY <1>25, <1>0, <1>a DEF WaitTimeout, Acting, Refuse, Finish, Goto, Unlock,
     fsVars, kernVars, supVars, Ended
<1>26. ASSUME NEW p \in Cli, NEW o \in Keeping, Begin(p, o) PROVE Ended'
  BY <1>26, <1>0, <1>a, BoundAssumption DEF Begin, Remember, Goto, fsVars,
     lockVars, kernVars, supVars, Ended
<1>27. ASSUME NEW s \in Sup, SupLoad(s) PROVE Ended'
  BY <1>27, <1>0, <1>a DEF SupLoad, SupGoto, Notify, SupRemember, fsVars,
     lockVars, kernVars, cliVars, Ended, Progress
<1>28. ASSUME NEW s \in Sup, LaunchCgroup(s) PROVE Ended'
  BY <1>28, <1>0, <1>a DEF LaunchCgroup, SupGoto, fsVars, lockVars, cliVars,
     Ended
<1>29. ASSUME NEW s \in Sup, LaunchClone(s) PROVE Ended'
  BY <1>29, <1>0, <1>a DEF LaunchClone, SupRemember, SupGoto, fsVars,
     lockVars, cliVars, Ended
<1>30. ASSUME NEW s \in Sup, LaunchNet(s) PROVE Ended'
  BY <1>30, <1>0, <1>a DEF LaunchNet, SupGoto, fsVars, lockVars, cliVars,
     Ended
<1>31. ASSUME NEW s \in Sup, LaunchRunning(s) PROVE Ended'
  BY <1>31, <1>0, <1>a DEF LaunchRunning, SupRemember, Save, SupGoto,
     lockVars, kernVars, cliVars, Ended
<1>32. ASSUME NEW s \in Sup, LaunchFail(s) PROVE Ended'
  BY <1>32, <1>0, <1>a DEF LaunchFail, SupGoto, fsVars, lockVars, cliVars,
     Ended
<1>33. ASSUME NEW s \in Sup, LaunchFailed(s) PROVE Ended'
  BY <1>33, <1>0, <1>a DEF LaunchFailed, RemoveDir, SupRemember, Save,
     Notify, SupGoto, lockVars, kernVars, cliVars, Ended, Progress
<1>34. ASSUME NEW s \in Sup, ShimSave(s) PROVE Ended'
  <2>1. ~Fresh
    BY <1>34, <1>0 DEF ShimSave, Launching, Before
  <2> QED
    BY <1>34, <1>0, <1>a, <2>1 DEF Ended, ShimSave, SupRemember, Save, Notify, SupGoto,
       lockVars, kernVars, cliVars
<1>35. ASSUME NEW s \in Sup, SupReap(s) PROVE Ended'
  BY <1>35, <1>0, <1>a DEF SupReap, SupRemember, SupGoto, fsVars, lockVars,
     cliVars, Ended
<1>36. ASSUME NEW s \in Sup, SupSaveExit(s) PROVE Ended'
  BY <1>36, <1>0, <1>a DEF SupSaveExit, Save, SupGoto, lockVars, kernVars,
     cliVars, Ended
<1>37. ASSUME NEW s \in Sup, SupTearKill(s) PROVE Ended'
  BY <1>37, <1>0, <1>a DEF SupTearKill, TearKill, SupGoto, fsVars, lockVars,
     cliVars, Ended
<1>38. ASSUME NEW s \in Sup, SupTearRelease(s) PROVE Ended'
  BY <1>38, <1>0, <1>a DEF SupTearRelease, TearRelease, SupGoto, fsVars,
     lockVars, cliVars, Ended
<1>39. ASSUME NEW s \in Sup, SupTearSave(s) PROVE Ended'
  BY <1>39, <1>0, <1>a DEF SupTearSave, Save, SupGoto, lockVars, kernVars,
     cliVars, Ended
<1>40. ASSUME NEW s \in Sup, SupCrash(s) PROVE Ended'
  BY <1>40, <1>0, <1>a, BoundAssumption DEF SupCrash, SupGoto, Finish, Goto,
     Unlock, lockVars, fsVars, Ended
<1>41. ASSUME NEW s \in Sup, InitExit(s) PROVE Ended'
  BY <1>41, <1>0, <1>a DEF InitExit, fsVars, lockVars, cliVars, supVars,
     Ended
<1>42. ASSUME NEW s \in Sup, InitKilled(s) PROVE Ended'
  BY <1>42, <1>0, <1>a DEF InitKilled, fsVars, lockVars, cliVars, supVars,
     Ended
<1>43. ASSUME NEW s \in Sup, InitReaped(s) PROVE Ended'
  BY <1>43, <1>0, <1>a DEF InitReaped, fsVars, lockVars, cliVars, supVars,
     Ended
<1>44. CASE UNCHANGED vars
  BY <1>44, <1>0, <1>a DEF vars, fsVars, lockVars, kernVars, cliVars,
     supVars, Ended
<1> QED
  BY <1>1, <1>2, <1>3, <1>4, <1>5, <1>6, <1>7, <1>8, <1>9, <1>10, <1>11,
     <1>12, <1>13, <1>14, <1>15, <1>16, <1>17, <1>18, <1>19, <1>20, <1>21,
     <1>22, <1>23, <1>24, <1>25, <1>26, <1>27, <1>28, <1>29, <1>30, <1>31,
     <1>32, <1>33, <1>34, <1>35, <1>36, <1>37, <1>38, <1>39, <1>40, <1>41,
     <1>42, <1>43, <1>44 DEF KeepingStep


LEMMA UntouchedStep ==
  ASSUME TypeControl, TypeKernel, TypeRecords, Known, Shape, Lock, Progress, Launching, OneLaunch,
         Records, Sync, KeepingStep \/ UNCHANGED vars
  PROVE  Untouched'
<1> SUFFICES ASSUME NEW t \in Sup, supPc'[t] = "shimSave" PROVE AllDead' \/ file'.status = "Running"
  BY DEF Untouched
<1>1. CASE supPc[t] = "shimSave"
  <2>1. ~Fresh /\ t \in holders /\ pc[t] = "notify" /\ \A q \in holders : q = t
    BY <1>1, OneUnderWay DEF Launching, Before
  <2>2. file' = file \/ AllDead
    BY <1>1, <2>1, FileChanges
  <2> QED
    BY <1>1, <2>1, <2>2, EndedStays DEF Sync, Untouched
<1>2. CASE supPc[t] # "shimSave"
  <2>1. LaunchRunning(t)
    <3> DEFINE G == LaunchRunning(t)
    <3> USE <1>2 DEF TypeControl, Cli
    <3>1. ASSUME NEW p \in Cli, LockOpen(p) PROVE G
      BY <3>1 DEF LockOpen, Goto, kernVars, supVars
    <3>2. ASSUME NEW p \in Cli, LockAcquire(p) PROVE G
      BY <3>2 DEF LockAcquire, Goto, fsVars, kernVars, supVars
    <3>3. ASSUME NEW p \in Cli, Load(p) PROVE G
      BY <3>3 DEF Load, Finish, Goto, Unlock, Remember, lockVars, fsVars,
         kernVars, supVars
    <3>4. ASSUME NEW p \in Cli, Reconcile(p) PROVE G
      BY <3>4 DEF Reconcile, Remember, Save, Goto, lockVars, kernVars, supVars
    <3>5. ASSUME NEW p \in Cli, SaveMem(p) PROVE G
      BY <3>5 DEF SaveMem, Save, Finish, Goto, Unlock, kernVars, supVars
    <3>6. ASSUME NEW p \in Cli, StartAct(p) PROVE G
      BY <3>6 DEF StartAct, Acting, ForkShim, Goto, fsVars, lockVars, kernVars,
         Refuse, Finish, Unlock, supVars
    <3>7. ASSUME NEW p \in Cli, Notified(p) PROVE G
      BY <3>7 DEF Notified, Goto, lockVars, Finish, Unlock, fsVars, kernVars,
         supVars
    <3>8. ASSUME NEW p \in Cli, StartReload(p) PROVE G
      BY <3>8 DEF StartReload, Finish, Goto, Unlock, Remember, lockVars, fsVars,
         kernVars, supVars
    <3>9. ASSUME NEW p \in Cli, KillAct(p) PROVE G
      BY <3>9 DEF KillAct, Refuse, Finish, Goto, Unlock, fsVars, kernVars,
         supVars, ThawFor, KillAll, Remember, lockVars, SendKill
    <3>10. ASSUME NEW p \in Cli, PauseAct(p) PROVE G
      BY <3>10 DEF PauseAct, Acting, Refuse, Finish, Goto, Unlock, fsVars,
         kernVars, supVars, Remember, lockVars
    <3>11. ASSUME NEW p \in Cli, UnpauseAct(p) PROVE G
      BY <3>11 DEF UnpauseAct, Acting, Refuse, Finish, Goto, Unlock, fsVars,
         kernVars, supVars, Remember, lockVars
    <3>12. ASSUME NEW p \in Cli, StopAct(p) PROVE G
      BY <3>12 DEF StopAct, StopReturns, Goto, Unlock, Finish, ThawFor, Remember,
         Save, lockVars, supVars
    <3>13. ASSUME NEW p \in Cli, SigTerm(p) PROVE G
      BY <3>13 DEF SigTerm, Unlock, Goto, fsVars, supVars
    <3>14. ASSUME NEW p \in Cli, PollDead(p) PROVE G
      BY <3>14 DEF PollDead, GiveUp, Finish, Goto, Unlock, fsVars, kernVars,
         supVars, LockFor, lockVars
    <3>15. ASSUME NEW p \in Cli, PollDeadline(p) PROVE G
      BY <3>15 DEF PollDeadline, LockFor, Goto, fsVars, lockVars, kernVars,
         supVars
    <3>16. ASSUME NEW p \in Cli, StopKill(p) PROVE G
      BY <3>16 DEF StopKill, KillAll, SendKill, Unlock, Goto, fsVars, supVars
    <3>17. ASSUME NEW p \in Cli, PollKilled(p) PROVE G
      BY <3>17 DEF PollKilled, GiveUp, Finish, Goto, Unlock, fsVars, kernVars,
         supVars, LockFor, lockVars
    <3>18. ASSUME NEW p \in Cli, FinalizeAct(p) PROVE G
      BY <3>18 DEF FinalizeAct, GiveUp, Finish, Goto, Unlock, fsVars, kernVars,
         supVars, lockVars
    <3>19. ASSUME NEW p \in Cli, FinWaitSeen(p) PROVE G
      BY <3>19 DEF FinWaitSeen, GiveUp, Finish, Goto, Unlock, fsVars, kernVars,
         supVars, Remember, StopReturns
    <3>20. ASSUME NEW p \in Cli, FinWaitExpired(p) PROVE G
      BY <3>20 DEF FinWaitExpired, Remember, Goto, fsVars, lockVars, kernVars,
         supVars
    <3>21. ASSUME NEW p \in Cli, CliTearKill(p) PROVE G
      BY <3>21 DEF CliTearKill, TearKill, Goto, fsVars, lockVars, supVars
    <3>22. ASSUME NEW p \in Cli, CliTearRelease(p) PROVE G
      BY <3>22 DEF CliTearRelease, TearRelease, Goto, fsVars, lockVars, supVars
    <3>23. ASSUME NEW p \in Cli, CliTearSave(p) PROVE G
      BY <3>23 DEF CliTearSave, Remember, Save, Goto, lockVars, Unlock,
         StopReturns, Finish, kernVars, supVars
    <3>24. ASSUME NEW p \in Cli, WaitAct(p) PROVE G
      BY <3>24 DEF WaitAct, Acting, Goto, lockVars, Finish, Unlock, fsVars,
         kernVars, supVars
    <3>25. ASSUME NEW p \in Cli, WaitTimeout(p) PROVE G
      BY <3>25 DEF WaitTimeout, Acting, Refuse, Finish, Goto, Unlock, fsVars,
         kernVars, supVars
    <3>26. ASSUME NEW p \in Cli, NEW o \in Keeping, Begin(p, o) PROVE G
      BY <3>26 DEF Begin, Remember, Goto, fsVars, lockVars, kernVars, supVars
    <3>27. ASSUME NEW s \in Sup, SupLoad(s) PROVE G
      BY <3>27 DEF SupLoad, SupGoto, Notify, SupRemember, fsVars, lockVars,
         kernVars, cliVars
    <3>28. ASSUME NEW s \in Sup, LaunchCgroup(s) PROVE G
      BY <3>28 DEF LaunchCgroup, SupGoto, fsVars, lockVars, cliVars
    <3>29. ASSUME NEW s \in Sup, LaunchClone(s) PROVE G
      BY <3>29 DEF LaunchClone, SupRemember, SupGoto, fsVars, lockVars, cliVars
    <3>30. ASSUME NEW s \in Sup, LaunchNet(s) PROVE G
      BY <3>30 DEF LaunchNet, SupGoto, fsVars, lockVars, cliVars
    <3>31. ASSUME NEW s \in Sup, LaunchRunning(s) PROVE G
      BY <3>31 DEF LaunchRunning, SupRemember, Save, SupGoto, lockVars, kernVars,
         cliVars
    <3>32. ASSUME NEW s \in Sup, LaunchFail(s) PROVE G
      BY <3>32 DEF LaunchFail, SupGoto, fsVars, lockVars, cliVars
    <3>33. ASSUME NEW s \in Sup, LaunchFailed(s) PROVE G
      BY <3>33 DEF LaunchFailed, RemoveDir, SupRemember, Save, Notify, SupGoto,
         lockVars, kernVars, cliVars
    <3>34. ASSUME NEW s \in Sup, ShimSave(s) PROVE G
      BY <3>34 DEF ShimSave, SupRemember, Save, Notify, SupGoto, lockVars,
         kernVars, cliVars
    <3>35. ASSUME NEW s \in Sup, SupReap(s) PROVE G
      BY <3>35 DEF SupReap, SupRemember, SupGoto, fsVars, lockVars, cliVars
    <3>36. ASSUME NEW s \in Sup, SupSaveExit(s) PROVE G
      BY <3>36 DEF SupSaveExit, Save, SupGoto, lockVars, kernVars, cliVars
    <3>37. ASSUME NEW s \in Sup, SupTearKill(s) PROVE G
      BY <3>37 DEF SupTearKill, TearKill, SupGoto, fsVars, lockVars, cliVars
    <3>38. ASSUME NEW s \in Sup, SupTearRelease(s) PROVE G
      BY <3>38 DEF SupTearRelease, TearRelease, SupGoto, fsVars, lockVars,
         cliVars
    <3>39. ASSUME NEW s \in Sup, SupTearSave(s) PROVE G
      BY <3>39 DEF SupTearSave, Save, SupGoto, lockVars, kernVars, cliVars
    <3>40. ASSUME NEW s \in Sup, SupCrash(s) PROVE G
      BY <3>40 DEF SupCrash, SupGoto, Finish, Goto, Unlock, lockVars, fsVars
    <3>41. ASSUME NEW s \in Sup, InitExit(s) PROVE G
      BY <3>41 DEF InitExit, fsVars, lockVars, cliVars, supVars
    <3>42. ASSUME NEW s \in Sup, InitKilled(s) PROVE G
      BY <3>42 DEF InitKilled, fsVars, lockVars, cliVars, supVars
    <3>43. ASSUME NEW s \in Sup, InitReaped(s) PROVE G
      BY <3>43 DEF InitReaped, fsVars, lockVars, cliVars, supVars
    <3>44. CASE UNCHANGED vars
      BY <3>44 DEF vars, fsVars, lockVars, kernVars, cliVars, supVars
    <3> QED
      BY <3>1, <3>2, <3>3, <3>4, <3>5, <3>6, <3>7, <3>8, <3>9, <3>10, <3>11,
         <3>12, <3>13, <3>14, <3>15, <3>16, <3>17, <3>18, <3>19, <3>20, <3>21,
         <3>22, <3>23, <3>24, <3>25, <3>26, <3>27, <3>28, <3>29, <3>30, <3>31,
         <3>32, <3>33, <3>34, <3>35, <3>36, <3>37, <3>38, <3>39, <3>40, <3>41,
         <3>42, <3>43, <3>44 DEF KeepingStep
  <2>2. smem[t] \in State /\ smem[t].status = "Created"
    BY <2>1, NoneAssumption DEF LaunchRunning, Known, SupUsing, SupPc, TypeRecords, Progress, Before
  <2>3. transition(smem[t], "Running").status = "Running"
    BY <2>2, TransitionKeeps DEF Status, can_transition_to
  <2> QED
    BY <2>1, <2>3 DEF LaunchRunning, Save
<1> QED
  BY <1>1, <1>2


LEMMA PopulatedStep ==
  ASSUME TypeControl, TypeKernel, TypeRecords, Known, Shape, Lock, Progress, Launching, OneLaunch,
         Records, Sync, Populated, Progress', KeepingStep \/ UNCHANGED vars
  PROVE  Populated'
<1> DEFINE Made == \A s \in Sup : supPc'[s] = "clone" => supPc[s] = "clone" \/ Alive' = {}
           K == /\ CgroupExists' => HasCgroup
                /\ HasCgroup /\ Alive' # {} => CgroupExists'
                /\ HasCgroup => Made
<1>a. K
  <2> USE DEF Populated, CgroupExists, Alive, TypeControl, TypeKernel, Cli
  <2>1. ASSUME NEW p \in Cli, LockOpen(p) PROVE K
    BY <2>1 DEF LockOpen, Goto, kernVars, supVars
  <2>2. ASSUME NEW p \in Cli, LockAcquire(p) PROVE K
    BY <2>2 DEF LockAcquire, Goto, fsVars, kernVars, supVars
  <2>3. ASSUME NEW p \in Cli, Load(p) PROVE K
    BY <2>3 DEF Load, Finish, Goto, Unlock, Remember, lockVars, fsVars,
       kernVars, supVars
  <2>4. ASSUME NEW p \in Cli, Reconcile(p) PROVE K
    BY <2>4 DEF Reconcile, Remember, Save, Goto, lockVars, kernVars, supVars
  <2>5. ASSUME NEW p \in Cli, SaveMem(p) PROVE K
    BY <2>5 DEF SaveMem, Save, Finish, Goto, Unlock, kernVars, supVars
  <2>6. ASSUME NEW p \in Cli, StartAct(p) PROVE K
    BY <2>6 DEF StartAct, Acting, ForkShim, Goto, fsVars, lockVars, kernVars,
       Refuse, Finish, Unlock, supVars
  <2>7. ASSUME NEW p \in Cli, Notified(p) PROVE K
    BY <2>7 DEF Notified, Goto, lockVars, Finish, Unlock, fsVars, kernVars,
       supVars
  <2>8. ASSUME NEW p \in Cli, StartReload(p) PROVE K
    BY <2>8 DEF StartReload, Finish, Goto, Unlock, Remember, lockVars, fsVars,
       kernVars, supVars
  <2>9. ASSUME NEW p \in Cli, KillAct(p) PROVE K
    BY <2>9 DEF KillAct, Refuse, Finish, Goto, Unlock, fsVars, kernVars,
       supVars, ThawFor, KillAll, Remember, lockVars, SendKill
  <2>10. ASSUME NEW p \in Cli, PauseAct(p) PROVE K
    BY <2>10 DEF PauseAct, Acting, Refuse, Finish, Goto, Unlock, fsVars,
       kernVars, supVars, Remember, lockVars
  <2>11. ASSUME NEW p \in Cli, UnpauseAct(p) PROVE K
    BY <2>11 DEF UnpauseAct, Acting, Refuse, Finish, Goto, Unlock, fsVars,
       kernVars, supVars, Remember, lockVars
  <2>12. ASSUME NEW p \in Cli, StopAct(p) PROVE K
    BY <2>12 DEF StopAct, StopReturns, Goto, Unlock, Finish, ThawFor, Remember,
       Save, lockVars, supVars
  <2>13. ASSUME NEW p \in Cli, SigTerm(p) PROVE K
    BY <2>13 DEF SigTerm, Unlock, Goto, fsVars, supVars
  <2>14. ASSUME NEW p \in Cli, PollDead(p) PROVE K
    BY <2>14 DEF PollDead, GiveUp, Finish, Goto, Unlock, fsVars, kernVars,
       supVars, LockFor, lockVars
  <2>15. ASSUME NEW p \in Cli, PollDeadline(p) PROVE K
    BY <2>15 DEF PollDeadline, LockFor, Goto, fsVars, lockVars, kernVars,
       supVars
  <2>16. ASSUME NEW p \in Cli, StopKill(p) PROVE K
    BY <2>16 DEF StopKill, KillAll, SendKill, Unlock, Goto, fsVars, supVars
  <2>17. ASSUME NEW p \in Cli, PollKilled(p) PROVE K
    BY <2>17 DEF PollKilled, GiveUp, Finish, Goto, Unlock, fsVars, kernVars,
       supVars, LockFor, lockVars
  <2>18. ASSUME NEW p \in Cli, FinalizeAct(p) PROVE K
    BY <2>18 DEF FinalizeAct, GiveUp, Finish, Goto, Unlock, fsVars, kernVars,
       supVars, lockVars
  <2>19. ASSUME NEW p \in Cli, FinWaitSeen(p) PROVE K
    BY <2>19 DEF FinWaitSeen, GiveUp, Finish, Goto, Unlock, fsVars, kernVars,
       supVars, Remember, StopReturns
  <2>20. ASSUME NEW p \in Cli, FinWaitExpired(p) PROVE K
    BY <2>20 DEF FinWaitExpired, Remember, Goto, fsVars, lockVars, kernVars,
       supVars
  <2>21. ASSUME NEW p \in Cli, CliTearKill(p) PROVE K
    BY <2>21 DEF CliTearKill, TearKill, Goto, fsVars, lockVars, supVars
  <2>22. ASSUME NEW p \in Cli, CliTearRelease(p) PROVE K
    BY <2>22 DEF CliTearRelease, TearRelease, Goto, fsVars, lockVars, supVars
  <2>23. ASSUME NEW p \in Cli, CliTearSave(p) PROVE K
    BY <2>23 DEF CliTearSave, Remember, Save, Goto, lockVars, Unlock,
       StopReturns, Finish, kernVars, supVars
  <2>24. ASSUME NEW p \in Cli, WaitAct(p) PROVE K
    BY <2>24 DEF WaitAct, Acting, Goto, lockVars, Finish, Unlock, fsVars,
       kernVars, supVars
  <2>25. ASSUME NEW p \in Cli, WaitTimeout(p) PROVE K
    BY <2>25 DEF WaitTimeout, Acting, Refuse, Finish, Goto, Unlock, fsVars,
       kernVars, supVars
  <2>26. ASSUME NEW p \in Cli, NEW o \in Keeping, Begin(p, o) PROVE K
    BY <2>26 DEF Begin, Remember, Goto, fsVars, lockVars, kernVars, supVars
  <2>27. ASSUME NEW s \in Sup, SupLoad(s) PROVE K
    BY <2>27 DEF SupLoad, SupGoto, Notify, SupRemember, fsVars, lockVars,
       kernVars, cliVars
  <2>28. ASSUME NEW s \in Sup, LaunchCgroup(s) PROVE K
    BY <2>28 DEF LaunchCgroup, SupGoto, fsVars, lockVars, cliVars
  <2>29. ASSUME NEW s \in Sup, LaunchClone(s) PROVE K
    BY <2>29 DEF LaunchClone, SupRemember, SupGoto, fsVars, lockVars, cliVars
  <2>30. ASSUME NEW s \in Sup, LaunchNet(s) PROVE K
    BY <2>30 DEF LaunchNet, SupGoto, fsVars, lockVars, cliVars
  <2>31. ASSUME NEW s \in Sup, LaunchRunning(s) PROVE K
    BY <2>31 DEF LaunchRunning, SupRemember, Save, SupGoto, lockVars, kernVars,
       cliVars
  <2>32. ASSUME NEW s \in Sup, LaunchFail(s) PROVE K
    BY <2>32 DEF LaunchFail, SupGoto, fsVars, lockVars, cliVars, Progress
  <2>33. ASSUME NEW s \in Sup, LaunchFailed(s) PROVE K
    BY <2>33 DEF LaunchFailed, RemoveDir, SupRemember, Save, Notify, SupGoto,
       lockVars, kernVars, cliVars
  <2>34. ASSUME NEW s \in Sup, ShimSave(s) PROVE K
    BY <2>34 DEF ShimSave, SupRemember, Save, Notify, SupGoto, lockVars,
       kernVars, cliVars
  <2>35. ASSUME NEW s \in Sup, SupReap(s) PROVE K
    BY <2>35 DEF SupReap, SupRemember, SupGoto, fsVars, lockVars, cliVars
  <2>36. ASSUME NEW s \in Sup, SupSaveExit(s) PROVE K
    BY <2>36 DEF SupSaveExit, Save, SupGoto, lockVars, kernVars, cliVars
  <2>37. ASSUME NEW s \in Sup, SupTearKill(s) PROVE K
    BY <2>37 DEF SupTearKill, TearKill, SupGoto, fsVars, lockVars, cliVars
  <2>38. ASSUME NEW s \in Sup, SupTearRelease(s) PROVE K
    BY <2>38 DEF SupTearRelease, TearRelease, SupGoto, fsVars, lockVars,
       cliVars
  <2>39. ASSUME NEW s \in Sup, SupTearSave(s) PROVE K
    BY <2>39 DEF SupTearSave, Save, SupGoto, lockVars, kernVars, cliVars
  <2>40. ASSUME NEW s \in Sup, SupCrash(s) PROVE K
    BY <2>40 DEF SupCrash, SupGoto, Finish, Goto, Unlock, lockVars, fsVars
  <2>41. ASSUME NEW s \in Sup, InitExit(s) PROVE K
    BY <2>41 DEF InitExit, fsVars, lockVars, cliVars, supVars
  <2>42. ASSUME NEW s \in Sup, InitKilled(s) PROVE K
    BY <2>42 DEF InitKilled, fsVars, lockVars, cliVars, supVars
  <2>43. ASSUME NEW s \in Sup, InitReaped(s) PROVE K
    BY <2>43 DEF InitReaped, fsVars, lockVars, cliVars, supVars
  <2>44. CASE UNCHANGED vars
    BY <2>44 DEF vars, fsVars, lockVars, kernVars, cliVars, supVars
  <2> QED
    BY <2>1, <2>2, <2>3, <2>4, <2>5, <2>6, <2>7, <2>8, <2>9, <2>10, <2>11,
       <2>12, <2>13, <2>14, <2>15, <2>16, <2>17, <2>18, <2>19, <2>20, <2>21,
       <2>22, <2>23, <2>24, <2>25, <2>26, <2>27, <2>28, <2>29, <2>30, <2>31,
       <2>32, <2>33, <2>34, <2>35, <2>36, <2>37, <2>38, <2>39, <2>40, <2>41,
       <2>42, <2>43, <2>44 DEF KeepingStep
<1>b. ASSUME HasCgroup, NEW s \in Sup, supPc'[s] = "clone" PROVE Alive' = {}
  <2>1. CASE supPc[s] = "clone"
    <3> SUFFICES ASSUME NEW t \in Alive' PROVE FALSE
      OBVIOUS
    <3>1. t \in Sup /\ init'[s] = "none" /\ Alive = {}
      BY <1>b, <2>1 DEF Alive, Progress, Populated
    <3>2. supPc[t] = "clone"
      BY <3>1, DeadStep
    <3>3. t = s
      BY <2>1, <3>1, <3>2, OneUnderWay DEF Before
    <3> QED
      BY <3>1, <3>3 DEF Alive
  <2> QED
    BY <1>a, <1>b, <2>1
<1>c. ASSUME HasCgroup, NEW s \in Alive', DiedLaunching(s)', NEW t \in Sup, Launched(t)' PROVE FALSE
  <2>1. s \in Sup /\ s # t
    BY <1>c DEF Alive, Launched
  <2>2. CASE ~Fresh
    <3>1. \A u \in Sup : supPc[u] # "clone"
      BY <2>2 DEF Launching, Before
    <3>2. s \in Alive /\ Launched(t)
      BY <1>c, <2>1, <2>2, <3>1, DeadStep, EndedStays
    <3>3. ~Launched(s)
      BY <1>c, <2>1, <2>2, EndedStays DEF Launched
    <3>4. DiedLaunching(s)
      BY <3>2, <3>3 DEF Launched, Alive
    <3> QED
      BY <1>c, <3>2, <3>4 DEF Populated
  <2>3. CASE Fresh
    <3>1. supPc[t] \in Before
      BY <1>c, <2>3, DeadStep, FreshMeansAlone DEF Before
    <3>2. supPc[s] \notin Before
      BY <2>1, <3>1, OneUnderWay
    <3>3. s \in Alive
      BY <1>c, <2>1, <3>2, DeadStep DEF Before
    <3>4. DiedLaunching(s)
      BY <2>1, <2>3, <3>2, <3>3, FreshMeansAlone DEF Launched, Alive
    <3>5. Launched(t) \/ supPc[t] = "clone"
      BY <1>c, DeadStep
    <3> QED
      BY <1>c, <3>3, <3>4, <3>5 DEF Populated
  <2> QED
    BY <2>2, <2>3
<1> QED
  BY <1>a, <1>b, <1>c DEF Populated


(* Only pause freezes.                                                     *)
LEMMA FrozenBy ==
  ASSUME TypeControl, TypeKernel, TypeRecords, KeepingStep \/ UNCHANGED vars
  PROVE  frozen' => \/ frozen
                    \/ \E p \in Cli : /\ pc[p] = "act" /\ mem[p].status = "Running" /\ CgroupExists
<1> DEFINE G == frozen' => \/ frozen
                           \/ \E p \in Cli : /\ pc[p] = "act" /\ mem[p].status = "Running" /\ CgroupExists
<1> USE DEF TypeKernel
<1>1. ASSUME NEW p \in Cli, LockOpen(p) PROVE G
  BY <1>1 DEF LockOpen, Goto, kernVars, supVars
<1>2. ASSUME NEW p \in Cli, LockAcquire(p) PROVE G
  BY <1>2 DEF LockAcquire, Goto, fsVars, kernVars, supVars
<1>3. ASSUME NEW p \in Cli, Load(p) PROVE G
  BY <1>3 DEF Load, Finish, Goto, Unlock, Remember, lockVars, fsVars,
     kernVars, supVars
<1>4. ASSUME NEW p \in Cli, Reconcile(p) PROVE G
  BY <1>4 DEF Reconcile, Remember, Save, Goto, lockVars, kernVars, supVars
<1>5. ASSUME NEW p \in Cli, SaveMem(p) PROVE G
  BY <1>5 DEF SaveMem, Save, Finish, Goto, Unlock, kernVars, supVars
<1>6. ASSUME NEW p \in Cli, StartAct(p) PROVE G
  BY <1>6 DEF StartAct, Acting, ForkShim, Goto, fsVars, lockVars, kernVars,
     Refuse, Finish, Unlock, supVars
<1>7. ASSUME NEW p \in Cli, Notified(p) PROVE G
  BY <1>7 DEF Notified, Goto, lockVars, Finish, Unlock, fsVars, kernVars,
     supVars
<1>8. ASSUME NEW p \in Cli, StartReload(p) PROVE G
  BY <1>8 DEF StartReload, Finish, Goto, Unlock, Remember, lockVars, fsVars,
     kernVars, supVars
<1>9. ASSUME NEW p \in Cli, KillAct(p) PROVE G
  BY <1>9 DEF KillAct, Refuse, Finish, Goto, Unlock, fsVars, kernVars,
     supVars, ThawFor, KillAll, Remember, lockVars, SendKill
<1>10. ASSUME NEW p \in Cli, PauseAct(p) PROVE G
  BY <1>10 DEF PauseAct, Acting, Refuse, Finish, Goto, Unlock, fsVars,
     kernVars, supVars, Remember, lockVars
<1>11. ASSUME NEW p \in Cli, UnpauseAct(p) PROVE G
  BY <1>11 DEF UnpauseAct, Acting, Refuse, Finish, Goto, Unlock, fsVars,
     kernVars, supVars, Remember, lockVars
<1>12. ASSUME NEW p \in Cli, StopAct(p) PROVE G
  BY <1>12 DEF StopAct, StopReturns, Goto, Unlock, Finish, ThawFor, Remember,
     Save, lockVars, supVars
<1>13. ASSUME NEW p \in Cli, SigTerm(p) PROVE G
  BY <1>13 DEF SigTerm, Unlock, Goto, fsVars, supVars
<1>14. ASSUME NEW p \in Cli, PollDead(p) PROVE G
  BY <1>14 DEF PollDead, GiveUp, Finish, Goto, Unlock, fsVars, kernVars,
     supVars, LockFor, lockVars
<1>15. ASSUME NEW p \in Cli, PollDeadline(p) PROVE G
  BY <1>15 DEF PollDeadline, LockFor, Goto, fsVars, lockVars, kernVars,
     supVars
<1>16. ASSUME NEW p \in Cli, StopKill(p) PROVE G
  BY <1>16 DEF StopKill, KillAll, SendKill, Unlock, Goto, fsVars, supVars
<1>17. ASSUME NEW p \in Cli, PollKilled(p) PROVE G
  BY <1>17 DEF PollKilled, GiveUp, Finish, Goto, Unlock, fsVars, kernVars,
     supVars, LockFor, lockVars
<1>18. ASSUME NEW p \in Cli, FinalizeAct(p) PROVE G
  BY <1>18 DEF FinalizeAct, GiveUp, Finish, Goto, Unlock, fsVars, kernVars,
     supVars, lockVars
<1>19. ASSUME NEW p \in Cli, FinWaitSeen(p) PROVE G
  BY <1>19 DEF FinWaitSeen, GiveUp, Finish, Goto, Unlock, fsVars, kernVars,
     supVars, Remember, StopReturns
<1>20. ASSUME NEW p \in Cli, FinWaitExpired(p) PROVE G
  BY <1>20 DEF FinWaitExpired, Remember, Goto, fsVars, lockVars, kernVars,
     supVars
<1>21. ASSUME NEW p \in Cli, CliTearKill(p) PROVE G
  BY <1>21 DEF CliTearKill, TearKill, Goto, fsVars, lockVars, supVars
<1>22. ASSUME NEW p \in Cli, CliTearRelease(p) PROVE G
  BY <1>22 DEF CliTearRelease, TearRelease, Goto, fsVars, lockVars, supVars
<1>23. ASSUME NEW p \in Cli, CliTearSave(p) PROVE G
  BY <1>23 DEF CliTearSave, Remember, Save, Goto, lockVars, Unlock,
     StopReturns, Finish, kernVars, supVars
<1>24. ASSUME NEW p \in Cli, WaitAct(p) PROVE G
  BY <1>24 DEF WaitAct, Acting, Goto, lockVars, Finish, Unlock, fsVars,
     kernVars, supVars
<1>25. ASSUME NEW p \in Cli, WaitTimeout(p) PROVE G
  BY <1>25 DEF WaitTimeout, Acting, Refuse, Finish, Goto, Unlock, fsVars,
     kernVars, supVars
<1>26. ASSUME NEW p \in Cli, NEW o \in Keeping, Begin(p, o) PROVE G
  BY <1>26 DEF Begin, Remember, Goto, fsVars, lockVars, kernVars, supVars
<1>27. ASSUME NEW s \in Sup, SupLoad(s) PROVE G
  BY <1>27 DEF SupLoad, SupGoto, Notify, SupRemember, fsVars, lockVars,
     kernVars, cliVars
<1>28. ASSUME NEW s \in Sup, LaunchCgroup(s) PROVE G
  BY <1>28 DEF LaunchCgroup, SupGoto, fsVars, lockVars, cliVars
<1>29. ASSUME NEW s \in Sup, LaunchClone(s) PROVE G
  BY <1>29 DEF LaunchClone, SupRemember, SupGoto, fsVars, lockVars, cliVars
<1>30. ASSUME NEW s \in Sup, LaunchNet(s) PROVE G
  BY <1>30 DEF LaunchNet, SupGoto, fsVars, lockVars, cliVars
<1>31. ASSUME NEW s \in Sup, LaunchRunning(s) PROVE G
  BY <1>31 DEF LaunchRunning, SupRemember, Save, SupGoto, lockVars, kernVars,
     cliVars
<1>32. ASSUME NEW s \in Sup, LaunchFail(s) PROVE G
  BY <1>32 DEF LaunchFail, SupGoto, fsVars, lockVars, cliVars
<1>33. ASSUME NEW s \in Sup, LaunchFailed(s) PROVE G
  BY <1>33 DEF LaunchFailed, RemoveDir, SupRemember, Save, Notify, SupGoto,
     lockVars, kernVars, cliVars
<1>34. ASSUME NEW s \in Sup, ShimSave(s) PROVE G
  BY <1>34 DEF ShimSave, SupRemember, Save, Notify, SupGoto, lockVars,
     kernVars, cliVars
<1>35. ASSUME NEW s \in Sup, SupReap(s) PROVE G
  BY <1>35 DEF SupReap, SupRemember, SupGoto, fsVars, lockVars, cliVars
<1>36. ASSUME NEW s \in Sup, SupSaveExit(s) PROVE G
  BY <1>36 DEF SupSaveExit, Save, SupGoto, lockVars, kernVars, cliVars
<1>37. ASSUME NEW s \in Sup, SupTearKill(s) PROVE G
  BY <1>37 DEF SupTearKill, TearKill, SupGoto, fsVars, lockVars, cliVars
<1>38. ASSUME NEW s \in Sup, SupTearRelease(s) PROVE G
  BY <1>38 DEF SupTearRelease, TearRelease, SupGoto, fsVars, lockVars,
     cliVars
<1>39. ASSUME NEW s \in Sup, SupTearSave(s) PROVE G
  BY <1>39 DEF SupTearSave, Save, SupGoto, lockVars, kernVars, cliVars
<1>40. ASSUME NEW s \in Sup, SupCrash(s) PROVE G
  BY <1>40 DEF SupCrash, SupGoto, Finish, Goto, Unlock, lockVars, fsVars
<1>41. ASSUME NEW s \in Sup, InitExit(s) PROVE G
  BY <1>41 DEF InitExit, fsVars, lockVars, cliVars, supVars
<1>42. ASSUME NEW s \in Sup, InitKilled(s) PROVE G
  BY <1>42 DEF InitKilled, fsVars, lockVars, cliVars, supVars
<1>43. ASSUME NEW s \in Sup, InitReaped(s) PROVE G
  BY <1>43 DEF InitReaped, fsVars, lockVars, cliVars, supVars
<1>44. CASE UNCHANGED vars
  BY <1>44 DEF vars, fsVars, lockVars, kernVars, cliVars, supVars
<1> QED
  BY <1>1, <1>2, <1>3, <1>4, <1>5, <1>6, <1>7, <1>8, <1>9, <1>10, <1>11,
     <1>12, <1>13, <1>14, <1>15, <1>16, <1>17, <1>18, <1>19, <1>20, <1>21,
     <1>22, <1>23, <1>24, <1>25, <1>26, <1>27, <1>28, <1>29, <1>30, <1>31,
     <1>32, <1>33, <1>34, <1>35, <1>36, <1>37, <1>38, <1>39, <1>40, <1>41,
     <1>42, <1>43, <1>44 DEF KeepingStep


(* While init lives, the freezer and the record change together.           *)
LEMMA AgreeStep ==
  ASSUME TypeControl, TypeKernel, TypeRecords, Known, Shape, Lock, Progress, Launching, OneLaunch,
         Records, Sync, ~Fresh, ~AllDead, Agree, KeepingStep \/ UNCHANGED vars
  PROVE  Agree'
<1> USE DEF TypeControl, TypeKernel, Cli
<1>1. ASSUME NEW p \in Cli, LockOpen(p) PROVE Agree'
  BY <1>1 DEF LockOpen, Goto, kernVars, supVars, Agree, Changing, TypeRecords
<1>2. ASSUME NEW p \in Cli, LockAcquire(p) PROVE Agree'
  BY <1>2 DEF LockAcquire, Goto, fsVars, kernVars, supVars, Agree, Changing,
     TypeRecords
<1>3. ASSUME NEW p \in Cli, Load(p) PROVE Agree'
  BY <1>3 DEF Load, Finish, Goto, Unlock, Remember, lockVars, fsVars,
     kernVars, supVars, Agree, Changing, TypeRecords
<1>4. ASSUME NEW p \in Cli, Reconcile(p) PROVE Agree'
  <2>1. mem[p] \in State /\ Sound(mem[p])
    BY <1>4, NoneAssumption DEF Reconcile, Known, Using, Records, InUse, TypeRecords
  <2>2. is_live(mem[p].status) => init_is_alive(mem[p])
    BY <2>1, DeadRecordMeansAllDead DEF is_live
  <2> QED
    BY <1>4, <2>2 DEF Agree, Changing, Shape, Keeping, Reconcile, Remember,
       Save, Goto, lockVars, kernVars, supVars
<1>5. ASSUME NEW p \in Cli, SaveMem(p) PROVE Agree'
  <2>1. mem[p] \in State /\ Sound(mem[p]) /\ p \in holders
    BY <1>5, NoneAssumption DEF SaveMem, Acting, Known, Using, Records, InUse, Shape, Lock, Section, TypeRecords
  <2>2. (\A q \in holders : q = p) /\ (\A q \in Cli : pc[q] = "save" => q = p)
    BY <2>1 DEF Lock, Shape, Section
  <2>3. frozen <=> mem[p].status = "Paused"
    BY <1>5, <2>2 DEF SaveMem, Agree, Changing, Shape
  <2> QED
    BY <1>5, <2>2, <2>3 DEF Agree, Changing, TypeRecords, SaveMem, Save, Finish,
       Goto, Unlock, kernVars, supVars
<1>6. ASSUME NEW p \in Cli, StartAct(p) PROVE Agree'
  BY <1>6 DEF StartAct, Acting, ForkShim, Goto, fsVars, lockVars, kernVars,
     Refuse, Finish, Unlock, supVars, Agree, Changing, TypeRecords
<1>7. ASSUME NEW p \in Cli, Notified(p) PROVE Agree'
  BY <1>7 DEF Notified, Goto, lockVars, Finish, Unlock, fsVars, kernVars,
     supVars, Agree, Changing, TypeRecords
<1>8. ASSUME NEW p \in Cli, StartReload(p) PROVE Agree'
  <2>1. p \in holders
    BY <1>8, NoneAssumption DEF StartReload, Acting, Using, Records, InUse, Shape, Lock, Section, TypeRecords
  <2>2. (\A q \in holders : q = p) /\ (\A q \in Cli : pc[q] = "save" => q = p)
    BY <2>1 DEF Lock, Shape, Section
  <2>3. file \in State
    BY DEF Records, TypeRecords
  <2>4. PICK new : new = [file EXCEPT !.shim = p]
    OBVIOUS
  <2>5. new.status = file.status
    BY <2>3, <2>4, FieldsKeep
  <2>6. frozen <=> file.status = "Paused"
    BY <1>8, <2>2 DEF StartReload, Agree, Changing
  <2>7. /\ mem' = [mem EXCEPT ![p] = new] /\ pc' = [pc EXCEPT ![p] = "save"]
        /\ UNCHANGED <<op, file, frozen>>
    BY <1>8, <2>4 DEF Records, StartReload, Finish, Goto, Unlock, Remember,
       lockVars, fsVars, kernVars, supVars
  <2> QED
    BY <1>8, <2>2, <2>5, <2>6, <2>7 DEF StartReload, Shape, TypeRecords, Agree, Changing
<1>9. ASSUME NEW p \in Cli, KillAct(p) PROVE Agree'
  <2>1. mem[p] \in State /\ Sound(mem[p]) /\ p \in holders
    BY <1>9, NoneAssumption DEF KillAct, Acting, Known, Using, Records, InUse, Shape, Lock, Section, TypeRecords
  <2>2. (\A q \in holders : q = p) /\ (\A q \in Cli : pc[q] = "save" => q = p)
    BY <2>1 DEF Lock, Shape, Section
  <2>3. pc[p] = "act" /\ mem[p] = file
    BY <1>9, <2>1 DEF KillAct, Acting, Sync, Current
  <2>4. frozen <=> file.status = "Paused"
    BY <2>2, <2>3 DEF Agree, Changing
  <2>5. is_live(mem[p].status) => Thawed(mem[p]).status # "Paused" /\ init_is_alive(mem[p])
    BY <2>1, ThawedKeeps, DeadRecordMeansAllDead DEF is_live
  <2>6. init_is_alive(mem[p]) => Reachable(mem[p].pid)
    BY NoneAssumption DEF init_is_alive, Reachable, Alive
  <2>7. CASE ~is_live(mem[p].status)
    BY <1>9, <2>2, <2>3, <2>4, <2>7 DEF Agree, Changing, TypeRecords, KillAct,
       Refuse, Finish, Goto, Unlock, fsVars, kernVars, supVars, ThawFor,
       KillAll, Remember, lockVars, SendKill
  <2>8. CASE is_live(mem[p].status)
    <3>1. ~frozen'
      BY <1>9, <2>3, <2>4, <2>8 DEF KillAct, ThawFor
    <3>2. /\ mem' = [mem EXCEPT ![p] = Thawed(mem[p])] /\ pc' = [pc EXCEPT ![p] = "save"]
          /\ op[p] # "start" /\ op' = op
      BY <1>9, <2>5, <2>6, <2>8 DEF KillAct, Refuse, Finish, Goto, Unlock,
         fsVars, kernVars, supVars, ThawFor, KillAll, Remember, lockVars,
         SendKill
    <3> QED
      BY <2>2, <2>5, <2>8, <3>1, <3>2 DEF Agree, Changing, TypeRecords
  <2> QED
    BY <2>7, <2>8
<1>10. ASSUME NEW p \in Cli, PauseAct(p) PROVE Agree'
  <2>1. mem[p] \in State /\ Sound(mem[p]) /\ p \in holders
    BY <1>10, NoneAssumption DEF PauseAct, Acting, Known, Using, Records, InUse, Shape, Lock, Section, TypeRecords
  <2>2. (\A q \in holders : q = p) /\ (\A q \in Cli : pc[q] = "save" => q = p)
    BY <2>1 DEF Lock, Shape, Section
  <2>3. pc[p] = "act" /\ mem[p] = file
    BY <1>10, <2>1 DEF PauseAct, Acting, Sync, Current
  <2>4. frozen <=> file.status = "Paused"
    BY <2>2, <2>3 DEF Agree, Changing
  <2>5. mem[p].status = "Running" => transition(mem[p], "Paused").status = "Paused"
    BY <2>1, TransitionKeeps DEF Status, can_transition_to
  <2> QED
    BY <1>10, <2>2, <2>3, <2>4, <2>5 DEF Agree, Changing, TypeRecords, Shape,
       PauseAct, Acting, Refuse, Finish, Goto, Unlock, fsVars, kernVars,
       supVars, Remember, lockVars
<1>11. ASSUME NEW p \in Cli, UnpauseAct(p) PROVE Agree'
  <2>1. mem[p] \in State /\ Sound(mem[p]) /\ p \in holders
    BY <1>11, NoneAssumption DEF UnpauseAct, Acting, Known, Using, Records, InUse, Shape, Lock, Section, TypeRecords
  <2>2. (\A q \in holders : q = p) /\ (\A q \in Cli : pc[q] = "save" => q = p)
    BY <2>1 DEF Lock, Shape, Section
  <2>3. pc[p] = "act" /\ mem[p] = file
    BY <1>11, <2>1 DEF UnpauseAct, Acting, Sync, Current
  <2>4. frozen <=> file.status = "Paused"
    BY <2>2, <2>3 DEF Agree, Changing
  <2>5. mem[p].status = "Paused" => transition(mem[p], "Running").status = "Running"
    BY <2>1, TransitionKeeps DEF Status, can_transition_to
  <2> QED
    BY <1>11, <2>2, <2>3, <2>4, <2>5 DEF Agree, Changing, TypeRecords, Shape,
       UnpauseAct, Acting, Refuse, Finish, Goto, Unlock, fsVars, kernVars,
       supVars, Remember, lockVars
<1>12. ASSUME NEW p \in Cli, StopAct(p) PROVE Agree'
  <2>1. mem[p] \in State /\ Sound(mem[p]) /\ p \in holders
    BY <1>12, NoneAssumption DEF StopAct, Acting, Known, Using, Records, InUse, Shape, Lock, Section, TypeRecords
  <2>2. (\A q \in holders : q = p) /\ (\A q \in Cli : pc[q] = "save" => q = p)
    BY <2>1 DEF Lock, Shape, Section
  <2>3. pc[p] = "act" /\ mem[p] = file
    BY <1>12, <2>1 DEF StopAct, Acting, Sync, Current
  <2>4. frozen <=> file.status = "Paused"
    BY <2>2, <2>3 DEF Agree, Changing
  <2>5. Thawed(mem[p]) \in State
        /\ (is_live(mem[p].status) => Thawed(mem[p]).status \in {"Running", "Stopping"})
    BY <2>1, ThawedKeeps DEF is_live
  <2>6. is_live(mem[p].status) => transition(Thawed(mem[p]), "Stopping").status = "Stopping"
    BY <2>5, TransitionKeeps DEF Status, can_transition_to
  <2>7. CASE ~is_live(mem[p].status)
    BY <1>12, <2>2, <2>3, <2>4, <2>7 DEF Agree, Changing, Shape, StopAct,
       StopReturns, Goto, Unlock, Finish, ThawFor, Remember, Save, lockVars,
       supVars
  <2>8. CASE is_live(mem[p].status)
    <3>1. ~frozen'
      BY <1>12, <2>3, <2>4, <2>8 DEF StopAct, ThawFor
    <3>2. file'.status = "Stopping" /\ pc' = [pc EXCEPT ![p] = "sigterm"]
      BY <1>12, <2>6, <2>8 DEF StopAct, Save, Goto
    <3> QED
      BY <2>2, <2>3, <3>1, <3>2 DEF Agree, Changing
  <2> QED
    BY <2>7, <2>8
<1>13. ASSUME NEW p \in Cli, SigTerm(p) PROVE Agree'
  BY <1>13 DEF SigTerm, Unlock, Goto, fsVars, supVars, Agree, Changing,
     TypeRecords
<1>14. ASSUME NEW p \in Cli, PollDead(p) PROVE Agree'
  BY <1>14 DEF PollDead, GiveUp, Finish, Goto, Unlock, fsVars, kernVars,
     supVars, LockFor, lockVars, Agree, Changing, TypeRecords
<1>15. ASSUME NEW p \in Cli, PollDeadline(p) PROVE Agree'
  BY <1>15 DEF PollDeadline, LockFor, Goto, fsVars, lockVars, kernVars,
     supVars, Agree, Changing, TypeRecords
<1>16. ASSUME NEW p \in Cli, StopKill(p) PROVE Agree'
  BY <1>16 DEF StopKill, KillAll, SendKill, Unlock, Goto, fsVars, supVars,
     Agree, Changing, TypeRecords
<1>17. ASSUME NEW p \in Cli, PollKilled(p) PROVE Agree'
  BY <1>17 DEF PollKilled, GiveUp, Finish, Goto, Unlock, fsVars, kernVars,
     supVars, LockFor, lockVars, Agree, Changing, TypeRecords
<1>18. ASSUME NEW p \in Cli, FinalizeAct(p) PROVE Agree'
  BY <1>18 DEF FinalizeAct, GiveUp, Finish, Goto, Unlock, fsVars, kernVars,
     supVars, lockVars, Agree, Changing, TypeRecords
<1>19. ASSUME NEW p \in Cli, FinWaitSeen(p) PROVE Agree'
  BY <1>19 DEF FinWaitSeen, GiveUp, Finish, Goto, Unlock, fsVars, kernVars,
     supVars, Remember, StopReturns, Agree, Changing, TypeRecords, Shape
<1>20. ASSUME NEW p \in Cli, FinWaitExpired(p) PROVE Agree'
  BY <1>20 DEF FinWaitExpired, Remember, Goto, fsVars, lockVars, kernVars,
     supVars, Agree, Changing, TypeRecords
<1>21. ASSUME NEW p \in Cli, CliTearKill(p) PROVE Agree'
  BY <1>21 DEF CliTearKill, TearKill, Goto, fsVars, lockVars, supVars, Agree,
     Changing, TypeRecords
<1>22. ASSUME NEW p \in Cli, CliTearRelease(p) PROVE Agree'
  BY <1>22 DEF CliTearRelease, Sync, Ended, Tearing
<1>23. ASSUME NEW p \in Cli, CliTearSave(p) PROVE Agree'
  BY <1>23 DEF CliTearSave, Sync, Ended, Tearing
<1>24. ASSUME NEW p \in Cli, WaitAct(p) PROVE Agree'
  BY <1>24 DEF WaitAct, Acting, Goto, lockVars, Finish, Unlock, fsVars,
     kernVars, supVars, Agree, Changing, TypeRecords
<1>25. ASSUME NEW p \in Cli, WaitTimeout(p) PROVE Agree'
  BY <1>25 DEF WaitTimeout, Acting, Refuse, Finish, Goto, Unlock, fsVars,
     kernVars, supVars, Agree, Changing, TypeRecords
<1>26. ASSUME NEW p \in Cli, NEW o \in Keeping, Begin(p, o) PROVE Agree'
  BY <1>26 DEF Begin, Remember, Goto, fsVars, lockVars, kernVars, supVars,
     Agree, Changing, TypeRecords
<1>27. ASSUME NEW s \in Sup, SupLoad(s) PROVE Agree'
  BY <1>27 DEF SupLoad, SupGoto, Notify, SupRemember, fsVars, lockVars,
     kernVars, cliVars, Agree, Changing, TypeRecords
<1>28. ASSUME NEW s \in Sup, LaunchCgroup(s) PROVE Agree'
  BY <1>28 DEF LaunchCgroup, Launching, Before
<1>29. ASSUME NEW s \in Sup, LaunchClone(s) PROVE Agree'
  BY <1>29 DEF LaunchClone, SupRemember, SupGoto, fsVars, lockVars, cliVars,
     Agree, Changing, TypeRecords
<1>30. ASSUME NEW s \in Sup, LaunchNet(s) PROVE Agree'
  BY <1>30 DEF LaunchNet, SupGoto, fsVars, lockVars, cliVars, Agree,
     Changing, TypeRecords
<1>31. ASSUME NEW s \in Sup, LaunchRunning(s) PROVE Agree'
  BY <1>31 DEF LaunchRunning, Launching, Before
<1>32. ASSUME NEW s \in Sup, LaunchFail(s) PROVE Agree'
  BY <1>32 DEF LaunchFail, Launching, Before
<1>33. ASSUME NEW s \in Sup, LaunchFailed(s) PROVE Agree'
  BY <1>33 DEF LaunchFailed, Launching, Before
<1>34. ASSUME NEW s \in Sup, ShimSave(s) PROVE Agree'
  <2>1. smem[s] \in State /\ smem[s].status = "Running"
    BY <1>34, NoneAssumption DEF ShimSave, Known, SupUsing, SupPc, Progress, TypeRecords
  <2>2. [smem[s] EXCEPT !.shim = s].status = "Running"
    BY <2>1, FieldsKeep
  <2>3. file.status = "Running"
    BY <1>34 DEF ShimSave, Sync, Untouched
  <2>4. \A q \in Cli : pc[q] # "save"
    BY <1>34, OneUnderWay DEF ShimSave, Shape, Lock, Section
  <2>5. ~frozen
    BY <2>3, <2>4 DEF Agree, Changing
  <2> QED
    BY <1>34, <2>2, <2>4, <2>5 DEF Agree, Changing, ShimSave, SupRemember, Save,
       Notify, SupGoto, lockVars, kernVars, cliVars
<1>35. ASSUME NEW s \in Sup, SupReap(s) PROVE Agree'
  BY <1>35 DEF SupReap, SupRemember, SupGoto, fsVars, lockVars, cliVars,
     Agree, Changing, TypeRecords
<1>36. ASSUME NEW s \in Sup, SupSaveExit(s) PROVE Agree'
  <2>1. Launched(s) /\ s \notin Alive
    BY <1>36 DEF SupSaveExit, Launched, DiedLaunching, Progress, Tearing, Alive
  <2> QED
    BY <2>1, DeadInitMeansAllDead
<1>37. ASSUME NEW s \in Sup, SupTearKill(s) PROVE Agree'
  BY <1>37 DEF SupTearKill, TearKill, SupGoto, fsVars, lockVars, cliVars,
     Agree, Changing, TypeRecords
<1>38. ASSUME NEW s \in Sup, SupTearRelease(s) PROVE Agree'
  <2>1. Launched(s) /\ s \notin Alive
    BY <1>38 DEF SupTearRelease, Launched, DiedLaunching, Progress, Tearing, Alive
  <2> QED
    BY <2>1, DeadInitMeansAllDead
<1>39. ASSUME NEW s \in Sup, SupTearSave(s) PROVE Agree'
  <2>1. Launched(s) /\ s \notin Alive
    BY <1>39 DEF SupTearSave, Launched, DiedLaunching, Progress, Tearing, Alive
  <2> QED
    BY <2>1, DeadInitMeansAllDead
<1>40. ASSUME NEW s \in Sup, SupCrash(s) PROVE Agree'
  BY <1>40 DEF SupCrash, SupGoto, Finish, Goto, Unlock, lockVars, fsVars,
     Agree, Changing, TypeRecords
<1>41. ASSUME NEW s \in Sup, InitExit(s) PROVE Agree'
  BY <1>41 DEF InitExit, fsVars, lockVars, cliVars, supVars, Agree, Changing,
     TypeRecords
<1>42. ASSUME NEW s \in Sup, InitKilled(s) PROVE Agree'
  BY <1>42 DEF InitKilled, fsVars, lockVars, cliVars, supVars, Agree,
     Changing, TypeRecords
<1>43. ASSUME NEW s \in Sup, InitReaped(s) PROVE Agree'
  BY <1>43 DEF InitReaped, fsVars, lockVars, cliVars, supVars, Agree,
     Changing, TypeRecords
<1>44. CASE UNCHANGED vars
  BY <1>44 DEF vars, fsVars, lockVars, kernVars, cliVars, supVars, Agree,
     Changing, TypeRecords
<1> QED
  BY <1>1, <1>2, <1>3, <1>4, <1>5, <1>6, <1>7, <1>8, <1>9, <1>10, <1>11,
     <1>12, <1>13, <1>14, <1>15, <1>16, <1>17, <1>18, <1>19, <1>20, <1>21,
     <1>22, <1>23, <1>24, <1>25, <1>26, <1>27, <1>28, <1>29, <1>30, <1>31,
     <1>32, <1>33, <1>34, <1>35, <1>36, <1>37, <1>38, <1>39, <1>40, <1>41,
     <1>42, <1>43, <1>44 DEF KeepingStep


LEMMA FreezerStep ==
  ASSUME TypeControl, TypeKernel, TypeRecords, Known, Shape, Lock, Progress, Launching, OneLaunch,
         Records, Sync, Freezer, Populated, KeepingStep \/ UNCHANGED vars
  PROVE  Freezer'
<1>a. (Fresh' => ~frozen') /\ (frozen' => HasCgroup /\ \E t \in Sup : Launched(t)')
  <2> SUFFICES ASSUME frozen' PROVE ~Fresh' /\ HasCgroup /\ \E t \in Sup : Launched(t)'
    OBVIOUS
  <2>1. ~Fresh /\ HasCgroup /\ \E t \in Sup : Launched(t)
    <3>1. CASE frozen
      BY <3>1 DEF Freezer
    <3>2. ASSUME NEW p \in Cli, pc[p] = "act", mem[p].status = "Running", CgroupExists
          PROVE  ~Fresh /\ HasCgroup /\ \E t \in Sup : Launched(t)
      <4>1. mem[p] \in State /\ Sound(mem[p])
        BY <3>2, NoneAssumption DEF Known, Using, Records, InUse, TypeRecords
      <4> QED
        BY <3>2, <4>1 DEF Sound, is_live, Populated
    <3> QED
      BY <3>1, <3>2, FrozenBy
  <2> QED
    BY <2>1, EndedStays
<1>b. ASSUME ~Fresh, ~AllDead' PROVE Agree'
  <2>1. ~AllDead
    BY <1>b, EndedStays
  <2>2. Agree
    BY <1>b, <2>1 DEF Freezer
  <2> QED
    BY <1>b, <2>1, <2>2, AgreeStep
<1>c. ASSUME Fresh, ~Fresh' PROVE Agree'
  <2>1. file'.status # "Paused" /\ pc' = pc /\ frozen' = frozen
    BY <1>c, FreshStep
  <2>2. \A p \in Cli : pc[p] # "save"
    BY <1>c DEF Sync, Ended
  <2>3. ~frozen
    BY <1>c DEF Freezer
  <2> QED
    BY <2>1, <2>2, <2>3 DEF Agree
<1> QED
  BY <1>a, <1>b, <1>c DEF Freezer


-----------------------------------------------------------------------------
(* The inductive invariant and what follows from it.                       *)

IInv == /\ TypeControl /\ TypeKernel /\ TypeLock /\ TypeRecords /\ Known
        /\ Shape /\ Lock /\ Progress /\ Launching /\ OneLaunch
        /\ Records /\ Sync /\ Freezer /\ Populated

LEMMA InvInit ==
  ASSUME Init
  PROVE  IInv
<1>1. file = CreatedState /\ CreatedState \in State
  BY CreatedIsState DEF Init
<1>2. 0 \in 0 .. MaxOps
  BY BoundAssumption
<1>3. TypeControl
  BY <1>2 DEF Init, TypeControl, CliPc, SupPc, Cli
<1>4. TypeKernel /\ TypeLock
  BY DEF Init, TypeKernel, TypeLock, Cli
<1>5. TypeRecords
  BY <1>1 DEF Init, TypeRecords
<1>6. Known
  BY DEF Init, Known, Using, SupUsing, Cli
<1>7. Shape
  BY BoundAssumption DEF Init, Shape, Tearing, AllOps, Cli
<1>8. Lock
  BY DEF Init, Lock, Section, Cli
<1>9. Progress
  BY DEF Init, Progress, Before, Tearing, Cli
<1>10. Fresh /\ Alive = {} /\ \A s \in Sup : ~Launched(s)
  BY <1>1 DEF Init, Fresh, CreatedState, Alive, Launched
<1>11. Launching
  BY <1>10 DEF Init, Launching
<1>12. OneLaunch
  BY <1>10 DEF OneLaunch
<1>13. Records
  <2>1. \A st \in State : InUse(st) => st = CreatedState
    BY <1>1, NoneAssumption DEF InUse, Init, Cli
  <2>2. Sound(CreatedState)
    BY <1>10 DEF Sound, CreatedState, is_live
  <2> QED
    BY <1>1, <2>1, <2>2, NoneAssumption DEF Records
<1>14. Sync
  BY BoundAssumption DEF Init, Sync, Current, Ended, Untouched, Tearing, Cli
<1>15. Freezer
  BY <1>10 DEF Init, Freezer
<1>16. Populated
  BY <1>10 DEF Init, Populated, CgroupExists
<1> QED
  BY <1>3, <1>4, <1>5, <1>6, <1>7, <1>8, <1>9, <1>11, <1>12, <1>13, <1>14, <1>15, <1>16 DEF IInv

LEMMA InvStep ==
  ASSUME Keeps, IInv, [Next]_vars
  PROVE  IInv'
<1>1. KeepingStep \/ UNCHANGED vars
  BY OnlyKeeping DEF IInv
<1>2. TypeControl' /\ TypeKernel' /\ TypeLock' /\ TypeRecords' /\ Known'
  BY ControlStep, KernelStep, LockStep, RecordsStep DEF IInv
<1>3. Shape'
  BY <1>1, ShapeStep DEF IInv
<1>4. Lock'
  BY <1>1, LockKept DEF IInv
<1>5. Progress'
  BY <1>1, ProgressStep DEF IInv
<1>6. Launching'
  BY <1>1, LaunchingStep DEF IInv
<1>7. OneLaunch'
  BY <1>1, OneLaunchStep DEF IInv
<1>8. Records'
  BY <1>1, RecordsKept DEF IInv
<1>9. Sync'
  BY <1>1, CurrentStep, EndedStep, UntouchedStep DEF IInv, Sync
<1>10. Freezer'
  BY <1>1, FreezerStep DEF IInv
<1>11. Populated'
  BY <1>1, <1>5, PopulatedStep DEF IInv
<1> QED
  BY <1>2, <1>3, <1>4, <1>5, <1>6, <1>7, <1>8, <1>9, <1>10, <1>11 DEF IInv

(* IInv is an invariant of the specification as long as the container is   *)
(* kept.                                                                   *)
THEOREM InvHolds ==
  ASSUME Keeps
  PROVE  Spec => []IInv
<1>1. Init => IInv
  BY InvInit
<1>2. IInv /\ [Next]_vars => IInv'
  BY InvStep
<1> QED
  BY <1>1, <1>2, PTL DEF Spec

(* A set with at most one member has cardinality at most one.              *)
LEMMA AtMostOne ==
  ASSUME NEW S, \A x, y \in S : x = y
  PROVE  Cardinality(S) <= 1
<1>1. CASE S = {}
  BY <1>1, FS_EmptySet
<1>2. ASSUME NEW x \in S PROVE Cardinality(S) <= 1
  <2>1. S = {x}
    OBVIOUS
  <2> QED
    BY <2>1, FS_Singleton
<1> QED
  BY <1>1, <1>2

(* However many starts race, with commands and crashed supervisors around  *)
(* them, at most one init of the container is ever cloned, not counting    *)
(* one whose supervisor was killed in mid-launch.                          *)
THEOREM OneInit ==
  ASSUME Keeps
  PROVE  Spec => []AtMostOneInit
<1>1. IInv => AtMostOneInit
  <2> SUFFICES ASSUME IInv PROVE AtMostOneInit
    OBVIOUS
  <2>1. PICK S : S = {s \in Sup : init[s] # "none" /\ ~DiedLaunching(s)}
    OBVIOUS
  <2>2. \A x, y \in S : x = y
    BY <2>1 DEF IInv, OneLaunch, Launched
  <2> QED
    BY <2>1, <2>2, AtMostOne DEF AtMostOneInit
<1> QED
  BY <1>1, InvHolds, PTL

(* The lock excludes: one command at a time is in a guarded section.       *)
THEOREM LockIsExclusive ==
  ASSUME Keeps
  PROVE  Spec => []LockExclusive
<1>1. IInv => LockExclusive
  <2> SUFFICES ASSUME IInv PROVE LockExclusive
    OBVIOUS
  <2>1. PICK S : S = {p \in Cli : Locked(p)}
    OBVIOUS
  <2>2. \A x, y \in S : x = y
    BY <2>1 DEF IInv, Lock, Locked
  <2> QED
    BY <2>1, <2>2, AtMostOne DEF LockExclusive
<1> QED
  BY <1>1, InvHolds, PTL

(* A state.json that says Stopped is right: no init of the container is    *)
(* alive, other than one its killed supervisor takes along.                *)
THEOREM StoppedIsDead ==
  ASSUME Keeps
  PROVE  Spec => []StoppedMeansDead
<1>1. IInv => StoppedMeansDead
  BY DEF IInv, TypeRecords, Records, InUse, Sound, AllDead, StoppedMeansDead
<1> QED
  BY <1>1, InvHolds, PTL

(* From the save of Running until its death, an init is in state.json as   *)
(* the live one, whatever the other commands save.                         *)
THEOREM RunningIsFound ==
  ASSUME Keeps
  PROVE  Spec => []RunningIsRecorded
<1>1. IInv => RunningIsRecorded
  <2> SUFFICES ASSUME IInv, NEW s \in Alive, supPc[s] \in {"shimSave", "wait"}
               PROVE  file # None /\ is_live(file.status) /\ file.pid = s
    BY DEF RunningIsRecorded
  <2>1. file \in State /\ file # None /\ Sound(file)
    BY DEF IInv, TypeRecords, Records, InUse
  <2>2. s \in Sup /\ Launched(s) /\ ~Fresh /\ ~AllDead
    BY DEF IInv, Launched, DiedLaunching, Alive, AllDead, Launching, Before
  <2>3. is_live(file.status)
    BY <2>1, <2>2 DEF Sound, Fresh, State, Status, is_live
  <2> QED
    BY <2>1, <2>2, <2>3 DEF IInv, Sound, OneLaunch
<1> QED
  BY <1>1, InvHolds, PTL

(* The freezer of the cgroup and the recorded status agree whenever no     *)
(* command holds the lock.                                                 *)
THEOREM FreezerAgrees ==
  ASSUME Keeps
  PROVE  Spec => []FrozenIffPaused
<1>1. IInv => FrozenIffPaused
  <2> SUFFICES ASSUME IInv, Alive # {}, holders = {} PROVE frozen <=> file.status = "Paused"
    BY DEF FrozenIffPaused
  <2>1. file \in State /\ Sound(file)
    BY DEF IInv, TypeRecords, Records, InUse
  <2>2. CASE Fresh
    BY <2>2 DEF IInv, Freezer, Fresh
  <2>3. CASE ~Fresh /\ ~AllDead
    <3>1. \A p \in Cli : pc[p] # "save"
      BY DEF IInv, Lock, Shape, Section
    <3> QED
      BY <2>3, <3>1 DEF IInv, Freezer, Agree, Changing
  <2>4. CASE AllDead
    <3>1. HasCgroup => \A t \in Sup : ~Launched(t)
      BY <2>4 DEF AllDead, IInv, Populated
    <3>2. ~frozen
      BY <3>1 DEF IInv, Freezer
    <3>3. file.status # "Paused"
      BY <2>1, <3>1 DEF Sound, is_live
    <3> QED
      BY <3>2, <3>3
  <2> QED
    BY <2>2, <2>3, <2>4
<1> QED
  BY <1>1, InvHolds, PTL

(* A stop or wait that returned success has a dead init behind it, also    *)
(* when the shim was killed or the SIGKILL was slow.                       *)
THEOREM ReturnedIsDead ==
  ASSUME Keeps
  PROVE  Spec => []ReturnedMeansDead
<1>1. IInv => ReturnedMeansDead
  <2> SUFFICES ASSUME IInv, NEW p \in Cli, pc[p] = "idle", op[p] \in {"stop", "wait", "rm", "rmf"},
                      out[p] = "ok", mem[p].pid \in Alive
               PROVE  FALSE
    BY DEF ReturnedMeansDead
  <2>1. op[p] \in {"stop", "wait"}
    BY BoundAssumption DEF IInv, Shape, Keeping, AllOps
  <2>2. mem[p] \in State /\ Sound(mem[p]) /\ ~is_live(mem[p].status)
    BY <2>1 DEF IInv, Sync, Ended, TypeRecords, Records, InUse
  <2>3. ~DiedLaunching(mem[p].pid) \/ mem[p].pid = None
    BY <2>2 DEF Sound, Launched, is_live, State, Status
  <2>4. mem[p].status = "Created" \/ AllDead
    BY <2>2 DEF Sound, is_live, State, Status
  <2> QED
    BY <2>2, <2>3, <2>4, NoneAssumption DEF Alive, AllDead, Sound
<1> QED
  BY <1>1, InvHolds, PTL
=============================================================================
