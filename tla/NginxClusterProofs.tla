------------------------- MODULE NginxClusterProofs -------------------------
(* Proofs about NginxCluster for every number of nodes, worker slots, files  *)
(* and every value of the bounds.                                            *)
EXTENDS NginxCluster, TLAPS

(* Next as the list of its actions.                                          *)
LEMMA NextCases ==
    ASSUME [Next]_vars
    PROVE  \/ \E c \in Renderable : CommitEdit(c)
           \/ EnqueueReload \/ RequestReload \/ EnqueueLost
           \/ \E w \in Workers :
                 \/ StartApply(w) \/ AcquireLock(w) \/ TestConfig(w)
                 \/ ReloadNginx(w) \/ ReloadAgain(w) \/ CommitApply(w)
                 \/ WriteMarker(w) \/ RecordState(w) \/ Finish(w) \/ Push(w)
                 \/ StartReconcile(w) \/ CheckMarker(w) \/ ReconcileTest(w)
                 \/ ReconcileReload(w) \/ ReconcileMark(w)
                 \/ ReconcileRecord(w) \/ TaskDies(w)
           \/ \E w \in Workers : \E f \in Files :
                 WriteFile(w, f) \/ RollbackFile(w, f)
           \/ \E n \in Nodes :
                 BeatTick(n) \/ ExpireReconcile(n) \/ RestartWorker(n)
           \/ UNCHANGED vars
  BY DEF Next, Api, ApplyStep, ReconcileStep, Failure

------------------------------------------------------------------------------
(* Type correctness                                                          *)

LEMMA TypeInit == Init => TypeOK
  <1> SUFFICES ASSUME Init PROVE TypeOK
    OBVIOUS
  <1>1. spent \in [{"edits", "requests", "faults", "crashes"} -> Nat]
    BY DEF Init
  <1>2. lastOk \in BOOLEAN /\ newest \in BOOLEAN /\ cut \in BOOLEAN
    BY Zenon DEF Init
  <1> QED
    BY <1>1, <1>2, NodesAssumption, ConfigAssumption
       DEF Init, TypeOK, UNKNOWN_LOCAL_VERSION, NoRow, Results

LEMMA TypeStep ==
    ASSUME TypeOK, [Next]_vars
    PROVE  TypeOK'
  <1> USE NodesAssumption, ConfigAssumption
  <1> USE DEF TypeOK, queueVars, taskVars, dbVars, ghosts, Node
  <1>1. ASSUME NEW c \in Renderable, CommitEdit(c) PROVE TypeOK'
    BY <1>1 DEF CommitEdit, Spend
  <1>2. CASE EnqueueReload
    BY <1>2 DEF EnqueueReload
  <1>3. CASE EnqueueLost
    BY <1>3 DEF EnqueueLost, Spend
  <1>4. CASE RequestReload
    BY <1>4 DEF RequestReload, Spend
  <1>5. ASSUME NEW w \in Workers, StartApply(w) PROVE TypeOK'
    BY <1>5 DEF StartApply, Goto, ApplySteps, ReconcileSteps
  <1>6. ASSUME NEW w \in Workers, AcquireLock(w) PROVE TypeOK'
    BY <1>6
       DEF AcquireLock, LockFree, Goto, ApplySteps, ReconcileSteps, Results
  <1>7. ASSUME NEW w \in Workers, TestConfig(w) PROVE TypeOK'
    BY <1>7
       DEF TestConfig, TestCommand, Goto, Spend, ApplySteps, ReconcileSteps,
           Results
  <1>8. ASSUME NEW w \in Workers, ReloadNginx(w) PROVE TypeOK'
    BY <1>8
       DEF ReloadNginx, ReloadCommand, Load, Goto, Spend, ApplySteps,
           ReconcileSteps, Results
  <1>9. ASSUME NEW w \in Workers, ReloadAgain(w) PROVE TypeOK'
    BY <1>9
       DEF ReloadAgain, ReloadCommand, Load, Goto, Spend, ApplySteps,
           ReconcileSteps
  <1>10. ASSUME NEW w \in Workers, CommitApply(w) PROVE TypeOK'
    BY <1>10
       DEF CommitApply, Goto, NewVersion, Healthy, ApplySteps, ReconcileSteps
  <1>11. ASSUME NEW w \in Workers, WriteMarker(w) PROVE TypeOK'
    BY <1>11 DEF WriteMarker, Goto, ApplySteps, ReconcileSteps
  <1>12. ASSUME NEW w \in Workers, RecordState(w) PROVE TypeOK'
    BY <1>12 DEF RecordState, Upsert, Goto, Spend, ApplySteps, ReconcileSteps
  <1>13. ASSUME NEW w \in Workers, Finish(w) PROVE TypeOK'
    <2>1. lastOk' \in BOOLEAN
      <3>1. lastOk' = (res[w] \in {"same", "changed"}) \/ lastOk' = lastOk
        BY <1>13, Zenon DEF Finish, Healthy
      <3>2. lastOk \in BOOLEAN
        OBVIOUS
      <3>3. CASE lastOk' = (res[w] \in {"same", "changed"})
        BY <3>3
      <3> QED
        BY <3>1, <3>2, <3>3
    <2> QED
      BY <1>13, <2>1 DEF Finish, Goto, Return, Spend, ApplySteps, Results
  <1>14. ASSUME NEW w \in Workers, Push(w) PROVE TypeOK'
    BY <1>14 DEF Push, Return, Goto, ApplySteps, ReconcileSteps, Results
  <1>15. ASSUME NEW w \in Workers, StartReconcile(w) PROVE TypeOK'
    BY <1>15 DEF StartReconcile, Goto, ApplySteps, ReconcileSteps
  <1>16. ASSUME NEW w \in Workers, CheckMarker(w) PROVE TypeOK'
    BY <1>16 DEF CheckMarker, Goto, ApplySteps, ReconcileSteps
  <1>17. ASSUME NEW w \in Workers, ReconcileTest(w) PROVE TypeOK'
    BY <1>17
       DEF ReconcileTest, TestCommand, Goto, Spend, ApplySteps, ReconcileSteps
  <1>18. ASSUME NEW w \in Workers, ReconcileReload(w) PROVE TypeOK'
    BY <1>18
       DEF ReconcileReload, ReloadCommand, Load, Goto, Spend, ApplySteps,
           ReconcileSteps
  <1>19. ASSUME NEW w \in Workers, ReconcileMark(w) PROVE TypeOK'
    BY <1>19 DEF ReconcileMark, Goto, ApplySteps, ReconcileSteps
  <1>20. ASSUME NEW w \in Workers, ReconcileRecord(w) PROVE TypeOK'
    BY <1>20
       DEF ReconcileRecord, Upsert, Return, Goto, Spend, ApplySteps,
           ReconcileSteps, Results
  <1>21. ASSUME NEW w \in Workers, TaskDies(w) PROVE TypeOK'
    BY <1>21
       DEF TaskDies, Return, Goto, Spend, ApplySteps, ReconcileSteps, Results
  <1>22. ASSUME NEW w \in Workers, NEW f \in Files, WriteFile(w, f)
         PROVE  TypeOK'
    BY <1>22 DEF WriteFile, SyncFile, Reachable, Goto, Configs, ApplySteps
  <1>23. ASSUME NEW w \in Workers, NEW f \in Files, RollbackFile(w, f)
         PROVE  TypeOK'
    BY <1>23 DEF RollbackFile, SyncFile, Reachable, Goto, Configs, ApplySteps
  <1>24. ASSUME NEW n \in Nodes, BeatTick(n) PROVE TypeOK'
    BY <1>24 DEF BeatTick
  <1>25. ASSUME NEW n \in Nodes, ExpireReconcile(n) PROVE TypeOK'
    BY <1>25 DEF ExpireReconcile
  <1>26. ASSUME NEW n \in Nodes, RestartWorker(n) PROVE TypeOK'
    BY <1>26 DEF RestartWorker, Spend, Results, UNKNOWN_LOCAL_VERSION
  <1>27. CASE UNCHANGED vars
    BY <1>27 DEF vars
  <1> QED
    BY <1>1, <1>2, <1>3, <1>4, <1>5, <1>6, <1>7, <1>8, <1>9, <1>10, <1>11,
       <1>12, <1>13, <1>14, <1>15, <1>16, <1>17, <1>18, <1>19, <1>20, <1>21,
       <1>22, <1>23, <1>24, <1>25, <1>26, <1>27, NextCases

(* Every variable keeps its type in every behaviour: counters stay natural,  *)
(* every file set on disk, served or remembered is a set of managed files.   *)
THEOREM TypeCorrect == Spec => []TypeOK
  BY TypeInit, TypeStep, PTL DEF Spec

------------------------------------------------------------------------------
(* The files: LockHeld, AppliedAsValidated, Phases and Settled               *)

LEMMA FileInit == Init => FileInv
  BY NodesAssumption, ConfigAssumption
     DEF Init, FileInv, LockHeld, AppliedAsValidated, Phases, Settled,
         SettledConfig, LockedSteps

(* A step that leaves the files, the lock and every task inside the lock     *)
(* alone disturbs none of it.                                                *)
LEMMA FileFrame ==
    ASSUME TypeOK, FileInv, UNCHANGED <<lock, disk, pub, cut>>,
           \A w \in Workers :
              \/ /\ pc'[w] = pc[w] /\ want'[w] = want[w]
                 /\ prev'[w] = prev[w] /\ res'[w] = res[w]
              \/ pc[w] \notin LockedSteps /\ pc'[w] \notin LockedSteps
    PROVE  FileInv'
  <1>1. LockHeld'
    BY DEF FileInv, LockHeld
  <1>2. AppliedAsValidated'
    BY DEF FileInv, AppliedAsValidated, LockedSteps
  <1>3. Phases'
    BY DEF FileInv, Phases, LockedSteps
  <1>4. Settled'
    BY DEF FileInv, LockHeld, Settled, SettledConfig
  <1> QED
    BY <1>1, <1>2, <1>3, <1>4 DEF FileInv

LEMMA FileStep ==
    ASSUME TypeOK, FileInv, [Next]_vars
    PROVE  FileInv'
  <1> USE NodesAssumption, ConfigAssumption
  <1> USE DEF queueVars, taskVars, dbVars, ghosts
  <1>1. ASSUME NEW c \in Renderable, CommitEdit(c) PROVE FileInv'
    BY <1>1, FileFrame DEF CommitEdit
  <1>2. CASE EnqueueReload
    BY <1>2, FileFrame DEF EnqueueReload
  <1>3. CASE EnqueueLost
    BY <1>3, FileFrame DEF EnqueueLost
  <1>4. CASE RequestReload
    BY <1>4, FileFrame DEF RequestReload
  <1>5. ASSUME NEW w \in Workers, StartApply(w) PROVE FileInv'
    BY <1>5, FileFrame DEF StartApply, Goto, TypeOK, LockedSteps
  <1>6. ASSUME NEW w \in Workers, WriteMarker(w) PROVE FileInv'
    BY <1>6, FileFrame DEF WriteMarker, Goto, TypeOK, LockedSteps
  <1>7. ASSUME NEW w \in Workers, RecordState(w) PROVE FileInv'
    BY <1>7, FileFrame DEF RecordState, Goto, TypeOK, LockedSteps
  <1>8. ASSUME NEW w \in Workers, Finish(w) PROVE FileInv'
    BY <1>8, FileFrame DEF Finish, Goto, Return, TypeOK, LockedSteps
  <1>9. ASSUME NEW w \in Workers, Push(w) PROVE FileInv'
    BY <1>9, FileFrame DEF Push, Return, Goto, TypeOK, LockedSteps
  <1>10. ASSUME NEW w \in Workers, StartReconcile(w) PROVE FileInv'
    BY <1>10, FileFrame DEF StartReconcile, Goto, TypeOK, LockedSteps
  <1>11. ASSUME NEW w \in Workers, CheckMarker(w) PROVE FileInv'
    BY <1>11, FileFrame DEF CheckMarker, Goto, TypeOK, LockedSteps
  <1>12. ASSUME NEW w \in Workers, ReconcileTest(w) PROVE FileInv'
    BY <1>12, FileFrame DEF ReconcileTest, Goto, TypeOK, LockedSteps
  <1>13. ASSUME NEW w \in Workers, ReconcileReload(w) PROVE FileInv'
    BY <1>13, FileFrame DEF ReconcileReload, Goto, TypeOK, LockedSteps
  <1>14. ASSUME NEW w \in Workers, ReconcileMark(w) PROVE FileInv'
    BY <1>14, FileFrame DEF ReconcileMark, Goto, TypeOK, LockedSteps
  <1>15. ASSUME NEW w \in Workers, ReconcileRecord(w) PROVE FileInv'
    BY <1>15, FileFrame DEF ReconcileRecord, Return, Goto, TypeOK, LockedSteps
  <1>16. ASSUME NEW w \in Workers, AcquireLock(w) PROVE FileInv'
    <2>1. LockHeld'
      BY <1>16
         DEF AcquireLock, LockFree, Goto, TypeOK, FileInv, LockHeld,
             LockedSteps
    <2>2. AppliedAsValidated'
      BY <1>16
         DEF AcquireLock, LockFree, Goto, TypeOK, FileInv, LockHeld,
             AppliedAsValidated, Phases, LockedSteps
    <2>3. Phases'
      BY <1>16
         DEF AcquireLock, LockFree, Goto, TypeOK, FileInv, LockHeld, Phases,
             AppliedAsValidated, LockedSteps
    <2>4. Settled'
      BY <1>16
         DEF AcquireLock, LockFree, Goto, TypeOK, FileInv, LockHeld,
             AppliedAsValidated, Phases, Settled, SettledConfig, LockedSteps
    <2> QED
      BY <2>1, <2>2, <2>3, <2>4 DEF FileInv
  <1>17. ASSUME NEW w \in Workers, TestConfig(w) PROVE FileInv'
    <2>1. LockHeld'
      BY <1>17
         DEF TestConfig, TestCommand, Goto, Spend, TypeOK, FileInv, LockHeld,
             LockedSteps
    <2>2. AppliedAsValidated'
      BY <1>17
         DEF TestConfig, TestCommand, Goto, Spend, TypeOK, FileInv, LockHeld,
             AppliedAsValidated, Phases, LockedSteps
    <2>3. Phases'
      BY <1>17
         DEF TestConfig, TestCommand, Goto, Spend, TypeOK, FileInv, LockHeld,
             Phases, AppliedAsValidated, LockedSteps
    <2>4. Settled'
      BY <1>17
         DEF TestConfig, TestCommand, Goto, Spend, TypeOK, FileInv, LockHeld,
             AppliedAsValidated, Phases, Settled, SettledConfig, LockedSteps
    <2> QED
      BY <2>1, <2>2, <2>3, <2>4 DEF FileInv
  <1>18. ASSUME NEW w \in Workers, ReloadNginx(w) PROVE FileInv'
    <2>1. LockHeld'
      BY <1>18
         DEF ReloadNginx, ReloadCommand, Load, Goto, Spend, TypeOK, FileInv,
             LockHeld, LockedSteps
    <2>2. AppliedAsValidated'
      BY <1>18
         DEF ReloadNginx, ReloadCommand, Load, Goto, Spend, TypeOK, FileInv,
             LockHeld, AppliedAsValidated, Phases, LockedSteps
    <2>3. Phases'
      BY <1>18
         DEF ReloadNginx, ReloadCommand, Load, Goto, Spend, TypeOK, FileInv,
             LockHeld, Phases, AppliedAsValidated, LockedSteps
    <2>4. Settled'
      BY <1>18
         DEF ReloadNginx, ReloadCommand, Load, Goto, Spend, TypeOK, FileInv,
             LockHeld, AppliedAsValidated, Phases, Settled, SettledConfig,
             LockedSteps
    <2> QED
      BY <2>1, <2>2, <2>3, <2>4 DEF FileInv
  <1>19. ASSUME NEW w \in Workers, ReloadAgain(w) PROVE FileInv'
    <2>1. LockHeld'
      BY <1>19
         DEF ReloadAgain, ReloadCommand, Load, Goto, Spend, TypeOK, FileInv,
             LockHeld, LockedSteps
    <2>2. AppliedAsValidated'
      BY <1>19
         DEF ReloadAgain, ReloadCommand, Load, Goto, Spend, TypeOK, FileInv,
             LockHeld, AppliedAsValidated, Phases, LockedSteps
    <2>3. Phases'
      BY <1>19
         DEF ReloadAgain, ReloadCommand, Load, Goto, Spend, TypeOK, FileInv,
             LockHeld, Phases, AppliedAsValidated, LockedSteps
    <2>4. Settled'
      BY <1>19
         DEF ReloadAgain, ReloadCommand, Load, Goto, Spend, TypeOK, FileInv,
             LockHeld, AppliedAsValidated, Phases, Settled, SettledConfig,
             LockedSteps
    <2> QED
      BY <2>1, <2>2, <2>3, <2>4 DEF FileInv
  <1>20. ASSUME NEW w \in Workers, CommitApply(w) PROVE FileInv'
    <2>1. LockHeld'
      BY <1>20
         DEF CommitApply, Goto, NewVersion, Healthy, TypeOK, FileInv,
             LockHeld, LockedSteps
    <2>2. AppliedAsValidated'
      BY <1>20
         DEF CommitApply, Goto, NewVersion, Healthy, TypeOK, FileInv,
             LockHeld, AppliedAsValidated, Phases, LockedSteps
    <2>3. Phases'
      BY <1>20
         DEF CommitApply, Goto, NewVersion, Healthy, TypeOK, FileInv,
             LockHeld, Phases, AppliedAsValidated, LockedSteps
    <2>4. Settled'
      BY <1>20
         DEF CommitApply, Goto, NewVersion, Healthy, TypeOK, FileInv,
             LockHeld, AppliedAsValidated, Phases, Settled, SettledConfig,
             LockedSteps
    <2> QED
      BY <2>1, <2>2, <2>3, <2>4 DEF FileInv
  <1>21. ASSUME NEW w \in Workers, NEW f \in Files, WriteFile(w, f)
         PROVE  FileInv'
    <2>1. LockHeld'
      BY <1>21
         DEF WriteFile, SyncFile, Goto, TypeOK, FileInv, LockHeld, LockedSteps
    <2>2. AppliedAsValidated'
      BY <1>21
         DEF WriteFile, SyncFile, Goto, TypeOK, FileInv, LockHeld,
             AppliedAsValidated, Phases, LockedSteps
    <2>3. Phases'
      BY <1>21
         DEF WriteFile, SyncFile, Goto, TypeOK, FileInv, LockHeld, Phases,
             LockedSteps
    <2>4. Settled'
      BY <1>21
         DEF WriteFile, SyncFile, Goto, TypeOK, FileInv, LockHeld, Settled,
             SettledConfig, LockedSteps
    <2> QED
      BY <2>1, <2>2, <2>3, <2>4 DEF FileInv
  <1>22. ASSUME NEW w \in Workers, NEW f \in Files, RollbackFile(w, f)
         PROVE  FileInv'
    <2>1. LockHeld'
      BY <1>22
         DEF RollbackFile, SyncFile, Goto, TypeOK, FileInv, LockHeld,
             LockedSteps
    <2>2. AppliedAsValidated'
      BY <1>22
         DEF RollbackFile, SyncFile, Goto, TypeOK, FileInv, LockHeld,
             AppliedAsValidated, Phases, LockedSteps
    <2>3. Phases'
      BY <1>22
         DEF RollbackFile, SyncFile, Goto, TypeOK, FileInv, LockHeld, Phases,
             LockedSteps
    <2>4. Settled'
      BY <1>22
         DEF RollbackFile, SyncFile, Goto, TypeOK, FileInv, LockHeld, Settled,
             SettledConfig, LockedSteps
    <2> QED
      BY <2>1, <2>2, <2>3, <2>4 DEF FileInv
  <1>23. ASSUME NEW w \in Workers, TaskDies(w) PROVE FileInv'
    <2>1. LockHeld'
      BY <1>23
         DEF TaskDies, Return, Goto, TypeOK, FileInv, LockHeld, LockedSteps
    <2>2. AppliedAsValidated'
      BY <1>23
         DEF TaskDies, Return, Goto, TypeOK, FileInv, LockHeld,
             AppliedAsValidated, LockedSteps
    <2>3. Phases'
      BY <1>23
         DEF TaskDies, Return, Goto, TypeOK, FileInv, LockHeld, Phases,
             LockedSteps
    <2>4. Settled'
      BY <1>23
         DEF TaskDies, Return, Goto, TypeOK, FileInv, LockHeld, Settled,
             SettledConfig, LockedSteps
    <2> QED
      BY <2>1, <2>2, <2>3, <2>4 DEF FileInv
  <1>24. ASSUME NEW n \in Nodes, RestartWorker(n) PROVE FileInv'
    <2>1. LockHeld'
      BY <1>24 DEF RestartWorker, Node, TypeOK, FileInv, LockHeld, LockedSteps
    <2>2. AppliedAsValidated'
      BY <1>24
         DEF RestartWorker, Node, TypeOK, FileInv, LockHeld,
             AppliedAsValidated, LockedSteps
    <2>3. Phases'
      BY <1>24
         DEF RestartWorker, Node, TypeOK, FileInv, LockHeld, Phases,
             LockedSteps
    <2>4. Settled'
      BY <1>24
         DEF RestartWorker, Node, TypeOK, FileInv, LockHeld, Settled,
             SettledConfig, LockedSteps
    <2> QED
      BY <2>1, <2>2, <2>3, <2>4 DEF FileInv
  <1>25. ASSUME NEW n \in Nodes, BeatTick(n) PROVE FileInv'
    BY <1>25, FileFrame DEF BeatTick
  <1>26. ASSUME NEW n \in Nodes, ExpireReconcile(n) PROVE FileInv'
    BY <1>26, FileFrame DEF ExpireReconcile
  <1>27. CASE UNCHANGED vars
    BY <1>27, FileFrame DEF vars
  <1> QED
    BY <1>1, <1>2, <1>3, <1>4, <1>5, <1>6, <1>7, <1>8, <1>9, <1>10, <1>11,
       <1>12, <1>13, <1>14, <1>15, <1>16, <1>17, <1>18, <1>19, <1>20, <1>21,
       <1>22, <1>23, <1>24, <1>25, <1>26, <1>27, NextCases

------------------------------------------------------------------------------
(* The versions: NeverAhead and VersionBound                                 *)

LEMMA VersionInit == Init => NeverAhead /\ VersionBound
  BY NodesAssumption
     DEF Init, NeverAhead, VersionBound, UNKNOWN_LOCAL_VERSION, NoRow

(* A step that moves no version, and gives a task or a node only a version   *)
(* that is already bounded, keeps the bounds.                                *)
LEMMA VersionFrame ==
    ASSUME TypeOK, NeverAhead, VersionBound, UNCHANGED version,
           \A n \in Nodes : marker'[n] <= version /\ registry'[n] <= version,
           \A n \in Nodes : loadedAt'[n] \in {loadedAt[n], version},
           \A w \in Workers :
              /\ ver'[w] <= version /\ old'[w] <= version
              /\ pc'[w] = "rmark" =>
                   \/ pc[w] = "rmark" /\ ver'[w] = ver[w]
                   \/ loadedAt'[Node(w)] = version
    PROVE  NeverAhead' /\ VersionBound'
  <1>1. NeverAhead'
    BY DEF NeverAhead
  <1>2. ASSUME NEW w \in Workers, pc'[w] = "rmark"
        PROVE  ver'[w] <= loadedAt'[Node(w)]
    BY <1>2, NodesAssumption DEF VersionBound, TypeOK, Node
  <1> QED
    BY <1>1, <1>2 DEF VersionBound, Node

LEMMA VersionStep ==
    ASSUME TypeOK, NeverAhead, VersionBound, [Next]_vars
    PROVE  NeverAhead' /\ VersionBound'
  <1> DEFINE Goal == NeverAhead' /\ VersionBound'
  <1> USE NodesAssumption
  <1> USE DEF queueVars, taskVars, dbVars, ghosts, Node, TypeOK, NeverAhead,
              VersionBound
  <1>1. ASSUME NEW c \in Renderable, CommitEdit(c) PROVE Goal
    BY <1>1, VersionFrame DEF CommitEdit
  <1>2. CASE EnqueueReload
    BY <1>2, VersionFrame DEF EnqueueReload
  <1>3. CASE EnqueueLost
    BY <1>3, VersionFrame DEF EnqueueLost
  <1>4. CASE RequestReload
    BY <1>4, VersionFrame DEF RequestReload
  <1>5. ASSUME NEW w \in Workers, StartApply(w) PROVE Goal
    BY <1>5, VersionFrame DEF StartApply, Goto
  <1>6. ASSUME NEW w \in Workers, AcquireLock(w) PROVE Goal
    BY <1>6, VersionFrame DEF AcquireLock, Goto
  <1>7. ASSUME NEW w \in Workers, TestConfig(w) PROVE Goal
    BY <1>7, VersionFrame DEF TestConfig, Goto
  <1>8. ASSUME NEW w \in Workers, ReloadNginx(w) PROVE Goal
    BY <1>8, VersionFrame DEF ReloadNginx, ReloadCommand, Load, Goto
  <1>9. ASSUME NEW w \in Workers, ReloadAgain(w) PROVE Goal
    BY <1>9, VersionFrame DEF ReloadAgain, ReloadCommand, Load, Goto
  <1>10. ASSUME NEW w \in Workers, CommitApply(w) PROVE Goal
    BY <1>10 DEF CommitApply, Goto, NewVersion
  <1>11. ASSUME NEW w \in Workers, WriteMarker(w) PROVE Goal
    BY <1>11, VersionFrame DEF WriteMarker, Goto
  <1>12. ASSUME NEW w \in Workers, RecordState(w) PROVE Goal
    BY <1>12, VersionFrame DEF RecordState, Upsert, Goto
  <1>13. ASSUME NEW w \in Workers, Finish(w) PROVE Goal
    BY <1>13, VersionFrame DEF Finish, Goto, Return
  <1>14. ASSUME NEW w \in Workers, Push(w) PROVE Goal
    BY <1>14, VersionFrame DEF Push, Return, Goto
  <1>15. ASSUME NEW w \in Workers, StartReconcile(w) PROVE Goal
    BY <1>15, VersionFrame DEF StartReconcile, Goto
  <1>16. ASSUME NEW w \in Workers, CheckMarker(w) PROVE Goal
    BY <1>16, VersionFrame DEF CheckMarker, Goto
  <1>17. ASSUME NEW w \in Workers, ReconcileTest(w) PROVE Goal
    BY <1>17, VersionFrame DEF ReconcileTest, Goto
  <1>18. ASSUME NEW w \in Workers, ReconcileReload(w) PROVE Goal
    BY <1>18, VersionFrame DEF ReconcileReload, ReloadCommand, Load, Goto
  <1>19. ASSUME NEW w \in Workers, ReconcileMark(w) PROVE Goal
    BY <1>19, VersionFrame DEF ReconcileMark, Goto
  <1>20. ASSUME NEW w \in Workers, ReconcileRecord(w) PROVE Goal
    BY <1>20, VersionFrame DEF ReconcileRecord, Upsert, Return, Goto
  <1>21. ASSUME NEW w \in Workers, TaskDies(w) PROVE Goal
    BY <1>21, VersionFrame DEF TaskDies, Return, Goto
  <1>22. ASSUME NEW w \in Workers, NEW f \in Files, WriteFile(w, f) PROVE Goal
    BY <1>22, VersionFrame DEF WriteFile, Goto
  <1>23. ASSUME NEW w \in Workers, NEW f \in Files, RollbackFile(w, f)
         PROVE  Goal
    BY <1>23, VersionFrame DEF RollbackFile, Goto
  <1>24. ASSUME NEW n \in Nodes, BeatTick(n) PROVE Goal
    BY <1>24, VersionFrame DEF BeatTick
  <1>25. ASSUME NEW n \in Nodes, ExpireReconcile(n) PROVE Goal
    BY <1>25, VersionFrame DEF ExpireReconcile
  <1>26. ASSUME NEW n \in Nodes, RestartWorker(n) PROVE Goal
    BY <1>26, VersionFrame DEF RestartWorker, UNKNOWN_LOCAL_VERSION
  <1>27. CASE UNCHANGED vars
    BY <1>27, VersionFrame DEF vars
  <1> QED
    BY <1>1, <1>2, <1>3, <1>4, <1>5, <1>6, <1>7, <1>8, <1>9, <1>10, <1>11,
       <1>12, <1>13, <1>14, <1>15, <1>16, <1>17, <1>18, <1>19, <1>20, <1>21,
       <1>22, <1>23, <1>24, <1>25, <1>26, <1>27, NextCases

------------------------------------------------------------------------------
(* The theorems                                                              *)

(* The conjunction of all of it is an invariant of the specification.        *)
THEOREM Inductive == Spec => []IInv
  <1>1. Init => IInv
    BY TypeInit, FileInit, VersionInit DEF IInv
  <1>2. IInv /\ [Next]_vars => IInv'
    BY TypeStep, FileStep, VersionStep DEF IInv
  <1> QED
    BY <1>1, <1>2, PTL DEF Spec

(* What reload loads, what the version comes to stand for and what a failed  *)
(* apply leaves behind are what `nginx -t` accepted or what was there before,*)
(* whatever tasks, faults and crashes interleave.                            *)
THEOREM AppliedAsValidatedHolds == Spec => []AppliedAsValidated
  <1>1. IInv => AppliedAsValidated
    BY DEF IInv, FileInv
  <1> QED
    BY <1>1, Inductive, PTL

(* While no task has died inside the lock, a free lock means that the shared *)
(* files are the accepted set that config_version stands for.                *)
THEOREM VersionFaithfulHolds == Spec => []VersionFaithful
  <1>1. IInv => VersionFaithful
    BY NodesAssumption
       DEF IInv, FileInv, Settled, SettledConfig, VersionFaithful
  <1> QED
    BY <1>1, Inductive, PTL

(* Under the same condition an apply that changes nothing found exactly the  *)
(* published set, so its silence towards the other nodes hides nothing.      *)
THEOREM UnchangedMeansPublishedHolds ==
    Spec => [](~cut => UnchangedMeansPublished)
  <1>1. IInv => (~cut => UnchangedMeansPublished)
    BY NodesAssumption
       DEF IInv, FileInv, LockHeld, LockedSteps, AppliedAsValidated, Settled,
           SettledConfig, UnchangedMeansPublished
  <1> QED
    BY <1>1, Inductive, PTL

(* No marker and no registry row is ever ahead of the committed version.     *)
THEOREM NeverAheadHolds == Spec => []NeverAhead
  <1>1. IInv => NeverAhead
    BY DEF IInv
  <1> QED
    BY <1>1, Inductive, PTL

(* A reconcile advances the marker only to a version that was committed      *)
(* before it loaded the files.                                               *)
THEOREM ReconcileClaimsHolds == Spec => ReconcileClaimsWhatItLoaded
  <1> DEFINE Claim == \A w \in Workers :
                         pc[w] = "rmark" /\ pc'[w] = "rrecord"
                            => marker'[Node(w)] <= loadedAt[Node(w)]
  <1>1. ASSUME IInv, [Next]_vars PROVE [Claim]_vars
    <2> SUFFICES ASSUME NEW w \in Workers, pc[w] = "rmark", pc'[w] = "rrecord"
                 PROVE  marker'[Node(w)] <= loadedAt[Node(w)]
      OBVIOUS
    <2> USE DEF IInv, TypeOK
    <2>1. ReconcileMark(w)
      <3> DEFINE Moves(x) == \E b : pc' = [pc EXCEPT ![x] = b]
      <3>1. pc' # pc
        OBVIOUS
      <3>2. ASSUME NEW x \in Workers, Moves(x) PROVE x = w
        BY <3>2
      <3>3. ASSUME NEW n \in Nodes, RestartWorker(n) PROVE FALSE
        BY <3>3 DEF RestartWorker
      <3>4. ASSUME NEW c \in Renderable, CommitEdit(c) PROVE FALSE
        BY <3>1, <3>4 DEF CommitEdit
      <3>5. ASSUME NEW n \in Nodes, BeatTick(n) \/ ExpireReconcile(n)
            PROVE  FALSE
        BY <3>1, <3>5 DEF BeatTick, ExpireReconcile
      <3>6. ~(EnqueueReload \/ RequestReload \/ EnqueueLost \/ UNCHANGED vars)
        BY <3>1 DEF EnqueueReload, RequestReload, EnqueueLost, vars
      <3>7. ASSUME NEW x \in Workers, NEW f \in Files,
                   WriteFile(x, f) \/ RollbackFile(x, f)
            PROVE  FALSE
        <4>1. Moves(x) /\ pc[x] # "rmark"
          BY <3>7 DEF WriteFile, RollbackFile, Goto
        <4> QED
          BY <4>1, <3>2
      <3>8. ASSUME NEW x \in Workers,
                   \/ StartApply(x) \/ AcquireLock(x) \/ TestConfig(x)
                   \/ ReloadNginx(x) \/ ReloadAgain(x) \/ CommitApply(x)
                   \/ WriteMarker(x) \/ RecordState(x) \/ Finish(x) \/ Push(x)
                   \/ StartReconcile(x) \/ CheckMarker(x) \/ ReconcileTest(x)
                   \/ ReconcileReload(x) \/ ReconcileRecord(x)
            PROVE  FALSE
        <4>1. Moves(x) /\ pc[x] # "rmark"
          BY <3>8 DEF StartApply, AcquireLock, TestConfig, ReloadNginx,
                      ReloadAgain, CommitApply, WriteMarker, RecordState,
                      Finish, Push, StartReconcile, CheckMarker,
                      ReconcileTest, ReconcileReload, ReconcileRecord, Goto,
                      Return
        <4> QED
          BY <4>1, <3>2
      <3>9. ASSUME NEW x \in Workers, TaskDies(x) PROVE FALSE
        <4>1. pc' = [pc EXCEPT ![x] = "idle"]
          BY <3>9 DEF TaskDies, Return, Goto
        <4> QED
          BY <4>1
      <3>10. ASSUME NEW x \in Workers, ReconcileMark(x) PROVE x = w
        BY <3>2, <3>10 DEF ReconcileMark, Goto
      <3> QED
        BY <3>3, <3>4, <3>5, <3>6, <3>7, <3>8, <3>9, <3>10, <1>1, NextCases
    <2> QED
      BY <2>1, <1>1, NodesAssumption DEF ReconcileMark, VersionBound, Node
  <1> QED
    BY <1>1, Inductive, PTL DEF Spec, ReconcileClaimsWhatItLoaded

------------------------------------------------------------------------------
(* Refinement                                                                *)

(* A step that keeps the lock, the version, what the holder found and, while *)
(* nobody holds the lock, the files, is invisible in the register.           *)
LEMMA RegisterFrame ==
    ASSUME UNCHANGED <<lock, version>>,
           lock \in Workers => prev'[lock] = prev[lock],
           lock \notin Workers => disk' = disk
    PROVE  UNCHANGED <<SettledConfig, version>>
  BY DEF SettledConfig

(* With HA on and no task dying, the whole apply path - rendering, writing   *)
(* file by file, `nginx -t`, reload, rollback, bump - implements an atomic,  *)
(* versioned register of accepted configurations.                            *)
THEOREM RegisterRefinement ==
    ASSUME HaEnabled, MaxCrashes = 0
    PROVE  Spec => ImplementsRegister
  <1> USE NodesAssumption, ConfigAssumption
  <1>1. Init => Register!Init
    BY DEF Init, Register!Init, SettledConfig
  <1>2. ASSUME IInv, [Next]_vars
        PROVE  [Register!Publish]_<<SettledConfig, version>>
    <2> DEFINE Goal == [Register!Publish]_<<SettledConfig, version>>
    <2> USE <1>2 DEF queueVars, taskVars, dbVars, ghosts
    <2>1. ASSUME NEW w \in Workers, AcquireLock(w) PROVE Goal
      BY <2>1 DEF AcquireLock, LockFree, SettledConfig, IInv, TypeOK
    <2>2. ASSUME NEW w \in Workers, CommitApply(w) PROVE Goal
      <3>1. lock = w /\ lock' \notin Workers /\ disk' = disk
        BY <2>2 DEF CommitApply, IInv, FileInv, LockHeld, LockedSteps
      <3>2. SettledConfig = prev[w] /\ SettledConfig' = disk
        BY <3>1 DEF SettledConfig
      <3>3. CASE res[w] = "changed"
        BY <2>2, <3>2, <3>3
           DEF CommitApply, NewVersion, IInv, FileInv, AppliedAsValidated,
               Phases, Register!Publish
      <3>4. CASE res[w] # "changed"
        BY <2>2, <3>2, <3>4
           DEF CommitApply, NewVersion, IInv, FileInv, AppliedAsValidated
      <3> QED
        BY <3>3, <3>4
    <2>3. ASSUME NEW w \in Workers, NEW f \in Files,
                 WriteFile(w, f) \/ RollbackFile(w, f)
          PROVE  Goal
      <3>1. lock \in Workers
        BY <2>3
           DEF WriteFile, RollbackFile, IInv, FileInv, LockHeld, LockedSteps
      <3> QED
        BY <2>3, <3>1, RegisterFrame DEF WriteFile, RollbackFile
    <2>4. ASSUME NEW w \in Workers,
                 \/ Finish(w) \/ Push(w) \/ ReconcileRecord(w)
          PROVE  Goal
      <3>1. pc[w] \notin LockedSteps /\ UNCHANGED <<lock, version, disk>>
        BY <2>4 DEF Finish, Push, ReconcileRecord, LockedSteps
      <3>2. lock # w
        BY <3>1 DEF IInv, FileInv, LockHeld
      <3>3. prev' = prev \/ prev' = [prev EXCEPT ![w] = InitialConfig]
        BY <2>4 DEF Finish, Push, ReconcileRecord, Return
      <3> QED
        BY <3>1, <3>2, <3>3, RegisterFrame DEF IInv, TypeOK
    <2>5. ASSUME NEW w \in Workers,
                 \/ StartApply(w) \/ TestConfig(w) \/ ReloadNginx(w)
                 \/ ReloadAgain(w) \/ WriteMarker(w) \/ RecordState(w)
                 \/ StartReconcile(w) \/ CheckMarker(w) \/ ReconcileTest(w)
                 \/ ReconcileReload(w) \/ ReconcileMark(w)
          PROVE  Goal
      <3>1. UNCHANGED <<lock, version, disk, prev>>
        BY <2>5 DEF StartApply, TestConfig, ReloadNginx, ReloadAgain,
                    WriteMarker, RecordState, StartReconcile, CheckMarker,
                    ReconcileTest, ReconcileReload, ReconcileMark
      <3> QED
        BY <3>1, RegisterFrame
    <2>6. CASE \/ \E c \in Renderable : CommitEdit(c)
               \/ EnqueueReload \/ RequestReload \/ UNCHANGED vars
               \/ \E n \in Nodes : BeatTick(n) \/ ExpireReconcile(n)
      <3>1. UNCHANGED <<lock, version, disk, prev>>
        BY <2>6 DEF CommitEdit, EnqueueReload, RequestReload, vars, BeatTick,
                    ExpireReconcile
      <3> QED
        BY <3>1, RegisterFrame
    <2>7. ~CanCrash
      BY DEF CanCrash, IInv, TypeOK
    <2>8. ~EnqueueLost /\ (\A w \in Workers : ~TaskDies(w))
             /\ \A n \in Nodes : ~RestartWorker(n)
      BY <2>7 DEF EnqueueLost, TaskDies, RestartWorker
    <2> QED
      BY <2>1, <2>2, <2>3, <2>4, <2>5, <2>6, <2>8, NextCases
  <1> QED
    BY <1>1, <1>2, Inductive, PTL
       DEF Spec, ImplementsRegister, Register!Spec

------------------------------------------------------------------------------
(* What nginx serves, and what is recorded of it                             *)

(* Where no two tasks can meet outside the lock: a reconcile reads the files *)
(* without it.                                                               *)
OneSlot == \A v, w \in Workers : v = w
NoOverlap == ~HaEnabled \/ OneSlot

(* Without HA no reconcile is ever queued.                                   *)
OffMeansNoReconcile ==
    ~HaEnabled =>
        recQ = {} /\ \A w \in Workers : pc[w] \notin ReconcileSteps \union {"push"}

(* Every file set a task or nginx holds was rendered as a whole.             *)
Rendered ==
    /\ {InitialConfig, desired, pub} \subseteq snaps
    /\ \A w \in Workers : want[w] \in snaps
    /\ ~cut => NeverHalfApplied

(* A reconcile is only ever queued by a beat or a push of a cluster.         *)
LEMMA OffStep ==
    ASSUME TypeOK, OffMeansNoReconcile, [Next]_vars
    PROVE  OffMeansNoReconcile'
  <1> USE DEF queueVars, taskVars, dbVars, ghosts, TypeOK,
              OffMeansNoReconcile, ReconcileSteps
  <1>1. ASSUME NEW c \in Renderable, CommitEdit(c) PROVE OffMeansNoReconcile'
    BY <1>1 DEF CommitEdit, Spend
  <1>2. CASE EnqueueReload
    BY <1>2 DEF EnqueueReload
  <1>3. CASE EnqueueLost
    BY <1>3 DEF EnqueueLost, Spend
  <1>4. CASE RequestReload
    BY <1>4 DEF RequestReload, Spend
  <1>5. ASSUME NEW w \in Workers, StartApply(w) PROVE OffMeansNoReconcile'
    BY <1>5 DEF StartApply, Goto
  <1>6. ASSUME NEW w \in Workers, AcquireLock(w) PROVE OffMeansNoReconcile'
    BY <1>6 DEF AcquireLock, Goto, LockFree
  <1>7. ASSUME NEW w \in Workers, TestConfig(w) PROVE OffMeansNoReconcile'
    BY <1>7 DEF TestConfig, Spend, Goto, TestCommand
  <1>8. ASSUME NEW w \in Workers, ReloadNginx(w) PROVE OffMeansNoReconcile'
    BY <1>8 DEF ReloadNginx, Spend, Goto, ReloadCommand, Load
  <1>9. ASSUME NEW w \in Workers, ReloadAgain(w) PROVE OffMeansNoReconcile'
    BY <1>9 DEF ReloadAgain, Spend, Goto, ReloadCommand, Load
  <1>10. ASSUME NEW w \in Workers, CommitApply(w) PROVE OffMeansNoReconcile'
    BY <1>10 DEF CommitApply, Goto
  <1>11. ASSUME NEW w \in Workers, WriteMarker(w) PROVE OffMeansNoReconcile'
    BY <1>11 DEF WriteMarker, Goto
  <1>12. ASSUME NEW w \in Workers, RecordState(w) PROVE OffMeansNoReconcile'
    BY <1>12 DEF RecordState, Spend, Goto, Upsert
  <1>13. ASSUME NEW w \in Workers, Finish(w) PROVE OffMeansNoReconcile'
    BY <1>13 DEF Finish, Spend, Goto, Return
  <1>14. ASSUME NEW w \in Workers, Push(w) PROVE OffMeansNoReconcile'
    BY <1>14 DEF Push, Goto, Return
  <1>15. ASSUME NEW w \in Workers, StartReconcile(w)
         PROVE  OffMeansNoReconcile'
    BY <1>15 DEF StartReconcile, Goto
  <1>16. ASSUME NEW w \in Workers, CheckMarker(w) PROVE OffMeansNoReconcile'
    BY <1>16 DEF CheckMarker, Goto
  <1>17. ASSUME NEW w \in Workers, ReconcileTest(w) PROVE OffMeansNoReconcile'
    BY <1>17 DEF ReconcileTest, Spend, Goto, TestCommand
  <1>18. ASSUME NEW w \in Workers, ReconcileReload(w)
         PROVE  OffMeansNoReconcile'
    BY <1>18 DEF ReconcileReload, Spend, Goto, ReloadCommand, Load
  <1>19. ASSUME NEW w \in Workers, ReconcileMark(w) PROVE OffMeansNoReconcile'
    BY <1>19 DEF ReconcileMark, Goto
  <1>20. ASSUME NEW w \in Workers, ReconcileRecord(w)
         PROVE  OffMeansNoReconcile'
    BY <1>20 DEF ReconcileRecord, Spend, Goto, Return, Upsert
  <1>21. ASSUME NEW w \in Workers, TaskDies(w) PROVE OffMeansNoReconcile'
    BY <1>21 DEF TaskDies, Spend, Goto, Return
  <1>22. ASSUME NEW w \in Workers, NEW f \in Files, WriteFile(w, f)
         PROVE  OffMeansNoReconcile'
    BY <1>22 DEF WriteFile, Goto, SyncFile
  <1>23. ASSUME NEW w \in Workers, NEW f \in Files, RollbackFile(w, f)
         PROVE  OffMeansNoReconcile'
    BY <1>23 DEF RollbackFile, Goto, SyncFile
  <1>24. ASSUME NEW n \in Nodes, BeatTick(n) PROVE OffMeansNoReconcile'
    BY <1>24 DEF BeatTick
  <1>25. ASSUME NEW n \in Nodes, ExpireReconcile(n) PROVE OffMeansNoReconcile'
    BY <1>25 DEF ExpireReconcile
  <1>26. ASSUME NEW n \in Nodes, RestartWorker(n) PROVE OffMeansNoReconcile'
    BY <1>26 DEF RestartWorker, Spend
  <1>27. CASE UNCHANGED vars
    BY <1>27 DEF vars
  <1> QED
    BY <1>1, <1>2, <1>3, <1>4, <1>5, <1>6, <1>7, <1>8, <1>9, <1>10, <1>11,
       <1>12, <1>13, <1>14, <1>15, <1>16, <1>17, <1>18, <1>19, <1>20, <1>21,
       <1>22, <1>23, <1>24, <1>25, <1>26, <1>27, NextCases

(* A task that holds the lock found the published files, and the files it is *)
(* about to load are those or the ones it rendered.                          *)
LEMMA LoadsRendered ==
    ASSUME IInv, OffMeansNoReconcile, NoOverlap, Rendered, ~cut,
           NEW w \in Workers, pc[w] \in {"reload", "rereload", "rreload"}
    PROVE  disk \in snaps
  <1> USE NodesAssumption DEF IInv, TypeOK, FileInv, LockHeld, LockedSteps,
          Settled, SettledConfig, Rendered
  <1>1. CASE pc[w] = "reload"
    BY <1>1 DEF AppliedAsValidated
  <1>2. CASE pc[w] = "rereload"
    BY <1>2 DEF AppliedAsValidated
  <1>3. CASE pc[w] = "rreload"
    <2>1. HaEnabled /\ OneSlot
      BY <1>3 DEF OffMeansNoReconcile, ReconcileSteps, NoOverlap
    <2>2. lock = NoWorker
      BY <1>3, <2>1 DEF OneSlot
    <2> QED
      BY <2>2
  <1> QED
    BY <1>1, <1>2, <1>3

(* So what nginx is told to load was rendered as a whole.                    *)
LEMMA RenderedStep ==
    ASSUME IInv, OffMeansNoReconcile, NoOverlap, Rendered, [Next]_vars
    PROVE  Rendered'
  <1> USE DEF queueVars, taskVars, dbVars, ghosts, TypeOK, IInv, Rendered,
              NeverHalfApplied, FileInv, AppliedAsValidated
  <1>1. ASSUME NEW c \in Renderable, CommitEdit(c) PROVE Rendered'
    BY <1>1, ConfigAssumption DEF CommitEdit, Spend
  <1>2. CASE EnqueueReload
    BY <1>2, ConfigAssumption DEF EnqueueReload
  <1>3. CASE EnqueueLost
    BY <1>3, ConfigAssumption DEF EnqueueLost, Spend
  <1>4. CASE RequestReload
    BY <1>4, ConfigAssumption DEF RequestReload, Spend
  <1>5. ASSUME NEW w \in Workers, StartApply(w) PROVE Rendered'
    BY <1>5, ConfigAssumption DEF StartApply, Goto
  <1>6. ASSUME NEW w \in Workers, AcquireLock(w) PROVE Rendered'
    BY <1>6, ConfigAssumption DEF AcquireLock, Goto, LockFree
  <1>7. ASSUME NEW w \in Workers, TestConfig(w) PROVE Rendered'
    BY <1>7, ConfigAssumption DEF TestConfig, Spend, Goto, TestCommand
  <1>8. ASSUME NEW w \in Workers, ReloadNginx(w) PROVE Rendered'
    <2>1. ~cut => disk \in snaps
      BY <1>8, LoadsRendered DEF ReloadNginx, IInv
    <2> QED
      BY <1>8, <2>1 DEF ReloadNginx, Spend, Goto, ReloadCommand, Load
  <1>9. ASSUME NEW w \in Workers, ReloadAgain(w) PROVE Rendered'
    <2>1. ~cut => disk \in snaps
      BY <1>9, LoadsRendered DEF ReloadAgain, IInv
    <2> QED
      BY <1>9, <2>1 DEF ReloadAgain, Spend, Goto, ReloadCommand, Load
  <1>10. ASSUME NEW w \in Workers, CommitApply(w) PROVE Rendered'
    BY <1>10, ConfigAssumption DEF CommitApply, Goto
  <1>11. ASSUME NEW w \in Workers, WriteMarker(w) PROVE Rendered'
    BY <1>11, ConfigAssumption DEF WriteMarker, Goto
  <1>12. ASSUME NEW w \in Workers, RecordState(w) PROVE Rendered'
    BY <1>12, ConfigAssumption DEF RecordState, Spend, Goto, Upsert
  <1>13. ASSUME NEW w \in Workers, Finish(w) PROVE Rendered'
    BY <1>13, ConfigAssumption DEF Finish, Spend, Goto, Return
  <1>14. ASSUME NEW w \in Workers, Push(w) PROVE Rendered'
    BY <1>14, ConfigAssumption DEF Push, Goto, Return
  <1>15. ASSUME NEW w \in Workers, StartReconcile(w) PROVE Rendered'
    BY <1>15, ConfigAssumption DEF StartReconcile, Goto
  <1>16. ASSUME NEW w \in Workers, CheckMarker(w) PROVE Rendered'
    BY <1>16, ConfigAssumption DEF CheckMarker, Goto
  <1>17. ASSUME NEW w \in Workers, ReconcileTest(w) PROVE Rendered'
    BY <1>17, ConfigAssumption DEF ReconcileTest, Spend, Goto, TestCommand
  <1>18. ASSUME NEW w \in Workers, ReconcileReload(w) PROVE Rendered'
    <2>1. ~cut => disk \in snaps
      BY <1>18, LoadsRendered DEF ReconcileReload, IInv
    <2> QED
      BY <1>18, <2>1 DEF ReconcileReload, Spend, Goto, ReloadCommand, Load
  <1>19. ASSUME NEW w \in Workers, ReconcileMark(w) PROVE Rendered'
    BY <1>19, ConfigAssumption DEF ReconcileMark, Goto
  <1>20. ASSUME NEW w \in Workers, ReconcileRecord(w) PROVE Rendered'
    BY <1>20, ConfigAssumption DEF ReconcileRecord, Spend, Goto, Return,
       Upsert
  <1>21. ASSUME NEW w \in Workers, TaskDies(w) PROVE Rendered'
    BY <1>21, ConfigAssumption DEF TaskDies, Spend, Goto, Return
  <1>22. ASSUME NEW w \in Workers, NEW f \in Files, WriteFile(w, f)
         PROVE  Rendered'
    BY <1>22, ConfigAssumption DEF WriteFile, Goto, SyncFile
  <1>23. ASSUME NEW w \in Workers, NEW f \in Files, RollbackFile(w, f)
         PROVE  Rendered'
    BY <1>23, ConfigAssumption DEF RollbackFile, Goto, SyncFile
  <1>24. ASSUME NEW n \in Nodes, BeatTick(n) PROVE Rendered'
    BY <1>24, ConfigAssumption DEF BeatTick
  <1>25. ASSUME NEW n \in Nodes, ExpireReconcile(n) PROVE Rendered'
    BY <1>25, ConfigAssumption DEF ExpireReconcile
  <1>26. ASSUME NEW n \in Nodes, RestartWorker(n) PROVE Rendered'
    BY <1>26, ConfigAssumption DEF RestartWorker, Spend
  <1>27. CASE UNCHANGED vars
    BY <1>27 DEF vars
  <1> QED
    BY <1>1, <1>2, <1>3, <1>4, <1>5, <1>6, <1>7, <1>8, <1>9, <1>10, <1>11,
       <1>12, <1>13, <1>14, <1>15, <1>16, <1>17, <1>18, <1>19, <1>20, <1>21,
       <1>22, <1>23, <1>24, <1>25, <1>26, <1>27, NextCases

(* Without HA, however many applies run at once, and with one slot, HA or    *)
(* not: nginx only serves file sets that were rendered as a whole, until a   *)
(* task dies between two writes.                                             *)
THEOREM NeverHalfAppliedHolds ==
    ASSUME NoOverlap
    PROVE  Spec => [](~cut => NeverHalfApplied)
  <1> DEFINE Inv == OffMeansNoReconcile /\ Rendered
  <1>1. Init => Inv
    BY DEF Init, OffMeansNoReconcile, Rendered, ReconcileSteps, NeverHalfApplied
  <1>2. IInv /\ Inv /\ [Next]_vars => Inv'
    BY OffStep, RenderedStep DEF IInv
  <1>3. Inv => (~cut => NeverHalfApplied)
    BY DEF Rendered
  <1> QED
    BY <1>1, <1>2, <1>3, Inductive, PTL DEF Spec

------------------------------------------------------------------------------
(* What a node that loaded the current version serves                        *)

(* Nobody else is inside the lock.                                           *)
LEMMA Alone ==
    ASSUME IInv, NEW w \in Workers, pc[w] \in LockedSteps
    PROVE  \A v \in Workers : v # w => pc[v] \notin LockedSteps
  BY DEF IInv, FileInv, LockHeld

(* Under HA no step lets the files run ahead of a node that has loaded the   *)
(* current version, as long as nothing is rolled back.                       *)
LEMMA ServingStep ==
    ASSUME IInv, HaEnabled, Serving, [Next]_vars
    PROVE  Serving'
  <1> USE NodesAssumption, ConfigAssumption
  <1> USE DEF queueVars, taskVars, dbVars, ghosts, TypeOK, IInv, Serving,
              Snapshots, Forward, Current, Unpublished, NoRollback, Node
  <1>1. ASSUME NEW c \in Renderable, CommitEdit(c) PROVE Serving'
    BY <1>1 DEF CommitEdit, Spend
  <1>2. CASE EnqueueReload
    BY <1>2 DEF EnqueueReload
  <1>3. CASE EnqueueLost
    BY <1>3 DEF EnqueueLost, Spend
  <1>4. CASE RequestReload
    BY <1>4 DEF RequestReload, Spend
  <1>5. ASSUME NEW w \in Workers, StartApply(w) PROVE Serving'
    BY <1>5 DEF StartApply, Goto
  <1>6. ASSUME NEW w \in Workers, AcquireLock(w) PROVE Serving'
    BY <1>6 DEF AcquireLock, Goto, LockFree
  <1>7. ASSUME NEW w \in Workers, TestConfig(w) PROVE Serving'
    <2>1. NoRollback => disk \in ValidConfigs
      BY <1>7 DEF TestConfig, FileInv, AppliedAsValidated
    <2> QED
      BY <1>7, <2>1 DEF TestConfig, Spend, Goto, TestCommand
  <1>8. ASSUME NEW w \in Workers, ReloadNginx(w) PROVE Serving'
    <2>1. disk \in ValidConfigs
      BY <1>8 DEF ReloadNginx, FileInv, AppliedAsValidated
    <2>2. \A v \in Workers : v # w => pc[v] \notin LockedSteps
      BY <1>8, Alone DEF ReloadNginx, LockedSteps
    <2> QED
      BY <1>8, <2>1, <2>2
         DEF ReloadNginx, Spend, Goto, ReloadCommand, Load, LockedSteps
  <1>9. ASSUME NEW w \in Workers, ReloadAgain(w) PROVE Serving'
    BY <1>9 DEF ReloadAgain, Spend, Goto, ReloadCommand, Load
  <1>10. ASSUME NEW w \in Workers, CommitApply(w) PROVE Serving'
    <2>1. \A v \in Workers : v # w => pc[v] \notin LockedSteps
      BY <1>10, Alone DEF CommitApply, LockedSteps
    <2>2. (\A n \in Nodes : loadedAt[n] <= version)' /\ Snapshots'
      BY <1>10 DEF CommitApply, NewVersion
    <2>3. NoRollback => Forward'
      BY <1>10, <2>1 DEF CommitApply, Goto, LockedSteps
    <2>4. CASE res[w] = "changed"
      <3>1. NoRollback => Current'
        BY <1>10, <2>4 DEF CommitApply, NewVersion
      <3> QED
        BY <1>10, <2>2, <2>3, <3>1 DEF CommitApply
    <2>5. CASE res[w] # "changed"
      <3>1. \A v \in Workers : ~Unpublished(v)
        BY <1>10, <2>1, <2>5 DEF CommitApply, LockedSteps
      <3>2. NoRollback => Current'
        BY <1>10, <2>5, <3>1 DEF CommitApply, NewVersion
      <3> QED
        BY <1>10, <2>2, <2>3, <3>2 DEF CommitApply
    <2> QED
      BY <2>4, <2>5
  <1>11. ASSUME NEW w \in Workers, WriteMarker(w) PROVE Serving'
    BY <1>11 DEF WriteMarker, Goto
  <1>12. ASSUME NEW w \in Workers, RecordState(w) PROVE Serving'
    BY <1>12 DEF RecordState, Spend, Goto, Upsert
  <1>13. ASSUME NEW w \in Workers, Finish(w) PROVE Serving'
    BY <1>13 DEF Finish, Spend, Goto, Return
  <1>14. ASSUME NEW w \in Workers, Push(w) PROVE Serving'
    BY <1>14 DEF Push, Goto, Return
  <1>15. ASSUME NEW w \in Workers, StartReconcile(w) PROVE Serving'
    BY <1>15 DEF StartReconcile, Goto
  <1>16. ASSUME NEW w \in Workers, CheckMarker(w) PROVE Serving'
    BY <1>16 DEF CheckMarker, Goto
  <1>17. ASSUME NEW w \in Workers, ReconcileTest(w) PROVE Serving'
    BY <1>17 DEF ReconcileTest, Spend, Goto, TestCommand
  <1>18. ASSUME NEW w \in Workers, ReconcileReload(w) PROVE Serving'
    BY <1>18 DEF ReconcileReload, Spend, Goto, ReloadCommand, Load
  <1>19. ASSUME NEW w \in Workers, ReconcileMark(w) PROVE Serving'
    BY <1>19 DEF ReconcileMark, Goto
  <1>20. ASSUME NEW w \in Workers, ReconcileRecord(w) PROVE Serving'
    BY <1>20 DEF ReconcileRecord, Spend, Goto, Return, Upsert
  <1>21. ASSUME NEW w \in Workers, TaskDies(w) PROVE Serving'
    <2>1. NoRollback' => pc[w] \notin LockedSteps
      BY <1>21 DEF TaskDies, FileInv, LockHeld
    <2> QED
      BY <1>21, <2>1 DEF TaskDies, Spend, Goto, Return, LockedSteps
  <1>22. ASSUME NEW w \in Workers, NEW f \in Files, WriteFile(w, f)
         PROVE  Serving'
    <2>1. \A v \in Workers : v # w => pc[v] \notin LockedSteps
      BY <1>22, Alone DEF WriteFile, LockedSteps
    <2>2. pc'[w] \in {"sync", "test"} /\ UNCHANGED <<res, running, spent, snaps, cut>>
      BY <1>22 DEF WriteFile, Goto
    <2> QED
      BY <1>22, <2>1, <2>2 DEF WriteFile, Goto, LockedSteps
  <1>23. ASSUME NEW w \in Workers, NEW f \in Files, RollbackFile(w, f)
         PROVE  Serving'
    BY <1>23 DEF RollbackFile, Goto, SyncFile
  <1>24. ASSUME NEW n \in Nodes, BeatTick(n) PROVE Serving'
    BY <1>24 DEF BeatTick
  <1>25. ASSUME NEW n \in Nodes, ExpireReconcile(n) PROVE Serving'
    BY <1>25 DEF ExpireReconcile
  <1>26. ASSUME NEW n \in Nodes, RestartWorker(n) PROVE Serving'
    <2>1. NoRollback' => \A w \in Workers : Node(w) = n => pc[w] \notin LockedSteps
      BY <1>26 DEF RestartWorker, FileInv, LockHeld
    <2> QED
      BY <1>26, <2>1 DEF RestartWorker, Spend, LockedSteps
  <1>27. CASE UNCHANGED vars
    BY <1>27 DEF vars
  <1> QED
    BY <1>1, <1>2, <1>3, <1>4, <1>5, <1>6, <1>7, <1>8, <1>9, <1>10, <1>11,
       <1>12, <1>13, <1>14, <1>15, <1>16, <1>17, <1>18, <1>19, <1>20, <1>21,
       <1>22, <1>23, <1>24, <1>25, <1>26, <1>27, NextCases

(* For any number of nodes, slots and files: a node that loaded the files of *)
(* the current version serves them whenever the lock is free, although its   *)
(* reconcile may have loaded them in the middle of another node's writes.    *)
THEOREM LoadedIsServedHolds ==
    ASSUME HaEnabled
    PROVE  Spec => []LoadedIsServed
  <1>1. Init => Serving
    BY DEF Init, Serving, Snapshots, Forward, Current
  <1>2. IInv /\ Serving /\ [Next]_vars => Serving'
    BY ServingStep
  <1>3. IInv /\ Serving => LoadedIsServed
    BY NodesAssumption
       DEF IInv, FileInv, LockHeld, LockedSteps, Serving, Current, Unpublished,
           LoadedIsServed
  <1> QED
    BY <1>1, <1>2, <1>3, Inductive, PTL DEF Spec
==============================================================================
