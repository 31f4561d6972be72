---------------------------- MODULE NginxCluster ----------------------------
(***************************************************************************)
(* How a change in the database reaches every running nginx: the Celery    *)
(* tasks `reload_nginx_config` and `reconcile_local_nginx`, the engine     *)
(* `apply_config` they drive, the cross-node apply lock, the shared        *)
(* `config_version` and the per-node reload markers.                       *)
(*                                                                         *)
(* Shared between the nodes: the database (desired state, config_version,  *)
(* node registry, last apply outcome, the advisory lock), the broker's     *)
(* queues and the managed files on the shared mount.  Per node: the        *)
(* configuration its nginx runs and the marker file.  Every worker slot    *)
(* (one Celery pool process) runs one task at a time; its program counter  *)
(* names the next step that other actors can observe.                      *)
(***************************************************************************)
EXTENDS Integers, FiniteSets

CONSTANTS
    Nodes,          \* the hosts, each with one nginx and one marker file
    Workers,        \* Celery pool processes of all the nodes
    NodeOf,         \* the node a worker slot runs on
    Files,          \* names of the managed files, over all target directories
    Dir,            \* position of a file's directory in `targets`
    Contents,       \* what a rendered file can contain
    NoFile,         \* the file does not exist
    Renderable,     \* the file sets some database state renders to
    ValidConfigs,   \* the file sets `nginx -t` accepts
    InitialConfig,  \* what is in the database and on disk at first
    NoWorker,       \* nobody holds the apply lock
    HaEnabled,      \* settings.ha_enabled
    MaxEdits,       \* bound: changes of the desired state
    MaxRequests,    \* bound: reloads asked for without a change
    MaxFaults,      \* bound: failed commands and failed best-effort writes
    MaxCrashes      \* bound: tasks, workers and API requests that die

Configs == [Files -> Contents \union {NoFile}]

ASSUME NodesAssumption ==
    /\ NodeOf \in [Workers -> Nodes]
    /\ NoWorker \notin Workers

ASSUME ConfigAssumption ==
    /\ Dir \in [Files -> Nat]
    /\ ValidConfigs \subseteq Configs
    /\ Renderable \subseteq Configs
    /\ InitialConfig \in Renderable \intersect ValidConfigs

ASSUME BoundsAssumption ==
    /\ HaEnabled \in BOOLEAN
    /\ MaxEdits \in Nat /\ MaxRequests \in Nat
    /\ MaxFaults \in Nat /\ MaxCrashes \in Nat

VARIABLES
    desired,     \* the file set the database renders to
    unsent,      \* API requests between their commit and their enqueue
    applyQ,      \* queued reload_nginx_config tasks (the default queue)
    recQ,        \* nodes with a reconcile waiting on their own queue
    lock,        \* holder of the apply lock (Postgres advisory, or flock)
    version,     \* cluster_state.config_version
    lastOk,      \* cluster_state.last_apply_ok
    registry,    \* cluster_node.applied_version
    disk,        \* the managed files on the shared mount
    running,     \* what each node's nginx serves
    marker,      \* each node's reload marker
    pc,          \* each worker's next step
    want,        \* task local: the rendered desired state
    prev,        \* task local: the files found on disk under the lock
    res,         \* task local: how apply_config ended
    ver,         \* task local: the version the task will record
    old,         \* task local of a reconcile: the marker it read
    spent,       \* how much of each bound is used
    pub,         \* history: the file set config_version stands for
    loadedAt,    \* history: the config_version whose files a node last loaded
    snaps,       \* history: every file set the database ever rendered to
    newest,      \* history: whether the apply committed last was healthy
    cut          \* history: a task died while it held the apply lock

queueVars == <<unsent, applyQ, recQ>>
taskVars  == <<want, prev, res, ver, old>>
dbVars    == <<version, lastOk, registry>>
ghosts    == <<pub, loadedAt, snaps, newest, cut>>
vars == <<desired, unsent, applyQ, recQ, lock, version, lastOk, registry, disk,
          running, marker, pc, want, prev, res, ver, old, spent, pub, loadedAt,
          snaps, newest, cut>>

UNKNOWN_LOCAL_VERSION == -1
NoRow == -2    \* the node has no row in cluster_node yet

ApplySteps == {"locking", "sync", "test", "reload", "rollback", "rereload",
               "commit", "mark", "record", "finish", "push"}
ReconcileSteps == {"rcheck", "rtest", "rreload", "rmark", "rrecord"}
LockedSteps == {"sync", "test", "reload", "rollback", "rereload", "commit"}
Results == {"none", "same", "changed", "invalid", "reloadfailed"}

Node(w) == NodeOf[w]

Init ==
    /\ desired = InitialConfig /\ disk = InitialConfig
    /\ unsent = 0 /\ applyQ = 0 /\ recQ = {}
    /\ lock = NoWorker
    /\ version = 0 /\ lastOk = TRUE
    /\ registry = [n \in Nodes |-> NoRow]
    /\ running = [n \in Nodes |-> InitialConfig]
    /\ marker = [n \in Nodes |-> UNKNOWN_LOCAL_VERSION]
    /\ pc = [w \in Workers |-> "idle"]
    /\ want = [w \in Workers |-> InitialConfig]
    /\ prev = [w \in Workers |-> InitialConfig]
    /\ res = [w \in Workers |-> "none"]
    /\ ver = [w \in Workers |-> 0]
    /\ old = [w \in Workers |-> 0]
    /\ spent = [edits |-> 0, requests |-> 0, faults |-> 0, crashes |-> 0]
    /\ pub = InitialConfig
    /\ loadedAt = [n \in Nodes |-> 0]
    /\ snaps = {InitialConfig}
    /\ newest = TRUE /\ cut = FALSE

------------------------------------------------------------------------------
(* Helpers                                                                   *)

Goto(w, step) == pc' = [pc EXCEPT ![w] = step]

(* The task returns: its locals are gone.                                    *)
Return(w) ==
    /\ Goto(w, "idle")
    /\ want' = [want EXCEPT ![w] = InitialConfig]
    /\ prev' = [prev EXCEPT ![w] = InitialConfig]
    /\ res' = [res EXCEPT ![w] = "none"]
    /\ ver' = [ver EXCEPT ![w] = 0]
    /\ old' = [old EXCEPT ![w] = 0]

(* Mutant of Healthy: "up to date" is not ok.                                *)
HealthyOnlyIfChanged(w) == res[w] = "changed"

(* `outcome_of`: healthy means nothing was rolled back, "up to date" included.*)
Healthy(w) == res[w] \in {"same", "changed"}

Spend(bound) == spent' = [spent EXCEPT ![bound] = @ + 1]
CanFault == spent.faults < MaxFaults
CanCrash == spent.crashes < MaxCrashes

(* `_sync_to`: the files of one target directory are written one rename at   *)
(* a time, then that directory's stale files are unlinked, then the next     *)
(* directory.  f is a file the loop may reach next.                          *)
Reachable(f, target) ==
    /\ disk[f] # target[f]
    /\ \A g \in Files : Dir[g] < Dir[f] => disk[g] = target[g]
    /\ target[f] = NoFile =>
         \A g \in Files :
            (Dir[g] = Dir[f] /\ target[g] # NoFile) => disk[g] = target[g]

(* One `_atomic_write` or `unlink` of `_sync_to(target)`.                    *)
SyncFile(f, target) ==
    /\ Reachable(f, target)
    /\ disk' = [disk EXCEPT ![f] = target[f]]

(* `controller.test()`: nginx's verdict on the files, or a command that could*)
(* not be run or timed out, which also reports not ok.                       *)
TestCommand(ok) ==
    \/ ok = (disk \in ValidConfigs) /\ UNCHANGED spent
    \/ ~ok /\ CanFault /\ Spend("faults")

(* `controller.reload()` on node n: nginx loads the files if it accepts them.*)
(* A command that fails or times out reports not ok, whether or not nginx    *)
(* took the signal.  What is loaded counts as the version committed so far:  *)
(* an apply's own files get their number when it commits.                    *)
Load(n) ==
    /\ disk \in ValidConfigs
    /\ running' = [running EXCEPT ![n] = disk]
    /\ loadedAt' = [loadedAt EXCEPT ![n] = version]

ReloadCommand(n, ok) ==
    \/ ok /\ Load(n) /\ UNCHANGED spent
    \/ ~ok /\ disk \notin ValidConfigs /\ UNCHANGED <<running, loadedAt, spent>>
    \/ ~ok /\ CanFault /\ Spend("faults")
           /\ (Load(n) \/ UNCHANGED <<running, loadedAt>>)

------------------------------------------------------------------------------
(* The API                                                                   *)

(* A config-affecting handler commits its change ...                         *)
CommitEdit(c) ==
    /\ spent.edits < MaxEdits
    /\ c \in Renderable \ {desired}
    /\ desired' = c
    /\ snaps' = snaps \union {c}
    /\ unsent' = unsent + 1
    /\ Spend("edits")
    /\ UNCHANGED <<applyQ, recQ, lock, dbVars, disk, running, marker, pc,
                   taskVars, pub, loadedAt, newest, cut>>

(* Mutant of EnqueueReload: the reload is enqueued ahead of the commit.      *)
EnqueueReloadFirst ==
    /\ unsent' = unsent - 1
    /\ applyQ' = applyQ + 1
    /\ UNCHANGED <<desired, recQ, lock, dbVars, disk, running, marker, pc,
                   taskVars, spent, ghosts>>

(* ... and `after_config_write` enqueues the reload as its last step.        *)
EnqueueReload ==
    /\ unsent > 0
    /\ unsent' = unsent - 1
    /\ applyQ' = applyQ + 1
    /\ UNCHANGED <<desired, recQ, lock, dbVars, disk, running, marker, pc,
                   taskVars, spent, ghosts>>

(* The API process dies, or the broker refuses, between the two.             *)
EnqueueLost ==
    /\ unsent > 0 /\ CanCrash
    /\ unsent' = unsent - 1
    /\ Spend("crashes")
    /\ UNCHANGED <<desired, applyQ, recQ, lock, dbVars, disk, running, marker,
                   pc, taskVars, ghosts>>

(* POST /nginx/reload: a reload with nothing changed.                        *)
RequestReload ==
    /\ spent.requests < MaxRequests
    /\ applyQ' = applyQ + 1
    /\ Spend("requests")
    /\ UNCHANGED <<desired, unsent, recQ, lock, dbVars, disk, running, marker,
                   pc, taskVars, ghosts>>

------------------------------------------------------------------------------
(* reload_nginx_config                                                       *)

(* The task is taken from the queue and loads the desired state - before it  *)
(* asks for the lock.                                                        *)
StartApply(w) ==
    /\ pc[w] = "idle" /\ applyQ > 0
    /\ applyQ' = applyQ - 1
    /\ want' = [want EXCEPT ![w] = desired]
    /\ Goto(w, "locking")
    /\ UNCHANGED <<desired, unsent, recQ, lock, dbVars, disk, running, marker,
                   prev, res, ver, old, spent, ghosts>>

(* Mutant of LockFree: the lock is not taken (nullcontext without a lock).   *)
LockFreeIgnored == TRUE

(* The lock can be granted.                                                  *)
LockFree == lock = NoWorker

(* The lock is granted; `_read_managed`; equal sets end the apply there.     *)
AcquireLock(w) ==
    /\ pc[w] = "locking" /\ LockFree
    /\ lock' = w
    /\ prev' = [prev EXCEPT ![w] = disk]
    /\ \/ /\ disk = want[w]
          /\ res' = [res EXCEPT ![w] = "same"]
          /\ Goto(w, "commit")
       \/ /\ disk # want[w]
          /\ Goto(w, "sync")
          /\ UNCHANGED res
    /\ UNCHANGED <<desired, queueVars, dbVars, disk, running, marker, want, ver,
                   old, spent, ghosts>>

WriteFile(w, f) ==
    /\ pc[w] = "sync"
    /\ SyncFile(f, want[w])
    /\ Goto(w, IF disk' = want[w] THEN "test" ELSE "sync")
    /\ UNCHANGED <<desired, queueVars, lock, dbVars, running, marker, taskVars,
                   spent, ghosts>>

(* Mutant of TestConfig: a rejected set is reported but not rolled back.     *)
TestConfigNoRollback(w) ==
    /\ pc[w] = "test"
    /\ \/ TestCommand(TRUE) /\ Goto(w, "reload") /\ UNCHANGED res
       \/ TestCommand(FALSE) /\ Goto(w, "commit")
                             /\ res' = [res EXCEPT ![w] = "invalid"]
    /\ UNCHANGED <<desired, queueVars, lock, dbVars, disk, running, marker,
                   want, prev, ver, old, ghosts>>

TestConfig(w) ==
    /\ pc[w] = "test"
    /\ \/ TestCommand(TRUE) /\ Goto(w, "reload") /\ UNCHANGED res
       \/ TestCommand(FALSE) /\ Goto(w, "rollback")
                             /\ res' = [res EXCEPT ![w] = "invalid"]
    /\ UNCHANGED <<desired, queueVars, lock, dbVars, disk, running, marker,
                   want, prev, ver, old, ghosts>>

ReloadNginx(w) ==
    /\ pc[w] = "reload"
    /\ \/ /\ ReloadCommand(Node(w), TRUE)
          /\ res' = [res EXCEPT ![w] = "changed"]
          /\ Goto(w, "commit")
       \/ /\ ReloadCommand(Node(w), FALSE)
          /\ res' = [res EXCEPT ![w] = "reloadfailed"]
          /\ Goto(w, "rollback")
    /\ UNCHANGED <<desired, queueVars, lock, dbVars, disk, marker, want, prev,
                   ver, old, pub, snaps, newest, cut>>

(* Mutant of RollbackFile: the rollback stops after its first file.          *)
RollbackFirstFile(w, f) ==
    /\ pc[w] = "rollback"
    /\ SyncFile(f, prev[w])
    /\ Goto(w, IF res[w] = "reloadfailed" THEN "rereload" ELSE "commit")
    /\ UNCHANGED <<desired, queueVars, lock, dbVars, running, marker, taskVars,
                   spent, ghosts>>

(* One file of `_rollback`; after a failed reload nginx is told to return.   *)
RollbackFile(w, f) ==
    /\ pc[w] = "rollback"
    /\ SyncFile(f, prev[w])
    /\ Goto(w, IF disk' # prev[w] THEN "rollback"
               ELSE IF res[w] = "reloadfailed" THEN "rereload" ELSE "commit")
    /\ UNCHANGED <<desired, queueVars, lock, dbVars, running, marker, taskVars,
                   spent, ghosts>>

ReloadAgain(w) ==
    /\ pc[w] = "rereload"
    /\ \E ok \in BOOLEAN : ReloadCommand(Node(w), ok)
    /\ Goto(w, "commit")
    /\ UNCHANGED <<desired, queueVars, lock, dbVars, disk, marker, taskVars,
                   pub, snaps, newest, cut>>

(* Mutants of NewVersion: every apply bumps; no apply does.                  *)
NewVersionAlways(w) == version + 1
NewVersionNever(w) == version

(* `bump_config_version` for a changed set, else `read_config_version`.      *)
NewVersion(w) == IF res[w] = "changed" THEN version + 1 ELSE version

(* The transaction ends: the bump becomes visible and the lock is released   *)
(* at once.  Without HA only the flock is released.                          *)
CommitApply(w) ==
    /\ pc[w] = "commit"
    /\ lock' = NoWorker
    /\ pub' = IF res[w] = "changed" THEN want[w] ELSE pub
    /\ newest' = Healthy(w)
    /\ \/ /\ HaEnabled
          /\ version' = NewVersion(w)
          /\ ver' = [ver EXCEPT ![w] = version']
          /\ Goto(w, "mark")
       \/ /\ ~HaEnabled
          /\ Goto(w, "finish")
          /\ UNCHANGED <<version, ver>>
    /\ loadedAt' = IF res[w] = "changed"
                   THEN [loadedAt EXCEPT ![Node(w)] = version'] ELSE loadedAt
    /\ UNCHANGED <<desired, queueVars, lastOk, registry, disk, running, marker,
                   want, prev, res, old, spent, snaps, cut>>

(* Mutant of WriteMarker: the marker names the version to come.              *)
WriteMarkerNext(w) ==
    /\ pc[w] = "mark"
    /\ marker' = [marker EXCEPT ![Node(w)] = ver[w] + 1]
    /\ Goto(w, "record")
    /\ UNCHANGED <<desired, queueVars, lock, dbVars, disk, running, taskVars,
                   spent, ghosts>>

(* write_local_version                                                       *)
WriteMarker(w) ==
    /\ pc[w] = "mark"
    /\ marker' = [marker EXCEPT ![Node(w)] = ver[w]]
    /\ Goto(w, "record")
    /\ UNCHANGED <<desired, queueVars, lock, dbVars, disk, running, taskVars,
                   spent, ghosts>>

(* `_record_state`: a best-effort upsert of this node's row.                 *)
Upsert(n, v) ==
    \/ registry' = [registry EXCEPT ![n] = v] /\ UNCHANGED spent
    \/ CanFault /\ Spend("faults") /\ UNCHANGED registry

RecordState(w) ==
    /\ pc[w] = "record"
    /\ Upsert(Node(w), ver[w])
    /\ Goto(w, "finish")
    /\ UNCHANGED <<desired, queueVars, lock, version, lastOk, disk, running,
                   marker, taskVars, ghosts>>

(* `_finish`: the outcome is recorded, best effort, after the lock is gone.  *)
Finish(w) ==
    /\ pc[w] = "finish"
    /\ \/ lastOk' = Healthy(w) /\ UNCHANGED spent
       \/ CanFault /\ Spend("faults") /\ UNCHANGED lastOk
    /\ IF HaEnabled /\ res[w] = "changed"
       THEN Goto(w, "push") /\ UNCHANGED taskVars
       ELSE Return(w)
    /\ UNCHANGED <<desired, queueVars, lock, version, registry, disk, running,
                   marker, ghosts>>

(* `_push_reconcile_to_peers`: the registered peers, less those not seen     *)
(* lately or not reachable.                                                  *)
Push(w) ==
    /\ pc[w] = "push"
    /\ \E peers \in SUBSET {n \in Nodes \ {Node(w)} : registry[n] # NoRow} :
          recQ' = recQ \union peers
    /\ Return(w)
    /\ UNCHANGED <<desired, unsent, applyQ, lock, dbVars, disk, running, marker,
                   spent, ghosts>>

------------------------------------------------------------------------------
(* reconcile_local_nginx                                                     *)

(* Mutant of BeatTick: only nodes that are already registered get a tick.    *)
BeatTickRegistered(n) ==
    /\ HaEnabled /\ n \notin recQ /\ registry[n] # NoRow
    /\ recQ' = recQ \union {n}
    /\ UNCHANGED <<desired, unsent, applyQ, lock, dbVars, disk, running, marker,
                   pc, taskVars, spent, ghosts>>

(* Every node's own beat puts a reconcile on that node's queue.              *)
BeatTick(n) ==
    /\ HaEnabled /\ n \notin recQ
    /\ recQ' = recQ \union {n}
    /\ UNCHANGED <<desired, unsent, applyQ, lock, dbVars, disk, running, marker,
                   pc, taskVars, spent, ghosts>>

(* A queued reconcile that no slot of the node is free to take expires.      *)
ExpireReconcile(n) ==
    /\ n \in recQ
    /\ \A w \in Workers : Node(w) = n => pc[w] # "idle"
    /\ recQ' = recQ \ {n}
    /\ UNCHANGED <<desired, unsent, applyQ, lock, dbVars, disk, running, marker,
                   pc, taskVars, spent, ghosts>>

(* The shared version is read first ...                                      *)
StartReconcile(w) ==
    /\ pc[w] = "idle" /\ Node(w) \in recQ
    /\ recQ' = recQ \ {Node(w)}
    /\ ver' = [ver EXCEPT ![w] = version]
    /\ Goto(w, "rcheck")
    /\ UNCHANGED <<desired, unsent, applyQ, lock, dbVars, disk, running, marker,
                   want, prev, res, old, spent, ghosts>>

(* ... then the marker; a node at or past that version only records itself.  *)
CheckMarker(w) ==
    /\ pc[w] = "rcheck"
    /\ old' = [old EXCEPT ![w] = marker[Node(w)]]
    /\ \/ /\ ver[w] <= marker[Node(w)]
          /\ ver' = [ver EXCEPT ![w] = marker[Node(w)]]
          /\ Goto(w, "rrecord")
       \/ /\ ver[w] > marker[Node(w)]
          /\ Goto(w, "rtest")
          /\ UNCHANGED ver
    /\ UNCHANGED <<desired, queueVars, lock, dbVars, disk, running, marker,
                   want, prev, res, spent, ghosts>>

ReconcileTest(w) ==
    /\ pc[w] = "rtest"
    /\ \/ TestCommand(TRUE) /\ Goto(w, "rreload") /\ UNCHANGED ver
       \/ TestCommand(FALSE) /\ Goto(w, "rrecord")
                             /\ ver' = [ver EXCEPT ![w] = old[w]]
    /\ UNCHANGED <<desired, queueVars, lock, dbVars, disk, running, marker,
                   want, prev, res, old, ghosts>>

ReconcileReload(w) ==
    /\ pc[w] = "rreload"
    /\ \/ ReloadCommand(Node(w), TRUE) /\ Goto(w, "rmark") /\ UNCHANGED ver
       \/ ReloadCommand(Node(w), FALSE) /\ Goto(w, "rrecord")
                                        /\ ver' = [ver EXCEPT ![w] = old[w]]
    /\ UNCHANGED <<desired, queueVars, lock, dbVars, disk, marker, want, prev,
                   res, old, pub, snaps, newest, cut>>

(* Mutant of ReconcileMark: the version is read again, after the reload.     *)
ReconcileMarkRereads(w) ==
    /\ pc[w] = "rmark"
    /\ marker' = [marker EXCEPT ![Node(w)] = version]
    /\ Goto(w, "rrecord")
    /\ UNCHANGED <<desired, queueVars, lock, dbVars, disk, running, taskVars,
                   spent, ghosts>>

ReconcileMark(w) ==
    /\ pc[w] = "rmark"
    /\ marker' = [marker EXCEPT ![Node(w)] = ver[w]]
    /\ Goto(w, "rrecord")
    /\ UNCHANGED <<desired, queueVars, lock, dbVars, disk, running, taskVars,
                   spent, ghosts>>

ReconcileRecord(w) ==
    /\ pc[w] = "rrecord"
    /\ Upsert(Node(w), ver[w])
    /\ Return(w)
    /\ UNCHANGED <<desired, queueVars, lock, version, lastOk, disk, running,
                   marker, ghosts>>

------------------------------------------------------------------------------
(* Failures                                                                  *)

(* A task raises or its pool process is killed.  It was acknowledged when it *)
(* was taken, so it is not run again; its transaction rolls back and the     *)
(* lock goes with it.                                                        *)
TaskDies(w) ==
    /\ pc[w] # "idle" /\ CanCrash
    /\ Spend("crashes")
    /\ lock' = IF lock = w THEN NoWorker ELSE lock
    /\ cut' = (cut \/ lock = w)
    /\ Return(w)
    /\ UNCHANGED <<desired, queueVars, dbVars, disk, running, marker, pub,
                   loadedAt, snaps, newest>>

(* A node's worker container restarts: its tasks die, `worker_ready` queues  *)
(* one render, and the marker survives unless the container was recreated.   *)
RestartWorker(n) ==
    /\ CanCrash
    /\ Spend("crashes")
    /\ LET dead == {w \in Workers : Node(w) = n} IN
       /\ lock' = IF lock \in dead THEN NoWorker ELSE lock
       /\ cut' = (cut \/ lock \in dead)
       /\ pc' = [w \in Workers |-> IF w \in dead THEN "idle" ELSE pc[w]]
       /\ want' = [w \in Workers |-> IF w \in dead THEN InitialConfig ELSE want[w]]
       /\ prev' = [w \in Workers |-> IF w \in dead THEN InitialConfig ELSE prev[w]]
       /\ res' = [w \in Workers |-> IF w \in dead THEN "none" ELSE res[w]]
       /\ ver' = [w \in Workers |-> IF w \in dead THEN 0 ELSE ver[w]]
       /\ old' = [w \in Workers |-> IF w \in dead THEN 0 ELSE old[w]]
    /\ applyQ' = applyQ + 1
    /\ \/ UNCHANGED marker
       \/ marker' = [marker EXCEPT ![n] = UNKNOWN_LOCAL_VERSION]
    /\ UNCHANGED <<desired, unsent, recQ, dbVars, disk, running, pub, loadedAt,
                   snaps, newest>>

------------------------------------------------------------------------------
Api == (\E c \in Renderable : CommitEdit(c)) \/ EnqueueReload \/ RequestReload

ApplyStep(w) ==
    \/ AcquireLock(w) \/ TestConfig(w) \/ ReloadNginx(w) \/ ReloadAgain(w)
    \/ CommitApply(w) \/ WriteMarker(w) \/ RecordState(w) \/ Finish(w) \/ Push(w)
    \/ \E f \in Files : WriteFile(w, f) \/ RollbackFile(w, f)

ReconcileStep(w) ==
    \/ CheckMarker(w) \/ ReconcileTest(w) \/ ReconcileReload(w)
    \/ ReconcileMark(w) \/ ReconcileRecord(w)

Failure ==
    \/ EnqueueLost
    \/ \E w \in Workers : TaskDies(w)
    \/ \E n \in Nodes : RestartWorker(n)

Next ==
    \/ Api
    \/ \E w \in Workers : StartApply(w) \/ ApplyStep(w)
    \/ \E w \in Workers : StartReconcile(w) \/ ReconcileStep(w)
    \/ \E n \in Nodes : BeatTick(n) \/ ExpireReconcile(n)
    \/ Failure

Spec == Init /\ [][Next]_vars

(* The broker delivers, the pool runs what it took, and every node's beat    *)
(* ticks; nothing is assumed of the users or of the failures.                *)
Fairness ==
    /\ WF_vars(EnqueueReload)
    /\ \A w \in Workers :
          /\ WF_vars(StartApply(w)) /\ WF_vars(ApplyStep(w))
          /\ WF_vars(StartReconcile(w)) /\ WF_vars(ReconcileStep(w))
    /\ \A n \in Nodes : WF_vars(BeatTick(n))

FairSpec == Spec /\ Fairness

------------------------------------------------------------------------------
(* Properties                                                                *)

(* The database columns, the files and every task's locals keep their types: *)
(* the recorded outcome is `outcome_of`'s verdict, the marker an integer.    *)
TypeOK ==
    /\ desired \in Configs /\ disk \in Configs /\ pub \in Configs
    /\ unsent \in Nat /\ applyQ \in Nat /\ recQ \subseteq Nodes
    /\ lock \in Workers \union {NoWorker}
    /\ version \in Nat /\ lastOk \in BOOLEAN
    /\ registry \in [Nodes -> Int] /\ marker \in [Nodes -> Int]
    /\ running \in [Nodes -> Configs]
    /\ pc \in [Workers -> {"idle"} \union ApplySteps \union ReconcileSteps]
    /\ want \in [Workers -> Configs] /\ prev \in [Workers -> Configs]
    /\ res \in [Workers -> Results]
    /\ ver \in [Workers -> Int] /\ old \in [Workers -> Int]
    /\ spent \in [{"edits", "requests", "faults", "crashes"} -> Nat]
    /\ loadedAt \in [Nodes -> Nat]
    /\ snaps \subseteq Configs
    /\ newest \in BOOLEAN /\ cut \in BOOLEAN

(* Between `nginx -t` and the end of the transaction the files do not move:  *)
(* what reload loads and the version stands for is what `nginx -t` accepted, *)
(* and an apply that failed leaves the files exactly as it found them.       *)
AppliedAsValidated ==
    \A w \in Workers :
        /\ pc[w] \in {"test", "reload"} => disk = want[w]
        /\ pc[w] = "reload" => disk \in ValidConfigs
        /\ pc[w] = "rereload" => disk = prev[w]
        /\ pc[w] = "commit" =>
             disk = IF res[w] = "changed" THEN want[w] ELSE prev[w]

(* "the version is a faithful monotonic record of applied config sets": as   *)
(* long as no task died inside the lock, whenever the lock is free the shared*)
(* files are the set config_version stands for, and nginx accepts it.        *)
VersionFaithful ==
    ~cut /\ lock = NoWorker => disk = pub /\ disk \in ValidConfigs

(* No node claims, in its marker or in the registry, a version that has not  *)
(* been committed; a marker ahead of the version would make the node skip    *)
(* every later reconcile.                                                    *)
NeverAhead ==
    \A n \in Nodes : marker[n] <= version /\ registry[n] <= version

(* The files as a register: while a task holds the lock, what it found.      *)
SettledConfig == IF lock \in Workers THEN prev[lock] ELSE disk

Register == INSTANCE PublishedConfig WITH cfg <- SettledConfig, ver <- version

(* Write, test, reload and rollback, file by file, implement an atomic       *)
(* register of accepted file sets with a version that counts its changes, as *)
(* long as no task dies inside the lock.                                     *)
ImplementsRegister == Register!Spec

(* A reconcile that advances the marker loaded the files at a moment when the*)
(* version it claims was already committed: a change committed after the     *)
(* version was read is never marked as served.                               *)
ReconcileClaimsWhatItLoaded ==
    [][\A w \in Workers :
          pc[w] = "rmark" /\ pc'[w] = "rrecord"
             => marker'[Node(w)] <= loadedAt[Node(w)]]_vars

(* Nothing was rolled back: no command failed, nginx accepts every set that  *)
(* was ever rendered, and no task died inside the lock.                      *)
NoRollback == spent.faults = 0 /\ snaps \subseteq ValidConfigs /\ ~cut

(* A node that loaded the files of the current version serves exactly those, *)
(* although a reconcile tests and loads them without the lock, possibly in   *)
(* the middle of another node's writes: the bump that follows the writes     *)
(* makes the node's version old again.                                       *)
LoadedIsServed ==
    NoRollback /\ lock = NoWorker
        => \A n \in Nodes : loadedAt[n] = version => running[n] = disk

(* Nothing is left of any change: no request, no queued and no running apply.*)
Drained ==
    unsent = 0 /\ applyQ = 0 /\ \A w \in Workers : pc[w] \notin ApplySteps

(* Every node's marker and registry row reach the shared version for good.   *)
MarkersConverge ==
    <>[](\A n \in Nodes : marker[n] = version /\ registry[n] = version)

(* A node of a cluster at rest that reports the current version.             *)
Converged(n) ==
    /\ Drained /\ \A w \in Workers : pc[w] = "idle"
    /\ registry[n] = version /\ marker[n] = version

(* Every node comes to serve the shared files, for good, if no apply is      *)
(* rolled back - unless its marker names a version whose files it never      *)
(* loaded, which an apply that finds nothing to change leaves behind (the    *)
(* node's beat then sees it as current: ServesWhatItReports).                *)
NodesConverge ==
    <>[](NoRollback => \A n \in Nodes :
            marker[n] <= loadedAt[n] => running[n] = disk)

(* "comparing applied_version here to config_version answers 'has the        *)
(* cluster converged?'": at rest, a node whose row has the shared version    *)
(* serves the shared files.  Refuted by an apply that finds nothing to change*)
(* (_apply_ha writes marker and row whether or not it loaded anything).      *)
ServesWhatItReports ==
    NoRollback => \A n \in Nodes : Converged(n) => running[n] = disk

(* A set that is rolled back is rolled back everywhere: "a bad stream can    *)
(* never leave the HTTP config half-applied".  Refuted on the other node of a*)
(* cluster, whose reconcile loaded the half that was written and whose       *)
(* version never changes again.                                              *)
NoneLeftHalfApplied ==
    \A n \in Nodes : Converged(n) => running[n] \in snaps

(* No apply that loaded an older state is left to write it last: one whose   *)
(* snapshot is old has a newer one still to come.                            *)
NoStaleApply ==
    (\E w \in Workers : pc[w] \in {"locking"} \union LockedSteps /\ want[w] # desired)
        => \/ unsent > 0 \/ applyQ > 0
           \/ \E w \in Workers : pc[w] = "locking" /\ want[w] = desired

(* "The outcome of the most recent apply, whatever it was": once all applies *)
(* have ended, what is recorded is how the one that held the lock last ended.*)
(* It does not always hold: _finish runs after the lock is gone, in whatever *)
(* order the slots come to it.                                               *)
LastOutcomeIsNewest == Drained => lastOk = newest

(* A database state nginx accepts ends up on disk, served and reported       *)
(* healthy, and one that it rejects ends up reported, through applies that   *)
(* overlap and wait for each other, unless a command fails, a stale snapshot *)
(* is written last or two outcomes are recorded in the other order.          *)
EditsReachNginx ==
    [](spent.faults = 0 /\ NoStaleApply /\ LastOutcomeIsNewest)
        => <>[](/\ lastOk = (desired \in ValidConfigs)
                /\ desired \in ValidConfigs =>
                     disk = desired /\ \A n \in Nodes : running[n] = desired)

(* On one host, whatever its slots do at once and whichever commands fail,   *)
(* nginx only ever serves a file set that was rendered as a whole from one   *)
(* state of the database: "never half-applied".                              *)
NeverHalfApplied == \A n \in Nodes : running[n] \in snaps

(* Once every apply has ended, the files are the ones the database renders   *)
(* to: config as "a pure, idempotent function of the database".              *)
DrainedIsDesired ==
    Drained /\ desired \in ValidConfigs => disk = desired

(* An apply that finds nothing to change finds the set config_version stands *)
(* for, so that not bumping the version hides nothing from the other nodes.  *)
UnchangedMeansPublished ==
    \A w \in Workers : pc[w] = "commit" /\ res[w] = "same" => disk = pub

------------------------------------------------------------------------------
(* The inductive invariant behind the safety properties                      *)

(* A task is inside the locked section exactly while it holds the lock.      *)
LockHeld == \A w \in Workers : pc[w] \in LockedSteps <=> lock = w

(* What a task knows of its own apply at each locked step.                   *)
Phases ==
    \A w \in Workers :
        /\ pc[w] \in {"sync", "test", "reload"} => want[w] # prev[w]
        /\ pc[w] = "rollback" => res[w] \in {"invalid", "reloadfailed"}
        /\ pc[w] = "rereload" => res[w] = "reloadfailed"
        /\ pc[w] = "commit" /\ res[w] = "changed" =>
             want[w] # prev[w] /\ want[w] \in ValidConfigs

(* The register always holds the published set, unless a task died inside.   *)
Settled == pub \in ValidConfigs /\ (~cut => SettledConfig = pub)

(* No task carries a version that is not committed.                          *)
VersionBound ==
    \A w \in Workers :
        /\ ver[w] <= version /\ old[w] <= version
        /\ pc[w] = "rmark" => ver[w] <= loadedAt[Node(w)]

(* The steps of an apply in which the files are not those of the version.    *)
Unpublished(w) ==
    pc[w] \in {"sync", "test", "reload"} \/ (pc[w] = "commit" /\ res[w] = "changed")

(* Behind LoadedIsServed: without a rollback an apply only goes forward and  *)
(* has loaded what it is about to publish; the nodes that loaded the current *)
(* version serve the files unless an apply is about to make that version old.*)
Snapshots == {InitialConfig, desired} \subseteq snaps
             /\ \A w \in Workers : want[w] \in snaps
Forward ==
    \A w \in Workers :
        /\ pc[w] \notin {"rollback", "rereload"}
        /\ pc[w] = "commit" => res[w] \in {"same", "changed"}
        /\ pc[w] = "commit" /\ res[w] = "changed" => running[Node(w)] = disk
Current ==
    (\A w \in Workers : ~Unpublished(w)) =>
        \A n \in Nodes : loadedAt[n] = version => running[n] = disk
Serving ==
    /\ \A n \in Nodes : loadedAt[n] <= version
    /\ Snapshots
    /\ NoRollback => Forward /\ Current

FileInv == LockHeld /\ AppliedAsValidated /\ Phases /\ Settled
IInv == TypeOK /\ FileInv /\ NeverAhead /\ VersionBound
=============================================================================
