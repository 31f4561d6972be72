---------------------------- MODULE CertLifecycle ----------------------------
(***************************************************************************)
(* The life of a certificate: the API routes that create, renew and delete *)
(* it, the Celery task that issues it (`_issue_async`), the files it leaves*)
(* on the shared certs volume, the daily renewal sweep with its leader lock*)
(* and period claim, and the nginx apply that references the files.        *)
(*                                                                         *)
(* Nothing excludes two issuances of one certificate: they share the       *)
(* destination files and, because temporary names are fixed, the temporary *)
(* files too.  A file is known by the issuance whose bytes it holds.       *)
(***************************************************************************)
EXTENDS Integers, FiniteSets

CONSTANTS
    Certs,          \* certificate ids; an id is never used twice
    Workers,        \* Celery pool processes, over all nodes
    Nodes,          \* nodes that run beat
    HaEnabled,      \* settings.ha_enabled
    NoCert, NoNode, \* no job; nobody leads the sweep
    MaxRenewals,    \* bound: renewals asked for by an administrator
    MaxExpiries,    \* bound: certificates that come near their expiry
    MaxFaults,      \* bound: issuances that ACME refuses
    MaxCrashes,     \* bound: tasks, sweeps and requests that die
    MaxDeletes,     \* bound: deletions
    MaxAttaches     \* bound: hosts pointed at a certificate

ASSUME CertAssumption ==
    /\ NoCert \notin Certs /\ NoNode \notin Nodes
    /\ HaEnabled \in BOOLEAN
    /\ ~HaEnabled => IsFiniteSet(Nodes) /\ Cardinality(Nodes) = 1

ASSUME CertBounds ==
    /\ MaxRenewals \in Nat /\ MaxExpiries \in Nat /\ MaxFaults \in Nat
    /\ MaxCrashes \in Nat /\ MaxDeletes \in Nat /\ MaxAttaches \in Nat

VARIABLES
    provider, status, expiry, fp,  \* columns of the certificates table
    attached,   \* certificates that some enabled host references
    mat,        \* fullchain.pem and privkey.pem of every certificate
    tmp,        \* their temporary files
    unsent,     \* created rows whose issuance is not enqueued yet
    issueQ,     \* queued issue/renew tasks of every certificate
    reloadQ,    \* queued nginx reloads
    pc, job,    \* each worker's next step and its certificate
    seen,       \* task local: the status the row had when it was loaded
    gen,        \* task local: the issuance
    file,       \* task local: the file being written
    fd,         \* task local: where the bytes written to the open file go
    deleting,   \* a DELETE request inside its transaction
    sweep,      \* each node's sweep of the current period
    leader,     \* holder of the cert-renew-sweep lock
    claimable,  \* cluster_sweep.last_run_at is old enough
    conf,       \* the certificate blocks of the applied nginx configuration
    serving,    \* the material nginx holds in memory
    issued,     \* number of issuances so far
    spent,      \* how much of each bound is used
    orphaned,   \* history: deletes cut between the files and the commit
    good,       \* history: whether the issuance recorded last succeeded
    disturbed   \* history: certificates whose latest issuance was not alone

rowVars   == <<provider, status, expiry, fp>>
taskVars  == <<pc, job, seen, gen, file, fd>>
fileVars  == <<mat, tmp>>
sweepVars == <<sweep, leader, claimable>>
ghosts    == <<orphaned, good, disturbed>>
nginxVars == <<reloadQ, conf, serving>>
vars == <<provider, status, expiry, fp, attached, mat, tmp, unsent, issueQ,
          reloadQ, pc, job, seen, gen, file, fd, deleting, sweep, leader,
          claimable, conf, serving, issued, spent, orphaned, good, disturbed>>

Absent  == 0     \* the file does not exist
Partial == -1    \* it is empty, cut short, or a mixture of two writers
Files == {"chain", "key"}
Statuses == {"unborn", "pending", "active", "failed", "gone"}
Steps == {"idle", "acme", "open", "write", "rename", "clean", "cleanfail",
          "save", "savefail", "reload"}

Exists(c) == status[c] \in {"pending", "active", "failed"}

Init ==
    /\ provider = [c \in Certs |-> "letsencrypt"]
    /\ status = [c \in Certs |-> "unborn"]
    /\ expiry = [c \in Certs |-> "none"] /\ fp = [c \in Certs |-> 0]
    /\ attached = {} /\ unsent = {}
    /\ mat = [c \in Certs |-> [f \in Files |-> Absent]]
    /\ tmp = [c \in Certs |-> [f \in Files |-> Absent]]
    /\ issueQ = [c \in Certs |-> 0] /\ reloadQ = 0
    /\ pc = [w \in Workers |-> "idle"] /\ job = [w \in Workers |-> NoCert]
    /\ seen = [w \in Workers |-> "unborn"] /\ gen = [w \in Workers |-> 0]
    /\ file = [w \in Workers |-> "chain"] /\ fd = [w \in Workers |-> "none"]
    /\ deleting = [c \in Certs |-> "no"]
    /\ sweep = [n \in Nodes |-> "off"] /\ leader = NoNode /\ claimable = TRUE
    /\ conf = {} /\ serving = [c \in Certs |-> Absent]
    /\ issued = 0
    /\ spent = [renewals |-> 0, expiries |-> 0, faults |-> 0, crashes |-> 0,
                deletes |-> 0, attaches |-> 0]
    /\ orphaned = {} /\ good = [c \in Certs |-> TRUE] /\ disturbed = {}

------------------------------------------------------------------------------
(* Helpers                                                                   *)

Spend(bound) == spent' = [spent EXCEPT ![bound] = @ + 1]
CanCrash == spent.crashes < MaxCrashes
Goto(w, step) == pc' = [pc EXCEPT ![w] = step]

(* The task returns: its locals are gone.                                    *)
Return(w) ==
    /\ Goto(w, "idle")
    /\ job' = [job EXCEPT ![w] = NoCert]
    /\ seen' = [seen EXCEPT ![w] = "unborn"]
    /\ gen' = [gen EXCEPT ![w] = 0]
    /\ file' = [file EXCEPT ![w] = "chain"]
    /\ fd' = [fd EXCEPT ![w] = "none"]

(* The tasks at work on a certificate.                                       *)
Issuing(c) == {w \in Workers : job[w] = c}

(* Descriptors of other tasks follow the file they opened when it is renamed *)
(* or unlinked: `move` says where a descriptor on a name leads afterwards.   *)
Follow(c, f, move) ==
    fd' = [v \in Workers |->
             IF job[v] = c /\ file[v] = f /\ fd[v] \in {"tmp", "final"}
             THEN move[fd[v]] ELSE fd[v]]

------------------------------------------------------------------------------
(* The API                                                                   *)

(* POST /certificates/letsencrypt: a pending row is committed ...            *)
RequestCertificate(c) ==
    /\ status[c] = "unborn"
    /\ status' = [status EXCEPT ![c] = "pending"]
    /\ unsent' = unsent \union {c}
    /\ UNCHANGED <<provider, expiry, fp, attached, fileVars, issueQ,
                   nginxVars, taskVars, deleting, sweepVars, issued, spent,
                   ghosts>>

(* ... and only then is its issuance enqueued.                               *)
EnqueueIssue(c) ==
    /\ c \in unsent
    /\ unsent' = unsent \ {c}
    /\ issueQ' = [issueQ EXCEPT ![c] = @ + 1]
    /\ UNCHANGED <<rowVars, attached, fileVars, nginxVars, taskVars, deleting,
                   sweepVars, issued, spent, ghosts>>

(* The API process dies, or the broker refuses, between the two.             *)
EnqueueIssueLost(c) ==
    /\ c \in unsent /\ CanCrash
    /\ unsent' = unsent \ {c}
    /\ Spend("crashes")
    /\ UNCHANGED <<rowVars, attached, fileVars, issueQ, nginxVars, taskVars,
                   deleting, sweepVars, issued, ghosts>>

(* POST /certificates/custom: the files of the flushed, still invisible row  *)
(* are written, then it is committed.  A commit that fails leaves the files. *)
UploadCustom(c) ==
    /\ status[c] = "unborn"
    /\ issued' = issued + 1
    /\ mat' = [mat EXCEPT ![c] = [f \in Files |-> issued']]
    /\ \/ /\ provider' = [provider EXCEPT ![c] = "custom"]
          /\ status' = [status EXCEPT ![c] = "active"]
          /\ expiry' = [expiry EXCEPT ![c] = "later"]
          /\ fp' = [fp EXCEPT ![c] = issued']
          /\ UNCHANGED <<spent, orphaned>>
       \/ /\ CanCrash /\ Spend("crashes")
          /\ status' = [status EXCEPT ![c] = "gone"]
          /\ UNCHANGED <<provider, expiry, fp>>
          /\ orphaned' = orphaned \union {c}
    /\ UNCHANGED <<attached, tmp, unsent, issueQ, nginxVars, taskVars,
                   deleting, sweepVars, good, disturbed>>

(* POST /certificates/{id}/renew, for a row of any provider and status.      *)
RequestRenewal(c) ==
    /\ Exists(c) /\ spent.renewals < MaxRenewals
    /\ issueQ' = [issueQ EXCEPT ![c] = @ + 1]
    /\ Spend("renewals")
    /\ UNCHANGED <<rowVars, attached, fileVars, unsent, nginxVars, taskVars,
                   deleting, sweepVars, issued, ghosts>>

(* A host is pointed at the certificate: the foreign key asks for a row, and *)
(* nothing asks for its status.  The write enqueues a reload.                *)
AttachHost(c) ==
    /\ Exists(c) /\ deleting[c] = "no" /\ c \notin attached
    /\ spent.attaches < MaxAttaches
    /\ attached' = attached \union {c}
    /\ reloadQ' = reloadQ + 1
    /\ Spend("attaches")
    /\ UNCHANGED <<rowVars, fileVars, unsent, issueQ, conf, serving, taskVars,
                   deleting, sweepVars, issued, ghosts>>

(* DELETE /certificates/{id}: the row is deleted and flushed ...             *)
DeleteRow(c) ==
    /\ Exists(c) /\ deleting[c] = "no" /\ spent.deletes < MaxDeletes
    /\ deleting' = [deleting EXCEPT ![c] = "flushed"]
    /\ Spend("deletes")
    /\ UNCHANGED <<rowVars, attached, fileVars, unsent, issueQ, nginxVars,
                   taskVars, sweepVars, issued, ghosts>>

(* ... then the directory is removed ...                                     *)
DeleteMaterial(c) ==
    /\ deleting[c] = "flushed"
    /\ deleting' = [deleting EXCEPT ![c] = "removed"]
    /\ mat' = [mat EXCEPT ![c] = [f \in Files |-> Absent]]
    /\ tmp' = [tmp EXCEPT ![c] = [f \in Files |-> Absent]]
    /\ fd' = [v \in Workers |-> IF job[v] = c /\ fd[v] # "none"
                                THEN "gone" ELSE fd[v]]
    /\ disturbed' = disturbed \union {c}
    /\ UNCHANGED <<rowVars, attached, unsent, issueQ, nginxVars, pc, job,
                   seen, gen, file, sweepVars, issued, spent, orphaned,
                   good>>

(* ... and the transaction commits; hosts fall back to NULL.  No reload.     *)
DeleteCommit(c) ==
    /\ deleting[c] = "removed"
    /\ deleting' = [deleting EXCEPT ![c] = "no"]
    /\ status' = [status EXCEPT ![c] = "gone"]
    /\ attached' = attached \ {c}
    /\ UNCHANGED <<provider, expiry, fp, fileVars, unsent, issueQ, nginxVars,
                   taskVars, sweepVars, issued, spent, ghosts>>

(* The request dies inside its transaction, which rolls back.                *)
DeleteAborts(c) ==
    /\ deleting[c] # "no" /\ CanCrash
    /\ deleting' = [deleting EXCEPT ![c] = "no"]
    /\ orphaned' = IF deleting[c] = "removed" THEN orphaned \union {c}
                   ELSE orphaned
    /\ Spend("crashes")
    /\ UNCHANGED <<rowVars, attached, fileVars, unsent, issueQ, nginxVars,
                   taskVars, sweepVars, issued, good, disturbed>>

------------------------------------------------------------------------------
(* issue_certificate and renew_certificate                                   *)

(* Mutant of Queued: a task is delivered although none is queued.            *)
QueuedAlways(c) == Exists(c)

Queued(c) == issueQ[c] > 0

(* The row is loaded, without a lock; a row that is gone ends the task.      *)
StartIssue(w, c) ==
    /\ pc[w] = "idle" /\ Queued(c)
    /\ issueQ' = [issueQ EXCEPT ![c] = @ - 1]
    /\ \/ /\ Exists(c)
          /\ Goto(w, "acme")
          /\ job' = [job EXCEPT ![w] = c]
          /\ seen' = [seen EXCEPT ![w] = status[c]]
          /\ disturbed' = IF Issuing(c) = {} THEN disturbed \ {c}
                          ELSE disturbed \union {c}
          /\ UNCHANGED <<gen, file, fd>>
       \/ ~Exists(c) /\ UNCHANGED <<taskVars, disturbed>>
    /\ UNCHANGED <<rowVars, attached, fileVars, unsent, nginxVars, deleting,
                   sweepVars, issued, spent, orphaned, good>>

(* `issuer.issue`: a new key and a new chain, or an error.                   *)
Acme(w) ==
    /\ pc[w] = "acme"
    /\ \/ /\ issued' = issued + 1
          /\ gen' = [gen EXCEPT ![w] = issued']
          /\ Goto(w, "open")
          /\ UNCHANGED spent
       \/ /\ spent.faults < MaxFaults /\ Spend("faults")
          /\ Goto(w, "savefail")
          /\ UNCHANGED <<issued, gen>>
    /\ UNCHANGED <<rowVars, attached, fileVars, unsent, issueQ, nginxVars,
                   job, seen, file, fd, deleting, sweepVars, ghosts>>

(* `_atomic_write` opens the temporary file, truncating one that is there.   *)
OpenTmp(w) ==
    /\ pc[w] = "open"
    /\ tmp' = [tmp EXCEPT ![job[w]][file[w]] = Partial]
    /\ fd' = [fd EXCEPT ![w] = "tmp"]
    /\ Goto(w, "write")
    /\ UNCHANGED <<rowVars, attached, mat, unsent, issueQ, nginxVars, job,
                   seen, gen, file, deleting, sweepVars, issued, spent,
                   ghosts>>

(* What a file that held `before` holds after w wrote all its bytes from the *)
(* start: another writer's longer text leaves a tail.                        *)
Written(w, before) == {gen[w]} \union (IF before > 0 THEN {Partial} ELSE {})

(* The bytes go where the opened file is by now; then it is closed.          *)
WriteTmp(w) ==
    /\ pc[w] = "write"
    /\ LET c == job[w]
           f == file[w]
       IN  \/ /\ fd[w] = "tmp"
              /\ \E x \in Written(w, tmp[c][f]) :
                    tmp' = [tmp EXCEPT ![c][f] = x]
              /\ UNCHANGED mat
           \/ /\ fd[w] = "final"
              /\ \E x \in Written(w, mat[c][f]) :
                    mat' = [mat EXCEPT ![c][f] = x]
              /\ UNCHANGED tmp
           \/ fd[w] = "gone" /\ UNCHANGED fileVars
    /\ fd' = [fd EXCEPT ![w] = "none"]
    /\ Goto(w, "rename")
    /\ UNCHANGED <<rowVars, attached, unsent, issueQ, nginxVars, job, seen,
                   gen, file, deleting, sweepVars, issued, spent, ghosts>>

(* `os.replace`: fails if the temporary name is gone.                        *)
RenameTmp(w) ==
    /\ pc[w] = "rename"
    /\ LET c == job[w]
           f == file[w]
       IN  \/ /\ tmp[c][f] # Absent
              /\ mat' = [mat EXCEPT ![c][f] = tmp[c][f]]
              /\ tmp' = [tmp EXCEPT ![c][f] = Absent]
              /\ Follow(c, f, [tmp |-> "final", final |-> "gone"])
              /\ Goto(w, "clean")
           \/ /\ tmp[c][f] = Absent
              /\ Goto(w, "cleanfail")
              /\ UNCHANGED <<fileVars, fd>>
    /\ UNCHANGED <<rowVars, attached, unsent, issueQ, nginxVars, job, seen,
                   gen, file, deleting, sweepVars, issued, spent, ghosts>>

(* `write_material`: the chain first, then the key.                          *)
NextFile(w) == IF file[w] = "chain" THEN "key" ELSE "none"

(* `finally: if tmp.exists(): tmp.unlink()` - whoever made it.               *)
CleanTmp(w) ==
    /\ pc[w] \in {"clean", "cleanfail"}
    /\ LET c == job[w]
           f == file[w]
       IN  /\ tmp' = [tmp EXCEPT ![c][f] = Absent]
           /\ Follow(c, f, [tmp |-> "gone", final |-> "final"])
    /\ \/ /\ pc[w] = "clean" /\ NextFile(w) = "key"
          /\ file' = [file EXCEPT ![w] = "key"]
          /\ Goto(w, "open")
       \/ /\ pc[w] = "clean" /\ NextFile(w) = "none"
          /\ Goto(w, "save")
          /\ UNCHANGED file
       \/ pc[w] = "cleanfail" /\ Goto(w, "savefail") /\ UNCHANGED file
    /\ UNCHANGED <<rowVars, attached, mat, unsent, issueQ, nginxVars, job,
                   seen, gen, deleting, sweepVars, issued, spent, ghosts>>

(* Mutant of StatusToSave: a renewal that fails leaves an active row active. *)
StatusToSaveUpward(w, new) == IF seen[w] = "active" THEN status[job[w]] ELSE new

(* The session writes the columns that differ from what it loaded: a status  *)
(* set to the value it was loaded with is not written.                       *)
StatusToSave(w, new) == IF seen[w] = new THEN status[job[w]] ELSE new

(* The commit of a success.  The row may be locked by a delete; if it is     *)
(* gone the update matches no row, the task raises and enqueues no reload.   *)
SaveIssued(w) ==
    /\ pc[w] = "save" /\ deleting[job[w]] = "no"
    /\ LET c == job[w] IN
       \/ /\ Exists(c)
          /\ status' = [status EXCEPT ![c] = StatusToSave(w, "active")]
          /\ expiry' = [expiry EXCEPT ![c] = "later"]
          /\ fp' = [fp EXCEPT ![c] = gen[w]]
          /\ good' = [good EXCEPT ![c] = TRUE]
          /\ Goto(w, "reload")
          /\ UNCHANGED <<job, seen, gen, file, fd>>
       \/ ~Exists(c) /\ Return(w) /\ UNCHANGED <<status, expiry, fp, good>>
    /\ UNCHANGED <<provider, attached, fileVars, unsent, issueQ, nginxVars,
                   deleting, sweepVars, issued, spent, orphaned, disturbed>>

(* Mutant of SaveFailed: the status was set before the work was done.        *)
SaveFailedActive(w) ==
    /\ pc[w] = "savefail" /\ deleting[job[w]] = "no"
    /\ LET c == job[w] IN
       status' = IF Exists(c) THEN [status EXCEPT ![c] = "active"] ELSE status
    /\ Return(w)
    /\ UNCHANGED <<provider, expiry, fp, attached, fileVars, unsent, issueQ,
                   nginxVars, deleting, sweepVars, issued, spent, ghosts>>

(* The commit of a failure; nothing is reloaded.                             *)
SaveFailed(w) ==
    /\ pc[w] = "savefail" /\ deleting[job[w]] = "no"
    /\ LET c == job[w] IN
       \/ /\ Exists(c)
          /\ status' = [status EXCEPT ![c] = StatusToSave(w, "failed")]
          /\ good' = [good EXCEPT ![c] = FALSE]
       \/ ~Exists(c) /\ UNCHANGED <<status, good>>
    /\ Return(w)
    /\ UNCHANGED <<provider, expiry, fp, attached, fileVars, unsent, issueQ,
                   nginxVars, deleting, sweepVars, issued, spent, orphaned,
                   disturbed>>

(* A successful issuance ends by enqueueing a reload.                        *)
EnqueueReload(w) ==
    /\ pc[w] = "reload"
    /\ reloadQ' = reloadQ + 1
    /\ Return(w)
    /\ UNCHANGED <<rowVars, attached, fileVars, unsent, issueQ, conf, serving,
                   deleting, sweepVars, issued, spent, ghosts>>

(* The pool process is killed: what is on disk stays there.                  *)
TaskDies(w) ==
    /\ pc[w] # "idle" /\ CanCrash
    /\ Spend("crashes")
    /\ disturbed' = disturbed \union {job[w]}
    /\ Return(w)
    /\ UNCHANGED <<rowVars, attached, fileVars, unsent, issueQ, nginxVars,
                   deleting, sweepVars, issued, orphaned, good>>

------------------------------------------------------------------------------
(* renew_due_certificates                                                    *)

(* Weeks pass: a certificate comes within `before_days` of its expiry.  No   *)
(* task or request that concerns it lasts that long.                         *)
NearExpiry(c) ==
    /\ Exists(c) /\ expiry[c] = "later" /\ deleting[c] = "no"
    /\ issueQ[c] = 0 /\ \A w \in Workers : job[w] # c
    /\ spent.expiries < MaxExpiries
    /\ expiry' = [expiry EXCEPT ![c] = "due"]
    /\ Spend("expiries")
    /\ UNCHANGED <<provider, status, fp, attached, fileVars, unsent, issueQ,
                   nginxVars, taskVars, deleting, sweepVars, issued, ghosts>>

(* Each node's beat emits one sweep a day.                                   *)
Beat(n) ==
    /\ sweep[n] = "off"
    /\ sweep' = [sweep EXCEPT ![n] = "queued"]
    /\ UNCHANGED <<rowVars, attached, fileVars, unsent, issueQ, nginxVars,
                   taskVars, deleting, leader, claimable, issued, spent,
                   ghosts>>

(* `leader_lock` is tried once; a node that does not get it is done.         *)
StartSweep(n) ==
    /\ sweep[n] = "queued"
    /\ \/ /\ ~HaEnabled
          /\ sweep' = [sweep EXCEPT ![n] = "claimed"]
          /\ UNCHANGED leader
       \/ /\ HaEnabled /\ leader = NoNode
          /\ leader' = n
          /\ sweep' = [sweep EXCEPT ![n] = "leading"]
       \/ /\ HaEnabled /\ leader # NoNode
          /\ sweep' = [sweep EXCEPT ![n] = "done"]
          /\ UNCHANGED leader
    /\ UNCHANGED <<rowVars, attached, fileVars, unsent, issueQ, nginxVars,
                   taskVars, deleting, claimable, issued, spent, ghosts>>

(* Mutant of ClaimSweep: the leader lock alone guards the sweep.             *)
ClaimSweepAlways(n) ==
    /\ sweep[n] = "leading"
    /\ sweep' = [sweep EXCEPT ![n] = "claimed"]
    /\ UNCHANGED <<rowVars, attached, fileVars, unsent, issueQ, nginxVars,
                   taskVars, deleting, leader, claimable, issued, spent,
                   ghosts>>

(* `claim_sweep`, committed in a transaction of its own.                     *)
ClaimSweep(n) ==
    /\ sweep[n] = "leading"
    /\ \/ /\ claimable
          /\ claimable' = FALSE
          /\ sweep' = [sweep EXCEPT ![n] = "claimed"]
          /\ UNCHANGED leader
       \/ /\ ~claimable
          /\ sweep' = [sweep EXCEPT ![n] = "done"]
          /\ leader' = NoNode
          /\ UNCHANGED claimable
    /\ UNCHANGED <<rowVars, attached, fileVars, unsent, issueQ, nginxVars,
                   taskVars, deleting, issued, spent, ghosts>>

(* Mutant of Due: only rows whose last issuance succeeded are renewed.       *)
DueIfActive(c) ==
    /\ provider[c] = "letsencrypt" /\ status[c] = "active"
    /\ expiry[c] # "later"

(* `list_due_certificate_ids`: a row that was never issued has no expiry.    *)
Due(c) ==
    /\ Exists(c) /\ provider[c] = "letsencrypt"
    /\ status[c] # "pending"
    /\ expiry[c] # "later"

(* Every due certificate gets a renewal task; the lock is released.          *)
EnqueueDue(n) ==
    /\ sweep[n] = "claimed"
    /\ issueQ' = [c \in Certs |-> IF Due(c) THEN issueQ[c] + 1 ELSE issueQ[c]]
    /\ sweep' = [sweep EXCEPT ![n] = "done"]
    /\ leader' = IF leader = n THEN NoNode ELSE leader
    /\ UNCHANGED <<rowVars, attached, fileVars, unsent, nginxVars, taskVars,
                   deleting, claimable, issued, spent, ghosts>>

(* The sweep's process is killed; the database drops its lock.               *)
SweepDies(n) ==
    /\ sweep[n] \in {"queued", "leading", "claimed"} /\ CanCrash
    /\ Spend("crashes")
    /\ sweep' = [sweep EXCEPT ![n] = "done"]
    /\ leader' = IF leader = n THEN NoNode ELSE leader
    /\ UNCHANGED <<rowVars, attached, fileVars, unsent, issueQ, nginxVars,
                   taskVars, deleting, claimable, issued, ghosts>>

(* The next day.  `min_interval_seconds` is above the spread of the beats,   *)
(* and a period is taken to be longer than the tasks that a sweep enqueued.  *)
NewPeriod ==
    /\ \A n \in Nodes : sweep[n] \in {"off", "done"}
    /\ \E n \in Nodes : sweep[n] = "done"
    /\ \A c \in Certs : issueQ[c] = 0
    /\ \A w \in Workers : pc[w] = "idle"
    /\ sweep' = [n \in Nodes |-> "off"]
    /\ claimable' = TRUE
    /\ UNCHANGED <<rowVars, attached, fileVars, unsent, issueQ, nginxVars,
                   taskVars, deleting, leader, issued, spent, ghosts>>

------------------------------------------------------------------------------
(* The nginx apply, as one step (NginxCluster has its steps).                *)

(* Mutant of Fingerprint: a renewal does not change the rendered text.       *)
FingerprintNone(c) == 0

(* `_certificate_fingerprint`: a comment in the rendered block.              *)
Fingerprint(c) == fp[c]

(* A host renders its certificate whatever its status; the default TLS       *)
(* blocks take every active one that still has a name of its own to serve,   *)
(* which is taken to be the case here.                                       *)
Referenced ==
    {c \in Certs : Exists(c) /\ (c \in attached \/ status[c] = "active")}
Rendered == {<<c, Fingerprint(c)>> : c \in Referenced}

(* `nginx -t` reads both files of every certificate and compares the keys.   *)
Loadable(c) == mat[c]["chain"] > 0 /\ mat[c]["chain"] = mat[c]["key"]

ApplyNginx ==
    /\ reloadQ > 0
    /\ reloadQ' = reloadQ - 1
    /\ \/ /\ Rendered # conf /\ \A c \in Referenced : Loadable(c)
          /\ conf' = Rendered
          /\ serving' = [c \in Certs |-> IF c \in Referenced THEN mat[c]["key"]
                                         ELSE Absent]
       \/ /\ Rendered = conf \/ \E c \in Referenced : ~Loadable(c)
          /\ UNCHANGED <<conf, serving>>
    /\ UNCHANGED <<rowVars, attached, fileVars, unsent, issueQ, taskVars,
                   deleting, sweepVars, issued, spent, ghosts>>

------------------------------------------------------------------------------
IssueStep(w) ==
    \/ Acme(w) \/ OpenTmp(w) \/ WriteTmp(w) \/ RenameTmp(w) \/ CleanTmp(w)
    \/ SaveIssued(w) \/ SaveFailed(w) \/ EnqueueReload(w)

SweepStep(n) == StartSweep(n) \/ ClaimSweep(n) \/ EnqueueDue(n)

Api(c) ==
    \/ RequestCertificate(c) \/ EnqueueIssue(c) \/ UploadCustom(c)
    \/ RequestRenewal(c) \/ AttachHost(c)
    \/ DeleteRow(c) \/ DeleteMaterial(c) \/ DeleteCommit(c)

Failure ==
    \/ \E c \in Certs : EnqueueIssueLost(c) \/ DeleteAborts(c)
    \/ \E w \in Workers : TaskDies(w)
    \/ \E n \in Nodes : SweepDies(n)

Next ==
    \/ \E c \in Certs : Api(c) \/ NearExpiry(c)
    \/ \E w \in Workers : IssueStep(w) \/ \E c \in Certs : StartIssue(w, c)
    \/ \E n \in Nodes : Beat(n) \/ SweepStep(n)
    \/ NewPeriod
    \/ ApplyNginx
    \/ Failure

Spec == Init /\ [][Next]_vars

(* The broker delivers, the pool runs what it took, requests that began end, *)
(* beat ticks and days pass.  Nothing is assumed of users, ACME or failures. *)
Fairness ==
    /\ \A c \in Certs :
          WF_vars(EnqueueIssue(c) \/ DeleteMaterial(c) \/ DeleteCommit(c))
    /\ \A w \in Workers :
          WF_vars(IssueStep(w)) /\ WF_vars(\E c \in Certs : StartIssue(w, c))
    /\ \A n \in Nodes : WF_vars(Beat(n)) /\ WF_vars(SweepStep(n))
    /\ WF_vars(NewPeriod) /\ WF_vars(ApplyNginx)

FairSpec == Spec /\ Fairness

------------------------------------------------------------------------------
(* Properties                                                                *)

Content == {Partial} \union Nat

(* Rows, files, queues and task locals keep their types: no task is taken    *)
(* from an empty queue, and no step leaves the states the code knows.        *)
TypeOK ==
    /\ provider \in [Certs -> {"letsencrypt", "custom"}]
    /\ status \in [Certs -> Statuses]
    /\ expiry \in [Certs -> {"none", "due", "later"}] /\ fp \in [Certs -> Nat]
    /\ attached \subseteq Certs /\ unsent \subseteq Certs
    /\ mat \in [Certs -> [Files -> Content]]
    /\ tmp \in [Certs -> [Files -> Content]]
    /\ issueQ \in [Certs -> Nat] /\ reloadQ \in Nat
    /\ pc \in [Workers -> Steps]
    /\ job \in [Workers -> Certs \union {NoCert}]
    /\ seen \in [Workers -> Statuses]
    /\ gen \in [Workers -> Nat] /\ file \in [Workers -> Files]
    /\ fd \in [Workers -> {"none", "tmp", "final", "gone"}]
    /\ deleting \in [Certs -> {"no", "flushed", "removed"}]
    /\ sweep \in [Nodes -> {"off", "queued", "leading", "claimed", "done"}]
    /\ leader \in Nodes \union {NoNode} /\ claimable \in BOOLEAN
    /\ conf \subseteq (Certs \X Nat) /\ serving \in [Certs -> Content]
    /\ issued \in Nat
    /\ spent \in [{"renewals", "expiries", "faults", "crashes", "deletes",
                   "attaches"} -> Nat]
    /\ orphaned \subseteq Certs /\ good \in [Certs -> BOOLEAN]
    /\ disturbed \subseteq Certs

(* A row that says "active" has both files on the volume, through any        *)
(* interleaving of issuances, deletions and crashes, except while a delete   *)
(* has removed them and not yet committed (or died there): the status gate   *)
(* of the default TLS blocks relies on it.                                   *)
ActiveHasMaterial ==
    \A c \in Certs :
        status[c] = "active" /\ deleting[c] # "removed" /\ c \notin orphaned
            => \A f \in Files : mat[c][f] # Absent

(* Sweeps alone never make two tasks of one certificate: every node's beat   *)
(* sweeps every day, and the claim lets one of them through.                 *)
OneIssuanceAtATime ==
    \A c \in Certs : issueQ[c] + Cardinality(Issuing(c)) <= 1

(* Every Let's Encrypt certificate that was ever issued, or failed to be, is *)
(* renewed before it expires, whichever sweep or task dies.                  *)
DueIsRenewed ==
    <>[](\A c \in Certs :
            Exists(c) /\ provider[c] = "letsencrypt"
            /\ status[c] # "pending" => expiry[c] = "later")

(* Every issuance and renewal reaches nginx, if nothing died on the way: in  *)
(* the end nginx holds in memory the material that is on disk for every      *)
(* active Let's Encrypt certificate.                                         *)
RenewalsAreServed ==
    <>[](spent.crashes = 0 =>
            \A c \in Certs :
               provider[c] = "letsencrypt" /\ status[c] = "active"
                  => serving[c] = mat[c]["key"])

(* "On success the certificate's status becomes active", "on failure status  *)
(* becomes failed": the row of a certificate nobody works on says how the    *)
(* issuance recorded last ended.  Refuted by two that overlap: each writes   *)
(* only what differs from the row as it loaded it.                           *)
StatusIsLastOutcome ==
    \A c \in Certs :
        status[c] \in {"active", "failed"} /\ Issuing(c) = {}
            => (status[c] = "active") = good[c]

(* Whatever overlapped, was deleted or died before, an issuance that had its *)
(* certificate to itself leaves the row with its own outcome and, if that is *)
(* "active", a whole chain and key of one issuance, which nginx can load.    *)
SettledAsIssued ==
    \A c \in Certs \ disturbed :
        status[c] \in {"active", "failed"} /\ Issuing(c) = {} =>
            /\ (status[c] = "active") = good[c]
            /\ status[c] = "active" => Loadable(c)

(* "Writes are atomic (write-temp-then-rename) so a concurrent nginx reload  *)
(* never observes a partial file."  Refuted by two issuances of a certificate*)
(* (`renew` pressed twice): `_atomic_write` gives them the same temporary    *)
(* name, and one renames what the other has just truncated.                  *)
NeverPartial == \A c \in Certs, f \in Files : mat[c][f] # Partial

(* Pending rows are "handled by the issuance task", which ends them as active*)
(* or failed; only a process that dies can leave one pending.                *)
PendingResolves ==
    \A c \in Certs :
        status[c] = "pending" ~> (status[c] # "pending" \/ spent.crashes > 0)

(* If nothing dies, issuance runs to its end: no row stays pending and what  *)
(* was issued is what nginx serves.                                          *)
IssuancesComplete == PendingResolves /\ RenewalsAreServed

------------------------------------------------------------------------------
(* The inductive invariant behind ActiveHasMaterial                          *)

(* A task at work has a certificate.                                         *)
AtWork == \A w \in Workers : pc[w] # "idle" => job[w] \in Certs

(* The certificate's files may be missing: a delete removed them.            *)
Excused(c) ==
    deleting[c] = "removed" \/ c \in orphaned \/ status[c] = "gone"

(* The files a task has put in place at its current step.                    *)
PlacedFiles(w) ==
    IF pc[w] \in {"save", "reload"} \/ (pc[w] = "clean" /\ file[w] = "key")
    THEN {"chain", "key"}
    ELSE IF pc[w] = "clean" \/ (pc[w] \in {"open", "write", "rename"}
                                /\ file[w] = "key")
    THEN {"chain"} ELSE {}

(* What a task has placed stays, whatever other tasks do to the same names.  *)
Placed ==
    \A w \in Workers :
        /\ pc[w] \in {"idle", "acme"} => file[w] = "chain"
        /\ pc[w] \notin {"idle", "acme", "savefail"} => gen[w] > 0
        /\ \A f \in PlacedFiles(w) : Excused(job[w]) \/ mat[job[w]][f] # Absent

MaterialInv == TypeOK /\ AtWork /\ Placed /\ ActiveHasMaterial

------------------------------------------------------------------------------
(* The inductive invariant behind SettledAsIssued                            *)

IdleHasNoJob == \A w \in Workers : pc[w] = "idle" => job[w] = NoCert

(* A task that has written nothing is at the first file; a certificate that  *)
(* was never asked for has no task.                                          *)
Beginnings ==
    /\ \A w \in Workers : pc[w] \in {"idle", "acme"} => file[w] = "chain"
    /\ \A c \in Certs :
          status[c] = "unborn" => good[c] /\ \A w \in Workers : job[w] # c

(* A certificate that is not disturbed has at most one task.                 *)
Alone ==
    \A v, w \in Workers :
        job[w] \in Certs \ disturbed /\ job[v] = job[w] => v = w

(* The status a lone task loaded is the row's until it saves its own.        *)
StatusLoaded ==
    \A w \in Workers :
        pc[w] # "idle" /\ job[w] \notin disturbed =>
            IF pc[w] = "reload"
            THEN status[job[w]] = "gone" \/ (status[job[w]] = "active" /\ good[job[w]])
            ELSE /\ seen[w] \in {"pending", "active", "failed"}
                 /\ status[job[w]] \in {seen[w], "gone"}

(* How far a task has come with the pair.                                    *)
Has(w, f) == mat[job[w]][f] = gen[w]
Progress(w) ==
    /\ pc[w] \in {"open", "write", "rename", "clean", "save", "reload"} => gen[w] > 0
    /\ pc[w] \in {"open", "write", "rename", "clean"} /\ file[w] = "key"
         => Has(w, "chain")
    /\ pc[w] = "write" => fd[w] = "tmp" /\ tmp[job[w]][file[w]] = Partial
    /\ pc[w] = "rename" => tmp[job[w]][file[w]] = gen[w]
    /\ pc[w] = "clean" => Has(w, file[w])
    /\ pc[w] \in {"save", "reload"} => Has(w, "chain") /\ Has(w, "key")
    /\ pc[w] # "cleanfail"
PairUnderWay ==
    \A w \in Workers : pc[w] # "idle" /\ job[w] \notin disturbed => Progress(w)

LoneInv ==
    /\ TypeOK /\ AtWork /\ IdleHasNoJob /\ Beginnings /\ Alone
    /\ StatusLoaded /\ PairUnderWay /\ SettledAsIssued
=============================================================================
