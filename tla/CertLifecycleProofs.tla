------------------------- MODULE CertLifecycleProofs -------------------------
(* Proofs about CertLifecycle for every set of certificates, worker slots    *)
(* and nodes and every value of the bounds.                                  *)
EXTENDS CertLifecycle, FiniteSetTheorems, TLAPS

(* Next as the list of its actions.                                          *)
LEMMA CertCases ==
    ASSUME [Next]_vars
    PROVE  \/ \E c \in Certs :
                 \/ RequestCertificate(c) \/ EnqueueIssue(c) \/ UploadCustom(c)
                 \/ RequestRenewal(c) \/ AttachHost(c) \/ DeleteRow(c)
                 \/ DeleteMaterial(c) \/ DeleteCommit(c) \/ NearExpiry(c)
                 \/ EnqueueIssueLost(c) \/ DeleteAborts(c)
           \/ \E w \in Workers :
                 \/ Acme(w) \/ OpenTmp(w) \/ WriteTmp(w) \/ RenameTmp(w)
                 \/ CleanTmp(w) \/ SaveIssued(w) \/ SaveFailed(w)
                 \/ EnqueueReload(w) \/ TaskDies(w)
           \/ \E w \in Workers : \E c \in Certs : StartIssue(w, c)
           \/ \E n \in Nodes :
                 \/ Beat(n) \/ StartSweep(n) \/ ClaimSweep(n) \/ EnqueueDue(n)
                 \/ SweepDies(n)
           \/ NewPeriod \/ ApplyNginx
           \/ UNCHANGED vars
  BY DEF Next, Api, IssueStep, SweepStep, Failure

------------------------------------------------------------------------------
(* Type correctness                                                          *)

LEMMA CertTypeInit == Init => TypeOK /\ AtWork
  <1> SUFFICES ASSUME Init PROVE TypeOK /\ AtWork
    OBVIOUS
  <1>1. spent \in [{"renewals", "expiries", "faults", "crashes", "deletes",
                    "attaches"} -> Nat]
    BY DEF Init
  <1>2. claimable \in BOOLEAN /\ good \in [Certs -> BOOLEAN]
    BY Zenon DEF Init
  <1> QED
    BY <1>1, <1>2
       DEF Init, TypeOK, AtWork, Statuses, Files, Steps, Content, Absent, Partial

LEMMA CertTypeStep ==
    ASSUME TypeOK, AtWork, [Next]_vars
    PROVE  TypeOK' /\ AtWork'
  <1> USE DEF TypeOK, AtWork, rowVars, taskVars, fileVars, sweepVars,
              nginxVars, ghosts, Statuses, Files, Steps, Content, Absent, Partial,
              Exists
  <1>1. ASSUME NEW c \in Certs, RequestCertificate(c) PROVE TypeOK' /\ AtWork'
    BY <1>1 DEF RequestCertificate
  <1>2. ASSUME NEW c \in Certs, EnqueueIssue(c) PROVE TypeOK' /\ AtWork'
    BY <1>2 DEF EnqueueIssue
  <1>3. ASSUME NEW c \in Certs, UploadCustom(c) PROVE TypeOK' /\ AtWork'
    <2>1. CASE spent' = spent
      <3>1. /\ issued' = issued + 1
            /\ mat' = [mat EXCEPT ![c] = [f \in Files |-> issued + 1]]
            /\ provider' = [provider EXCEPT ![c] = "custom"]
            /\ status' = [status EXCEPT ![c] = "active"]
            /\ expiry' = [expiry EXCEPT ![c] = "later"]
            /\ fp' = [fp EXCEPT ![c] = issued + 1]
            /\ UNCHANGED <<attached, tmp, unsent, issueQ, reloadQ, conf,
                           serving, pc, job, seen, gen,
                           file, fd, deleting, sweep,
                           leader, claimable, spent,
                           orphaned, good,
                           disturbed>>
        BY <1>3, <2>1 DEF UploadCustom, Spend
      <3>2. AtWork'
        BY <3>1
      <3>3. TypeOK'
        BY <3>1
      <3> QED
        BY <3>2, <3>3
    <2>2. CASE spent' # spent
      <3>1. /\ issued' = issued + 1
            /\ mat' = [mat EXCEPT ![c] = [f \in Files |-> issued + 1]]
            /\ spent' = [spent EXCEPT !["crashes"] = @ + 1]
            /\ status' = [status EXCEPT ![c] = "gone"]
            /\ orphaned' = orphaned \union {c}
            /\ UNCHANGED <<provider, expiry, fp, attached, tmp, unsent,
                           issueQ, reloadQ, conf, serving,
                           pc, job, seen, gen, file, fd,
                           deleting, sweep, leader,
                           claimable, good,
                           disturbed>>
        BY <1>3, <2>2 DEF UploadCustom, Spend
      <3>2. AtWork'
        BY <3>1
      <3>3. TypeOK'
        BY <3>1
      <3> QED
        BY <3>2, <3>3
    <2> QED
      BY <2>1, <2>2
  <1>4. ASSUME NEW c \in Certs, RequestRenewal(c) PROVE TypeOK' /\ AtWork'
    BY <1>4 DEF RequestRenewal, Spend
  <1>5. ASSUME NEW c \in Certs, AttachHost(c) PROVE TypeOK' /\ AtWork'
    BY <1>5 DEF AttachHost, Spend
  <1>6. ASSUME NEW c \in Certs, DeleteRow(c) PROVE TypeOK' /\ AtWork'
    BY <1>6 DEF DeleteRow, Spend
  <1>7. ASSUME NEW c \in Certs, DeleteMaterial(c) PROVE TypeOK' /\ AtWork'
    BY <1>7 DEF DeleteMaterial
  <1>8. ASSUME NEW c \in Certs, DeleteCommit(c) PROVE TypeOK' /\ AtWork'
    BY <1>8 DEF DeleteCommit
  <1>9. ASSUME NEW c \in Certs, NearExpiry(c) PROVE TypeOK' /\ AtWork'
    BY <1>9 DEF NearExpiry, Spend
  <1>10. ASSUME NEW c \in Certs, EnqueueIssueLost(c) PROVE TypeOK' /\ AtWork'
    BY <1>10 DEF EnqueueIssueLost, Spend
  <1>11. ASSUME NEW c \in Certs, DeleteAborts(c) PROVE TypeOK' /\ AtWork'
    BY <1>11 DEF DeleteAborts, Spend
  <1>12. ASSUME NEW w \in Workers, Acme(w) PROVE TypeOK' /\ AtWork'
    <2>1. job[w] \in Certs /\ file[w] \in Files /\ pc[w] # "idle"
      BY <1>12 DEF Acme
    <2>2. CASE pc' = [pc EXCEPT ![w] = "open"]
      <3>1. /\ issued' = issued + 1
            /\ gen' = [gen EXCEPT ![w] = issued + 1]
            /\ pc' = [pc EXCEPT ![w] = "open"]
            /\ UNCHANGED <<provider, status, expiry, fp, attached, mat,
                           tmp, unsent, issueQ, reloadQ,
                           conf, serving, job, seen, file,
                           fd, deleting, sweep, leader,
                           claimable, spent, orphaned,
                           good,
                           disturbed>>
        BY <1>12, <2>2, <2>1 DEF Acme, Goto
      <3>2. AtWork'
        BY <3>1, <2>1
      <3>3. TypeOK'
        BY <3>1, <2>1
      <3> QED
        BY <3>2, <3>3
    <2>3. CASE pc' # [pc EXCEPT ![w] = "open"]
      <3>1. /\ spent' = [spent EXCEPT !["faults"] = @ + 1]
            /\ pc' = [pc EXCEPT ![w] = "savefail"]
            /\ UNCHANGED <<provider, status, expiry, fp, attached, mat,
                           tmp, unsent, issueQ, reloadQ,
                           conf, serving, job, seen, gen,
                           file, fd, deleting, sweep,
                           leader, claimable, issued,
                           orphaned, good,
                           disturbed>>
        BY <1>12, <2>3, <2>1 DEF Acme, Goto, Spend
      <3>2. AtWork'
        BY <3>1, <2>1
      <3>3. TypeOK'
        BY <3>1, <2>1
      <3> QED
        BY <3>2, <3>3
    <2> QED
      BY <2>2, <2>3
  <1>13. ASSUME NEW w \in Workers, OpenTmp(w) PROVE TypeOK' /\ AtWork'
    BY <1>13 DEF OpenTmp, Goto
  <1>14. ASSUME NEW w \in Workers, WriteTmp(w) PROVE TypeOK' /\ AtWork'
    <2>1. job[w] \in Certs /\ file[w] \in Files /\ pc[w] # "idle"
      BY <1>14 DEF WriteTmp
    <2>2. \A x \in Content : Written(w, x) \subseteq Content
      BY DEF Written
    <2>3. tmp[job[w]][file[w]] \in Content /\ mat[job[w]][file[w]] \in Content
      BY <2>1
    <2>4. CASE fd[w] = "tmp"
      <3>1. /\ \E x \in Content : tmp' = [tmp EXCEPT ![job[w]][file[w]] = x]
            /\ pc' = [pc EXCEPT ![w] = "rename"]
            /\ fd' = [fd EXCEPT ![w] = "none"]
            /\ UNCHANGED <<provider, status, expiry, fp, attached, mat,
                           unsent, issueQ, reloadQ, conf,
                           serving, job, seen, gen, file,
                           deleting, sweep, leader,
                           claimable, issued, spent,
                           orphaned, good,
                           disturbed>>
        BY <1>14, <2>4, <2>1, <2>2, <2>3 DEF WriteTmp, Goto
      <3>2. AtWork'
        BY <3>1, <2>1, <2>2, <2>3
      <3>3. TypeOK'
        BY <3>1, <2>1, <2>2, <2>3
      <3> QED
        BY <3>2, <3>3
    <2>5. CASE fd[w] = "final"
      <3>1. /\ \E x \in Content : mat' = [mat EXCEPT ![job[w]][file[w]] = x]
            /\ pc' = [pc EXCEPT ![w] = "rename"]
            /\ fd' = [fd EXCEPT ![w] = "none"]
            /\ UNCHANGED <<provider, status, expiry, fp, attached, tmp,
                           unsent, issueQ, reloadQ, conf,
                           serving, job, seen, gen, file,
                           deleting, sweep, leader,
                           claimable, issued, spent,
                           orphaned, good,
                           disturbed>>
        BY <1>14, <2>5, <2>1, <2>2, <2>3 DEF WriteTmp, Goto
      <3>2. AtWork'
        BY <3>1, <2>1, <2>2, <2>3
      <3>3. TypeOK'
        BY <3>1, <2>1, <2>2, <2>3
      <3> QED
        BY <3>2, <3>3
    <2>6. CASE fd[w] \notin {"tmp", "final"}
      <3>1. /\ pc' = [pc EXCEPT ![w] = "rename"]
            /\ fd' = [fd EXCEPT ![w] = "none"]
            /\ UNCHANGED <<provider, status, expiry, fp, attached, mat,
                           tmp, unsent, issueQ, reloadQ,
                           conf, serving, job, seen, gen,
                           file, deleting, sweep, leader,
                           claimable, issued, spent,
                           orphaned, good,
                           disturbed>>
        BY <1>14, <2>6, <2>1 DEF WriteTmp, Goto
      <3>2. AtWork'
        BY <3>1, <2>1
      <3>3. TypeOK'
        BY <3>1, <2>1
      <3> QED
        BY <3>2, <3>3
    <2> QED
      BY <2>4, <2>5, <2>6
  <1>15. ASSUME NEW w \in Workers, RenameTmp(w) PROVE TypeOK' /\ AtWork'
    <2>1. job[w] \in Certs /\ file[w] \in Files /\ pc[w] # "idle"
      BY <1>15 DEF RenameTmp
    <2>2. /\ tmp[job[w]][file[w]] \in Content
          /\ fd' \in [Workers -> {"none", "tmp", "final", "gone"}]
      <3>1. tmp[job[w]][file[w]] \in Content
        BY <2>1
      <3>2. fd' \in [Workers -> {"none", "tmp", "final", "gone"}]
        BY <1>15 DEF RenameTmp, Follow
      <3> QED
        BY <3>1, <3>2
    <2>3. CASE tmp[job[w]][file[w]] # Absent
      <3>1. /\ mat' = [mat EXCEPT ![job[w]][file[w]] = tmp[job[w]][file[w]]]
            /\ tmp' = [tmp EXCEPT ![job[w]][file[w]] = Absent]
            /\ fd' \in [Workers -> {"none", "tmp", "final", "gone"}]
            /\ pc' = [pc EXCEPT ![w] = "clean"]
            /\ UNCHANGED <<provider, status, expiry, fp, attached, unsent,
                           issueQ, reloadQ, conf, serving,
                           job, seen, gen, file, deleting,
                           sweep, leader, claimable,
                           issued, spent, orphaned, good,
                           disturbed>>
        BY <1>15, <2>3, <2>1, <2>2 DEF RenameTmp, Goto
      <3>2. AtWork'
        BY <3>1, <2>1, <2>2
      <3>3. TypeOK'
        BY <3>1, <2>1, <2>2
      <3> QED
        BY <3>2, <3>3
    <2>4. CASE tmp[job[w]][file[w]] = Absent
      <3>1. /\ pc' = [pc EXCEPT ![w] = "cleanfail"]
            /\ UNCHANGED <<provider, status, expiry, fp, attached, mat,
                           tmp, unsent, issueQ, reloadQ,
                           conf, serving, job, seen, gen,
                           file, fd, deleting, sweep,
                           leader, claimable, issued,
                           spent, orphaned, good,
                           disturbed>>
        BY <1>15, <2>4, <2>1 DEF RenameTmp, Goto
      <3>2. AtWork'
        BY <3>1, <2>1
      <3>3. TypeOK'
        BY <3>1, <2>1
      <3> QED
        BY <3>2, <3>3
    <2> QED
      BY <2>3, <2>4
  <1>16. ASSUME NEW w \in Workers, CleanTmp(w) PROVE TypeOK' /\ AtWork'
    <2>1. job[w] \in Certs /\ file[w] \in Files /\ pc[w] # "idle"
      BY <1>16 DEF CleanTmp
    <2>2. CASE pc[w] = "clean" /\ NextFile(w) = "key"
      <3>1. /\ tmp' = [tmp EXCEPT ![job[w]][file[w]] = Absent]
            /\ fd' \in [Workers -> {"none", "tmp", "final", "gone"}]
            /\ file' = [file EXCEPT ![w] = "key"]
            /\ pc' = [pc EXCEPT ![w] = "open"]
            /\ UNCHANGED <<provider, status, expiry, fp, attached, mat,
                           unsent, issueQ, reloadQ, conf,
                           serving, job, seen, gen,
                           deleting, sweep, leader,
                           claimable, issued, spent,
                           orphaned, good,
                           disturbed>>
        BY <1>16, <2>2, <2>1 DEF CleanTmp, Goto, Follow
      <3>2. AtWork'
        BY <3>1, <2>1
      <3>3. TypeOK'
        BY <3>1, <2>1
      <3> QED
        BY <3>2, <3>3
    <2>3. CASE ~(pc[w] = "clean" /\ NextFile(w) = "key")
      <3>1. /\ tmp' = [tmp EXCEPT ![job[w]][file[w]] = Absent]
            /\ fd' \in [Workers -> {"none", "tmp", "final", "gone"}]
            /\ \E s \in {"save", "savefail"} : pc' = [pc EXCEPT ![w] = s]
            /\ UNCHANGED <<provider, status, expiry, fp, attached, mat,
                           unsent, issueQ, reloadQ, conf,
                           serving, job, seen, gen, file,
                           deleting, sweep, leader,
                           claimable, issued, spent,
                           orphaned, good,
                           disturbed>>
        BY <1>16, <2>3, <2>1 DEF CleanTmp, Goto, Follow
      <3>2. AtWork'
        BY <3>1, <2>1
      <3>3. TypeOK'
        BY <3>1, <2>1
      <3> QED
        BY <3>2, <3>3
    <2> QED
      BY <2>2, <2>3
  <1>17. ASSUME NEW w \in Workers, SaveIssued(w) PROVE TypeOK' /\ AtWork'
    <2>1. job[w] \in Certs /\ file[w] \in Files /\ pc[w] # "idle"
      BY <1>17 DEF SaveIssued
    <2>2. CASE Exists(job[w])
      <3>1. /\ \E s \in Statuses : status' = [status EXCEPT ![job[w]] = s]
            /\ expiry' = [expiry EXCEPT ![job[w]] = "later"]
            /\ fp' = [fp EXCEPT ![job[w]] = gen[w]]
            /\ good' = [good EXCEPT ![job[w]] = TRUE]
            /\ pc' = [pc EXCEPT ![w] = "reload"]
            /\ UNCHANGED <<provider, attached, mat, tmp, unsent, issueQ,
                           reloadQ, conf, serving, job,
                           seen, gen, file, fd, deleting,
                           sweep, leader, claimable,
                           issued, spent, orphaned,
                           disturbed>>
        BY <1>17, <2>2, <2>1 DEF SaveIssued, Goto, StatusToSave
      <3>2. AtWork'
        BY <3>1, <2>1
      <3>3. TypeOK'
        BY <3>1, <2>1
      <3> QED
        BY <3>2, <3>3
    <2>3. CASE ~Exists(job[w])
      <3>1. /\ pc' = [pc EXCEPT ![w] = "idle"]
            /\ job' = [job EXCEPT ![w] = NoCert]
            /\ seen' = [seen EXCEPT ![w] = "unborn"]
            /\ gen' = [gen EXCEPT ![w] = 0]
            /\ file' = [file EXCEPT ![w] = "chain"]
            /\ fd' = [fd EXCEPT ![w] = "none"]
            /\ UNCHANGED <<provider, status, expiry, fp, attached, mat,
                           tmp, unsent, issueQ, reloadQ,
                           conf, serving, deleting, sweep,
                           leader, claimable, issued,
                           spent, orphaned, good,
                           disturbed>>
        BY <1>17, <2>3, <2>1 DEF SaveIssued, Goto, Return
      <3>2. AtWork'
        BY <3>1, <2>1
      <3>3. TypeOK'
        BY <3>1, <2>1
      <3> QED
        BY <3>2, <3>3
    <2> QED
      BY <2>2, <2>3
  <1>18. ASSUME NEW w \in Workers, SaveFailed(w) PROVE TypeOK' /\ AtWork'
    <2>1. job[w] \in Certs /\ file[w] \in Files /\ pc[w] # "idle"
      BY <1>18 DEF SaveFailed
    <2>2. CASE Exists(job[w])
      <3>1. /\ \E s \in Statuses : status' = [status EXCEPT ![job[w]] = s]
            /\ good' = [good EXCEPT ![job[w]] = FALSE]
            /\ pc' = [pc EXCEPT ![w] = "idle"]
            /\ job' = [job EXCEPT ![w] = NoCert]
            /\ seen' = [seen EXCEPT ![w] = "unborn"]
            /\ gen' = [gen EXCEPT ![w] = 0]
            /\ file' = [file EXCEPT ![w] = "chain"]
            /\ fd' = [fd EXCEPT ![w] = "none"]
            /\ UNCHANGED <<provider, expiry, fp, attached, mat, tmp,
                           unsent, issueQ, reloadQ, conf,
                           serving, deleting, sweep,
                           leader, claimable, issued,
                           spent, orphaned,
                           disturbed>>
        BY <1>18, <2>2, <2>1 DEF SaveFailed, Goto, Return, StatusToSave
      <3>2. AtWork'
        BY <3>1, <2>1
      <3>3. TypeOK'
        BY <3>1, <2>1
      <3> QED
        BY <3>2, <3>3
    <2>3. CASE ~Exists(job[w])
      <3>1. /\ pc' = [pc EXCEPT ![w] = "idle"]
            /\ job' = [job EXCEPT ![w] = NoCert]
            /\ seen' = [seen EXCEPT ![w] = "unborn"]
            /\ gen' = [gen EXCEPT ![w] = 0]
            /\ file' = [file EXCEPT ![w] = "chain"]
            /\ fd' = [fd EXCEPT ![w] = "none"]
            /\ UNCHANGED <<provider, status, expiry, fp, attached, mat,
                           tmp, unsent, issueQ, reloadQ,
                           conf, serving, deleting, sweep,
                           leader, claimable, issued,
                           spent, orphaned, good,
                           disturbed>>
        BY <1>18, <2>3, <2>1 DEF SaveFailed, Goto, Return
      <3>2. AtWork'
        BY <3>1, <2>1
      <3>3. TypeOK'
        BY <3>1, <2>1
      <3> QED
        BY <3>2, <3>3
    <2> QED
      BY <2>2, <2>3
  <1>19. ASSUME NEW w \in Workers, EnqueueReload(w) PROVE TypeOK' /\ AtWork'
    BY <1>19 DEF EnqueueReload, Goto, Return
  <1>20. ASSUME NEW w \in Workers, TaskDies(w) PROVE TypeOK' /\ AtWork'
    BY <1>20 DEF TaskDies, Goto, Return, Spend
  <1>21. ASSUME NEW n \in Nodes, Beat(n) PROVE TypeOK' /\ AtWork'
    BY <1>21 DEF Beat
  <1>22. ASSUME NEW n \in Nodes, StartSweep(n) PROVE TypeOK' /\ AtWork'
    <2>1. /\ sweep' \in
               [Nodes -> {"off", "queued", "leading", "claimed", "done"}]
          /\ leader' \in Nodes \union {NoNode}
      <3>1. \/ sweep' = [sweep EXCEPT ![n] = "claimed"] /\ leader' = leader
            \/ sweep' = [sweep EXCEPT ![n] = "leading"] /\ leader' = n
            \/ sweep' = [sweep EXCEPT ![n] = "done"] /\ leader' = leader
        BY <1>22, Zenon DEF StartSweep
      <3> QED
        BY ZenonT(60), <1>22, <3>1
    <2>2. UNCHANGED <<rowVars, attached, fileVars, unsent, issueQ, nginxVars,
                      taskVars, deleting, claimable, issued, spent, ghosts>>
      BY <1>22 DEF StartSweep
    <2> QED
      BY <2>1, <2>2
  <1>23. ASSUME NEW n \in Nodes, ClaimSweep(n) PROVE TypeOK' /\ AtWork'
    <2>1. /\ sweep' \in
               [Nodes -> {"off", "queued", "leading", "claimed", "done"}]
          /\ leader' \in Nodes \union {NoNode}
      <3>1. \/ sweep' = [sweep EXCEPT ![n] = "claimed"] /\ leader' = leader
            \/ sweep' = [sweep EXCEPT ![n] = "done"] /\ leader' = NoNode
        BY <1>23, Zenon DEF ClaimSweep
      <3> QED
        BY ZenonT(60), <3>1
    <2>2. claimable' \in BOOLEAN
      BY <1>23 DEF ClaimSweep
    <2>3. UNCHANGED <<rowVars, attached, fileVars, unsent, issueQ, nginxVars,
                      taskVars, deleting, issued, spent, orphaned, good,
                           disturbed>>
      BY <1>23 DEF ClaimSweep
    <2> QED
      BY <2>1, <2>2, <2>3
  <1>24. ASSUME NEW n \in Nodes, EnqueueDue(n) PROVE TypeOK' /\ AtWork'
    BY <1>24 DEF EnqueueDue
  <1>25. ASSUME NEW n \in Nodes, SweepDies(n) PROVE TypeOK' /\ AtWork'
    BY <1>25 DEF SweepDies, Spend
  <1>26. ASSUME NEW w \in Workers, NEW c \in Certs, StartIssue(w, c)
         PROVE  TypeOK' /\ AtWork'
    <2>1. issueQ' \in [Certs -> Nat]
      BY <1>26 DEF StartIssue, Queued
    <2>2. CASE Exists(c)
      <3>1. /\ pc' = [pc EXCEPT ![w] = "acme"] /\ job' = [job EXCEPT ![w] = c]
            /\ seen' = [seen EXCEPT ![w] = status[c]]
            /\ UNCHANGED <<gen, file, fd>>
        BY <1>26, <2>2 DEF StartIssue, Goto
      <3>2. AtWork'
        BY <3>1
      <3>3. TypeOK'
        BY <1>26, <2>1, <3>1 DEF StartIssue
      <3> QED
        BY <3>2, <3>3
    <2>3. CASE ~Exists(c)
      BY <1>26, <2>1, <2>3 DEF StartIssue
    <2> QED
      BY <2>2, <2>3
  <1>27. CASE NewPeriod
    BY <1>27 DEF NewPeriod
  <1>28. CASE ApplyNginx
    BY <1>28 DEF ApplyNginx, Rendered, Referenced, Fingerprint
  <1>29. CASE UNCHANGED vars
    BY <1>29 DEF vars
  <1> QED
    BY <1>1, <1>2, <1>3, <1>4, <1>5, <1>6, <1>7, <1>8, <1>9, <1>10, <1>11,
       <1>12, <1>13, <1>14, <1>15, <1>16, <1>17, <1>18, <1>19, <1>20, <1>21,
       <1>22, <1>23, <1>24, <1>25, <1>26, <1>27, <1>28, <1>29, CertCases

(* Every variable keeps its type: no queue goes negative and every file is   *)
(* absent, partial or one issuance's.                                        *)
THEOREM CertTypeCorrect == Spec => []TypeOK
  BY CertTypeInit, CertTypeStep, PTL DEF Spec

------------------------------------------------------------------------------
(* The files of an active certificate                                        *)

(* A step that touches no file, no row status and no delete, and in which    *)
(* every task keeps its step or leaves, keeps the invariant.                 *)
LEMMA MaterialFrame ==
    ASSUME TypeOK, AtWork, Placed, ActiveHasMaterial,
           UNCHANGED <<mat, status, deleting, orphaned>>,
           \A w \in Workers :
              \/ pc'[w] = pc[w] /\ job'[w] = job[w] /\ file'[w] = file[w]
                 /\ gen'[w] = gen[w]
              \/ pc'[w] \in {"idle", "acme", "savefail"} /\ file'[w] = "chain"
    PROVE  Placed' /\ ActiveHasMaterial'
  <1>1. ActiveHasMaterial'
    BY DEF ActiveHasMaterial
  <1>2. ASSUME NEW w \in Workers
        PROVE  /\ pc'[w] \in {"idle", "acme"} => file'[w] = "chain"
               /\ pc'[w] \notin {"idle", "acme", "savefail"} => gen'[w] > 0
               /\ \A f \in PlacedFiles(w)' :
                     Excused(job[w])' \/ mat'[job'[w]][f] # Absent
    <2>1. CASE pc'[w] \in {"idle", "acme", "savefail"} /\ file'[w] = "chain"
      BY <2>1 DEF PlacedFiles
    <2>2. CASE pc'[w] = pc[w] /\ job'[w] = job[w] /\ file'[w] = file[w]
               /\ gen'[w] = gen[w]
      <3>1. PlacedFiles(w)' = PlacedFiles(w)
        BY <2>2 DEF PlacedFiles
      <3>2. Excused(job[w])' <=> Excused(job[w])
        BY <2>2 DEF Excused
      <3> QED
        BY <2>2, <3>1, <3>2 DEF Placed
    <2> QED
      BY <2>1, <2>2
  <1>3. Placed'
    BY <1>2 DEF Placed
  <1> QED
    BY <1>1, <1>3

(* Files never disappear but by a delete, which excuses them for good: it is *)
(* enough to look at what the step newly places or newly calls active.       *)
LEMMA MaterialGrows ==
    ASSUME TypeOK, AtWork, Placed, ActiveHasMaterial, AtWork',
           \A c \in Certs : Excused(c) => Excused(c)',
           \A c \in Certs, f \in Files :
              mat[c][f] # Absent => mat'[c][f] # Absent \/ Excused(c)',
           \A c \in Certs : status'[c] = "active" /\ ~Excused(c)' =>
              \/ status[c] = "active"
              \/ \A f \in Files : mat'[c][f] # Absent,
           \A w \in Workers :
              /\ pc'[w] \in {"idle", "acme"} => file'[w] = "chain"
              /\ pc'[w] \notin {"idle", "acme", "savefail"} => gen'[w] > 0,
           \A w \in Workers : \A f \in PlacedFiles(w)' :
              \/ job'[w] = job[w] /\ pc[w] # "idle" /\ f \in PlacedFiles(w)
              \/ Excused(job[w])' \/ mat'[job'[w]][f] # Absent
    PROVE  Placed' /\ ActiveHasMaterial'
  <1>1. ASSUME NEW w \in Workers, NEW f \in PlacedFiles(w)'
        PROVE  Excused(job[w])' \/ mat'[job'[w]][f] # Absent
    <2>1. f \in Files
      BY DEF PlacedFiles, Files
    <2>2. CASE job'[w] = job[w] /\ pc[w] # "idle" /\ f \in PlacedFiles(w)
      <3>1. job[w] \in Certs
        BY <2>2 DEF AtWork
      <3>2. Excused(job[w]) \/ mat[job[w]][f] # Absent
        BY <2>2 DEF Placed
      <3>3. Excused(job[w])' <=> \/ deleting'[job'[w]] = "removed"
                                \/ job'[w] \in orphaned'
                                \/ status'[job'[w]] = "gone"
        BY DEF Excused
      <3>4. \A c \in Certs : Excused(c)' <=> \/ deleting'[c] = "removed"
                                             \/ c \in orphaned'
                                             \/ status'[c] = "gone"
        BY DEF Excused
      <3> QED
        BY <2>1, <2>2, <3>1, <3>2, <3>3, <3>4
    <2> QED
      BY <1>1, <2>2
  <1>2. Placed'
    BY <1>1 DEF Placed
  <1>3. ASSUME NEW c \in Certs, NEW f \in Files, status'[c] = "active",
               deleting'[c] # "removed", c \notin orphaned'
        PROVE  mat'[c][f] # Absent
    <2>1. ~Excused(c)'
      BY <1>3 DEF Excused
    <2>2. CASE status[c] = "active"
      <3>1. ~Excused(c)
        BY <2>1
      <3>2. mat[c][f] # Absent
        BY <2>2, <3>1 DEF ActiveHasMaterial, Excused
      <3> QED
        BY <2>1, <3>2
    <2> QED
      BY <1>3, <2>1, <2>2
  <1>4. ActiveHasMaterial'
    BY <1>3 DEF ActiveHasMaterial
  <1> QED
    BY <1>2, <1>4

(* Every action keeps MaterialInv.                                           *)
LEMMA MaterialStep ==
    ASSUME MaterialInv, [Next]_vars
    PROVE  MaterialInv'
  <1> USE DEF rowVars, taskVars, fileVars, sweepVars, nginxVars, ghosts
  <1>1. TypeOK /\ AtWork /\ Placed /\ ActiveHasMaterial
    BY DEF MaterialInv
  <1>2. TypeOK' /\ AtWork'
    BY <1>1, CertTypeStep
  <1> SUFFICES Placed' /\ ActiveHasMaterial'
    BY <1>2 DEF MaterialInv
  <1>3. ASSUME NEW c \in Certs, EnqueueIssue(c)
        PROVE  Placed' /\ ActiveHasMaterial'
    BY <1>3, <1>1, MaterialFrame DEF EnqueueIssue
  <1>4. ASSUME NEW c \in Certs, RequestRenewal(c)
        PROVE  Placed' /\ ActiveHasMaterial'
    BY <1>4, <1>1, MaterialFrame DEF RequestRenewal
  <1>5. ASSUME NEW c \in Certs, AttachHost(c)
        PROVE  Placed' /\ ActiveHasMaterial'
    BY <1>5, <1>1, MaterialFrame DEF AttachHost
  <1>6. ASSUME NEW c \in Certs, NearExpiry(c)
        PROVE  Placed' /\ ActiveHasMaterial'
    BY <1>6, <1>1, MaterialFrame DEF NearExpiry
  <1>7. ASSUME NEW c \in Certs, EnqueueIssueLost(c)
        PROVE  Placed' /\ ActiveHasMaterial'
    BY <1>7, <1>1, MaterialFrame DEF EnqueueIssueLost
  <1>8. ASSUME NEW w \in Workers, EnqueueReload(w)
        PROVE  Placed' /\ ActiveHasMaterial'
    <2>1. \A v \in Workers :
             \/ pc'[v] = pc[v] /\ job'[v] = job[v] /\ file'[v] = file[v]
                /\ gen'[v] = gen[v]
             \/ pc'[v] \in {"idle", "acme", "savefail"} /\ file'[v] = "chain"
      BY <1>8, <1>1 DEF EnqueueReload, Return, Goto, TypeOK, Placed
    <2> QED
      BY <1>8, <1>1, <2>1, MaterialFrame DEF EnqueueReload
  <1>9. ASSUME NEW w \in Workers, TaskDies(w)
        PROVE  Placed' /\ ActiveHasMaterial'
    <2>1. \A v \in Workers :
             \/ pc'[v] = pc[v] /\ job'[v] = job[v] /\ file'[v] = file[v]
                /\ gen'[v] = gen[v]
             \/ pc'[v] \in {"idle", "acme", "savefail"} /\ file'[v] = "chain"
      BY <1>9, <1>1 DEF TaskDies, Return, Goto, TypeOK, Placed
    <2> QED
      BY <1>9, <1>1, <2>1, MaterialFrame DEF TaskDies
  <1>10. ASSUME NEW n \in Nodes, Beat(n) PROVE Placed' /\ ActiveHasMaterial'
    BY <1>10, <1>1, MaterialFrame DEF Beat
  <1>11. ASSUME NEW n \in Nodes, StartSweep(n)
         PROVE  Placed' /\ ActiveHasMaterial'
    BY <1>11, <1>1, MaterialFrame DEF StartSweep
  <1>12. ASSUME NEW n \in Nodes, ClaimSweep(n)
         PROVE  Placed' /\ ActiveHasMaterial'
    BY <1>12, <1>1, MaterialFrame DEF ClaimSweep
  <1>13. ASSUME NEW n \in Nodes, EnqueueDue(n)
         PROVE  Placed' /\ ActiveHasMaterial'
    BY <1>13, <1>1, MaterialFrame DEF EnqueueDue
  <1>14. ASSUME NEW n \in Nodes, SweepDies(n)
         PROVE  Placed' /\ ActiveHasMaterial'
    BY <1>14, <1>1, MaterialFrame DEF SweepDies
  <1>15. ASSUME NEW w \in Workers, NEW c \in Certs, StartIssue(w, c)
        PROVE  Placed' /\ ActiveHasMaterial'
    <2>1. \A v \in Workers :
             \/ pc'[v] = pc[v] /\ job'[v] = job[v] /\ file'[v] = file[v]
                /\ gen'[v] = gen[v]
             \/ pc'[v] \in {"idle", "acme", "savefail"} /\ file'[v] = "chain"
      BY <1>15, <1>1 DEF StartIssue, Goto, TypeOK, Placed
    <2> QED
      BY <1>15, <1>1, <2>1, MaterialFrame DEF StartIssue
  <1>16. CASE NewPeriod
    BY <1>16, <1>1, MaterialFrame DEF NewPeriod
  <1>17. CASE ApplyNginx
    BY <1>17, <1>1, MaterialFrame DEF ApplyNginx
  <1>18. ASSUME NEW c \in Certs, RequestCertificate(c)
         PROVE  Placed' /\ ActiveHasMaterial'
    <2>2. \A d \in Certs : Excused(d) => Excused(d)'
      BY <1>18, <1>1 DEF RequestCertificate, Excused, Exists, TypeOK
    <2>3. \A d \in Certs, f \in Files :
             mat[d][f] # Absent => mat'[d][f] # Absent \/ Excused(d)'
      BY <1>18, <1>1 DEF RequestCertificate, Excused, TypeOK, Absent, Files
    <2>4. \A d \in Certs : status'[d] = "active" /\ ~Excused(d)' =>
             status[d] = "active" \/ \A f \in Files : mat'[d][f] # Absent
      BY <1>18, <1>1
         DEF RequestCertificate, Excused, TypeOK, Absent, Files, Placed,
             PlacedFiles
    <2>5. \A v \in Workers :
             /\ pc'[v] \in {"idle", "acme"} => file'[v] = "chain"
             /\ pc'[v] \notin {"idle", "acme", "savefail"} => gen'[v] > 0
      BY <1>18, <1>1 DEF RequestCertificate, Placed, TypeOK
    <2>6. \A v \in Workers : \A f \in PlacedFiles(v)' :
             \/ job'[v] = job[v] /\ pc[v] # "idle" /\ f \in PlacedFiles(v)
             \/ Excused(job[v])' \/ mat'[job'[v]][f] # Absent
      BY <1>18, <1>1 DEF RequestCertificate, PlacedFiles, TypeOK, Absent
    <2> QED
      BY <1>1, <1>2, <2>2, <2>3, <2>4, <2>5, <2>6, MaterialGrows
  <1>19. ASSUME NEW c \in Certs, UploadCustom(c)
         PROVE  Placed' /\ ActiveHasMaterial'
    <2>2. \A d \in Certs : Excused(d) => Excused(d)'
      BY <1>19, <1>1 DEF UploadCustom, Excused, Exists, TypeOK
    <2>3. \A d \in Certs, f \in Files :
             mat[d][f] # Absent => mat'[d][f] # Absent \/ Excused(d)'
      BY <1>19, <1>1 DEF UploadCustom, Excused, TypeOK, Absent, Files
    <2>4. \A d \in Certs : status'[d] = "active" /\ ~Excused(d)' =>
             status[d] = "active" \/ \A f \in Files : mat'[d][f] # Absent
      BY <1>19, <1>1
         DEF UploadCustom, Excused, TypeOK, Absent, Files, Placed, PlacedFiles
    <2>5. \A v \in Workers :
             /\ pc'[v] \in {"idle", "acme"} => file'[v] = "chain"
             /\ pc'[v] \notin {"idle", "acme", "savefail"} => gen'[v] > 0
      BY <1>19, <1>1 DEF UploadCustom, Placed, TypeOK
    <2>6. \A v \in Workers : \A f \in PlacedFiles(v)' :
             \/ job'[v] = job[v] /\ pc[v] # "idle" /\ f \in PlacedFiles(v)
             \/ Excused(job[v])' \/ mat'[job'[v]][f] # Absent
      BY <1>19, <1>1 DEF UploadCustom, PlacedFiles, TypeOK, Absent
    <2> QED
      BY <1>1, <1>2, <2>2, <2>3, <2>4, <2>5, <2>6, MaterialGrows
  <1>20. ASSUME NEW c \in Certs, DeleteRow(c)
         PROVE  Placed' /\ ActiveHasMaterial'
    <2>2. \A d \in Certs : Excused(d) => Excused(d)'
      BY <1>20, <1>1 DEF DeleteRow, Excused, Exists, TypeOK
    <2>3. \A d \in Certs, f \in Files :
             mat[d][f] # Absent => mat'[d][f] # Absent \/ Excused(d)'
      BY <1>20, <1>1 DEF DeleteRow, Excused, TypeOK, Absent, Files
    <2>4. \A d \in Certs : status'[d] = "active" /\ ~Excused(d)' =>
             status[d] = "active" \/ \A f \in Files : mat'[d][f] # Absent
      BY <1>20, <1>1
         DEF DeleteRow, Excused, TypeOK, Absent, Files, Placed, PlacedFiles
    <2>5. \A v \in Workers :
             /\ pc'[v] \in {"idle", "acme"} => file'[v] = "chain"
             /\ pc'[v] \notin {"idle", "acme", "savefail"} => gen'[v] > 0
      BY <1>20, <1>1 DEF DeleteRow, Placed, TypeOK
    <2>6. \A v \in Workers : \A f \in PlacedFiles(v)' :
             \/ job'[v] = job[v] /\ pc[v] # "idle" /\ f \in PlacedFiles(v)
             \/ Excused(job[v])' \/ mat'[job'[v]][f] # Absent
      BY <1>20, <1>1 DEF DeleteRow, PlacedFiles, TypeOK, Absent
    <2> QED
      BY <1>1, <1>2, <2>2, <2>3, <2>4, <2>5, <2>6, MaterialGrows
  <1>21. ASSUME NEW c \in Certs, DeleteMaterial(c)
         PROVE  Placed' /\ ActiveHasMaterial'
    <2>2. \A d \in Certs : Excused(d) => Excused(d)'
      BY <1>21, <1>1 DEF DeleteMaterial, Excused, Exists, TypeOK
    <2>3. \A d \in Certs, f \in Files :
             mat[d][f] # Absent => mat'[d][f] # Absent \/ Excused(d)'
      BY <1>21, <1>1 DEF DeleteMaterial, Excused, TypeOK, Absent, Files
    <2>4. \A d \in Certs : status'[d] = "active" /\ ~Excused(d)' =>
             status[d] = "active" \/ \A f \in Files : mat'[d][f] # Absent
      BY <1>21, <1>1
         DEF DeleteMaterial, Excused, TypeOK, Absent, Files, Placed,
             PlacedFiles
    <2>5. \A v \in Workers :
             /\ pc'[v] \in {"idle", "acme"} => file'[v] = "chain"
             /\ pc'[v] \notin {"idle", "acme", "savefail"} => gen'[v] > 0
      BY <1>21, <1>1 DEF DeleteMaterial, Placed, TypeOK
    <2>6. \A v \in Workers : \A f \in PlacedFiles(v)' :
             \/ job'[v] = job[v] /\ pc[v] # "idle" /\ f \in PlacedFiles(v)
             \/ Excused(job[v])' \/ mat'[job'[v]][f] # Absent
      BY <1>21, <1>1 DEF DeleteMaterial, PlacedFiles, TypeOK, Absent
    <2> QED
      BY <1>1, <1>2, <2>2, <2>3, <2>4, <2>5, <2>6, MaterialGrows
  <1>22. ASSUME NEW c \in Certs, DeleteCommit(c)
         PROVE  Placed' /\ ActiveHasMaterial'
    <2>2. \A d \in Certs : Excused(d) => Excused(d)'
      BY <1>22, <1>1 DEF DeleteCommit, Excused, Exists, TypeOK
    <2>3. \A d \in Certs, f \in Files :
             mat[d][f] # Absent => mat'[d][f] # Absent \/ Excused(d)'
      BY <1>22, <1>1 DEF DeleteCommit, Excused, TypeOK, Absent, Files
    <2>4. \A d \in Certs : status'[d] = "active" /\ ~Excused(d)' =>
             status[d] = "active" \/ \A f \in Files : mat'[d][f] # Absent
      BY <1>22, <1>1
         DEF DeleteCommit, Excused, TypeOK, Absent, Files, Placed, PlacedFiles
    <2>5. \A v \in Workers :
             /\ pc'[v] \in {"idle", "acme"} => file'[v] = "chain"
             /\ pc'[v] \notin {"idle", "acme", "savefail"} => gen'[v] > 0
      BY <1>22, <1>1 DEF DeleteCommit, Placed, TypeOK
    <2>6. \A v \in Workers : \A f \in PlacedFiles(v)' :
             \/ job'[v] = job[v] /\ pc[v] # "idle" /\ f \in PlacedFiles(v)
             \/ Excused(job[v])' \/ mat'[job'[v]][f] # Absent
      BY <1>22, <1>1 DEF DeleteCommit, PlacedFiles, TypeOK, Absent
    <2> QED
      BY <1>1, <1>2, <2>2, <2>3, <2>4, <2>5, <2>6, MaterialGrows
  <1>23. ASSUME NEW c \in Certs, DeleteAborts(c)
         PROVE  Placed' /\ ActiveHasMaterial'
    <2>2. \A d \in Certs : Excused(d) => Excused(d)'
      BY <1>23, <1>1 DEF DeleteAborts, Excused, Exists, TypeOK
    <2>3. \A d \in Certs, f \in Files :
             mat[d][f] # Absent => mat'[d][f] # Absent \/ Excused(d)'
      BY <1>23, <1>1 DEF DeleteAborts, Excused, TypeOK, Absent, Files
    <2>4. \A d \in Certs : status'[d] = "active" /\ ~Excused(d)' =>
             status[d] = "active" \/ \A f \in Files : mat'[d][f] # Absent
      BY <1>23, <1>1
         DEF DeleteAborts, Excused, TypeOK, Absent, Files, Placed, PlacedFiles
    <2>5. \A v \in Workers :
             /\ pc'[v] \in {"idle", "acme"} => file'[v] = "chain"
             /\ pc'[v] \notin {"idle", "acme", "savefail"} => gen'[v] > 0
      BY <1>23, <1>1 DEF DeleteAborts, Placed, TypeOK
    <2>6. \A v \in Workers : \A f \in PlacedFiles(v)' :
             \/ job'[v] = job[v] /\ pc[v] # "idle" /\ f \in PlacedFiles(v)
             \/ Excused(job[v])' \/ mat'[job'[v]][f] # Absent
      BY <1>23, <1>1 DEF DeleteAborts, PlacedFiles, TypeOK, Absent
    <2> QED
      BY <1>1, <1>2, <2>2, <2>3, <2>4, <2>5, <2>6, MaterialGrows
  <1>24. ASSUME NEW w \in Workers, Acme(w) PROVE Placed' /\ ActiveHasMaterial'
    <2>1. job[w] \in Certs /\ pc[w] # "idle" /\ file[w] \in Files
      BY <1>24, <1>1 DEF Acme, AtWork, TypeOK
    <2>2. \A d \in Certs : Excused(d) => Excused(d)'
      BY <1>24, <1>1, <2>1 DEF Acme, Excused, Exists, TypeOK
    <2>3. \A d \in Certs, f \in Files :
             mat[d][f] # Absent => mat'[d][f] # Absent \/ Excused(d)'
      BY <1>24, <1>1, <2>1 DEF Acme, Excused, TypeOK, Absent, Files
    <2>4. \A d \in Certs : status'[d] = "active" /\ ~Excused(d)' =>
             status[d] = "active" \/ \A f \in Files : mat'[d][f] # Absent
      BY <1>24, <1>1, <2>1
         DEF Acme, Excused, TypeOK, Absent, Files, Placed, PlacedFiles
    <2>5. \A v \in Workers :
             /\ pc'[v] \in {"idle", "acme"} => file'[v] = "chain"
             /\ pc'[v] \notin {"idle", "acme", "savefail"} => gen'[v] > 0
      <3> TAKE v \in Workers
      <3>1. CASE v = w
        <4>1. CASE pc'[w] = "open"
          <5>1. gen'[w] = issued + 1 /\ issued \in Nat
            BY <1>24, <1>1, <4>1 DEF Acme, Goto, TypeOK
          <5> QED
            BY <3>1, <4>1, <5>1
        <4>2. CASE pc'[w] # "open"
          BY <1>24, <1>1, <3>1, <4>2 DEF Acme, Goto, TypeOK
        <4> QED
          BY <4>1, <4>2
      <3>2. CASE v # w
        BY <1>24, <1>1, <3>2 DEF Acme, Goto, Placed, TypeOK
      <3> QED
        BY <3>1, <3>2
    <2>6. \A v \in Workers : \A f \in PlacedFiles(v)' :
             \/ job'[v] = job[v] /\ pc[v] # "idle" /\ f \in PlacedFiles(v)
             \/ Excused(job[v])' \/ mat'[job'[v]][f] # Absent
      <3> TAKE v \in Workers
      <3> TAKE f \in PlacedFiles(v)'
      <3>1. CASE v = w
        <4>1. file'[w] = "chain" /\ pc'[w] \in {"open", "savefail"}
          BY <1>24, <1>1 DEF Acme, Goto, TypeOK, Placed
        <4> QED
          BY <3>1, <4>1 DEF PlacedFiles
      <3>2. CASE v # w
        <4>1. /\ pc'[v] = pc[v] /\ job'[v] = job[v] /\ file'[v] = file[v]
          BY <1>24, <1>1, <3>2 DEF Acme, Goto, TypeOK
        <4>2. PlacedFiles(v)' = PlacedFiles(v)
          BY <4>1 DEF PlacedFiles
        <4>3. pc[v] # "idle"
          BY <4>1 DEF PlacedFiles
        <4> QED
          BY <4>1, <4>2, <4>3
      <3> QED
        BY <3>1, <3>2
    <2> QED
      BY <1>1, <1>2, <2>2, <2>3, <2>4, <2>5, <2>6, MaterialGrows
  <1>25. ASSUME NEW w \in Workers, OpenTmp(w)
         PROVE  Placed' /\ ActiveHasMaterial'
    <2>1. job[w] \in Certs /\ pc[w] # "idle" /\ file[w] \in Files
      BY <1>25, <1>1 DEF OpenTmp, AtWork, TypeOK
    <2>2. \A d \in Certs : Excused(d) => Excused(d)'
      BY <1>25, <1>1, <2>1 DEF OpenTmp, Excused, Exists, TypeOK
    <2>3. \A d \in Certs, f \in Files :
             mat[d][f] # Absent => mat'[d][f] # Absent \/ Excused(d)'
      BY <1>25, <1>1, <2>1 DEF OpenTmp, Excused, TypeOK, Absent, Files
    <2>4. \A d \in Certs : status'[d] = "active" /\ ~Excused(d)' =>
             status[d] = "active" \/ \A f \in Files : mat'[d][f] # Absent
      BY <1>25, <1>1, <2>1
         DEF OpenTmp, Excused, TypeOK, Absent, Files, Placed, PlacedFiles
    <2>5. \A v \in Workers :
             /\ pc'[v] \in {"idle", "acme"} => file'[v] = "chain"
             /\ pc'[v] \notin {"idle", "acme", "savefail"} => gen'[v] > 0
      BY <1>25, <1>1 DEF OpenTmp, Placed, TypeOK, Goto
    <2>6. \A v \in Workers : \A f \in PlacedFiles(v)' :
             \/ job'[v] = job[v] /\ pc[v] # "idle" /\ f \in PlacedFiles(v)
             \/ Excused(job[v])' \/ mat'[job'[v]][f] # Absent
      BY <1>25, <1>1, <2>1 DEF OpenTmp, PlacedFiles, TypeOK, Absent, Goto
    <2> QED
      BY <1>1, <1>2, <2>2, <2>3, <2>4, <2>5, <2>6, MaterialGrows
  <1>26. ASSUME NEW w \in Workers, WriteTmp(w)
         PROVE  Placed' /\ ActiveHasMaterial'
    <2>1. job[w] \in Certs /\ pc[w] # "idle" /\ file[w] \in Files
      BY <1>26, <1>1 DEF WriteTmp, AtWork, TypeOK
    <2>2. \A d \in Certs : Excused(d) => Excused(d)'
      BY <1>26, <1>1, <2>1 DEF WriteTmp, Excused, Exists, TypeOK
    <2>3. \A d \in Certs, f \in Files :
             mat[d][f] # Absent => mat'[d][f] # Absent \/ Excused(d)'
      <3>1. CASE fd[w] # "final"
        BY <1>26, <3>1 DEF WriteTmp
      <3>2. CASE fd[w] = "final"
        <4>1. gen[w] # Absent /\ Partial # Absent
          BY <1>26, <1>1 DEF WriteTmp, Placed, Absent, Partial
        <4>2. PICK x \in Written(w, mat[job[w]][file[w]]) :
                 mat' = [mat EXCEPT ![job[w]][file[w]] = x]
          BY <1>26, <3>2 DEF WriteTmp
        <4>3. x # Absent
          BY <4>1, <4>2 DEF Written
        <4> QED
          BY <1>1, <2>1, <4>2, <4>3 DEF TypeOK
      <3> QED
        BY <3>1, <3>2
    <2>4. \A d \in Certs : status'[d] = "active" /\ ~Excused(d)' =>
             status[d] = "active" \/ \A f \in Files : mat'[d][f] # Absent
      BY <1>26, <1>1, <2>1
         DEF WriteTmp, Excused, TypeOK, Absent, Files, Placed, PlacedFiles
    <2>5. \A v \in Workers :
             /\ pc'[v] \in {"idle", "acme"} => file'[v] = "chain"
             /\ pc'[v] \notin {"idle", "acme", "savefail"} => gen'[v] > 0
      BY <1>26, <1>1 DEF WriteTmp, Placed, TypeOK, Goto
    <2>6. \A v \in Workers : \A f \in PlacedFiles(v)' :
             \/ job'[v] = job[v] /\ pc[v] # "idle" /\ f \in PlacedFiles(v)
             \/ Excused(job[v])' \/ mat'[job'[v]][f] # Absent
      BY <1>26, <1>1, <2>1 DEF WriteTmp, PlacedFiles, TypeOK, Absent, Goto
    <2> QED
      BY <1>1, <1>2, <2>2, <2>3, <2>4, <2>5, <2>6, MaterialGrows
  <1>27. ASSUME NEW w \in Workers, RenameTmp(w)
         PROVE  Placed' /\ ActiveHasMaterial'
    <2>1. job[w] \in Certs /\ pc[w] # "idle" /\ file[w] \in Files
      BY <1>27, <1>1 DEF RenameTmp, AtWork, TypeOK
    <2>2. \A d \in Certs : Excused(d) => Excused(d)'
      BY <1>27, <1>1, <2>1 DEF RenameTmp, Excused, Exists, TypeOK
    <2>3. \A d \in Certs, f \in Files :
             mat[d][f] # Absent => mat'[d][f] # Absent \/ Excused(d)'
      <3>1. CASE tmp[job[w]][file[w]] = Absent
        BY <1>27, <3>1 DEF RenameTmp
      <3>2. CASE tmp[job[w]][file[w]] # Absent
        <4>1. mat' = [mat EXCEPT ![job[w]][file[w]] = tmp[job[w]][file[w]]]
          BY <1>27, <3>2 DEF RenameTmp
        <4> QED
          BY <1>1, <2>1, <3>2, <4>1 DEF TypeOK
      <3> QED
        BY <3>1, <3>2
    <2>4. \A d \in Certs : status'[d] = "active" /\ ~Excused(d)' =>
             status[d] = "active" \/ \A f \in Files : mat'[d][f] # Absent
      BY <1>27, <1>1, <2>1
         DEF RenameTmp, Excused, TypeOK, Absent, Files, Placed, PlacedFiles
    <2>5. \A v \in Workers :
             /\ pc'[v] \in {"idle", "acme"} => file'[v] = "chain"
             /\ pc'[v] \notin {"idle", "acme", "savefail"} => gen'[v] > 0
      BY <1>27, <1>1 DEF RenameTmp, Placed, TypeOK, Goto
    <2>6. \A v \in Workers : \A f \in PlacedFiles(v)' :
             \/ job'[v] = job[v] /\ pc[v] # "idle" /\ f \in PlacedFiles(v)
             \/ Excused(job[v])' \/ mat'[job'[v]][f] # Absent
      <3> TAKE v \in Workers
      <3> TAKE f \in PlacedFiles(v)'
      <3>1. CASE v = w
        <4>1. job'[w] = job[w] /\ file'[w] = file[w]
          BY <1>27 DEF RenameTmp
        <4>2. CASE tmp[job[w]][file[w]] = Absent
          <5>1. pc'[w] = "cleanfail"
            BY <1>27, <1>1, <4>2 DEF RenameTmp, Goto, TypeOK
          <5> QED
            BY <3>1, <5>1 DEF PlacedFiles
        <4>3. CASE tmp[job[w]][file[w]] # Absent
          <5>1. pc'[w] = "clean" /\ mat'[job[w]][file[w]] # Absent
            BY <1>27, <1>1, <2>1, <4>3 DEF RenameTmp, Goto, TypeOK
          <5>2. CASE f = file[w]
            BY <3>1, <4>1, <5>1, <5>2
          <5>3. CASE f # file[w]
            BY <1>27, <2>1, <3>1, <4>1, <5>1, <5>3
               DEF RenameTmp, PlacedFiles, Files
          <5> QED
            BY <5>2, <5>3
        <4> QED
          BY <4>2, <4>3
      <3>2. CASE v # w
        <4>1. /\ pc'[v] = pc[v] /\ job'[v] = job[v] /\ file'[v] = file[v]
          BY <1>27, <1>1, <3>2 DEF RenameTmp, Goto, TypeOK
        <4>2. PlacedFiles(v)' = PlacedFiles(v)
          BY <4>1 DEF PlacedFiles
        <4>3. pc[v] # "idle"
          BY <4>1 DEF PlacedFiles
        <4> QED
          BY <4>1, <4>2, <4>3
      <3> QED
        BY <3>1, <3>2
    <2> QED
      BY <1>1, <1>2, <2>2, <2>3, <2>4, <2>5, <2>6, MaterialGrows
  <1>28. ASSUME NEW w \in Workers, CleanTmp(w)
         PROVE  Placed' /\ ActiveHasMaterial'
    <2>1. job[w] \in Certs /\ pc[w] # "idle" /\ file[w] \in Files
      BY <1>28, <1>1 DEF CleanTmp, AtWork, TypeOK
    <2>2. \A d \in Certs : Excused(d) => Excused(d)'
      BY <1>28, <1>1, <2>1 DEF CleanTmp, Excused, Exists, TypeOK
    <2>3. \A d \in Certs, f \in Files :
             mat[d][f] # Absent => mat'[d][f] # Absent \/ Excused(d)'
      BY <1>28, <1>1, <2>1 DEF CleanTmp, Excused, TypeOK, Absent, Files
    <2>4. \A d \in Certs : status'[d] = "active" /\ ~Excused(d)' =>
             status[d] = "active" \/ \A f \in Files : mat'[d][f] # Absent
      BY <1>28, <1>1, <2>1
         DEF CleanTmp, Excused, TypeOK, Absent, Files, Placed, PlacedFiles
    <2>5. \A v \in Workers :
             /\ pc'[v] \in {"idle", "acme"} => file'[v] = "chain"
             /\ pc'[v] \notin {"idle", "acme", "savefail"} => gen'[v] > 0
      BY <1>28, <1>1 DEF CleanTmp, Placed, TypeOK, Goto, NextFile
    <2>6. \A v \in Workers : \A f \in PlacedFiles(v)' :
             \/ job'[v] = job[v] /\ pc[v] # "idle" /\ f \in PlacedFiles(v)
             \/ Excused(job[v])' \/ mat'[job'[v]][f] # Absent
      <3> TAKE v \in Workers
      <3> TAKE f \in PlacedFiles(v)'
      <3>1. CASE v = w
        <4>1. job'[w] = job[w]
          BY <1>28 DEF CleanTmp
        <4>2. CASE pc[w] = "clean" /\ NextFile(w) = "key"
          <5>1. pc'[w] = "open" /\ file'[w] = "key"
            BY <1>28, <1>1, <4>2 DEF CleanTmp, Goto, TypeOK
          <5> QED
            BY <2>1, <3>1, <4>1, <4>2, <5>1 DEF PlacedFiles
        <4>3. CASE pc[w] = "clean" /\ NextFile(w) # "key"
          <5>1. pc'[w] = "save" /\ file[w] = "key"
            BY <1>28, <1>1, <2>1, <4>3
               DEF CleanTmp, Goto, NextFile, TypeOK, Files
          <5> QED
            BY <2>1, <3>1, <4>1, <4>3, <5>1 DEF PlacedFiles
        <4>4. CASE pc[w] = "cleanfail"
          <5>1. pc'[w] = "savefail"
            BY <1>28, <1>1, <4>4 DEF CleanTmp, Goto, TypeOK
          <5> QED
            BY <3>1, <5>1 DEF PlacedFiles
        <4> QED
          BY <1>28, <4>2, <4>3, <4>4 DEF CleanTmp
      <3>2. CASE v # w
        <4>1. /\ pc'[v] = pc[v] /\ job'[v] = job[v] /\ file'[v] = file[v]
          BY <1>28, <1>1, <3>2 DEF CleanTmp, Goto, TypeOK
        <4>2. PlacedFiles(v)' = PlacedFiles(v)
          BY <4>1 DEF PlacedFiles
        <4>3. pc[v] # "idle"
          BY <4>1 DEF PlacedFiles
        <4> QED
          BY <4>1, <4>2, <4>3
      <3> QED
        BY <3>1, <3>2
    <2> QED
      BY <1>1, <1>2, <2>2, <2>3, <2>4, <2>5, <2>6, MaterialGrows
  <1>29. ASSUME NEW w \in Workers, SaveIssued(w)
         PROVE  Placed' /\ ActiveHasMaterial'
    <2>1. job[w] \in Certs /\ pc[w] # "idle" /\ file[w] \in Files
      BY <1>29, <1>1 DEF SaveIssued, AtWork, TypeOK
    <2>2. \A d \in Certs : Excused(d) => Excused(d)'
      BY <1>29, <1>1, <2>1
         DEF SaveIssued, Excused, Exists, TypeOK, StatusToSave
    <2>3. \A d \in Certs, f \in Files :
             mat[d][f] # Absent => mat'[d][f] # Absent \/ Excused(d)'
      BY <1>29, <1>1, <2>1 DEF SaveIssued, Excused, TypeOK, Absent, Files
    <2>4. \A d \in Certs : status'[d] = "active" /\ ~Excused(d)' =>
             status[d] = "active" \/ \A f \in Files : mat'[d][f] # Absent
      <3> TAKE d \in Certs
      <3>1. CASE d # job[w]
        BY <1>29, <1>1, <3>1 DEF SaveIssued, TypeOK
      <3>2. CASE d = job[w]
        <4>1. \A f \in Files : Excused(d) \/ mat[d][f] # Absent
          BY <1>29, <1>1, <3>2 DEF SaveIssued, Placed, PlacedFiles, Files
        <4>2. mat' = mat
          BY <1>29 DEF SaveIssued
        <4> QED
          BY <2>2, <4>1, <4>2
      <3> QED
        BY <3>1, <3>2
    <2>5. \A v \in Workers :
             /\ pc'[v] \in {"idle", "acme"} => file'[v] = "chain"
             /\ pc'[v] \notin {"idle", "acme", "savefail"} => gen'[v] > 0
      <3> TAKE v \in Workers
      <3>1. CASE v = w
        <4>1. CASE Exists(job[w])
          <5>1. pc'[w] = "reload" /\ gen'[w] = gen[w] /\ file'[w] = file[w]
            BY <1>29, <1>1, <4>1 DEF SaveIssued, Goto, TypeOK
          <5>2. gen[w] > 0
            BY <1>29, <1>1 DEF SaveIssued, Placed
          <5> QED
            BY <3>1, <5>1, <5>2
        <4>2. CASE ~Exists(job[w])
          BY <1>29, <1>1, <3>1, <4>2 DEF SaveIssued, Goto, Return, TypeOK
        <4> QED
          BY <4>1, <4>2
      <3>2. CASE v # w
        <4>1. pc'[v] = pc[v] /\ gen'[v] = gen[v] /\ file'[v] = file[v]
          BY <1>29, <1>1, <3>2 DEF SaveIssued, Goto, Return, TypeOK
        <4> QED
          BY <1>1, <4>1 DEF Placed
      <3> QED
        BY <3>1, <3>2
    <2>6. \A v \in Workers : \A f \in PlacedFiles(v)' :
             \/ job'[v] = job[v] /\ pc[v] # "idle" /\ f \in PlacedFiles(v)
             \/ Excused(job[v])' \/ mat'[job'[v]][f] # Absent
      BY <1>29, <1>1, <2>1
         DEF SaveIssued, PlacedFiles, TypeOK, Absent, Goto, Return,
             StatusToSave
    <2> QED
      BY <1>1, <1>2, <2>2, <2>3, <2>4, <2>5, <2>6, MaterialGrows
  <1>30. ASSUME NEW w \in Workers, SaveFailed(w)
         PROVE  Placed' /\ ActiveHasMaterial'
    <2>1. job[w] \in Certs /\ pc[w] # "idle" /\ file[w] \in Files
      BY <1>30, <1>1 DEF SaveFailed, AtWork, TypeOK
    <2>2. \A d \in Certs : Excused(d) => Excused(d)'
      BY <1>30, <1>1, <2>1
         DEF SaveFailed, Excused, Exists, TypeOK, StatusToSave
    <2>3. \A d \in Certs, f \in Files :
             mat[d][f] # Absent => mat'[d][f] # Absent \/ Excused(d)'
      BY <1>30, <1>1, <2>1 DEF SaveFailed, Excused, TypeOK, Absent, Files
    <2>4. \A d \in Certs : status'[d] = "active" /\ ~Excused(d)' =>
             status[d] = "active" \/ \A f \in Files : mat'[d][f] # Absent
      BY <1>30, <1>1, <2>1
         DEF SaveFailed, Excused, TypeOK, Absent, Files, Placed, PlacedFiles,
             StatusToSave
    <2>5. \A v \in Workers :
             /\ pc'[v] \in {"idle", "acme"} => file'[v] = "chain"
             /\ pc'[v] \notin {"idle", "acme", "savefail"} => gen'[v] > 0
      BY <1>30, <1>1 DEF SaveFailed, Placed, TypeOK, Goto, Return, StatusToSave
    <2>6. \A v \in Workers : \A f \in PlacedFiles(v)' :
             \/ job'[v] = job[v] /\ pc[v] # "idle" /\ f \in PlacedFiles(v)
             \/ Excused(job[v])' \/ mat'[job'[v]][f] # Absent
      BY <1>30, <1>1, <2>1
         DEF SaveFailed, PlacedFiles, TypeOK, Absent, Goto, Return,
             StatusToSave
    <2> QED
      BY <1>1, <1>2, <2>2, <2>3, <2>4, <2>5, <2>6, MaterialGrows
  <1>31. CASE UNCHANGED vars
    BY <1>31, <1>1, MaterialFrame DEF vars
  <1> QED
    BY <1>3, <1>4, <1>5, <1>6, <1>7, <1>8, <1>9, <1>10, <1>11, <1>12,
       <1>13, <1>14, <1>15, <1>16, <1>17, <1>18, <1>19, <1>20, <1>21,
       <1>22, <1>23, <1>24, <1>25, <1>26, <1>27, <1>28, <1>29, <1>30,
       <1>31, CertCases

(* A row that says "active" has both its files on the volume for any number  *)
(* of concurrent issuances, deletions and crashes, unless a delete that      *)
(* removed them has not committed.                                           *)
THEOREM ActiveHasMaterialHolds == Spec => []ActiveHasMaterial
  <1>1. Init => MaterialInv
    <2> SUFFICES ASSUME Init PROVE MaterialInv
      OBVIOUS
    <2>1. TypeOK /\ AtWork
      BY CertTypeInit
    <2>2. Placed /\ ActiveHasMaterial
      BY DEF Init, Placed, PlacedFiles, ActiveHasMaterial
    <2> QED
      BY <2>1, <2>2 DEF MaterialInv
  <1>2. MaterialInv /\ [Next]_vars => MaterialInv'
    BY MaterialStep
  <1>3. MaterialInv => ActiveHasMaterial
    BY DEF MaterialInv
  <1> QED
    BY <1>1, <1>2, <1>3, PTL DEF Spec

-----------------------------------------------------------------------------
(***************************************************************************)
(* What holds of certificates when nobody presses "renew": a manual renewal*)
(* is the one operation that enqueues a task for a certificate without     *)
(* anything keeping a second one away, so with MaxRenewals = 0 the code's  *)
(* two other guards have to suffice.  The creation of a row enqueues its   *)
(* first task, and the daily sweep, let through once a period by           *)
(* `claim_sweep`, only sees rows that have had theirs.                     *)
(***************************************************************************)

(* No task of the certificate, queued or running.                            *)
Unworked(c) == issueQ[c] = 0 /\ \A w \in Workers : job[w] # c

(* At most one.                                                              *)
Solo(c) ==
    \/ issueQ[c] = 0 /\ \A v, w \in Workers : job[v] = c /\ job[w] = c => v = w
    \/ issueQ[c] = 1 /\ \A w \in Workers : job[w] # c

(* A sweep of this period may still enqueue.                                 *)
MayEnqueue ==
    IF HaEnabled THEN claimable \/ \E n \in Nodes : sweep[n] = "claimed"
    ELSE \E n \in Nodes : sweep[n] # "done"

(* One sweep a period is let through, and until it has enqueued, nothing that*)
(* is due has a task already.                                                *)
SweepOnce ==
    /\ HaEnabled => \A m, n \in Nodes : /\ sweep[m] = "claimed" => ~claimable
                                        /\ sweep[m] = "claimed" /\ sweep[n] = "claimed" => m = n
    /\ MayEnqueue => \A c \in Certs : Due(c) => Unworked(c)

(* Before its issuance is enqueued a certificate has no task.                *)
NotYetIssued ==
    \A c \in Certs :
        /\ c \in unsent => Unworked(c) /\ status[c] \in {"pending", "gone"}
        /\ status[c] = "unborn" => Unworked(c) /\ c \notin unsent

SoloInv ==
    /\ TypeOK /\ AtWork /\ IdleHasNoJob
    /\ SweepOnce /\ NotYetIssued
    /\ \A c \in Certs : Solo(c)

(* Without HA there is one node.                                             *)
LEMMA OneNode == ~HaEnabled => \A m, n \in Nodes : m = n
  BY CertAssumption, FS_Singleton

(* A task that returned has no certificate.                                  *)
LEMMA JobStep ==
    ASSUME TypeOK, AtWork, IdleHasNoJob, [Next]_vars
    PROVE  IdleHasNoJob'
  <1> USE DEF rowVars, taskVars, fileVars, sweepVars, nginxVars, ghosts, TypeOK,
              IdleHasNoJob
  <1>1. ASSUME NEW c \in Certs, RequestCertificate(c) PROVE IdleHasNoJob'
    BY <1>1 DEF RequestCertificate
  <1>2. ASSUME NEW c \in Certs, EnqueueIssue(c) PROVE IdleHasNoJob'
    BY <1>2 DEF EnqueueIssue
  <1>3. ASSUME NEW c \in Certs, UploadCustom(c) PROVE IdleHasNoJob'
    BY <1>3 DEF UploadCustom, Spend
  <1>4. ASSUME NEW c \in Certs, RequestRenewal(c) PROVE IdleHasNoJob'
    BY <1>4 DEF RequestRenewal, Spend
  <1>5. ASSUME NEW c \in Certs, AttachHost(c) PROVE IdleHasNoJob'
    BY <1>5 DEF AttachHost, Spend
  <1>6. ASSUME NEW c \in Certs, DeleteRow(c) PROVE IdleHasNoJob'
    BY <1>6 DEF DeleteRow, Spend
  <1>7. ASSUME NEW c \in Certs, DeleteMaterial(c) PROVE IdleHasNoJob'
    BY <1>7 DEF DeleteMaterial
  <1>8. ASSUME NEW c \in Certs, DeleteCommit(c) PROVE IdleHasNoJob'
    BY <1>8 DEF DeleteCommit
  <1>9. ASSUME NEW c \in Certs, NearExpiry(c) PROVE IdleHasNoJob'
    BY <1>9 DEF NearExpiry, Spend
  <1>10. ASSUME NEW c \in Certs, EnqueueIssueLost(c) PROVE IdleHasNoJob'
    BY <1>10 DEF EnqueueIssueLost, Spend
  <1>11. ASSUME NEW c \in Certs, DeleteAborts(c) PROVE IdleHasNoJob'
    BY <1>11 DEF DeleteAborts, Spend
  <1>12. ASSUME NEW w \in Workers, Acme(w) PROVE IdleHasNoJob'
    BY <1>12 DEF Acme, Spend, Goto
  <1>13. ASSUME NEW w \in Workers, OpenTmp(w) PROVE IdleHasNoJob'
    BY <1>13 DEF OpenTmp, Goto
  <1>14. ASSUME NEW w \in Workers, WriteTmp(w) PROVE IdleHasNoJob'
    BY <1>14 DEF WriteTmp, Goto
  <1>15. ASSUME NEW w \in Workers, RenameTmp(w) PROVE IdleHasNoJob'
    BY <1>15 DEF RenameTmp, Goto
  <1>16. ASSUME NEW w \in Workers, CleanTmp(w) PROVE IdleHasNoJob'
    BY <1>16 DEF CleanTmp, Goto
  <1>17. ASSUME NEW w \in Workers, SaveIssued(w) PROVE IdleHasNoJob'
    BY <1>17, CertAssumption DEF SaveIssued, Goto, Return
  <1>18. ASSUME NEW w \in Workers, SaveFailed(w) PROVE IdleHasNoJob'
    BY <1>18, CertAssumption DEF SaveFailed, Goto, Return
  <1>19. ASSUME NEW w \in Workers, EnqueueReload(w) PROVE IdleHasNoJob'
    BY <1>19, CertAssumption DEF EnqueueReload, Goto, Return
  <1>20. ASSUME NEW w \in Workers, TaskDies(w) PROVE IdleHasNoJob'
    BY <1>20, CertAssumption DEF TaskDies, Spend, Goto, Return
  <1>21. ASSUME NEW w \in Workers, NEW c \in Certs, StartIssue(w, c) PROVE IdleHasNoJob'
    BY <1>21 DEF StartIssue, Goto
  <1>22. ASSUME NEW n \in Nodes, Beat(n) PROVE IdleHasNoJob'
    BY <1>22 DEF Beat
  <1>23. ASSUME NEW n \in Nodes, StartSweep(n) PROVE IdleHasNoJob'
    BY <1>23 DEF StartSweep
  <1>24. ASSUME NEW n \in Nodes, ClaimSweep(n) PROVE IdleHasNoJob'
    BY <1>24 DEF ClaimSweep
  <1>25. ASSUME NEW n \in Nodes, EnqueueDue(n) PROVE IdleHasNoJob'
    BY <1>25 DEF EnqueueDue
  <1>26. ASSUME NEW n \in Nodes, SweepDies(n) PROVE IdleHasNoJob'
    BY <1>26 DEF SweepDies, Spend
  <1>27. CASE NewPeriod
    BY <1>27 DEF NewPeriod
  <1>28. CASE ApplyNginx
    BY <1>28 DEF ApplyNginx
  <1>29. CASE UNCHANGED vars
    BY <1>29 DEF vars
  <1> QED
    BY <1>1, <1>2, <1>3, <1>4, <1>5, <1>6, <1>7, <1>8, <1>9, <1>10, <1>11, <1>12,
       <1>13, <1>14, <1>15, <1>16, <1>17, <1>18, <1>19, <1>20, <1>21, <1>22, <1>23,
       <1>24, <1>25, <1>26, <1>27, <1>28, <1>29, CertCases

(* Only the enqueueing of the first task ends the time without one.          *)
LEMMA NotYetStep ==
    ASSUME SoloInv, MaxRenewals = 0, [Next]_vars
    PROVE  NotYetIssued'
  <1> USE DEF rowVars, taskVars, fileVars, sweepVars, nginxVars, ghosts, TypeOK, AtWork,
              IdleHasNoJob, NotYetIssued, Unworked, Exists, SoloInv
  <1>1. ASSUME NEW c \in Certs, RequestCertificate(c) PROVE NotYetIssued'
    BY <1>1 DEF RequestCertificate
  <1>2. ASSUME NEW c \in Certs, EnqueueIssue(c) PROVE NotYetIssued'
    BY <1>2 DEF EnqueueIssue
  <1>3. ASSUME NEW c \in Certs, UploadCustom(c) PROVE NotYetIssued'
    BY <1>3 DEF UploadCustom, Spend
  <1>4. ASSUME NEW c \in Certs, RequestRenewal(c) PROVE NotYetIssued'
    BY <1>4 DEF RequestRenewal, Spend
  <1>5. ASSUME NEW c \in Certs, AttachHost(c) PROVE NotYetIssued'
    BY <1>5 DEF AttachHost, Spend
  <1>6. ASSUME NEW c \in Certs, DeleteRow(c) PROVE NotYetIssued'
    BY <1>6 DEF DeleteRow, Spend
  <1>7. ASSUME NEW c \in Certs, DeleteMaterial(c) PROVE NotYetIssued'
    BY <1>7 DEF DeleteMaterial
  <1>8. ASSUME NEW c \in Certs, DeleteCommit(c) PROVE NotYetIssued'
    BY <1>8 DEF DeleteCommit
  <1>9. ASSUME NEW c \in Certs, NearExpiry(c) PROVE NotYetIssued'
    BY <1>9 DEF NearExpiry, Spend
  <1>10. ASSUME NEW c \in Certs, EnqueueIssueLost(c) PROVE NotYetIssued'
    BY <1>10 DEF EnqueueIssueLost, Spend
  <1>11. ASSUME NEW c \in Certs, DeleteAborts(c) PROVE NotYetIssued'
    BY <1>11 DEF DeleteAborts, Spend
  <1>12. ASSUME NEW w \in Workers, Acme(w) PROVE NotYetIssued'
    BY <1>12 DEF Acme, Spend, Goto
  <1>13. ASSUME NEW w \in Workers, OpenTmp(w) PROVE NotYetIssued'
    BY <1>13 DEF OpenTmp, Goto
  <1>14. ASSUME NEW w \in Workers, WriteTmp(w) PROVE NotYetIssued'
    BY <1>14 DEF WriteTmp, Goto
  <1>15. ASSUME NEW w \in Workers, RenameTmp(w) PROVE NotYetIssued'
    BY <1>15 DEF RenameTmp, Goto
  <1>16. ASSUME NEW w \in Workers, CleanTmp(w) PROVE NotYetIssued'
    BY <1>16 DEF CleanTmp, Goto
  <1>17. ASSUME NEW w \in Workers, SaveIssued(w) PROVE NotYetIssued'
    BY <1>17, CertAssumption DEF SaveIssued, Goto, Return, StatusToSave
  <1>18. ASSUME NEW w \in Workers, SaveFailed(w) PROVE NotYetIssued'
    BY <1>18, CertAssumption DEF SaveFailed, Goto, Return, StatusToSave
  <1>19. ASSUME NEW w \in Workers, EnqueueReload(w) PROVE NotYetIssued'
    BY <1>19, CertAssumption DEF EnqueueReload, Goto, Return
  <1>20. ASSUME NEW w \in Workers, TaskDies(w) PROVE NotYetIssued'
    BY <1>20, CertAssumption DEF TaskDies, Spend, Goto, Return
  <1>21. ASSUME NEW w \in Workers, NEW c \in Certs, StartIssue(w, c) PROVE NotYetIssued'
    BY <1>21 DEF StartIssue, Goto, Queued
  <1>22. ASSUME NEW n \in Nodes, Beat(n) PROVE NotYetIssued'
    BY <1>22 DEF Beat
  <1>23. ASSUME NEW n \in Nodes, StartSweep(n) PROVE NotYetIssued'
    BY <1>23 DEF StartSweep
  <1>24. ASSUME NEW n \in Nodes, ClaimSweep(n) PROVE NotYetIssued'
    BY <1>24 DEF ClaimSweep
  <1>25. ASSUME NEW n \in Nodes, EnqueueDue(n) PROVE NotYetIssued'
    BY <1>25 DEF EnqueueDue, Due
  <1>26. ASSUME NEW n \in Nodes, SweepDies(n) PROVE NotYetIssued'
    BY <1>26 DEF SweepDies, Spend
  <1>27. CASE NewPeriod
    BY <1>27 DEF NewPeriod
  <1>28. CASE ApplyNginx
    BY <1>28 DEF ApplyNginx
  <1>29. CASE UNCHANGED vars
    BY <1>29 DEF vars
  <1> QED
    BY <1>1, <1>2, <1>3, <1>4, <1>5, <1>6, <1>7, <1>8, <1>9, <1>10, <1>11, <1>12,
       <1>13, <1>14, <1>15, <1>16, <1>17, <1>18, <1>19, <1>20, <1>21, <1>22, <1>23,
       <1>24, <1>25, <1>26, <1>27, <1>28, <1>29, CertCases

(* A certificate keeps to one task: the creation enqueues while it has       *)
(* none, the sweep while nothing due has one.                                *)
LEMMA SoloStep ==
    ASSUME SoloInv, MaxRenewals = 0, [Next]_vars
    PROVE  \A k \in Certs : Solo(k)'
  <1> USE DEF rowVars, taskVars, fileVars, sweepVars, nginxVars, ghosts, TypeOK, AtWork,
              IdleHasNoJob, NotYetIssued, Unworked, Exists, SoloInv, Solo,
              SweepOnce, MayEnqueue
  <1>1. ASSUME NEW c \in Certs, RequestCertificate(c) PROVE \A k \in Certs : Solo(k)'
    BY <1>1 DEF RequestCertificate
  <1>2. ASSUME NEW c \in Certs, EnqueueIssue(c) PROVE \A k \in Certs : Solo(k)'
    BY <1>2 DEF EnqueueIssue
  <1>3. ASSUME NEW c \in Certs, UploadCustom(c) PROVE \A k \in Certs : Solo(k)'
    BY <1>3 DEF UploadCustom, Spend
  <1>4. ASSUME NEW c \in Certs, RequestRenewal(c) PROVE \A k \in Certs : Solo(k)'
    BY <1>4 DEF RequestRenewal, Spend
  <1>5. ASSUME NEW c \in Certs, AttachHost(c) PROVE \A k \in Certs : Solo(k)'
    BY <1>5 DEF AttachHost, Spend
  <1>6. ASSUME NEW c \in Certs, DeleteRow(c) PROVE \A k \in Certs : Solo(k)'
    BY <1>6 DEF DeleteRow, Spend
  <1>7. ASSUME NEW c \in Certs, DeleteMaterial(c) PROVE \A k \in Certs : Solo(k)'
    BY <1>7 DEF DeleteMaterial
  <1>8. ASSUME NEW c \in Certs, DeleteCommit(c) PROVE \A k \in Certs : Solo(k)'
    BY <1>8 DEF DeleteCommit
  <1>9. ASSUME NEW c \in Certs, NearExpiry(c) PROVE \A k \in Certs : Solo(k)'
    BY <1>9 DEF NearExpiry, Spend
  <1>10. ASSUME NEW c \in Certs, EnqueueIssueLost(c) PROVE \A k \in Certs : Solo(k)'
    BY <1>10 DEF EnqueueIssueLost, Spend
  <1>11. ASSUME NEW c \in Certs, DeleteAborts(c) PROVE \A k \in Certs : Solo(k)'
    BY <1>11 DEF DeleteAborts, Spend
  <1>12. ASSUME NEW w \in Workers, Acme(w) PROVE \A k \in Certs : Solo(k)'
    BY <1>12 DEF Acme, Spend, Goto
  <1>13. ASSUME NEW w \in Workers, OpenTmp(w) PROVE \A k \in Certs : Solo(k)'
    BY <1>13 DEF OpenTmp, Goto
  <1>14. ASSUME NEW w \in Workers, WriteTmp(w) PROVE \A k \in Certs : Solo(k)'
    BY <1>14 DEF WriteTmp, Goto
  <1>15. ASSUME NEW w \in Workers, RenameTmp(w) PROVE \A k \in Certs : Solo(k)'
    BY <1>15 DEF RenameTmp, Goto
  <1>16. ASSUME NEW w \in Workers, CleanTmp(w) PROVE \A k \in Certs : Solo(k)'
    BY <1>16 DEF CleanTmp, Goto
  <1>17. ASSUME NEW w \in Workers, SaveIssued(w) PROVE \A k \in Certs : Solo(k)'
    BY <1>17, CertAssumption DEF SaveIssued, Goto, Return, StatusToSave
  <1>18. ASSUME NEW w \in Workers, SaveFailed(w) PROVE \A k \in Certs : Solo(k)'
    BY <1>18, CertAssumption DEF SaveFailed, Goto, Return, StatusToSave
  <1>19. ASSUME NEW w \in Workers, EnqueueReload(w) PROVE \A k \in Certs : Solo(k)'
    BY <1>19, CertAssumption DEF EnqueueReload, Goto, Return
  <1>20. ASSUME NEW w \in Workers, TaskDies(w) PROVE \A k \in Certs : Solo(k)'
    BY <1>20, CertAssumption DEF TaskDies, Spend, Goto, Return
  <1>21. ASSUME NEW w \in Workers, NEW c \in Certs, StartIssue(w, c)
         PROVE  \A k \in Certs : Solo(k)'
    <2>1. /\ issueQ' = [issueQ EXCEPT ![c] = @ - 1] /\ issueQ[c] > 0
          /\ job[w] = NoCert
      BY <1>21 DEF StartIssue, Queued
    <2>2. CASE job' = [job EXCEPT ![w] = c]
      BY <2>1, <2>2, CertAssumption
    <2>3. CASE job' = job
      BY <2>1, <2>3
    <2> QED
      BY <1>21, <2>2, <2>3 DEF StartIssue
  <1>22. ASSUME NEW n \in Nodes, Beat(n) PROVE \A k \in Certs : Solo(k)'
    BY <1>22 DEF Beat
  <1>23. ASSUME NEW n \in Nodes, StartSweep(n) PROVE \A k \in Certs : Solo(k)'
    BY <1>23 DEF StartSweep
  <1>24. ASSUME NEW n \in Nodes, ClaimSweep(n) PROVE \A k \in Certs : Solo(k)'
    BY <1>24 DEF ClaimSweep
  <1>25. ASSUME NEW n \in Nodes, EnqueueDue(n) PROVE \A k \in Certs : Solo(k)'
    BY <1>25 DEF EnqueueDue
  <1>26. ASSUME NEW n \in Nodes, SweepDies(n) PROVE \A k \in Certs : Solo(k)'
    BY <1>26 DEF SweepDies, Spend
  <1>27. CASE NewPeriod
    BY <1>27 DEF NewPeriod
  <1>28. CASE ApplyNginx
    BY <1>28 DEF ApplyNginx
  <1>29. CASE UNCHANGED vars
    BY <1>29 DEF vars
  <1> QED
    BY <1>1, <1>2, <1>3, <1>4, <1>5, <1>6, <1>7, <1>8, <1>9, <1>10, <1>11, <1>12,
       <1>13, <1>14, <1>15, <1>16, <1>17, <1>18, <1>19, <1>20, <1>21, <1>22, <1>23,
       <1>24, <1>25, <1>26, <1>27, <1>28, <1>29, CertCases

(* The sweep stays the only one of its period, and what it may enqueue stays *)
(* without a task: only NearExpiry makes a certificate due.                  *)
LEMMA SweepOnceStep ==
    ASSUME SoloInv, MaxRenewals = 0, [Next]_vars
    PROVE  SweepOnce'
  <1> USE DEF rowVars, taskVars, fileVars, sweepVars, nginxVars, ghosts, TypeOK, AtWork,
              IdleHasNoJob, NotYetIssued, Unworked, Exists, SoloInv, Solo,
              SweepOnce, MayEnqueue, Due
  <1>1. ASSUME NEW c \in Certs, RequestCertificate(c) PROVE SweepOnce'
    BY <1>1 DEF RequestCertificate
  <1>2. ASSUME NEW c \in Certs, EnqueueIssue(c) PROVE SweepOnce'
    BY <1>2 DEF EnqueueIssue
  <1>3. ASSUME NEW c \in Certs, UploadCustom(c) PROVE SweepOnce'
    <2>1. /\ UNCHANGED <<issueQ, job, sweep, claimable>>
          /\ \A d \in Certs \ {c} : /\ provider'[d] = provider[d] /\ status'[d] = status[d]
                                     /\ expiry'[d] = expiry[d]
      BY <1>3 DEF UploadCustom
    <2>2. expiry'[c] = "later" \/ status'[c] = "gone"
      BY <1>3 DEF UploadCustom
    <2>3. \A d \in Certs : Due(d)' => Due(d)
      BY <2>1, <2>2
    <2> HIDE DEF Due
    <2> QED
      BY <2>1, <2>3
  <1>4. ASSUME NEW c \in Certs, RequestRenewal(c) PROVE SweepOnce'
    BY <1>4 DEF RequestRenewal, Spend
  <1>5. ASSUME NEW c \in Certs, AttachHost(c) PROVE SweepOnce'
    BY <1>5 DEF AttachHost, Spend
  <1>6. ASSUME NEW c \in Certs, DeleteRow(c) PROVE SweepOnce'
    BY <1>6 DEF DeleteRow, Spend
  <1>7. ASSUME NEW c \in Certs, DeleteMaterial(c) PROVE SweepOnce'
    BY <1>7 DEF DeleteMaterial
  <1>8. ASSUME NEW c \in Certs, DeleteCommit(c) PROVE SweepOnce'
    BY <1>8 DEF DeleteCommit
  <1>9. ASSUME NEW c \in Certs, NearExpiry(c) PROVE SweepOnce'
    BY <1>9 DEF NearExpiry, Spend
  <1>10. ASSUME NEW c \in Certs, EnqueueIssueLost(c) PROVE SweepOnce'
    BY <1>10 DEF EnqueueIssueLost, Spend
  <1>11. ASSUME NEW c \in Certs, DeleteAborts(c) PROVE SweepOnce'
    BY <1>11 DEF DeleteAborts, Spend
  <1>12. ASSUME NEW w \in Workers, Acme(w) PROVE SweepOnce'
    BY <1>12 DEF Acme, Spend, Goto
  <1>13. ASSUME NEW w \in Workers, OpenTmp(w) PROVE SweepOnce'
    BY <1>13 DEF OpenTmp, Goto
  <1>14. ASSUME NEW w \in Workers, WriteTmp(w) PROVE SweepOnce'
    BY <1>14 DEF WriteTmp, Goto
  <1>15. ASSUME NEW w \in Workers, RenameTmp(w) PROVE SweepOnce'
    BY <1>15 DEF RenameTmp, Goto
  <1>16. ASSUME NEW w \in Workers, CleanTmp(w) PROVE SweepOnce'
    BY <1>16 DEF CleanTmp, Goto
  <1>17. ASSUME NEW w \in Workers, SaveIssued(w) PROVE SweepOnce'
    BY <1>17, CertAssumption DEF SaveIssued, Goto, Return, StatusToSave
  <1>18. ASSUME NEW w \in Workers, SaveFailed(w) PROVE SweepOnce'
    BY <1>18, CertAssumption DEF SaveFailed, Goto, Return, StatusToSave
  <1>19. ASSUME NEW w \in Workers, EnqueueReload(w) PROVE SweepOnce'
    BY <1>19, CertAssumption DEF EnqueueReload, Goto, Return
  <1>20. ASSUME NEW w \in Workers, TaskDies(w) PROVE SweepOnce'
    BY <1>20, CertAssumption DEF TaskDies, Spend, Goto, Return
  <1>21. ASSUME NEW w \in Workers, NEW c \in Certs, StartIssue(w, c) PROVE SweepOnce'
    BY <1>21 DEF StartIssue, Goto, Queued
  <1>22. ASSUME NEW n \in Nodes, Beat(n) PROVE SweepOnce'
    BY <1>22 DEF Beat
  <1>23. ASSUME NEW n \in Nodes, StartSweep(n) PROVE SweepOnce'
    BY <1>23, OneNode, CertAssumption DEF StartSweep
  <1>24. ASSUME NEW n \in Nodes, ClaimSweep(n) PROVE SweepOnce'
    BY <1>24 DEF ClaimSweep
  <1>25. ASSUME NEW n \in Nodes, EnqueueDue(n) PROVE SweepOnce'
    BY <1>25, OneNode, CertAssumption DEF EnqueueDue
  <1>26. ASSUME NEW n \in Nodes, SweepDies(n) PROVE SweepOnce'
    BY <1>26 DEF SweepDies, Spend
  <1>27. CASE NewPeriod
    BY <1>27, OneNode, CertAssumption DEF NewPeriod
  <1>28. CASE ApplyNginx
    BY <1>28 DEF ApplyNginx
  <1>29. CASE UNCHANGED vars
    BY <1>29 DEF vars
  <1> QED
    BY <1>1, <1>2, <1>3, <1>4, <1>5, <1>6, <1>7, <1>8, <1>9, <1>10, <1>11, <1>12,
       <1>13, <1>14, <1>15, <1>16, <1>17, <1>18, <1>19, <1>20, <1>21, <1>22, <1>23,
       <1>24, <1>25, <1>26, <1>27, <1>28, <1>29, CertCases

(* Counting: one task is at most one, queued and running together.           *)
LEMMA SoloCounts ==
    ASSUME TypeOK, NEW c \in Certs, Solo(c)
    PROVE  issueQ[c] + Cardinality(Issuing(c)) <= 1
  <1>1. CASE Issuing(c) = {}
    <2>1. Cardinality(Issuing(c)) = 0
      BY <1>1, FS_EmptySet
    <2> QED
      BY <2>1 DEF Solo
  <1>2. CASE Issuing(c) # {}
    <2>1. PICK w \in Workers : job[w] = c
      BY <1>2 DEF Issuing
    <2>2. issueQ[c] = 0 /\ Issuing(c) = {w}
      BY <2>1 DEF Solo, Issuing
    <2>3. Cardinality(Issuing(c)) = 1
      BY <2>2, FS_Singleton
    <2> QED
      BY <2>2, <2>3
  <1> QED
    BY <1>1, <1>2

(* The initial state, and all of it together.                                *)
THEOREM SoloInductive ==
    ASSUME MaxRenewals = 0
    PROVE  Spec => []SoloInv
  <1>1. Init => SoloInv
    <2> SUFFICES ASSUME Init PROVE SoloInv
      OBVIOUS
    <2>1. TypeOK /\ AtWork
      BY CertTypeInit
    <2>2. IdleHasNoJob /\ NotYetIssued /\ \A c \in Certs : Solo(c)
      BY CertAssumption DEF Init, IdleHasNoJob, NotYetIssued, Unworked, Solo
    <2>3. SweepOnce
      BY DEF Init, SweepOnce, Due, Exists
    <2> QED
      BY <2>1, <2>2, <2>3 DEF SoloInv
  <1>2. SoloInv /\ [Next]_vars => SoloInv'
    <2> SUFFICES ASSUME SoloInv, [Next]_vars PROVE SoloInv'
      OBVIOUS
    <2>1. TypeOK' /\ AtWork'
      BY CertTypeStep DEF SoloInv
    <2>2. IdleHasNoJob' /\ NotYetIssued' /\ SweepOnce'
      BY JobStep, NotYetStep, SweepOnceStep DEF SoloInv
    <2>3. \A c \in Certs : Solo(c)'
      BY SoloStep
    <2> QED
      BY <2>1, <2>2, <2>3 DEF SoloInv
  <1> QED
    BY <1>1, <1>2, PTL DEF Spec

(* As long as no administrator asks for renewals, a certificate has at most  *)
(* one issuance queued or running, with any number of nodes running the      *)
(* sweep and any of them dying in it: creation and sweep do not overlap.     *)
THEOREM OneIssuanceAtATimeHolds ==
    ASSUME MaxRenewals = 0
    PROVE  Spec => []OneIssuanceAtATime
  <1>1. SoloInv => OneIssuanceAtATime
    BY SoloCounts DEF SoloInv, OneIssuanceAtATime
  <1> QED
    BY <1>1, SoloInductive, PTL

------------------------------------------------------------------------------
(***************************************************************************)
(* What an issuance that has its certificate to itself leaves behind,      *)
(* whatever renewals, deletions, crashes and overlaps went before.         *)
(***************************************************************************)

(* The files are written in order, from the chain, for a row that exists.    *)
LEMMA BeginStep ==
    ASSUME LoneInv, [Next]_vars
    PROVE  Beginnings'
  <1> USE DEF rowVars, taskVars, fileVars, sweepVars, nginxVars, ghosts, TypeOK,
              AtWork, IdleHasNoJob, Exists, LoneInv, Beginnings
  <1>1. ASSUME NEW c \in Certs, RequestCertificate(c) PROVE Beginnings'
    BY <1>1, CertAssumption DEF RequestCertificate
  <1>2. ASSUME NEW c \in Certs, EnqueueIssue(c) PROVE Beginnings'
    BY <1>2, CertAssumption DEF EnqueueIssue
  <1>3. ASSUME NEW c \in Certs, UploadCustom(c) PROVE Beginnings'
    BY <1>3, CertAssumption DEF UploadCustom, Spend
  <1>4. ASSUME NEW c \in Certs, RequestRenewal(c) PROVE Beginnings'
    BY <1>4, CertAssumption DEF RequestRenewal, Spend
  <1>5. ASSUME NEW c \in Certs, AttachHost(c) PROVE Beginnings'
    BY <1>5, CertAssumption DEF AttachHost, Spend
  <1>6. ASSUME NEW c \in Certs, DeleteRow(c) PROVE Beginnings'
    BY <1>6, CertAssumption DEF DeleteRow, Spend
  <1>7. ASSUME NEW c \in Certs, DeleteMaterial(c) PROVE Beginnings'
    BY <1>7, CertAssumption DEF DeleteMaterial
  <1>8. ASSUME NEW c \in Certs, DeleteCommit(c) PROVE Beginnings'
    BY <1>8, CertAssumption DEF DeleteCommit
  <1>9. ASSUME NEW c \in Certs, NearExpiry(c) PROVE Beginnings'
    BY <1>9, CertAssumption DEF NearExpiry, Spend
  <1>10. ASSUME NEW c \in Certs, EnqueueIssueLost(c) PROVE Beginnings'
    BY <1>10, CertAssumption DEF EnqueueIssueLost, Spend
  <1>11. ASSUME NEW c \in Certs, DeleteAborts(c) PROVE Beginnings'
    BY <1>11, CertAssumption DEF DeleteAborts, Spend
  <1>12. ASSUME NEW w \in Workers, Acme(w) PROVE Beginnings'
    BY <1>12, CertAssumption DEF Acme, Spend, Goto
  <1>13. ASSUME NEW w \in Workers, OpenTmp(w) PROVE Beginnings'
    BY <1>13, CertAssumption DEF OpenTmp, Goto
  <1>14. ASSUME NEW w \in Workers, WriteTmp(w) PROVE Beginnings'
    BY <1>14, CertAssumption DEF WriteTmp, Goto
  <1>15. ASSUME NEW w \in Workers, RenameTmp(w) PROVE Beginnings'
    BY <1>15, CertAssumption DEF RenameTmp, Goto
  <1>16. ASSUME NEW w \in Workers, CleanTmp(w) PROVE Beginnings'
    BY <1>16, CertAssumption DEF CleanTmp, Goto, NextFile
  <1>17. ASSUME NEW w \in Workers, SaveIssued(w) PROVE Beginnings'
    <2>1. job[w] \in Certs /\ status[job[w]] # "unborn"
      BY <1>17 DEF SaveIssued
    <2>2. \A d \in Certs :
             /\ status'[d] = "unborn" => d # job[w] /\ status[d] = "unborn"
             /\ d # job[w] => good'[d] = good[d]
      BY <1>17, <2>1 DEF SaveIssued, StatusToSave
    <2>3. \A v \in Workers : job'[v] \in {job[v], NoCert}
      BY <1>17 DEF SaveIssued, Return
    <2>4. \A v \in Workers : pc'[v] \in {"idle", "acme"} => file'[v] = "chain"
      BY <1>17 DEF SaveIssued, Return, Goto
    <2>5. TypeOK /\ Beginnings
      OBVIOUS
    <2> QED
      BY ONLY <2>2, <2>3, <2>4, <2>5, CertAssumption DEF Beginnings
  <1>18. ASSUME NEW w \in Workers, SaveFailed(w) PROVE Beginnings'
    <2>1. job[w] \in Certs /\ status[job[w]] # "unborn"
      BY <1>18 DEF SaveFailed
    <2>2. \A d \in Certs :
             /\ status'[d] = "unborn" => d # job[w] /\ status[d] = "unborn"
             /\ d # job[w] => good'[d] = good[d]
      BY <1>18, <2>1 DEF SaveFailed, StatusToSave
    <2>3. \A v \in Workers : job'[v] \in {job[v], NoCert}
      BY <1>18 DEF SaveFailed, Return
    <2>4. \A v \in Workers : pc'[v] \in {"idle", "acme"} => file'[v] = "chain"
      BY <1>18 DEF SaveFailed, Return, Goto
    <2>5. TypeOK /\ Beginnings
      OBVIOUS
    <2> QED
      BY ONLY <2>2, <2>3, <2>4, <2>5, CertAssumption DEF Beginnings
  <1>19. ASSUME NEW w \in Workers, EnqueueReload(w) PROVE Beginnings'
    BY <1>19, CertAssumption DEF EnqueueReload, Goto, Return
  <1>20. ASSUME NEW w \in Workers, TaskDies(w) PROVE Beginnings'
    BY <1>20, CertAssumption DEF TaskDies, Spend, Goto, Return
  <1>21. ASSUME NEW w \in Workers, NEW c \in Certs, StartIssue(w, c) PROVE Beginnings'
    BY <1>21, CertAssumption DEF StartIssue, Goto, Queued
  <1>22. ASSUME NEW n \in Nodes, Beat(n) PROVE Beginnings'
    BY <1>22, CertAssumption DEF Beat
  <1>23. ASSUME NEW n \in Nodes, StartSweep(n) PROVE Beginnings'
    BY <1>23, CertAssumption DEF StartSweep
  <1>24. ASSUME NEW n \in Nodes, ClaimSweep(n) PROVE Beginnings'
    BY <1>24, CertAssumption DEF ClaimSweep
  <1>25. ASSUME NEW n \in Nodes, EnqueueDue(n) PROVE Beginnings'
    BY <1>25, CertAssumption DEF EnqueueDue
  <1>26. ASSUME NEW n \in Nodes, SweepDies(n) PROVE Beginnings'
    BY <1>26, CertAssumption DEF SweepDies, Spend
  <1>27. CASE NewPeriod
    BY <1>27, CertAssumption DEF NewPeriod
  <1>28. CASE ApplyNginx
    BY <1>28, CertAssumption DEF ApplyNginx
  <1>29. CASE UNCHANGED vars
    BY <1>29 DEF vars
  <1> QED
    BY <1>1, <1>2, <1>3, <1>4, <1>5, <1>6, <1>7, <1>8, <1>9, <1>10, <1>11, <1>12,
       <1>13, <1>14, <1>15, <1>16, <1>17, <1>18, <1>19, <1>20, <1>21, <1>22, <1>23,
       <1>24, <1>25, <1>26, <1>27, <1>28, <1>29, CertCases


(* A task that starts while another is at work disturbs the certificate.     *)
LEMMA AloneStep ==
    ASSUME LoneInv, [Next]_vars
    PROVE  Alone'
  <1> USE DEF rowVars, taskVars, fileVars, sweepVars, nginxVars, ghosts, TypeOK,
              AtWork, IdleHasNoJob, Exists, LoneInv, Alone, Issuing
  <1>1. ASSUME NEW c \in Certs, RequestCertificate(c) PROVE Alone'
    BY <1>1, CertAssumption DEF RequestCertificate
  <1>2. ASSUME NEW c \in Certs, EnqueueIssue(c) PROVE Alone'
    BY <1>2, CertAssumption DEF EnqueueIssue
  <1>3. ASSUME NEW c \in Certs, UploadCustom(c) PROVE Alone'
    BY <1>3, CertAssumption DEF UploadCustom, Spend
  <1>4. ASSUME NEW c \in Certs, RequestRenewal(c) PROVE Alone'
    BY <1>4, CertAssumption DEF RequestRenewal, Spend
  <1>5. ASSUME NEW c \in Certs, AttachHost(c) PROVE Alone'
    BY <1>5, CertAssumption DEF AttachHost, Spend
  <1>6. ASSUME NEW c \in Certs, DeleteRow(c) PROVE Alone'
    BY <1>6, CertAssumption DEF DeleteRow, Spend
  <1>7. ASSUME NEW c \in Certs, DeleteMaterial(c) PROVE Alone'
    BY <1>7, CertAssumption DEF DeleteMaterial
  <1>8. ASSUME NEW c \in Certs, DeleteCommit(c) PROVE Alone'
    BY <1>8, CertAssumption DEF DeleteCommit
  <1>9. ASSUME NEW c \in Certs, NearExpiry(c) PROVE Alone'
    BY <1>9, CertAssumption DEF NearExpiry, Spend
  <1>10. ASSUME NEW c \in Certs, EnqueueIssueLost(c) PROVE Alone'
    BY <1>10, CertAssumption DEF EnqueueIssueLost, Spend
  <1>11. ASSUME NEW c \in Certs, DeleteAborts(c) PROVE Alone'
    BY <1>11, CertAssumption DEF DeleteAborts, Spend
  <1>12. ASSUME NEW w \in Workers, Acme(w) PROVE Alone'
    BY <1>12, CertAssumption DEF Acme, Spend, Goto
  <1>13. ASSUME NEW w \in Workers, OpenTmp(w) PROVE Alone'
    BY <1>13, CertAssumption DEF OpenTmp, Goto
  <1>14. ASSUME NEW w \in Workers, WriteTmp(w) PROVE Alone'
    BY <1>14, CertAssumption DEF WriteTmp, Goto
  <1>15. ASSUME NEW w \in Workers, RenameTmp(w) PROVE Alone'
    BY <1>15, CertAssumption DEF RenameTmp, Goto
  <1>16. ASSUME NEW w \in Workers, CleanTmp(w) PROVE Alone'
    BY <1>16, CertAssumption DEF CleanTmp, Goto, NextFile
  <1>17. ASSUME NEW w \in Workers, SaveIssued(w) PROVE Alone'
    BY <1>17, CertAssumption DEF SaveIssued, Goto, Return, StatusToSave
  <1>18. ASSUME NEW w \in Workers, SaveFailed(w) PROVE Alone'
    BY <1>18, CertAssumption DEF SaveFailed, Goto, Return, StatusToSave
  <1>19. ASSUME NEW w \in Workers, EnqueueReload(w) PROVE Alone'
    BY <1>19, CertAssumption DEF EnqueueReload, Goto, Return
  <1>20. ASSUME NEW w \in Workers, TaskDies(w) PROVE Alone'
    BY <1>20, CertAssumption DEF TaskDies, Spend, Goto, Return
  <1>21. ASSUME NEW w \in Workers, NEW c \in Certs, StartIssue(w, c) PROVE Alone'
    <2>1. CASE Exists(c)
      <3>1. /\ job' = [job EXCEPT ![w] = c] /\ job[w] = NoCert
            /\ disturbed' = IF Issuing(c) = {} THEN disturbed \ {c}
                            ELSE disturbed \union {c}
        BY <1>21, <2>1 DEF StartIssue
      <3>2. CASE Issuing(c) = {}
        <4>1. \A v \in Workers : job[v] # c
          BY <3>2
        <4> QED
          BY <3>1, <3>2, <4>1, CertAssumption
      <3>3. CASE Issuing(c) # {}
        BY <3>1, <3>3, CertAssumption
      <3> QED
        BY <3>2, <3>3
    <2>2. CASE ~Exists(c)
      BY <1>21, <2>2 DEF StartIssue
    <2> QED
      BY <2>1, <2>2
  <1>22. ASSUME NEW n \in Nodes, Beat(n) PROVE Alone'
    BY <1>22, CertAssumption DEF Beat
  <1>23. ASSUME NEW n \in Nodes, StartSweep(n) PROVE Alone'
    BY <1>23, CertAssumption DEF StartSweep
  <1>24. ASSUME NEW n \in Nodes, ClaimSweep(n) PROVE Alone'
    BY <1>24, CertAssumption DEF ClaimSweep
  <1>25. ASSUME NEW n \in Nodes, EnqueueDue(n) PROVE Alone'
    BY <1>25, CertAssumption DEF EnqueueDue
  <1>26. ASSUME NEW n \in Nodes, SweepDies(n) PROVE Alone'
    BY <1>26, CertAssumption DEF SweepDies, Spend
  <1>27. CASE NewPeriod
    BY <1>27, CertAssumption DEF NewPeriod
  <1>28. CASE ApplyNginx
    BY <1>28, CertAssumption DEF ApplyNginx
  <1>29. CASE UNCHANGED vars
    BY <1>29 DEF vars
  <1> QED
    BY <1>1, <1>2, <1>3, <1>4, <1>5, <1>6, <1>7, <1>8, <1>9, <1>10, <1>11, <1>12,
       <1>13, <1>14, <1>15, <1>16, <1>17, <1>18, <1>19, <1>20, <1>21, <1>22, <1>23,
       <1>24, <1>25, <1>26, <1>27, <1>28, <1>29, CertCases


(* A lone task's failure makes the row "failed" ...                          *)
LEMMA SaveFailedIs ==
    ASSUME TypeOK, AtWork, StatusLoaded, NEW w \in Workers, SaveFailed(w),
           job[w] \notin disturbed
    PROVE  \/ /\ status' = [status EXCEPT ![job[w]] = "failed"]
              /\ good' = [good EXCEPT ![job[w]] = FALSE]
           \/ status[job[w]] = "gone" /\ UNCHANGED <<status, good>>
  <1>1. job[w] \in Certs /\ pc[w] = "savefail"
    BY DEF SaveFailed, AtWork
  <1>2. seen[w] \in {"pending", "active", "failed"} /\ status[job[w]] \in {seen[w], "gone"}
    BY <1>1 DEF StatusLoaded
  <1> QED
    BY <1>1, <1>2 DEF SaveFailed, StatusToSave, Exists, fileVars

(* ... and its success makes it "active".                                    *)
LEMMA SaveIssuedIs ==
    ASSUME TypeOK, AtWork, StatusLoaded, NEW w \in Workers, SaveIssued(w),
           job[w] \notin disturbed
    PROVE  \/ /\ status' = [status EXCEPT ![job[w]] = "active"]
              /\ good' = [good EXCEPT ![job[w]] = TRUE]
              /\ pc' = [pc EXCEPT ![w] = "reload"] /\ job' = job
           \/ /\ status[job[w]] = "gone" /\ UNCHANGED <<status, good>>
              /\ pc' = [pc EXCEPT ![w] = "idle"]
              /\ job' = [job EXCEPT ![w] = NoCert]
  <1>1. job[w] \in Certs /\ pc[w] = "save"
    BY DEF SaveIssued, AtWork
  <1>2. seen[w] \in {"pending", "active", "failed"} /\ status[job[w]] \in {seen[w], "gone"}
    BY <1>1 DEF StatusLoaded
  <1> QED
    BY <1>1, <1>2 DEF SaveIssued, StatusToSave, Exists, Return, Goto

(* A save touches one row, and one task's locals.                            *)
LEMMA SaveFrame ==
    ASSUME TypeOK, AtWork, NEW w \in Workers, SaveFailed(w) \/ SaveIssued(w)
    PROVE  /\ job[w] \in Certs /\ pc[w] \in {"save", "savefail"}
           /\ \A d \in Certs \ {job[w]} : status'[d] = status[d] /\ good'[d] = good[d]
           /\ \A v \in Workers \ {w} :
                 /\ pc'[v] = pc[v] /\ job'[v] = job[v] /\ seen'[v] = seen[v]
                 /\ gen'[v] = gen[v] /\ file'[v] = file[v] /\ fd'[v] = fd[v]
           /\ UNCHANGED <<mat, tmp, disturbed>>
  <1>1. CASE SaveFailed(w)
    BY <1>1 DEF SaveFailed, TypeOK, AtWork, Return, Goto, fileVars
  <1>2. CASE SaveIssued(w)
    BY <1>2 DEF SaveIssued, TypeOK, AtWork, Return, Goto, fileVars
  <1> QED
    BY <1>1, <1>2

(* Nobody changes the status between a lone task's load of a row and its     *)
(* save, and nobody after it, but for a delete.                              *)
LEMMA LoadedStep ==
    ASSUME LoneInv, [Next]_vars
    PROVE  StatusLoaded'
  <1> USE DEF rowVars, taskVars, fileVars, sweepVars, nginxVars, ghosts, TypeOK,
              AtWork, IdleHasNoJob, Exists, LoneInv, StatusLoaded, Beginnings, Alone, PairUnderWay, Progress
  <1>1. ASSUME NEW c \in Certs, RequestCertificate(c) PROVE StatusLoaded'
    BY <1>1, CertAssumption DEF RequestCertificate
  <1>2. ASSUME NEW c \in Certs, EnqueueIssue(c) PROVE StatusLoaded'
    BY <1>2, CertAssumption DEF EnqueueIssue
  <1>3. ASSUME NEW c \in Certs, UploadCustom(c) PROVE StatusLoaded'
    BY <1>3, CertAssumption DEF UploadCustom, Spend
  <1>4. ASSUME NEW c \in Certs, RequestRenewal(c) PROVE StatusLoaded'
    BY <1>4, CertAssumption DEF RequestRenewal, Spend
  <1>5. ASSUME NEW c \in Certs, AttachHost(c) PROVE StatusLoaded'
    BY <1>5, CertAssumption DEF AttachHost, Spend
  <1>6. ASSUME NEW c \in Certs, DeleteRow(c) PROVE StatusLoaded'
    BY <1>6, CertAssumption DEF DeleteRow, Spend
  <1>7. ASSUME NEW c \in Certs, DeleteMaterial(c) PROVE StatusLoaded'
    BY <1>7, CertAssumption DEF DeleteMaterial
  <1>8. ASSUME NEW c \in Certs, DeleteCommit(c) PROVE StatusLoaded'
    BY <1>8, CertAssumption DEF DeleteCommit
  <1>9. ASSUME NEW c \in Certs, NearExpiry(c) PROVE StatusLoaded'
    BY <1>9, CertAssumption DEF NearExpiry, Spend
  <1>10. ASSUME NEW c \in Certs, EnqueueIssueLost(c) PROVE StatusLoaded'
    BY <1>10, CertAssumption DEF EnqueueIssueLost, Spend
  <1>11. ASSUME NEW c \in Certs, DeleteAborts(c) PROVE StatusLoaded'
    BY <1>11, CertAssumption DEF DeleteAborts, Spend
  <1>12. ASSUME NEW w \in Workers, Acme(w) PROVE StatusLoaded'
    <2>1. /\ UNCHANGED <<status, good, job, seen, disturbed>> /\ pc[w] # "reload"
          /\ pc[w] # "idle" /\ pc'[w] # "reload"
          /\ \A v \in Workers \ {w} : pc'[v] = pc[v]
      BY <1>12 DEF Acme, Goto
    <2>2. StatusLoaded
      OBVIOUS
    <2> QED
      BY ONLY <2>1, <2>2 DEF StatusLoaded
  <1>13. ASSUME NEW w \in Workers, OpenTmp(w) PROVE StatusLoaded'
    BY <1>13, CertAssumption DEF OpenTmp, Goto
  <1>14. ASSUME NEW w \in Workers, WriteTmp(w) PROVE StatusLoaded'
    BY <1>14, CertAssumption DEF WriteTmp, Goto
  <1>15. ASSUME NEW w \in Workers, RenameTmp(w) PROVE StatusLoaded'
    <2>1. /\ UNCHANGED <<status, good, job, seen, disturbed>> /\ pc[w] # "reload"
          /\ pc[w] # "idle" /\ pc'[w] # "reload"
          /\ \A v \in Workers \ {w} : pc'[v] = pc[v]
      BY <1>15 DEF RenameTmp, Goto
    <2>2. StatusLoaded
      OBVIOUS
    <2> QED
      BY ONLY <2>1, <2>2 DEF StatusLoaded
  <1>16. ASSUME NEW w \in Workers, CleanTmp(w) PROVE StatusLoaded'
    <2>1. /\ UNCHANGED <<status, good, job, seen, disturbed>> /\ pc[w] # "reload"
          /\ pc[w] # "idle" /\ pc'[w] # "reload"
          /\ \A v \in Workers \ {w} : pc'[v] = pc[v]
      BY <1>16 DEF CleanTmp, Goto
    <2>2. StatusLoaded
      OBVIOUS
    <2> QED
      BY ONLY <2>1, <2>2 DEF StatusLoaded
  <1>17. ASSUME NEW w \in Workers, SaveIssued(w) PROVE StatusLoaded'
    <2>1. /\ job[w] \in Certs
          /\ \A d \in Certs \ {job[w]} : status'[d] = status[d] /\ good'[d] = good[d]
          /\ \A v \in Workers \ {w} :
                pc'[v] = pc[v] /\ job'[v] = job[v] /\ seen'[v] = seen[v]
          /\ disturbed' = disturbed
      BY <1>17, SaveFrame
    <2>2. \A v \in Workers \ {w} : job[v] \notin disturbed => job[v] # job[w]
      BY <2>1
    <2>3. \A v \in Workers \ {w} :
             pc'[v] # "idle" /\ job'[v] \notin disturbed =>
                /\ job[v] \in Certs \ {job[w]}
                /\ status'[job'[v]] = status[job[v]] /\ good'[job'[v]] = good[job[v]]
      BY <2>1, <2>2
    <2>4. job[w] \notin disturbed =>
             \/ pc'[w] = "idle"
             \/ /\ pc'[w] = "reload" /\ job'[w] = job[w]
                /\ status'[job[w]] = "active" /\ good'[job[w]]
      BY <1>17, <2>1, SaveIssuedIs
    <2>5. pc'[w] = "idle" \/ job'[w] = job[w]
      BY <1>17 DEF SaveIssued, Return, Goto
    <2>6. StatusLoaded
      OBVIOUS
    <2> QED
      BY ONLY <2>1, <2>3, <2>4, <2>5, <2>6 DEF StatusLoaded
  <1>18. ASSUME NEW w \in Workers, SaveFailed(w) PROVE StatusLoaded'
    <2>1. /\ job[w] \in Certs
          /\ \A d \in Certs \ {job[w]} : status'[d] = status[d] /\ good'[d] = good[d]
          /\ \A v \in Workers \ {w} :
                pc'[v] = pc[v] /\ job'[v] = job[v] /\ seen'[v] = seen[v]
          /\ disturbed' = disturbed
      BY <1>18, SaveFrame
    <2>2. \A v \in Workers \ {w} : job[v] \notin disturbed => job[v] # job[w]
      BY <2>1
    <2>3. \A v \in Workers \ {w} :
             pc'[v] # "idle" /\ job'[v] \notin disturbed =>
                /\ job[v] \in Certs \ {job[w]}
                /\ status'[job'[v]] = status[job[v]] /\ good'[job'[v]] = good[job[v]]
      BY <2>1, <2>2
    <2>4. pc'[w] = "idle"
      BY <1>18 DEF SaveFailed, Return, Goto
    <2>5. StatusLoaded
      OBVIOUS
    <2> QED
      BY ONLY <2>1, <2>3, <2>4, <2>5 DEF StatusLoaded
  <1>19. ASSUME NEW w \in Workers, EnqueueReload(w) PROVE StatusLoaded'
    BY <1>19, CertAssumption DEF EnqueueReload, Goto, Return
  <1>20. ASSUME NEW w \in Workers, TaskDies(w) PROVE StatusLoaded'
    BY <1>20, CertAssumption DEF TaskDies, Spend, Goto, Return
  <1>21. ASSUME NEW w \in Workers, NEW c \in Certs, StartIssue(w, c) PROVE StatusLoaded'
    <2>1. CASE Exists(c)
      <3>1. /\ pc' = [pc EXCEPT ![w] = "acme"] /\ job' = [job EXCEPT ![w] = c]
            /\ seen' = [seen EXCEPT ![w] = status[c]]
            /\ UNCHANGED <<status, good>>
            /\ disturbed' = IF Issuing(c) = {} THEN disturbed \ {c}
                            ELSE disturbed \union {c}
        BY <1>21, <2>1 DEF StartIssue, Goto
      <3>2. \A v \in Workers \ {w} :
               pc'[v] # "idle" /\ job'[v] \notin disturbed' =>
                  pc[v] # "idle" /\ job[v] \notin disturbed
        BY <3>1 DEF Issuing
      <3> QED
        BY <3>1, <2>1, <3>2
    <2>2. CASE ~Exists(c)
      BY <1>21, <2>2 DEF StartIssue
    <2> QED
      BY <2>1, <2>2
  <1>22. ASSUME NEW n \in Nodes, Beat(n) PROVE StatusLoaded'
    BY <1>22, CertAssumption DEF Beat
  <1>23. ASSUME NEW n \in Nodes, StartSweep(n) PROVE StatusLoaded'
    BY <1>23, CertAssumption DEF StartSweep
  <1>24. ASSUME NEW n \in Nodes, ClaimSweep(n) PROVE StatusLoaded'
    BY <1>24, CertAssumption DEF ClaimSweep
  <1>25. ASSUME NEW n \in Nodes, EnqueueDue(n) PROVE StatusLoaded'
    BY <1>25, CertAssumption DEF EnqueueDue
  <1>26. ASSUME NEW n \in Nodes, SweepDies(n) PROVE StatusLoaded'
    BY <1>26, CertAssumption DEF SweepDies, Spend
  <1>27. CASE NewPeriod
    BY <1>27, CertAssumption DEF NewPeriod
  <1>28. CASE ApplyNginx
    BY <1>28, CertAssumption DEF ApplyNginx
  <1>29. CASE UNCHANGED vars
    BY <1>29 DEF vars
  <1> QED
    BY <1>1, <1>2, <1>3, <1>4, <1>5, <1>6, <1>7, <1>8, <1>9, <1>10, <1>11, <1>12,
       <1>13, <1>14, <1>15, <1>16, <1>17, <1>18, <1>19, <1>20, <1>21, <1>22, <1>23,
       <1>24, <1>25, <1>26, <1>27, <1>28, <1>29, CertCases


(* Progress is about the task's own locals and its certificate's files.      *)
LEMMA ProgressFrame ==
    ASSUME NEW v \in Workers, Progress(v),
           pc'[v] = pc[v], job'[v] = job[v], gen'[v] = gen[v],
           file'[v] = file[v], fd'[v] = fd[v],
           mat'[job[v]] = mat[job[v]], tmp'[job[v]] = tmp[job[v]]
    PROVE  Progress(v)'
  BY DEF Progress, Has

(* Without a second writer each step finds the file as the one before left it. *)
LEMMA ProgressStep ==
    ASSUME LoneInv, [Next]_vars
    PROVE  PairUnderWay'
  <1> USE DEF rowVars, taskVars, fileVars, sweepVars, nginxVars, ghosts, TypeOK,
              AtWork, IdleHasNoJob, Exists, LoneInv, Beginnings, Alone, Files
  <1>1. ASSUME NEW c \in Certs, RequestCertificate(c) PROVE PairUnderWay'
    BY <1>1 DEF RequestCertificate, PairUnderWay, Progress, Has
  <1>2. ASSUME NEW c \in Certs, EnqueueIssue(c) PROVE PairUnderWay'
    BY <1>2 DEF EnqueueIssue, PairUnderWay, Progress, Has
  <1>3. ASSUME NEW c \in Certs, UploadCustom(c) PROVE PairUnderWay'
    <2>1. ASSUME NEW v \in Workers, pc'[v] # "idle", job'[v] \notin disturbed'
          PROVE  Progress(v)'
      <3>1. /\ pc[v] # "idle" /\ job[v] \in Certs \ {c} /\ job[v] \notin disturbed
            /\ UNCHANGED <<pc, job, gen, file, fd, tmp>>
        BY <1>3, <2>1 DEF UploadCustom
      <3>2. mat'[job[v]] = mat[job[v]]
        BY <1>3, <3>1 DEF UploadCustom
      <3>3. Progress(v)
        BY <3>1 DEF PairUnderWay
      <3> QED
        BY ONLY <3>1, <3>2, <3>3, ProgressFrame
    <2> QED
      BY <2>1 DEF PairUnderWay
  <1>4. ASSUME NEW c \in Certs, RequestRenewal(c) PROVE PairUnderWay'
    BY <1>4 DEF RequestRenewal, PairUnderWay, Progress, Has, Spend
  <1>5. ASSUME NEW c \in Certs, AttachHost(c) PROVE PairUnderWay'
    BY <1>5 DEF AttachHost, PairUnderWay, Progress, Has, Spend
  <1>6. ASSUME NEW c \in Certs, DeleteRow(c) PROVE PairUnderWay'
    BY <1>6 DEF DeleteRow, PairUnderWay, Progress, Has, Spend
  <1>7. ASSUME NEW c \in Certs, DeleteMaterial(c) PROVE PairUnderWay'
    <2>1. ASSUME NEW v \in Workers, pc'[v] # "idle", job'[v] \notin disturbed'
          PROVE  Progress(v)'
      <3>1. /\ pc[v] # "idle" /\ job[v] \in Certs \ {c} /\ job[v] \notin disturbed
            /\ UNCHANGED <<pc, job, gen, file>> /\ fd'[v] = fd[v]
        BY <1>7, <2>1 DEF DeleteMaterial
      <3>2. mat'[job[v]] = mat[job[v]] /\ tmp'[job[v]] = tmp[job[v]]
        BY <1>7, <3>1 DEF DeleteMaterial
      <3>3. Progress(v)
        BY <3>1 DEF PairUnderWay
      <3> QED
        BY ONLY <3>1, <3>2, <3>3, ProgressFrame
    <2> QED
      BY <2>1 DEF PairUnderWay
  <1>8. ASSUME NEW c \in Certs, DeleteCommit(c) PROVE PairUnderWay'
    BY <1>8 DEF DeleteCommit, PairUnderWay, Progress, Has
  <1>9. ASSUME NEW c \in Certs, NearExpiry(c) PROVE PairUnderWay'
    BY <1>9 DEF NearExpiry, PairUnderWay, Progress, Has, Spend
  <1>10. ASSUME NEW c \in Certs, EnqueueIssueLost(c) PROVE PairUnderWay'
    BY <1>10 DEF EnqueueIssueLost, PairUnderWay, Progress, Has, Spend
  <1>11. ASSUME NEW c \in Certs, DeleteAborts(c) PROVE PairUnderWay'
    BY <1>11 DEF DeleteAborts, PairUnderWay, Progress, Has, Spend
  <1>12. ASSUME NEW w \in Workers, Acme(w) PROVE PairUnderWay'
    <2>1. job[w] \in Certs /\ file[w] \in Files /\ UNCHANGED <<job, disturbed>>
      BY <1>12 DEF Acme
    <2>2. ASSUME NEW v \in Workers \ {w}, pc'[v] # "idle", job'[v] \notin disturbed'
          PROVE  Progress(v)'
      <3>1. job[v] \in Certs /\ job[v] # job[w] /\ pc'[v] = pc[v]
        BY <1>12, <2>1, <2>2 DEF Acme, Goto
      <3>2. Progress(v)
        BY <2>1, <2>2, <3>1 DEF PairUnderWay
      <3>3. mat'[job[v]] = mat[job[v]] /\ tmp'[job[v]] = tmp[job[v]]
        BY <1>12, <2>1, <3>1 DEF Acme
      <3>4. file'[v] = file[v] /\ fd'[v] = fd[v] /\ gen'[v] = gen[v]
        BY <1>12, <2>1, <2>2, <3>1 DEF Acme, Follow
      <3> QED
        BY ONLY <2>1, <2>2, <3>1, <3>2, <3>3, <3>4, ProgressFrame
    <2>3. ASSUME job[w] \notin disturbed PROVE Progress(w)'
      <3>1. Progress(w)
        BY <1>12, <2>3 DEF PairUnderWay, Acme
      <3>2. pc[w] = "acme" /\ file[w] = "chain"
        BY <1>12 DEF Acme
      <3>3. UNCHANGED <<file, fd, mat, tmp>>
        BY <1>12 DEF Acme
      <3>4. \/ pc'[w] = "open" /\ gen'[w] > 0
            \/ pc'[w] = "savefail"
        BY <1>12 DEF Acme, Goto
      <3> QED
        BY <2>1, <3>2, <3>3, <3>4 DEF Progress, Has
    <2> QED
      BY <2>1, <2>2, <2>3 DEF PairUnderWay
  <1>13. ASSUME NEW w \in Workers, OpenTmp(w) PROVE PairUnderWay'
    <2>1. job[w] \in Certs /\ file[w] \in Files /\ UNCHANGED <<job, gen, disturbed>>
      BY <1>13 DEF OpenTmp
    <2>2. ASSUME NEW v \in Workers \ {w}, pc'[v] # "idle", job'[v] \notin disturbed'
          PROVE  Progress(v)'
      <3>1. job[v] \in Certs /\ job[v] # job[w] /\ pc'[v] = pc[v]
        BY <1>13, <2>1, <2>2 DEF OpenTmp, Goto
      <3>2. Progress(v)
        BY <2>1, <2>2, <3>1 DEF PairUnderWay
      <3>3. mat'[job[v]] = mat[job[v]] /\ tmp'[job[v]] = tmp[job[v]]
        BY <1>13, <2>1, <3>1 DEF OpenTmp
      <3>4. file'[v] = file[v] /\ fd'[v] = fd[v]
        BY <1>13, <2>1, <2>2, <3>1 DEF OpenTmp, Follow
      <3> QED
        BY ONLY <2>1, <2>2, <3>1, <3>2, <3>3, <3>4, ProgressFrame
    <2>3. ASSUME job[w] \notin disturbed PROVE Progress(w)'
      <3>1. Progress(w)
        BY <1>13, <2>3 DEF PairUnderWay, OpenTmp
      <3> QED
        BY <1>13, <2>1, <3>1 DEF OpenTmp, Goto, Progress, Has
    <2> QED
      BY <2>1, <2>2, <2>3 DEF PairUnderWay
  <1>14. ASSUME NEW w \in Workers, WriteTmp(w) PROVE PairUnderWay'
    <2>1. job[w] \in Certs /\ file[w] \in Files /\ UNCHANGED <<job, gen, disturbed>>
      BY <1>14 DEF WriteTmp
    <2>2. ASSUME NEW v \in Workers \ {w}, pc'[v] # "idle", job'[v] \notin disturbed'
          PROVE  Progress(v)'
      <3>1. job[v] \in Certs /\ job[v] # job[w] /\ pc'[v] = pc[v]
        BY <1>14, <2>1, <2>2 DEF WriteTmp, Goto
      <3>2. Progress(v)
        BY <2>1, <2>2, <3>1 DEF PairUnderWay
      <3>3. mat'[job[v]] = mat[job[v]] /\ tmp'[job[v]] = tmp[job[v]]
        BY <1>14, <2>1, <3>1 DEF WriteTmp
      <3>4. file'[v] = file[v] /\ fd'[v] = fd[v]
        BY <1>14, <2>1, <2>2, <3>1 DEF WriteTmp, Follow
      <3> QED
        BY ONLY <2>1, <2>2, <3>1, <3>2, <3>3, <3>4, ProgressFrame
    <2>3. ASSUME job[w] \notin disturbed PROVE Progress(w)'
      <3>1. Progress(w)
        BY <1>14, <2>3 DEF PairUnderWay, WriteTmp
      <3>2. pc[w] = "write" /\ fd[w] = "tmp" /\ tmp[job[w]][file[w]] = Partial
        BY <1>14, <3>1 DEF WriteTmp, Progress
      <3>3. /\ tmp' = [tmp EXCEPT ![job[w]][file[w]] = gen[w]]
            /\ mat' = mat /\ pc'[w] = "rename" /\ file' = file
        BY <1>14, <3>2 DEF WriteTmp, Written, Partial, Goto
      <3> QED
        BY <2>1, <3>1, <3>2, <3>3 DEF Progress, Has
    <2> QED
      BY <2>1, <2>2, <2>3 DEF PairUnderWay
  <1>15. ASSUME NEW w \in Workers, RenameTmp(w) PROVE PairUnderWay'
    <2>1. job[w] \in Certs /\ file[w] \in Files /\ UNCHANGED <<job, gen, disturbed>>
      BY <1>15 DEF RenameTmp
    <2>2. ASSUME NEW v \in Workers \ {w}, pc'[v] # "idle", job'[v] \notin disturbed'
          PROVE  Progress(v)'
      <3>1. job[v] \in Certs /\ job[v] # job[w] /\ pc'[v] = pc[v]
        BY <1>15, <2>1, <2>2 DEF RenameTmp, Goto
      <3>2. Progress(v)
        BY <2>1, <2>2, <3>1 DEF PairUnderWay
      <3>3. mat'[job[v]] = mat[job[v]] /\ tmp'[job[v]] = tmp[job[v]]
        BY <1>15, <2>1, <3>1 DEF RenameTmp
      <3>4. file'[v] = file[v] /\ fd'[v] = fd[v]
        BY <1>15, <2>1, <2>2, <3>1 DEF RenameTmp, Follow
      <3> QED
        BY ONLY <2>1, <2>2, <3>1, <3>2, <3>3, <3>4, ProgressFrame
    <2>3. ASSUME job[w] \notin disturbed PROVE Progress(w)'
      <3>1. Progress(w)
        BY <1>15, <2>3 DEF PairUnderWay, RenameTmp
      <3>2. /\ pc[w] = "rename" /\ tmp[job[w]][file[w]] = gen[w] /\ gen[w] > 0
            /\ file' = file
        BY <1>15, <3>1 DEF RenameTmp, Progress
      <3>3. /\ mat' = [mat EXCEPT ![job[w]][file[w]] = gen[w]]
            /\ pc'[w] = "clean"
        BY <1>15, <3>2 DEF RenameTmp, Goto, Absent
      <3>4. mat'[job[w]][file[w]] = gen[w]
        BY <2>1, <3>3
      <3>5. file[w] = "key" => mat'[job[w]]["chain"] = mat[job[w]]["chain"]
        BY <2>1, <3>3
      <3> QED
        BY <2>1, <3>1, <3>2, <3>3, <3>4, <3>5 DEF Progress, Has
    <2> QED
      BY <2>1, <2>2, <2>3 DEF PairUnderWay
  <1>16. ASSUME NEW w \in Workers, CleanTmp(w) PROVE PairUnderWay'
    <2>1. job[w] \in Certs /\ file[w] \in Files /\ UNCHANGED <<job, gen, disturbed>>
      BY <1>16 DEF CleanTmp
    <2>2. ASSUME NEW v \in Workers \ {w}, pc'[v] # "idle", job'[v] \notin disturbed'
          PROVE  Progress(v)'
      <3>1. job[v] \in Certs /\ job[v] # job[w] /\ pc'[v] = pc[v]
        BY <1>16, <2>1, <2>2 DEF CleanTmp, Goto
      <3>2. Progress(v)
        BY <2>1, <2>2, <3>1 DEF PairUnderWay
      <3>3. mat'[job[v]] = mat[job[v]] /\ tmp'[job[v]] = tmp[job[v]]
        BY <1>16, <2>1, <3>1 DEF CleanTmp
      <3>4. file'[v] = file[v] /\ fd'[v] = fd[v]
        BY <1>16, <2>1, <2>2, <3>1 DEF CleanTmp, Follow
      <3> QED
        BY ONLY <2>1, <2>2, <3>1, <3>2, <3>3, <3>4, ProgressFrame
    <2>3. ASSUME job[w] \notin disturbed PROVE Progress(w)'
      <3>1. Progress(w)
        BY <1>16, <2>3 DEF PairUnderWay, CleanTmp
      <3>2. mat' = mat /\ pc[w] = "clean"
        BY <1>16, <3>1 DEF CleanTmp, Progress
      <3>3. \/ /\ file[w] = "chain" /\ file'[w] = "key" /\ pc'[w] = "open"
            \/ /\ file[w] = "key" /\ file'[w] = "key" /\ pc'[w] = "save"
        BY <1>16, <2>1, <3>2 DEF CleanTmp, NextFile, Goto
      <3> QED
        BY <2>1, <3>1, <3>2, <3>3 DEF Progress, Has
    <2> QED
      BY <2>1, <2>2, <2>3 DEF PairUnderWay
  <1>17. ASSUME NEW w \in Workers, SaveIssued(w) PROVE PairUnderWay'
    <2>1. /\ job[w] \in Certs /\ pc[w] \in {"save", "savefail"}
          /\ \A v \in Workers \ {w} :
                /\ pc'[v] = pc[v] /\ job'[v] = job[v] /\ gen'[v] = gen[v]
                /\ file'[v] = file[v] /\ fd'[v] = fd[v]
          /\ UNCHANGED <<mat, tmp, disturbed>>
      BY <1>17, SaveFrame
    <2>2. ASSUME NEW v \in Workers \ {w}, pc'[v] # "idle", job'[v] \notin disturbed'
          PROVE  Progress(v)'
      <3>1. Progress(v)
        BY <2>1, <2>2 DEF PairUnderWay
      <3> QED
        BY ONLY <2>1, <2>2, <3>1, ProgressFrame
    <2>3. ASSUME pc'[w] # "idle", job'[w] \notin disturbed' PROVE Progress(w)'
      <3>1. /\ pc[w] = "save" /\ pc'[w] = "reload"
            /\ UNCHANGED <<job, gen, file, fd>>
        BY <1>17, <2>3 DEF SaveIssued, Return, Goto
      <3>2. Progress(w)
        BY <2>1, <2>3, <3>1 DEF PairUnderWay
      <3> QED
        BY <2>1, <3>1, <3>2 DEF Progress, Has
    <2> QED
      BY <2>2, <2>3 DEF PairUnderWay
  <1>18. ASSUME NEW w \in Workers, SaveFailed(w) PROVE PairUnderWay'
    <2>1. /\ job[w] \in Certs /\ pc[w] \in {"save", "savefail"}
          /\ \A v \in Workers \ {w} :
                /\ pc'[v] = pc[v] /\ job'[v] = job[v] /\ gen'[v] = gen[v]
                /\ file'[v] = file[v] /\ fd'[v] = fd[v]
          /\ UNCHANGED <<mat, tmp, disturbed>>
      BY <1>18, SaveFrame
    <2>2. ASSUME NEW v \in Workers \ {w}, pc'[v] # "idle", job'[v] \notin disturbed'
          PROVE  Progress(v)'
      <3>1. Progress(v)
        BY <2>1, <2>2 DEF PairUnderWay
      <3> QED
        BY ONLY <2>1, <2>2, <3>1, ProgressFrame
    <2>3. ASSUME pc'[w] # "idle", job'[w] \notin disturbed' PROVE Progress(w)'
      <3>1. /\ pc[w] = "save" /\ pc'[w] = "reload"
            /\ UNCHANGED <<job, gen, file, fd>>
        BY <1>18, <2>3 DEF SaveFailed, Return, Goto
      <3>2. Progress(w)
        BY <2>1, <2>3, <3>1 DEF PairUnderWay
      <3> QED
        BY <2>1, <3>1, <3>2 DEF Progress, Has
    <2> QED
      BY <2>2, <2>3 DEF PairUnderWay
  <1>19. ASSUME NEW w \in Workers, EnqueueReload(w) PROVE PairUnderWay'
    <2>1. ASSUME NEW v \in Workers, pc'[v] # "idle", job'[v] \notin disturbed'
          PROVE  Progress(v)'
      <3>1. /\ v # w /\ pc'[v] = pc[v] /\ job'[v] = job[v] /\ gen'[v] = gen[v]
            /\ file'[v] = file[v] /\ fd'[v] = fd[v] /\ UNCHANGED <<mat, tmp>>
            /\ disturbed \subseteq disturbed'
        BY <1>19, <2>1 DEF EnqueueReload, Return, Goto
      <3>2. Progress(v)
        BY <2>1, <3>1 DEF PairUnderWay
      <3> QED
        BY ONLY <3>1, <3>2, ProgressFrame
    <2> QED
      BY <2>1 DEF PairUnderWay
  <1>20. ASSUME NEW w \in Workers, TaskDies(w) PROVE PairUnderWay'
    <2>1. ASSUME NEW v \in Workers, pc'[v] # "idle", job'[v] \notin disturbed'
          PROVE  Progress(v)'
      <3>1. /\ v # w /\ pc'[v] = pc[v] /\ job'[v] = job[v] /\ gen'[v] = gen[v]
            /\ file'[v] = file[v] /\ fd'[v] = fd[v] /\ UNCHANGED <<mat, tmp>>
            /\ disturbed \subseteq disturbed'
        BY <1>20, <2>1 DEF TaskDies, Return, Goto
      <3>2. Progress(v)
        BY <2>1, <3>1 DEF PairUnderWay
      <3> QED
        BY ONLY <3>1, <3>2, ProgressFrame
    <2> QED
      BY <2>1 DEF PairUnderWay
  <1>21. ASSUME NEW w \in Workers, NEW c \in Certs, StartIssue(w, c) PROVE PairUnderWay'
    <2>1. CASE Exists(c)
      <3>1. /\ pc' = [pc EXCEPT ![w] = "acme"] /\ job' = [job EXCEPT ![w] = c]
            /\ UNCHANGED <<gen, file, fd, mat, tmp>>
            /\ disturbed' = IF Issuing(c) = {} THEN disturbed \ {c}
                            ELSE disturbed \union {c}
        BY <1>21, <2>1 DEF StartIssue, Goto
      <3>2. ASSUME NEW v \in Workers \ {w}, pc'[v] # "idle", job'[v] \notin disturbed'
            PROVE  Progress(v)'
        <4>1. pc'[v] = pc[v] /\ job'[v] = job[v] /\ job[v] \notin disturbed
          BY <3>1, <3>2 DEF Issuing
        <4>2. Progress(v)
          BY <3>2, <4>1 DEF PairUnderWay
        <4> QED
          BY ONLY <3>1, <4>1, <4>2, ProgressFrame
      <3>3. Progress(w)'
        BY <3>1 DEF Progress
      <3> QED
        BY <3>2, <3>3 DEF PairUnderWay
    <2>2. CASE ~Exists(c)
      BY <1>21, <2>2 DEF StartIssue, PairUnderWay, Progress, Has
    <2> QED
      BY <2>1, <2>2
  <1>22. ASSUME NEW n \in Nodes, Beat(n) PROVE PairUnderWay'
    BY <1>22 DEF Beat, PairUnderWay, Progress, Has
  <1>23. ASSUME NEW n \in Nodes, StartSweep(n) PROVE PairUnderWay'
    BY <1>23 DEF StartSweep, PairUnderWay, Progress, Has
  <1>24. ASSUME NEW n \in Nodes, ClaimSweep(n) PROVE PairUnderWay'
    BY <1>24 DEF ClaimSweep, PairUnderWay, Progress, Has
  <1>25. ASSUME NEW n \in Nodes, EnqueueDue(n) PROVE PairUnderWay'
    BY <1>25 DEF EnqueueDue, PairUnderWay, Progress, Has
  <1>26. ASSUME NEW n \in Nodes, SweepDies(n) PROVE PairUnderWay'
    BY <1>26 DEF SweepDies, PairUnderWay, Progress, Has, Spend
  <1>27. CASE NewPeriod
    BY <1>27 DEF NewPeriod, PairUnderWay, Progress, Has
  <1>28. CASE ApplyNginx
    BY <1>28 DEF ApplyNginx, PairUnderWay, Progress, Has
  <1>29. CASE UNCHANGED vars
    BY <1>29 DEF vars, PairUnderWay, Progress, Has
  <1> QED
    BY <1>1, <1>2, <1>3, <1>4, <1>5, <1>6, <1>7, <1>8, <1>9, <1>10, <1>11, <1>12,
       <1>13, <1>14, <1>15, <1>16, <1>17, <1>18, <1>19, <1>20, <1>21, <1>22, <1>23,
       <1>24, <1>25, <1>26, <1>27, <1>28, <1>29, CertCases


(* A task that ends leaves the tasks of other certificates.                  *)
LEMMA OthersAtWork ==
    ASSUME NEW w \in Workers, \A v \in Workers \ {w} : job'[v] = job[v]
    PROVE  \A d \in Certs \ {job[w]} : Issuing(d)' = {} => Issuing(d) = {}
  <1> SUFFICES ASSUME NEW d \in Certs \ {job[w]}, NEW v \in Workers, job[v] = d
               PROVE  \E u \in Workers : job'[u] = d
    BY DEF Issuing
  <1> QED
    OBVIOUS

(* A lone task that ends leaves its outcome, and both files of its issuance  *)
(* if that is a success.                                                     *)
LEMMA RestStep ==
    ASSUME LoneInv, [Next]_vars
    PROVE  SettledAsIssued'
  <1> USE DEF rowVars, taskVars, fileVars, sweepVars, nginxVars, ghosts, TypeOK,
              AtWork, IdleHasNoJob, Exists, LoneInv
  <1>1. ASSUME NEW c \in Certs, RequestCertificate(c) PROVE SettledAsIssued'
    <2>1. /\ UNCHANGED <<mat, good, job, disturbed>> /\ status'[c] = "pending"
          /\ \A d \in Certs \ {c} : status'[d] = status[d]
      BY <1>1 DEF RequestCertificate
    <2>2. \A d \in Certs : Issuing(d)' = Issuing(d)
      BY <2>1 DEF Issuing
    <2>3. SettledAsIssued
      OBVIOUS
    <2> QED
      BY ONLY <2>1, <2>2, <2>3 DEF SettledAsIssued, Loadable
  <1>2. ASSUME NEW c \in Certs, EnqueueIssue(c) PROVE SettledAsIssued'
    BY <1>2 DEF EnqueueIssue, SettledAsIssued, Issuing, Loadable
  <1>3. ASSUME NEW c \in Certs, UploadCustom(c) PROVE SettledAsIssued'
    <2>1. /\ status[c] = "unborn" /\ UNCHANGED <<good, job, disturbed>>
          /\ status'[c] \in {"active", "gone"}
          /\ \A d \in Certs \ {c} : status'[d] = status[d]
      BY <1>3 DEF UploadCustom
    <2>2. good[c]
      BY <2>1 DEF Beginnings
    <2>3. issued' > 0 /\ mat'[c] = [f \in Files |-> issued']
      BY <1>3 DEF UploadCustom
    <2>4. \A d \in Certs \ {c} : mat'[d] = mat[d]
      BY <1>3 DEF UploadCustom
    <2>5. Loadable(c)'
      BY <2>3 DEF Loadable, Files
    <2>6. \A d \in Certs : Issuing(d)' = Issuing(d)
      BY <2>1 DEF Issuing
    <2>7. SettledAsIssued
      OBVIOUS
    <2>8. SUFFICES ASSUME NEW d \in Certs \ disturbed,
                          status'[d] \in {"active", "failed"}, Issuing(d) = {}
                   PROVE  /\ (status'[d] = "active") = good'[d]
                          /\ status'[d] = "active" => Loadable(d)'
      BY ONLY <2>1, <2>6, <2>8 DEF SettledAsIssued
    <2>9. CASE d = c
      BY ONLY <2>1, <2>2, <2>5, <2>8, <2>9
    <2>10. CASE d # c
      BY ONLY <2>1, <2>4, <2>7, <2>8, <2>10 DEF SettledAsIssued, Loadable
    <2> QED
      BY <2>9, <2>10
  <1>4. ASSUME NEW c \in Certs, RequestRenewal(c) PROVE SettledAsIssued'
    BY <1>4 DEF RequestRenewal, SettledAsIssued, Issuing, Loadable
  <1>5. ASSUME NEW c \in Certs, AttachHost(c) PROVE SettledAsIssued'
    BY <1>5 DEF AttachHost, SettledAsIssued, Issuing, Loadable
  <1>6. ASSUME NEW c \in Certs, DeleteRow(c) PROVE SettledAsIssued'
    BY <1>6 DEF DeleteRow, SettledAsIssued, Issuing, Loadable
  <1>7. ASSUME NEW c \in Certs, DeleteMaterial(c) PROVE SettledAsIssued'
    <2>1. UNCHANGED <<status, good, job>> /\ disturbed' = disturbed \union {c}
      BY <1>7 DEF DeleteMaterial
    <2>2. \A d \in Certs \ {c} : mat'[d] = mat[d]
      BY <1>7 DEF DeleteMaterial
    <2>3. \A d \in Certs : Issuing(d)' = Issuing(d)
      BY <2>1 DEF Issuing
    <2>4. SettledAsIssued
      OBVIOUS
    <2> QED
      BY ONLY <2>1, <2>2, <2>3, <2>4 DEF SettledAsIssued, Loadable
  <1>8. ASSUME NEW c \in Certs, DeleteCommit(c) PROVE SettledAsIssued'
    <2>1. /\ UNCHANGED <<mat, good, job, disturbed>> /\ status'[c] = "gone"
          /\ \A d \in Certs \ {c} : status'[d] = status[d]
      BY <1>8 DEF DeleteCommit
    <2>2. \A d \in Certs : Issuing(d)' = Issuing(d)
      BY <2>1 DEF Issuing
    <2>3. SettledAsIssued
      OBVIOUS
    <2> QED
      BY ONLY <2>1, <2>2, <2>3 DEF SettledAsIssued, Loadable
  <1>9. ASSUME NEW c \in Certs, NearExpiry(c) PROVE SettledAsIssued'
    BY <1>9 DEF NearExpiry, SettledAsIssued, Issuing, Loadable
  <1>10. ASSUME NEW c \in Certs, EnqueueIssueLost(c) PROVE SettledAsIssued'
    BY <1>10 DEF EnqueueIssueLost, SettledAsIssued, Issuing, Loadable
  <1>11. ASSUME NEW c \in Certs, DeleteAborts(c) PROVE SettledAsIssued'
    BY <1>11 DEF DeleteAborts, SettledAsIssued, Issuing, Loadable
  <1>12. ASSUME NEW w \in Workers, Acme(w) PROVE SettledAsIssued'
    <2>1. /\ job[w] \in Certs /\ UNCHANGED <<status, good, job, disturbed>>
          /\ Issuing(job[w]) # {}
      BY <1>12 DEF Acme, Issuing
    <2>2. \A d \in Certs \ {job[w]} : mat'[d] = mat[d]
      BY <1>12, <2>1 DEF Acme
    <2>3. \A d \in Certs : Issuing(d)' = Issuing(d)
      BY <2>1 DEF Issuing
    <2>4. SettledAsIssued
      OBVIOUS
    <2> QED
      BY ONLY <2>1, <2>2, <2>3, <2>4 DEF SettledAsIssued, Loadable
  <1>13. ASSUME NEW w \in Workers, OpenTmp(w) PROVE SettledAsIssued'
    <2>1. /\ job[w] \in Certs /\ UNCHANGED <<status, good, job, disturbed>>
          /\ Issuing(job[w]) # {}
      BY <1>13 DEF OpenTmp, Issuing
    <2>2. \A d \in Certs \ {job[w]} : mat'[d] = mat[d]
      BY <1>13, <2>1 DEF OpenTmp
    <2>3. \A d \in Certs : Issuing(d)' = Issuing(d)
      BY <2>1 DEF Issuing
    <2>4. SettledAsIssued
      OBVIOUS
    <2> QED
      BY ONLY <2>1, <2>2, <2>3, <2>4 DEF SettledAsIssued, Loadable
  <1>14. ASSUME NEW w \in Workers, WriteTmp(w) PROVE SettledAsIssued'
    <2>1. /\ job[w] \in Certs /\ UNCHANGED <<status, good, job, disturbed>>
          /\ Issuing(job[w]) # {}
      BY <1>14 DEF WriteTmp, Issuing
    <2>2. \A d \in Certs \ {job[w]} : mat'[d] = mat[d]
      BY <1>14, <2>1 DEF WriteTmp
    <2>3. \A d \in Certs : Issuing(d)' = Issuing(d)
      BY <2>1 DEF Issuing
    <2>4. SettledAsIssued
      OBVIOUS
    <2> QED
      BY ONLY <2>1, <2>2, <2>3, <2>4 DEF SettledAsIssued, Loadable
  <1>15. ASSUME NEW w \in Workers, RenameTmp(w) PROVE SettledAsIssued'
    <2>1. /\ job[w] \in Certs /\ UNCHANGED <<status, good, job, disturbed>>
          /\ Issuing(job[w]) # {}
      BY <1>15 DEF RenameTmp, Issuing
    <2>2. \A d \in Certs \ {job[w]} : mat'[d] = mat[d]
      BY <1>15, <2>1 DEF RenameTmp
    <2>3. \A d \in Certs : Issuing(d)' = Issuing(d)
      BY <2>1 DEF Issuing
    <2>4. SettledAsIssued
      OBVIOUS
    <2> QED
      BY ONLY <2>1, <2>2, <2>3, <2>4 DEF SettledAsIssued, Loadable
  <1>16. ASSUME NEW w \in Workers, CleanTmp(w) PROVE SettledAsIssued'
    <2>1. /\ job[w] \in Certs /\ UNCHANGED <<status, good, job, disturbed>>
          /\ Issuing(job[w]) # {}
      BY <1>16 DEF CleanTmp, Issuing
    <2>2. \A d \in Certs \ {job[w]} : mat'[d] = mat[d]
      BY <1>16, <2>1 DEF CleanTmp
    <2>3. \A d \in Certs : Issuing(d)' = Issuing(d)
      BY <2>1 DEF Issuing
    <2>4. SettledAsIssued
      OBVIOUS
    <2> QED
      BY ONLY <2>1, <2>2, <2>3, <2>4 DEF SettledAsIssued, Loadable
  <1>17. ASSUME NEW w \in Workers, SaveIssued(w) PROVE SettledAsIssued'
    <2>1. /\ job[w] \in Certs /\ UNCHANGED <<mat, disturbed>>
          /\ \A d \in Certs \ {job[w]} : status'[d] = status[d] /\ good'[d] = good[d]
          /\ \A v \in Workers \ {w} : job'[v] = job[v]
      BY <1>17, SaveFrame
    <2>2. \A d \in Certs \ {job[w]} : Issuing(d)' = {} => Issuing(d) = {}
      BY ONLY <2>1, OthersAtWork
    <2>3. job[w] \notin disturbed =>
             job'[w] = job[w] \/ (job'[w] = NoCert /\ status'[job[w]] = "gone")
      BY <1>17, <2>1, SaveIssuedIs
    <2>4. job'[w] = job[w] => Issuing(job[w])' # {}
      BY DEF Issuing
    <2>5. SettledAsIssued
      OBVIOUS
    <2> QED
      BY ONLY <2>1, <2>2, <2>3, <2>4, <2>5 DEF SettledAsIssued, Loadable
  <1>18. ASSUME NEW w \in Workers, SaveFailed(w) PROVE SettledAsIssued'
    <2>1. /\ job[w] \in Certs /\ UNCHANGED <<mat, disturbed>>
          /\ \A d \in Certs \ {job[w]} : status'[d] = status[d] /\ good'[d] = good[d]
          /\ \A v \in Workers \ {w} : job'[v] = job[v]
      BY <1>18, SaveFrame
    <2>2. \A d \in Certs \ {job[w]} : Issuing(d)' = {} => Issuing(d) = {}
      BY ONLY <2>1, OthersAtWork
    <2>3. job[w] \notin disturbed =>
             \/ status'[job[w]] = "gone"
             \/ status'[job[w]] = "failed" /\ good'[job[w]] = FALSE
      BY <1>18, <2>1, SaveFailedIs
    <2>4. SettledAsIssued
      OBVIOUS
    <2> QED
      BY ONLY <2>1, <2>2, <2>3, <2>4 DEF SettledAsIssued, Loadable
  <1>19. ASSUME NEW w \in Workers, EnqueueReload(w) PROVE SettledAsIssued'
    <2>1. /\ job[w] \in Certs /\ pc[w] = "reload"
          /\ UNCHANGED <<mat, disturbed, status, good>>
          /\ \A v \in Workers \ {w} : job'[v] = job[v]
      BY <1>19 DEF EnqueueReload, Return
    <2>2. \A d \in Certs \ {job[w]} : Issuing(d)' = {} => Issuing(d) = {}
      BY ONLY <2>1, OthersAtWork
    <2>3. job[w] \notin disturbed => Progress(w)
      BY <2>1 DEF PairUnderWay
    <2>4. job[w] \notin disturbed => Loadable(job[w])
      BY <2>1, <2>3 DEF Progress, Has, Loadable
    <2>5. job[w] \notin disturbed =>
             status[job[w]] = "gone" \/ (status[job[w]] = "active" /\ good[job[w]])
      BY <2>1 DEF StatusLoaded
    <2>6. SettledAsIssued
      OBVIOUS
    <2> QED
      BY ONLY ZenonT(60), <2>1, <2>2, <2>4, <2>5, <2>6 DEF SettledAsIssued, Loadable
  <1>20. ASSUME NEW w \in Workers, TaskDies(w) PROVE SettledAsIssued'
    <2>1. /\ job[w] \in Certs /\ UNCHANGED <<mat, status, good>>
          /\ disturbed' = disturbed \union {job[w]}
          /\ \A v \in Workers \ {w} : job'[v] = job[v]
      BY <1>20 DEF TaskDies, Return
    <2>2. \A d \in Certs \ {job[w]} : Issuing(d)' = {} => Issuing(d) = {}
      BY ONLY <2>1, OthersAtWork
    <2>3. SettledAsIssued
      OBVIOUS
    <2> QED
      BY ONLY <2>1, <2>2, <2>3 DEF SettledAsIssued, Loadable
  <1>21. ASSUME NEW w \in Workers, NEW c \in Certs, StartIssue(w, c) PROVE SettledAsIssued'
    <2>1. UNCHANGED <<mat, status, good>>
      BY <1>21 DEF StartIssue
    <2>2. CASE Exists(c)
      <3>1. /\ job' = [job EXCEPT ![w] = c] /\ job[w] = NoCert
            /\ \A d \in Certs \ {c} : d \in disturbed' <=> d \in disturbed
        BY <1>21, <2>2 DEF StartIssue
      <3>2. Issuing(c)' # {}
        BY <3>1 DEF Issuing
      <3>3. \A d \in Certs \ {c} : Issuing(d)' = {} => Issuing(d) = {}
        BY <3>1, CertAssumption DEF Issuing
      <3>4. SettledAsIssued
        OBVIOUS
      <3> QED
        BY ONLY <2>1, <3>1, <3>2, <3>3, <3>4 DEF SettledAsIssued, Loadable
    <2>3. CASE ~Exists(c)
      BY <1>21, <2>1, <2>3 DEF StartIssue, SettledAsIssued, Issuing, Loadable
    <2> QED
      BY <2>2, <2>3
  <1>22. ASSUME NEW n \in Nodes, Beat(n) PROVE SettledAsIssued'
    BY <1>22 DEF Beat, SettledAsIssued, Issuing, Loadable
  <1>23. ASSUME NEW n \in Nodes, StartSweep(n) PROVE SettledAsIssued'
    BY <1>23 DEF StartSweep, SettledAsIssued, Issuing, Loadable
  <1>24. ASSUME NEW n \in Nodes, ClaimSweep(n) PROVE SettledAsIssued'
    BY <1>24 DEF ClaimSweep, SettledAsIssued, Issuing, Loadable
  <1>25. ASSUME NEW n \in Nodes, EnqueueDue(n) PROVE SettledAsIssued'
    BY <1>25 DEF EnqueueDue, SettledAsIssued, Issuing, Loadable
  <1>26. ASSUME NEW n \in Nodes, SweepDies(n) PROVE SettledAsIssued'
    BY <1>26 DEF SweepDies, SettledAsIssued, Issuing, Loadable
  <1>27. CASE NewPeriod
    BY <1>27 DEF NewPeriod, SettledAsIssued, Issuing, Loadable
  <1>28. CASE ApplyNginx
    BY <1>28 DEF ApplyNginx, SettledAsIssued, Issuing, Loadable
  <1>29. CASE UNCHANGED vars
    BY <1>29 DEF vars, SettledAsIssued, Issuing, Loadable
  <1> QED
    BY <1>1, <1>2, <1>3, <1>4, <1>5, <1>6, <1>7, <1>8, <1>9, <1>10, <1>11, <1>12,
       <1>13, <1>14, <1>15, <1>16, <1>17, <1>18, <1>19, <1>20, <1>21, <1>22, <1>23,
       <1>24, <1>25, <1>26, <1>27, <1>28, <1>29, CertCases


(* An issuance that had its certificate to itself leaves the row with its    *)
(* own outcome and, if that is "active", a pair of files nginx can load; for *)
(* every number of renewals, deletions, crashes and overlaps before it.      *)
THEOREM SettledAsIssuedHolds == Spec => []SettledAsIssued
  <1>1. Init => LoneInv
    <2> SUFFICES ASSUME Init PROVE LoneInv
      OBVIOUS
    <2>1. TypeOK /\ AtWork
      BY CertTypeInit
    <2>2. IdleHasNoJob /\ Alone /\ StatusLoaded /\ PairUnderWay
      BY CertAssumption DEF Init, IdleHasNoJob, Alone, StatusLoaded, PairUnderWay
    <2>3. Beginnings
      BY CertAssumption DEF Init, Beginnings
    <2>4. SettledAsIssued
      BY DEF Init, SettledAsIssued
    <2> QED
      BY <2>1, <2>2, <2>3, <2>4 DEF LoneInv
  <1>2. LoneInv /\ [Next]_vars => LoneInv'
    <2> SUFFICES ASSUME LoneInv, [Next]_vars PROVE LoneInv'
      OBVIOUS
    <2>1. TypeOK' /\ AtWork' /\ IdleHasNoJob'
      BY CertTypeStep, JobStep DEF LoneInv
    <2>2. Beginnings' /\ Alone' /\ StatusLoaded' /\ PairUnderWay' /\ SettledAsIssued'
      BY BeginStep, AloneStep, LoadedStep, ProgressStep, RestStep
    <2> QED
      BY <2>1, <2>2 DEF LoneInv
  <1>3. LoneInv => SettledAsIssued
    BY DEF LoneInv
  <1> QED
    BY <1>1, <1>2, <1>3, PTL DEF Spec

=============================================================================
