---------------------------- MODULE ConsoleProofs ----------------------------
(***************************************************************************)
(* Proofs about the paged tables and the pool dialog as they run in the    *)
(* console, for any searches, totals, addresses and rows and every bound,  *)
(* and the types of the whole console.                                     *)
(***************************************************************************)
EXTENDS AccountProofs, PageEditorProofs, LiveLogsProofs, Integers, Sequences,
        WellFoundedInduction, TLAPS

-----------------------------------------------------------------------------
(* The paged tables: the inductive invariant.                              *)

PageAsk == [active : BOOLEAN, q : Queries, page : Nat \ {0}, st : {"sent", "ok", "err"},
            total : Nat]
PageAnswer == [q : Queries, page : Nat, total : Nat]

PagedScreen ==
    /\ table \in {"decisions", "alerts", "audit", "off"}
    /\ typed \in Queries /\ search \in Queries /\ pg \in Nat \ {0}
    /\ lift \in {"no", "sent", "ok", "err"} /\ total \in [Queries -> 0 .. MaxTotal]
    /\ moves \in 0 .. MaxMoves /\ errors \in 0 .. MaxErrors
PagedFlags ==
    phone \in BOOLEAN /\ fetching \in BOOLEAN /\ failed \in BOOLEAN /\ crossed \in BOOLEAN
PagedAsks == listed \in PageAnswer /\ asks \subseteq PageAsk
PagedTypes == PagedScreen /\ PagedFlags /\ PagedAsks

\* The security tables wait for one request at most, the one for what the
\* controls show; the others in flight are marked as unwanted.
OneActive ==
    Tables!Guarded =>
        /\ fetching <=> \E a \in asks : a.active
        /\ \A a \in asks : a.active => a.q = search /\ a.page = pg
        /\ \A a, b \in asks : a.active /\ b.active => a = b

\* One that does not wait shows it, or an error.
ShownOrAsked ==
    (Tables!Guarded /\ ~fetching /\ ~failed) =>
        /\ listed.q = search /\ listed.page = pg
        /\ pg <= Tables!pageCount(listed.total, PageSize)

\* The audit log, while its requests never overlapped.
AuditAnswered ==
    (table = "audit" /\ ~crossed) =>
        \/ asks = {} /\ (failed \/ (listed.q = search /\ listed.page = pg))
        \/ \E a \in asks : asks = {a} /\ a.q = search /\ a.page = pg

PagedInv == PagedTypes /\ OneActive /\ ShownOrAsked /\ AuditAnswered

-----------------------------------------------------------------------------
\* pageCount of security/lib.ts: there is always a page.
LEMMA Pages ==
    ASSUME NEW n \in Nat
    PROVE  Tables!pageCount(n, PageSize) \in Nat \ {0}
  <1>1. CASE n = 0
    BY <1>1 DEF Tables!pageCount
  <1>2. CASE n # 0
    <2>1. (n + PageSize - 1) \div PageSize \in Int
      BY TableConstants
    <2>2. (n + PageSize - 1) \div PageSize >= 1
      BY <1>2, TableConstants
    <2> QED
      BY <1>2, <2>1, <2>2 DEF Tables!pageCount
  <1> QED
    BY <1>1, <1>2

\* clampPage: a page there is, the one asked for only if it is not past the end.
LEMMA Clamped ==
    ASSUME NEW p \in Nat \ {0}, NEW n \in Nat
    PROVE  /\ Tables!clampPage(p, n, PageSize) \in Nat \ {0}
           /\ Tables!clampPage(p, n, PageSize) = p => p <= Tables!pageCount(n, PageSize)
  BY Pages DEF Tables!clampPage

\* An effect run keeps the requests' types.
LEMMA Rerun ==
    ASSUME NEW others \in SUBSET PageAsk, NEW q \in Queries, NEW p \in Nat \ {0},
           Tables!RunEffect(q, p, others)
    PROVE  asks' \subseteq PageAsk
  <1>1. Tables!Ask(q, p) \in PageAsk
    <2>1. TRUE \in BOOLEAN
      BY Zenon
    <2> QED
      BY <2>1 DEF Tables!Ask, PageAsk
  <1>2. \A a \in others : [a EXCEPT !.active = FALSE] \in PageAsk
    <2>1. FALSE \in BOOLEAN
      BY Zenon
    <2> QED
      BY <2>1 DEF PageAsk
  <1> QED
    BY <1>1, <1>2 DEF Tables!RunEffect

\* After an effect run the request it made is the only one that is wanted.
LEMMA EffectRuns ==
    ASSUME PagedAsks, NEW others \in SUBSET asks, NEW q, NEW p, Tables!RunEffect(q, p, others),
           search' = q
    PROVE  OneActive' /\ AuditAnswered'
  <1>1. PICK x : x = Tables!Ask(q, p)
    OBVIOUS
  <1>2. x.active /\ x.q = q /\ x.page = p
    BY <1>1 DEF Tables!Ask
  <1>3. asks' = {[a EXCEPT !.active = FALSE] : a \in others} \cup {x}
    BY <1>1 DEF Tables!RunEffect
  <1>4. \A a \in others : ~[a EXCEPT !.active = FALSE].active
    BY DEF PagedAsks, PageAsk
  <1>5. /\ x \in asks' /\ \A a \in asks' : a.active => a = x
        /\ others = {} => asks' = {x}
    BY <1>2, <1>3, <1>4
  <1>6. fetching' = TRUE /\ pg' = p /\ crossed' = (crossed \/ others # {})
    BY DEF Tables!RunEffect
  <1>7. OneActive'
    BY <1>2, <1>5, <1>6 DEF OneActive
  <1>8. AuditAnswered'
    BY <1>2, <1>5, <1>6 DEF AuditAnswered
  <1> QED
    BY <1>7, <1>8

\* What the operator sees and the bounds.
LEMMA PagedScreenStep ==
    ASSUME PagedTypes, Tables!PagedNext
    PROVE  PagedScreen'
  <1> USE DEF Tables!fixed, PagedTypes, PagedScreen
  <1>1. ASSUME NEW q \in Queries, Tables!Type(q) PROVE PagedScreen'
    BY <1>1, TableConstants DEF Tables!Type, Tables!Move, Tables!RunEffect
  <1>2. ASSUME NEW q \in Queries, Tables!Select(q) PROVE PagedScreen'
    BY <1>2, TableConstants DEF Tables!Select, Tables!Move, Tables!RunEffect
  <1>3. ASSUME NEW p \in 1 .. Tables!pageCount(MaxTotal, PageSize), Tables!GoTo(p)
         PROVE  PagedScreen'
    <2>1. p \in Nat \ {0}
      BY Pages, TableConstants
    <2> QED
      BY <1>3, <2>1, TableConstants DEF Tables!GoTo, Tables!Move, Tables!RunEffect
  <1>4. CASE Tables!Debounce
    BY <1>4, TableConstants DEF Tables!Debounce, Tables!RunEffect
  <1>5. CASE Tables!RetryTable
    BY <1>5, TableConstants DEF Tables!RetryTable, Tables!Move, Tables!RunEffect
  <1>6. CASE Tables!StartLift
    BY <1>6, TableConstants DEF Tables!StartLift, Tables!Move
  <1>7. CASE Tables!ServeLift
    <2>1. total' \in [Queries -> 0 .. MaxTotal]
      BY <1>7, TableConstants DEF Tables!ServeLift
    <2> QED
      BY <1>7, <2>1, TableConstants DEF Tables!ServeLift
  <1>8. CASE Tables!AnswerLift
    BY <1>8, TableConstants DEF Tables!AnswerLift, Tables!RunEffect
  <1>9. ASSUME NEW a \in asks, Tables!ServeAsk(a) PROVE PagedScreen'
    BY <1>9, TableConstants DEF Tables!ServeAsk
  <1>10. ASSUME NEW a \in asks, Tables!AnswerGuarded(a) PROVE PagedScreen'
    <2>1. a.total \in Nat
      BY DEF PagedAsks, PageAsk
    <2>2. Tables!clampPage(pg, a.total, PageSize) \in Nat \ {0}
      BY <2>1, Clamped
    <2>3. pg' \in {pg, Tables!clampPage(pg, a.total, PageSize)}
      BY <1>10 DEF Tables!AnswerGuarded, Tables!RunEffect
    <2> QED
      BY <1>10, <2>2, <2>3 DEF Tables!AnswerGuarded
  <1>11. ASSUME NEW a \in asks, Tables!AnswerAudit(a) PROVE PagedScreen'
    BY <1>11, TableConstants DEF Tables!AnswerAudit
  <1> QED
    BY <1>1, <1>2, <1>3, <1>4, <1>5, <1>6, <1>7, <1>8, <1>9, <1>10, <1>11 DEF
       Tables!PagedNext

\* The flags.
LEMMA PagedFlagsStep ==
    ASSUME PagedTypes, Tables!PagedNext
    PROVE  PagedFlags'
  <1> USE DEF Tables!fixed, PagedTypes, PagedFlags
  <1>1. ASSUME NEW q \in Queries, Tables!Type(q) PROVE PagedFlags'
    BY <1>1 DEF Tables!Type, Tables!Move, Tables!RunEffect
  <1>2. ASSUME NEW q \in Queries, Tables!Select(q) PROVE PagedFlags'
    BY <1>2 DEF Tables!Select, Tables!Move, Tables!RunEffect
  <1>3. ASSUME NEW p \in 1 .. Tables!pageCount(MaxTotal, PageSize), Tables!GoTo(p)
         PROVE  PagedFlags'
    BY <1>3 DEF Tables!GoTo, Tables!Move, Tables!RunEffect
  <1>4. CASE Tables!Debounce
    BY <1>4 DEF Tables!Debounce, Tables!RunEffect
  <1>5. CASE Tables!RetryTable
    BY <1>5 DEF Tables!RetryTable, Tables!Move, Tables!RunEffect
  <1>6. CASE Tables!StartLift
    BY <1>6 DEF Tables!StartLift, Tables!Move
  <1>7. CASE Tables!ServeLift
    BY <1>7 DEF Tables!ServeLift
  <1>8. CASE Tables!AnswerLift
    BY <1>8 DEF Tables!AnswerLift, Tables!RunEffect
  <1>9. ASSUME NEW a \in asks, Tables!ServeAsk(a) PROVE PagedFlags'
    BY <1>9 DEF Tables!ServeAsk
  <1>10. ASSUME NEW a \in asks, Tables!AnswerGuarded(a) PROVE PagedFlags'
    <2>1. CASE fetching' = FALSE /\ failed' = TRUE /\ UNCHANGED <<phone, crossed>>
      BY <2>1, Zenon
    <2>2. CASE fetching' = FALSE /\ failed' = FALSE /\ UNCHANGED <<phone, crossed>>
      BY <2>2, Zenon
    <2>3. CASE fetching' = TRUE /\ failed' = FALSE /\ UNCHANGED phone /\ crossed' \in BOOLEAN
      BY <2>3, Zenon
    <2>4. CASE UNCHANGED <<phone, fetching, failed, crossed>>
      BY <2>4
    <2> QED
      BY <1>10, <2>1, <2>2, <2>3, <2>4 DEF Tables!AnswerGuarded, Tables!RunEffect
  <1>11. ASSUME NEW a \in asks, Tables!AnswerAudit(a) PROVE PagedFlags'
    <2>1. fetching' = FALSE /\ failed' = (a.st = "err") /\ UNCHANGED <<phone, crossed>>
      BY <1>11 DEF Tables!AnswerAudit
    <2> QED
      BY <2>1, Zenon
  <1> QED
    BY <1>1, <1>2, <1>3, <1>4, <1>5, <1>6, <1>7, <1>8, <1>9, <1>10, <1>11 DEF
       Tables!PagedNext

\* The requests and the answer shown.
LEMMA PagedAsksStep ==
    ASSUME PagedTypes, Tables!PagedNext
    PROVE  PagedAsks'
  <1> USE DEF Tables!fixed, PagedTypes, PagedAsks
  <1>1. ASSUME NEW q \in Queries, Tables!Type(q) PROVE PagedAsks'
    BY <1>1, Rerun DEF Tables!Type, PagedScreen
  <1>2. ASSUME NEW q \in Queries, Tables!Select(q) PROVE PagedAsks'
    BY <1>2, Rerun DEF Tables!Select, PagedScreen
  <1>3. ASSUME NEW p \in 1 .. Tables!pageCount(MaxTotal, PageSize), Tables!GoTo(p)
         PROVE  PagedAsks'
    BY <1>3, Rerun, Pages DEF Tables!GoTo, PagedScreen
  <1>4. CASE Tables!Debounce
    BY <1>4, Rerun DEF Tables!Debounce, PagedScreen
  <1>5. CASE Tables!RetryTable
    BY <1>5, Rerun DEF Tables!RetryTable, PagedScreen
  <1>6. CASE Tables!StartLift
    BY <1>6 DEF Tables!StartLift, Tables!Move
  <1>7. CASE Tables!ServeLift
    BY <1>7 DEF Tables!ServeLift
  <1>8. CASE Tables!AnswerLift
    BY <1>8, Rerun DEF Tables!AnswerLift, PagedScreen
  <1>9. ASSUME NEW a \in asks, Tables!ServeAsk(a) PROVE PagedAsks'
    <2>1. a \in PageAsk /\ a.q \in Queries
      BY DEF PageAsk
    <2>2. total[a.q] \in Nat
      BY <2>1, TableConstants DEF PagedScreen
    <2>3. /\ [a EXCEPT !.st = "ok", !.total = total[a.q]] \in PageAsk
          /\ [a EXCEPT !.st = "err"] \in PageAsk
      BY <2>1, <2>2 DEF PageAsk
    <2> QED
      BY <1>9, <2>3 DEF Tables!ServeAsk
  <1>10. ASSUME NEW a \in asks, Tables!AnswerGuarded(a) PROVE PagedAsks'
    <2>1. a \in PageAsk /\ Tables!Answer(a) \in PageAnswer
      BY DEF PageAsk, PageAnswer, Tables!Answer
    <2>2. Tables!clampPage(pg, a.total, PageSize) \in Nat \ {0}
      BY <2>1, Clamped DEF PageAsk, PagedScreen
    <2>3. asks' \subseteq PageAsk
      BY <1>10, <2>1, <2>2, Rerun DEF Tables!AnswerGuarded, PagedScreen
    <2> QED
      BY <1>10, <2>1, <2>3 DEF Tables!AnswerGuarded
  <1>11. ASSUME NEW a \in asks, Tables!AnswerAudit(a) PROVE PagedAsks'
    <2>1. a \in PageAsk /\ Tables!Answer(a) \in PageAnswer
      BY DEF PageAsk, PageAnswer, Tables!Answer
    <2>2. [Tables!NoList EXCEPT !.total = listed.total] \in PageAnswer
      BY TableConstants DEF PageAnswer, Tables!NoList
    <2> QED
      BY <1>11, <2>1, <2>2 DEF Tables!AnswerAudit
  <1> QED
    BY <1>1, <1>2, <1>3, <1>4, <1>5, <1>6, <1>7, <1>8, <1>9, <1>10, <1>11 DEF
       Tables!PagedNext

\* One request is wanted, and it is for what the controls show.
LEMMA OneActiveStep ==
    ASSUME PagedTypes, OneActive, Tables!PagedNext
    PROVE  OneActive'
  <1> USE DEF Tables!fixed, OneActive, Tables!Guarded
  <1>1. ASSUME NEW q \in Queries, Tables!Type(q) PROVE OneActive'
    BY <1>1, EffectRuns DEF Tables!Type, PagedTypes
  <1>2. ASSUME NEW q \in Queries, Tables!Select(q) PROVE OneActive'
    BY <1>2, EffectRuns DEF Tables!Select, PagedTypes
  <1>3. ASSUME NEW p \in 1 .. Tables!pageCount(MaxTotal, PageSize), Tables!GoTo(p)
         PROVE  OneActive'
    BY <1>3, EffectRuns DEF Tables!GoTo, PagedTypes
  <1>4. CASE Tables!Debounce
    BY <1>4, EffectRuns DEF Tables!Debounce, PagedTypes
  <1>5. CASE Tables!RetryTable
    BY <1>5, EffectRuns DEF Tables!RetryTable, PagedTypes
  <1>6. CASE Tables!StartLift
    BY <1>6 DEF Tables!StartLift, Tables!Move
  <1>7. CASE Tables!ServeLift
    BY <1>7 DEF Tables!ServeLift
  <1>8. CASE Tables!AnswerLift
    BY <1>8, EffectRuns DEF Tables!AnswerLift, PagedTypes
  <1>9. ASSUME NEW a \in asks, Tables!ServeAsk(a) PROVE OneActive'
    <2>1. a \in PageAsk
      BY DEF PagedTypes, PagedAsks
    <2>2. PICK x : /\ asks' = (asks \ {a}) \cup {x}
                   /\ x.active = a.active /\ x.q = a.q /\ x.page = a.page
      <3>1. PICK y : y = [a EXCEPT !.st = "ok", !.total = total[a.q]]
        OBVIOUS
      <3>2. PICK z : z = [a EXCEPT !.st = "err"]
        OBVIOUS
      <3>3. /\ y.active = a.active /\ y.q = a.q /\ y.page = a.page
            /\ z.active = a.active /\ z.q = a.q /\ z.page = a.page
        BY <2>1, <3>1, <3>2 DEF PageAsk
      <3>4. asks' = (asks \ {a}) \cup {y} \/ asks' = (asks \ {a}) \cup {z}
        BY <1>9, <3>1, <3>2 DEF Tables!ServeAsk
      <3> QED
        BY <3>3, <3>4
    <2>3. UNCHANGED <<table, search, pg, fetching, failed, listed, crossed>>
      BY <1>9 DEF Tables!ServeAsk
    <2> QED
      BY <2>2, <2>3
  <1>10. ASSUME NEW a \in asks, Tables!AnswerGuarded(a) PROVE OneActive'
    BY <1>10, EffectRuns DEF Tables!AnswerGuarded, Tables!Active, PagedTypes
  <1>11. ASSUME NEW a \in asks, Tables!AnswerAudit(a) PROVE OneActive'
    BY <1>11 DEF Tables!AnswerAudit
  <1> QED
    BY <1>1, <1>2, <1>3, <1>4, <1>5, <1>6, <1>7, <1>8, <1>9, <1>10, <1>11 DEF
       Tables!PagedNext

\* The rows shown.
LEMMA ShownStep ==
    ASSUME PagedTypes, OneActive, ShownOrAsked, Tables!PagedNext
    PROVE  ShownOrAsked'
  <1> USE DEF Tables!fixed, ShownOrAsked, Tables!Guarded, Tables!Controls
  <1>1. ASSUME NEW q \in Queries, Tables!Type(q) PROVE ShownOrAsked'
    BY <1>1 DEF Tables!Type, Tables!Move, Tables!RunEffect
  <1>2. ASSUME NEW q \in Queries, Tables!Select(q) PROVE ShownOrAsked'
    BY <1>2 DEF Tables!Select, Tables!Move, Tables!RunEffect
  <1>3. ASSUME NEW p \in 1 .. Tables!pageCount(MaxTotal, PageSize), Tables!GoTo(p)
         PROVE  ShownOrAsked'
    BY <1>3 DEF Tables!GoTo, Tables!Move, Tables!RunEffect
  <1>4. CASE Tables!Debounce
    BY <1>4 DEF Tables!Debounce, Tables!RunEffect
  <1>5. CASE Tables!RetryTable
    BY <1>5 DEF Tables!RetryTable, Tables!Move, Tables!RunEffect
  <1>6. CASE Tables!StartLift
    BY <1>6 DEF Tables!StartLift, Tables!Move
  <1>7. CASE Tables!ServeLift
    BY <1>7 DEF Tables!ServeLift
  <1>8. CASE Tables!AnswerLift
    BY <1>8 DEF Tables!AnswerLift, Tables!RunEffect
  <1>9. ASSUME NEW a \in asks, Tables!ServeAsk(a) PROVE ShownOrAsked'
    BY <1>9 DEF Tables!ServeAsk
  <1>10. ASSUME NEW a \in asks, Tables!AnswerGuarded(a) PROVE ShownOrAsked'
    <2>1. CASE ~Tables!Active(a) \/ a.st = "err"
      BY <1>10, <2>1 DEF Tables!AnswerGuarded, Tables!Active, OneActive
    <2>2. CASE Tables!Active(a) /\ a.st # "err"
      <3>1. CASE Tables!clampPage(pg, a.total, PageSize) # pg
        BY <1>10, <2>2, <3>1 DEF Tables!AnswerGuarded, Tables!RunEffect
      <3>2. CASE Tables!clampPage(pg, a.total, PageSize) = pg
        <4>1. /\ listed' = Tables!Answer(a) /\ UNCHANGED <<search, pg>>
          BY <1>10, <2>2, <3>2 DEF Tables!AnswerGuarded
        <4>2. a.q = search /\ a.page = pg
          BY <1>10, <2>2 DEF Tables!AnswerGuarded, Tables!Active, OneActive
        <4>3. pg <= Tables!pageCount(a.total, PageSize)
          BY <3>2, Clamped DEF PagedTypes, PagedAsks, PageAsk, PagedScreen
        <4> QED
          BY <4>1, <4>2, <4>3 DEF Tables!Answer
      <3> QED
        BY <3>1, <3>2
    <2> QED
      BY <2>1, <2>2
  <1>11. ASSUME NEW a \in asks, Tables!AnswerAudit(a) PROVE ShownOrAsked'
    BY <1>11 DEF Tables!AnswerAudit
  <1> QED
    BY <1>1, <1>2, <1>3, <1>4, <1>5, <1>6, <1>7, <1>8, <1>9, <1>10, <1>11 DEF
       Tables!PagedNext

\* The audit log.
LEMMA AuditStep ==
    ASSUME PagedTypes, AuditAnswered, Tables!PagedNext
    PROVE  AuditAnswered'
  <1> USE DEF Tables!fixed, AuditAnswered, Tables!Guarded
  <1>1. ASSUME NEW q \in Queries, Tables!Type(q) PROVE AuditAnswered'
    BY <1>1, EffectRuns DEF Tables!Type, PagedTypes
  <1>2. ASSUME NEW q \in Queries, Tables!Select(q) PROVE AuditAnswered'
    BY <1>2, EffectRuns DEF Tables!Select, PagedTypes
  <1>3. ASSUME NEW p \in 1 .. Tables!pageCount(MaxTotal, PageSize), Tables!GoTo(p)
         PROVE  AuditAnswered'
    BY <1>3, EffectRuns DEF Tables!GoTo, PagedTypes
  <1>4. CASE Tables!Debounce
    BY <1>4, EffectRuns DEF Tables!Debounce, PagedTypes
  <1>5. CASE Tables!RetryTable
    BY <1>5, EffectRuns DEF Tables!RetryTable, PagedTypes
  <1>6. CASE Tables!StartLift
    BY <1>6 DEF Tables!StartLift, Tables!Move
  <1>7. CASE Tables!ServeLift
    BY <1>7 DEF Tables!ServeLift
  <1>8. CASE Tables!AnswerLift
    BY <1>8, EffectRuns DEF Tables!AnswerLift, PagedTypes
  <1>9. ASSUME NEW a \in asks, Tables!ServeAsk(a) PROVE AuditAnswered'
    <2>1. a \in PageAsk
      BY DEF PagedTypes, PagedAsks
    <2>2. PICK x : /\ asks' = (asks \ {a}) \cup {x}
                   /\ x.active = a.active /\ x.q = a.q /\ x.page = a.page
      <3>1. PICK y : y = [a EXCEPT !.st = "ok", !.total = total[a.q]]
        OBVIOUS
      <3>2. PICK z : z = [a EXCEPT !.st = "err"]
        OBVIOUS
      <3>3. /\ y.active = a.active /\ y.q = a.q /\ y.page = a.page
            /\ z.active = a.active /\ z.q = a.q /\ z.page = a.page
        BY <2>1, <3>1, <3>2 DEF PageAsk
      <3>4. asks' = (asks \ {a}) \cup {y} \/ asks' = (asks \ {a}) \cup {z}
        BY <1>9, <3>1, <3>2 DEF Tables!ServeAsk
      <3> QED
        BY <3>3, <3>4
    <2>3. UNCHANGED <<table, search, pg, fetching, failed, listed, crossed>>
      BY <1>9 DEF Tables!ServeAsk
    <2> QED
      BY <2>2, <2>3
  <1>10. ASSUME NEW a \in asks, Tables!AnswerGuarded(a) PROVE AuditAnswered'
    BY <1>10 DEF Tables!AnswerGuarded, Tables!RunEffect, Tables!Active
  <1>11. ASSUME NEW a \in asks, Tables!AnswerAudit(a) PROVE AuditAnswered'
    BY <1>11 DEF Tables!AnswerAudit, Tables!Answer, PagedTypes, PagedAsks, PageAsk
  <1> QED
    BY <1>1, <1>2, <1>3, <1>4, <1>5, <1>6, <1>7, <1>8, <1>9, <1>10, <1>11 DEF
       Tables!PagedNext

-----------------------------------------------------------------------------
\* A table asks for its first page as it mounts.
LEMMA PagedInitially == Init => PagedInv
  <1> SUFFICES ASSUME Init PROVE PagedInv
    OBVIOUS
  <1>1. Tables!PagedInit({"decisions", "alerts", "audit"}) \/ Tables!PagedOff
    BY DEF Init
  <1>2. CASE Tables!PagedOff
    <2> USE <1>2 DEF Tables!PagedOff
    <2>1. PagedScreen
      BY TableConstants DEF PagedScreen
    <2>2. PagedFlags
      BY Zenon DEF PagedFlags
    <2>3. PagedAsks
      BY TableConstants DEF PagedAsks, PageAnswer, Tables!NoList
    <2>4. OneActive /\ ShownOrAsked /\ AuditAnswered
      BY DEF OneActive, ShownOrAsked, AuditAnswered, Tables!Guarded
    <2> QED
      BY <2>1, <2>2, <2>3, <2>4 DEF PagedInv, PagedTypes
  <1>3. CASE Tables!PagedInit({"decisions", "alerts", "audit"})
    <2> USE <1>3 DEF Tables!PagedInit
    <2>1. PagedScreen
      BY TableConstants DEF PagedScreen
    <2>2. PagedFlags
      BY Zenon DEF PagedFlags
    <2>3. PICK x : x = Tables!Ask(NoQuery, 1)
      OBVIOUS
    <2>4. x.active /\ x.q = NoQuery /\ x.page = 1
      BY <2>3 DEF Tables!Ask
    <2>5. x \in PageAsk
      <3>1. TRUE \in BOOLEAN
        BY Zenon
      <3> QED
        BY <2>3, <3>1, TableConstants DEF Tables!Ask, PageAsk
    <2>6. asks = {x} /\ fetching /\ search = NoQuery /\ pg = 1
      BY <2>3
    <2>7. PagedAsks
      BY <2>5, <2>6, TableConstants DEF PagedAsks, PageAnswer, Tables!NoList
    <2>8. OneActive /\ ShownOrAsked /\ AuditAnswered
      BY <2>4, <2>6 DEF OneActive, ShownOrAsked, AuditAnswered
    <2> QED
      BY <2>1, <2>2, <2>7, <2>8 DEF PagedInv, PagedTypes
  <1> QED
    BY <1>1, <1>2, <1>3

LEMMA PagedStep ==
    ASSUME PagedInv, [Next]_vars
    PROVE  PagedInv'
  <1>1. CASE Tables!PagedNext
    BY <1>1, PagedScreenStep, PagedFlagsStep, PagedAsksStep, OneActiveStep, ShownStep, AuditStep
       DEF PagedInv, PagedTypes
  <1>2. CASE UNCHANGED T
    BY <1>2 DEF T, PagedInv, PagedTypes, PagedScreen, PagedFlags, PagedAsks, OneActive,
                ShownOrAsked, AuditAnswered, Tables!Guarded
  <1> QED
    BY <1>1, <1>2 DEF Next, vars

\* The inductive invariant of the tables holds in the whole console.
THEOREM PagedInductive == Spec => []PagedInv
  <1>1. Init => PagedInv
    BY PagedInitially
  <1>2. PagedInv /\ [Next]_vars => PagedInv'
    BY PagedStep
  <1> QED
    BY <1>1, <1>2, PTL DEF Spec

\* security-view.tsx, audit-log-view.tsx: with no request in flight the rows are
\* those of the search and the page the controls show, in whatever order the
\* answers came (the audit log: unless its requests overlapped), and the loading
\* flag of the security tables stands for the latest request.
THEOREM ShownIsAskedHolds == Spec => []ShownIsAsked
  <1>1. PagedInv => ShownIsAsked
    <2> SUFFICES ASSUME PagedInv PROVE Tables!ShownIsAsked /\ Tables!LoadingIsLatest
      BY DEF ShownIsAsked
    <2>1. Tables!LoadingIsLatest
      BY DEF PagedInv, OneActive, Tables!LoadingIsLatest
    <2>2. CASE Tables!Guarded
      BY <2>1, <2>2 DEF PagedInv, OneActive, ShownOrAsked, Tables!ShownIsAsked
    <2>3. CASE ~Tables!Guarded
      BY <2>1, <2>3 DEF PagedInv, PagedTypes, PagedScreen, AuditAnswered, Tables!ShownIsAsked,
                  Tables!Guarded
    <2> QED
      BY <2>2, <2>3
  <1> QED
    BY <1>1, PagedInductive, PTL

\* The types of the tables.
LEMMA PagedTyped == PagedInv => Tables!PagedTypeOK
  <1> SUFFICES ASSUME PagedInv PROVE Tables!PagedTypeOK
    OBVIOUS
  <1>1. {phone, fetching, failed, crossed} \subseteq BOOLEAN
    BY Zenon DEF PagedInv, PagedTypes, PagedFlags
  <1> QED
    BY <1>1 DEF PagedInv, PagedTypes, PagedScreen, PagedAsks, PageAsk, PageAnswer,
                Tables!PagedTypeOK

-----------------------------------------------------------------------------
(* The pool dialog: the inductive invariant.                               *)

PoolRow == [id : {0, 1, 2}, addr : Addresses, down : BOOLEAN]
PoolBackend == [addr : Addresses \ {""}, down : BOOLEAN]
PoolSettings == [method : Pool!Methods, context : Pool!Contexts]
FormSettings == [method |-> method, context |-> upContext]

\* The rows stand for distinct backends of the pool, or for new ones.
PoolForm ==
    /\ poolMode \in {"new", "edit", "off"}
    /\ original = IF poolMode = "edit" THEN Pool!OpenedPool ELSE <<>>
    /\ upRows \in Seq(PoolRow) /\ Len(upRows) <= MaxRows
    /\ \A i, j \in DOMAIN upRows : upRows[i].id = upRows[j].id /\ upRows[i].id # 0 => i = j
    /\ \A i \in DOMAIN upRows : upRows[i].id # 0 => poolMode = "edit"
    /\ method \in Pool!Methods /\ upContext \in Pool!Contexts /\ Pool!Legal
    /\ rowEdits \in 0 .. MaxRowEdits

PoolApi ==
    /\ settings \in PoolSettings
    /\ backends \in [DOMAIN backends -> PoolBackend]
    /\ nextId \in Nat /\ nextId >= 3 /\ \A i \in DOMAIN backends : i \in 1 .. nextId - 1
    /\ poolFaults \in 0 .. MaxPoolFaults
PoolFlags == poolOpen \in BOOLEAN /\ poolError \in BOOLEAN /\ dirtyBase \in BOOLEAN

\* The round of the plan the save stands at, and what is left: its tail.
Round == Len(Pool!Plan) - Len(todo) + 1
PoolSaving ==
    /\ reply \in {"none", "sent", "ok", "err"} /\ (reply # "none" <=> Pool!saving)
    /\ poolOpen => poolMode # "off"
    /\ todo # <<>> =>
         /\ poolOpen
         /\ \A i \in DOMAIN upRows : Pool!validateRow(upRows[i])
         /\ Round \in 1 .. Len(Pool!Plan) /\ todo = SubSeq(Pool!Plan, Round, Len(Pool!Plan))
         /\ ~Pool!Needless(todo[1])
PoolTypes == PoolForm /\ PoolApi /\ PoolFlags /\ PoolSaving

\* The pool is what the form shows.
AsEntered == Pool!Held = Pool!Entered /\ settings = FormSettings

\* The rounds before k of the plan to change a pool have been applied to the
\* pool as it was opened, and nothing else has.
DoneTo(k) ==
    /\ k > 1 => settings = FormSettings
    /\ \A i \in DOMAIN original \ Pool!keptIds :
         /\ i \in DOMAIN backends <=> k <= 1 + i
         /\ i \in DOMAIN backends => backends[i] = original[i]
    /\ \A j \in DOMAIN upRows : upRows[j].id # 0 =>
         /\ upRows[j].id \in DOMAIN backends
         /\ backends[upRows[j].id] =
              IF 3 + j < k THEN Pool!rowToCreate(upRows[j]) ELSE original[upRows[j].id]
    /\ \A j \in DOMAIN upRows : (upRows[j].id = 0 /\ 3 + j < k) =>
         \E n \in DOMAIN backends \ DOMAIN original : backends[n] = Pool!rowToCreate(upRows[j])
    /\ \A n \in DOMAIN backends \ DOMAIN original :
         \E j \in DOMAIN upRows : backends[n] = Pool!rowToCreate(upRows[j])

\* How far a first save of a pool that is changed has come.
EditProgress ==
    (poolMode = "edit" /\ ~dirtyBase /\ poolOpen) =>
        /\ reply = "none" => backends = original
        /\ reply = "sent" => DoneTo(Round)
        /\ reply = "ok" => DoneTo(Round + 1)
        /\ reply = "err" => DoneTo(Round) \/ DoneTo(Round + 1)
NewProgress == (poolMode = "new" /\ reply = "ok") => AsEntered
Reconciled == (poolMode # "off" /\ ~poolOpen /\ ~dirtyBase) => AsEntered

PoolInv == PoolTypes /\ EditProgress /\ NewProgress /\ Reconciled

-----------------------------------------------------------------------------
(* Backends and rows.                                                      *)

\* A set of numbers has a least one.
LEMMA LeastNumber ==
    ASSUME NEW M, M \subseteq Nat, M # {}
    PROVE  Pool!Min(M) \in M /\ \A y \in M : Pool!Min(M) <= y
  <1>1. IsWellFoundedOn(OpToRel(<, Nat), Nat)
    BY NatLessThanWellFounded
  <1>2. PICK x \in M : \A y \in M : ~(<<y, x>> \in OpToRel(<, Nat))
    BY <1>1, WFMin
  <1>3. \A y \in M : ~(y < x)
    BY <1>2 DEF OpToRel
  <1>4. \A y \in M : x <= y
    BY <1>3
  <1> QED
    BY <1>4 DEF Pool!Min

LEMMA PoolAsOpened ==
    /\ DOMAIN Pool!OpenedPool = {1, 2}
    /\ Pool!OpenedPool \in [{1, 2} -> PoolBackend]
  <1>1. FALSE \in BOOLEAN
    BY Zenon
  <1>2. \A i \in {1, 2} : [addr |-> IF i = 1 THEN "a" ELSE "b", down |-> FALSE] \in PoolBackend
    BY <1>1, PoolConstants DEF PoolBackend
  <1> QED
    BY <1>2 DEF Pool!OpenedPool

\* A patch carries the fields that differ and so turns the backend into the row.
LEMMA PatchGivesRow ==
    ASSUME NEW r \in PoolRow, NEW o \in PoolBackend, NEW b, b = Pool!backendDiff(o, r)
    PROVE  /\ [f \in Pool!Fields |-> IF f \in DOMAIN b THEN b[f] ELSE o[f]] = Pool!rowToCreate(r)
           /\ DOMAIN b = {} => Pool!rowToCreate(r) = o
  <1>1. \A f \in Pool!Fields : (IF f \in DOMAIN b THEN b[f] ELSE o[f]) = r[f]
    BY DEF Pool!backendDiff
  <1>2. [f \in Pool!Fields |-> IF f \in DOMAIN b THEN b[f] ELSE o[f]] = [f \in Pool!Fields |-> r[f]]
    BY <1>1
  <1>3. [f \in Pool!Fields |-> r[f]] = Pool!rowToCreate(r)
    BY DEF Pool!Fields, Pool!rowToCreate
  <1>4. ASSUME DOMAIN b = {} PROVE Pool!rowToCreate(r) = o
    <2>1. r["addr"] = o["addr"] /\ r["down"] = o["down"]
      BY <1>4 DEF Pool!backendDiff, Pool!Fields
    <2> QED
      BY <2>1 DEF PoolBackend, PoolRow, Pool!rowToCreate
  <1> QED
    BY <1>2, <1>3, <1>4

\* Whatever it is applied to, a patch makes a backend again.
LEMMA PatchGivesBackend ==
    ASSUME NEW r \in PoolRow, Pool!validateRow(r), NEW o \in PoolBackend, NEW h \in PoolBackend,
           NEW b, b = Pool!backendDiff(o, r)
    PROVE  [f \in Pool!Fields |-> IF f \in DOMAIN b THEN b[f] ELSE h[f]] \in PoolBackend
  <1>1. \A f \in Pool!Fields : (IF f \in DOMAIN b THEN b[f] ELSE h[f]) \in {r[f], h[f]}
    BY DEF Pool!backendDiff
  <1>2. PICK g : g = [f \in Pool!Fields |-> IF f \in DOMAIN b THEN b[f] ELSE h[f]]
    OBVIOUS
  <1>3. g["addr"] \in {r["addr"], h["addr"]} /\ g["down"] \in {r["down"], h["down"]}
    BY <1>1, <1>2 DEF Pool!Fields
  <1>4. g = [addr |-> g["addr"], down |-> g["down"]]
    BY <1>2 DEF Pool!Fields
  <1>5. g["addr"] \in Addresses \ {""} /\ g["down"] \in BOOLEAN
    BY <1>3 DEF PoolRow, PoolBackend, Pool!validateRow
  <1> QED
    BY <1>2, <1>4, <1>5 DEF PoolBackend

LEMMA RowGivesBackend ==
    ASSUME NEW r \in PoolRow, Pool!validateRow(r)
    PROVE  Pool!rowToCreate(r) \in PoolBackend
  BY DEF PoolRow, PoolBackend, Pool!validateRow, Pool!rowToCreate

LEMMA FunctionIsSequence ==
    ASSUME NEW n \in Nat, NEW Z, NEW f \in [1 .. n -> Z]
    PROVE  f \in Seq(Z) /\ Len(f) = n
  OBVIOUS

LEMMA Joined ==
    ASSUME NEW Z, NEW s \in Seq(Z), NEW t \in Seq(Z), NEW w, w = s \o t
    PROVE  /\ w \in Seq(Z) /\ Len(w) = Len(s) + Len(t)
           /\ \A i \in 1 .. Len(s) : w[i] = s[i]
           /\ \A j \in 1 .. Len(t) : w[Len(s) + j] = t[j]
  OBVIOUS

\* The plan of a changed pool: the pool, the two backends, the rows.
LEMMA PlanIs ==
    ASSUME PoolForm, poolMode = "edit"
    PROVE  /\ \E Z : Pool!Plan \in Seq(Z)
           /\ Len(Pool!Plan) = 3 + Len(upRows)
           /\ Pool!Plan[1] = Pool!Op("update", 0, Pool!NoBackend)
           /\ \A i \in {1, 2} : Pool!Plan[1 + i] = Pool!Op("remove", i, Pool!NoBackend)
           /\ \A j \in 1 .. Len(upRows) : Pool!Plan[3 + j] = Pool!RowRequests[j]
  <1>1. upRows \in Seq(PoolRow) /\ DOMAIN upRows = 1 .. Len(upRows) /\ Len(upRows) \in Nat
    BY DEF PoolForm
  <1>2. PICK u : u = Pool!Op("update", 0, Pool!NoBackend)
    OBVIOUS
  <1>3. PICK r : r = Pool!Removals
    OBVIOUS
  <1>4. PICK s : s = Pool!RowRequests
    OBVIOUS
  <1>5. DOMAIN r = 1 .. 2 /\ \A i \in {1, 2} : r[i] = Pool!Op("remove", i, Pool!NoBackend)
    BY <1>3 DEF Pool!Removals
  <1>6. DOMAIN s = 1 .. Len(upRows) /\ s = [i \in 1 .. Len(upRows) |-> s[i]]
    BY <1>1, <1>4 DEF Pool!RowRequests
  <1>7. PICK Z : Z = {u, r[1], r[2]} \cup {s[i] : i \in 1 .. Len(upRows)}
    OBVIOUS
  <1>8. r \in Seq(Z) /\ Len(r) = 2
    <2>1. r \in [1 .. 2 -> Z]
      BY <1>3, <1>5, <1>7 DEF Pool!Removals
    <2> QED
      BY <2>1, FunctionIsSequence
  <1>9. s \in Seq(Z) /\ Len(s) = Len(upRows)
    <2>1. s \in [1 .. Len(upRows) -> Z]
      BY <1>6, <1>7
    <2> QED
      BY <1>1, <2>1, FunctionIsSequence
  <1>10. PICK v : v = << u >>
    OBVIOUS
  <1>11. v \in Seq(Z) /\ Len(v) = 1 /\ v[1] = u
    BY <1>7, <1>10
  <1>12. PICK p : p = v \o r
    OBVIOUS
  <1>13. p \in Seq(Z) /\ Len(p) = 3 /\ p[1] = u /\ p[2] = r[1] /\ p[3] = r[2]
    <2>1. v \in Seq(Z) /\ r \in Seq(Z)
      BY <1>8, <1>11
    <2>2. /\ p \in Seq(Z) /\ Len(p) = Len(v) + Len(r)
          /\ \A i \in 1 .. Len(v) : p[i] = v[i]
          /\ \A j \in 1 .. Len(r) : p[Len(v) + j] = r[j]
      BY <1>12, <2>1, Joined
    <2>3. 1 \in 1 .. Len(v) /\ 1 \in 1 .. Len(r) /\ 2 \in 1 .. Len(r)
      BY <1>8, <1>11
    <2>4. p[1] = v[1] /\ p[Len(v) + 1] = r[1] /\ p[Len(v) + 2] = r[2]
      BY <2>2, <2>3
    <2>5. Len(v) + 1 = 2 /\ Len(v) + 2 = 3 /\ Len(v) + Len(r) = 3
      BY <1>8, <1>11
    <2> QED
      BY <1>11, <2>2, <2>4, <2>5
  <1>14. PICK t : t = p \o s
    OBVIOUS
  <1>15. /\ t \in Seq(Z) /\ Len(t) = 3 + Len(upRows)
         /\ t[1] = u /\ t[2] = r[1] /\ t[3] = r[2]
         /\ \A j \in 1 .. Len(upRows) : t[3 + j] = s[j]
    <2>1. p \in Seq(Z) /\ s \in Seq(Z)
      BY <1>9, <1>13
    <2>2. /\ t \in Seq(Z) /\ Len(t) = Len(p) + Len(s)
          /\ \A i \in 1 .. Len(p) : t[i] = p[i]
          /\ \A j \in 1 .. Len(s) : t[Len(p) + j] = s[j]
      BY <1>14, <2>1, Joined
    <2>3. 1 \in 1 .. Len(p) /\ 2 \in 1 .. Len(p) /\ 3 \in 1 .. Len(p)
      BY <1>13
    <2>4. t[1] = p[1] /\ t[2] = p[2] /\ t[3] = p[3]
      BY <2>2, <2>3
    <2> QED
      BY <1>9, <1>13, <2>2, <2>4
  <1>16. Pool!Plan = t
    BY <1>2, <1>3, <1>4, <1>10, <1>12, <1>14 DEF Pool!Plan, Pool!NewId
  <1>17. Pool!Plan[2] = r[1] /\ Pool!Plan[3] = r[2]
    BY <1>15, <1>16
  <1>18. \A i \in {1, 2} : Pool!Plan[1 + i] = r[i]
    <2>1. 1 + 1 = 2 /\ 1 + 2 = 3
      OBVIOUS
    <2> QED
      BY <1>17, <2>1
  <1> QED
    BY <1>2, <1>4, <1>5, <1>15, <1>16, <1>18

LEMMA NewPlanIs ==
    ASSUME poolMode = "new"
    PROVE  /\ \E Z : Pool!Plan \in Seq(Z)
           /\ Len(Pool!Plan) = 1 /\ Pool!Plan[1] = Pool!Op("create", 0, Pool!NoBackend)
  <1>1. PICK u : u = Pool!Op("create", 0, Pool!NoBackend)
    OBVIOUS
  <1>2. << u >> \in Seq({u}) /\ Len(<< u >>) = 1 /\ << u >>[1] = u
    OBVIOUS
  <1>3. Pool!Plan = << u >>
    BY <1>1 DEF Pool!Plan, Pool!NewId
  <1> QED
    BY <1>1, <1>2, <1>3

\* A plan is a sequence, whichever it is.
LEMMA PlanIsSequence ==
    ASSUME PoolForm, poolMode # "off"
    PROVE  \E Z : Pool!Plan \in Seq(Z)
  BY PlanIs, NewPlanIs DEF PoolForm

LEMMA TailOfPlan ==
    ASSUME NEW Z, NEW p \in Seq(Z), NEW k \in 1 .. Len(p), NEW s, s = SubSeq(p, k, Len(p))
    PROVE  /\ s \in Seq(Z) /\ Len(s) = Len(p) - k + 1 /\ s[1] = p[k] /\ s # <<>>
           /\ Tail(s) \in Seq(Z) /\ Len(Tail(s)) = Len(p) - k
           /\ \A j \in 1 .. Len(p) - k : Tail(s)[j] = p[k + j]
  BY SMTT(30)

LEMMA SuffixIs ==
    ASSUME NEW Z, NEW p \in Seq(Z), NEW k \in 1 .. Len(p), NEW s, s = SubSeq(p, k, Len(p))
    PROVE  /\ s \in Seq(Z) /\ Len(s) = Len(p) - k + 1
           /\ \A j \in 1 .. Len(s) : s[j] = p[k + j - 1]
  OBVIOUS

\* What Due leaves: nothing when every round to come is needless, or the plan
\* from the first that is not.
LEMMA DueIs ==
    ASSUME PoolTypes, todo # <<>>
    PROVE  \/ /\ Pool!Due(Tail(todo)) = <<>>
              /\ \A x \in Round + 1 .. Len(Pool!Plan) : Pool!Needless(Pool!Plan[x])
           \/ \E m \in Round + 1 .. Len(Pool!Plan) :
                /\ Pool!Due(Tail(todo)) = SubSeq(Pool!Plan, m, Len(Pool!Plan))
                /\ ~Pool!Needless(Pool!Plan[m])
                /\ \A x \in Round + 1 .. m - 1 : Pool!Needless(Pool!Plan[x])
  <1>1. PICK p : p = Pool!Plan
    OBVIOUS
  <1>2. PICK k : k = Round
    OBVIOUS
  <1>3. PICK Z : p \in Seq(Z)
    BY <1>1, PlanIsSequence DEF PoolTypes, PoolSaving
  <1>4. k \in 1 .. Len(p) /\ todo = SubSeq(p, k, Len(p)) /\ Len(p) \in Nat
    BY <1>1, <1>2, <1>3 DEF PoolTypes, PoolSaving
  <1>5. PICK t : t = Tail(todo)
    OBVIOUS
  <1>6. t \in Seq(Z) /\ Len(t) = Len(p) - k /\ \A j \in 1 .. Len(p) - k : t[j] = p[k + j]
    BY <1>3, <1>4, <1>5, TailOfPlan
  <1>7. PICK W : W = {j \in DOMAIN t : ~Pool!Needless(t[j])}
    OBVIOUS
  <1>8. Pool!Due(t) = IF W = {} THEN <<>> ELSE SubSeq(t, Pool!Min(W), Len(t))
    BY <1>7 DEF Pool!Due
  <1>9. DOMAIN t = 1 .. Len(p) - k
    BY <1>6
  <1>10. CASE W = {}
    <2>1. \A j \in 1 .. Len(p) - k : Pool!Needless(p[k + j])
      BY <1>6, <1>7, <1>9, <1>10
    <2>2. ASSUME NEW x \in k + 1 .. Len(p) PROVE Pool!Needless(p[x])
      <3>1. x - k \in 1 .. Len(p) - k /\ k + (x - k) = x
        BY <1>4
      <3> QED
        BY <2>1, <3>1
    <2> QED
      BY <1>1, <1>2, <1>5, <1>8, <1>10, <2>2
  <1>11. CASE W # {}
    <2>1. PICK m : m = Pool!Min(W)
      OBVIOUS
    <2>2. m \in W /\ \A y \in W : m <= y
      <3>1. W \subseteq Nat
        BY <1>4, <1>7, <1>9
      <3> QED
        BY <1>11, <2>1, <3>1, LeastNumber
    <2>3. m \in 1 .. Len(p) - k /\ ~Pool!Needless(p[k + m])
      BY <1>6, <1>7, <1>9, <2>2
    <2>4. SubSeq(t, m, Len(t)) = SubSeq(p, k + m, Len(p))
      <3>1. PICK a : a = SubSeq(t, m, Len(t))
        OBVIOUS
      <3>2. PICK b : b = SubSeq(p, k + m, Len(p))
        OBVIOUS
      <3>3. /\ a \in Seq(Z) /\ Len(a) = Len(p) - k - m + 1
            /\ \A j \in 1 .. Len(a) : a[j] = t[m + j - 1]
        <4>1. t \in Seq(Z) /\ m \in 1 .. Len(t)
          BY <1>6, <2>3
        <4>2. /\ a \in Seq(Z) /\ Len(a) = Len(t) - m + 1
              /\ \A j \in 1 .. Len(a) : a[j] = t[m + j - 1]
          BY <3>1, <4>1, SuffixIs
        <4>3. Len(t) - m + 1 = Len(p) - k - m + 1
          BY <1>4, <1>6, <2>3
        <4> QED
          BY <4>2, <4>3
      <3>4. /\ b \in Seq(Z) /\ Len(b) = Len(p) - k - m + 1
            /\ \A j \in 1 .. Len(b) : b[j] = p[k + m + j - 1]
        <4>1. p \in Seq(Z) /\ k + m \in 1 .. Len(p)
          BY <1>3, <1>4, <2>3
        <4>2. /\ b \in Seq(Z) /\ Len(b) = Len(p) - (k + m) + 1
              /\ \A j \in 1 .. Len(b) : b[j] = p[k + m + j - 1]
          BY <3>2, <4>1, SuffixIs
        <4>3. Len(p) - (k + m) + 1 = Len(p) - k - m + 1
          BY <1>4, <2>3
        <4> QED
          BY <4>2, <4>3
      <3>5. \A j \in 1 .. Len(p) - k - m + 1 : a[j] = t[m + j - 1]
        BY <3>3
      <3>6. \A j \in 1 .. Len(p) - k - m + 1 : b[j] = p[k + m + j - 1]
        BY <3>4
      <3>7. \A j \in 1 .. Len(p) - k - m + 1 : t[m + j - 1] = p[k + (m + j - 1)]
        <4> TAKE j \in 1 .. Len(p) - k - m + 1
        <4>1. m + j - 1 \in 1 .. Len(p) - k
          BY <1>4, <2>3
        <4> QED
          BY <1>6, <4>1
      <3>8. \A j \in 1 .. Len(p) - k - m + 1 : a[j] = b[j]
        <4> TAKE j \in 1 .. Len(p) - k - m + 1
        <4>1. k + (m + j - 1) = k + m + j - 1
          BY <1>4, <2>3
        <4> QED
          BY <3>5, <3>6, <3>7, <4>1
      <3>9. PICK n : n = Len(p) - k - m + 1
        OBVIOUS
      <3>10. DOMAIN a = 1 .. n /\ DOMAIN b = 1 .. n /\ a \in [1 .. n -> Z] /\ b \in [1 .. n -> Z]
        BY <3>3, <3>4, <3>9
      <3>11. a = b
        BY <3>8, <3>9, <3>10
      <3> QED
        BY <3>1, <3>2, <3>11
    <2>5. PICK z : z = k + m
      OBVIOUS
    <2>6. ASSUME NEW x \in k + 1 .. z - 1 PROVE Pool!Needless(p[x])
      <3>1. x - k \in 1 .. Len(p) - k /\ k + (x - k) = x /\ ~(m <= x - k)
        BY <1>4, <2>3, <2>5
      <3>2. x - k \notin W
        BY <2>2, <3>1
      <3> QED
        BY <1>6, <1>7, <1>9, <3>1, <3>2
    <2>7. z \in k + 1 .. Len(p)
      BY <1>4, <2>3, <2>5
    <2>8. Pool!Due(t) = SubSeq(p, z, Len(p))
      BY <1>8, <1>11, <2>1, <2>4, <2>5
    <2>9. ~Pool!Needless(p[z]) /\ \A x \in k + 1 .. z - 1 : Pool!Needless(p[x])
      <3>1. ~Pool!Needless(p[z])
        BY <2>3, <2>5
      <3> QED
        BY <2>6, <3>1
    <2> QED
      BY <1>1, <1>2, <1>5, <2>7, <2>8, <2>9
  <1> QED
    BY <1>10, <1>11

\* A request in flight is the round of the plan the save stands at.
LEMMA HeadIs ==
    ASSUME PoolTypes, todo # <<>>
    PROVE  /\ todo[1] = Pool!Plan[Round] /\ Round \in 1 .. Len(Pool!Plan)
           /\ Len(Pool!Plan) \in Nat
  <1>1. PICK p : p = Pool!Plan
    OBVIOUS
  <1>2. PICK k : k = Round
    OBVIOUS
  <1>3. PICK Z : p \in Seq(Z)
    BY <1>1, PlanIsSequence DEF PoolTypes, PoolSaving
  <1>4. k \in 1 .. Len(p) /\ todo = SubSeq(p, k, Len(p)) /\ Len(p) \in Nat
    BY <1>1, <1>2, <1>3 DEF PoolTypes, PoolSaving
  <1>5. todo[1] = p[k]
    BY <1>3, <1>4, TailOfPlan
  <1> QED
    BY <1>1, <1>2, <1>4, <1>5

-----------------------------------------------------------------------------
(* What the API does with each request of a plan.                          *)

PoolCreated ==
    /\ poolMode = "new" /\ settings' = FormSettings /\ nextId' = 3 + Len(upRows)
    /\ backends' = [i \in 3 .. 2 + Len(upRows) |-> Pool!rowToCreate(upRows[i - 2])]
PoolUpdated ==
    /\ poolMode = "edit" /\ Round = 1 /\ settings' = FormSettings
    /\ backends' = backends /\ nextId' = nextId
PoolRemoved(i) ==
    /\ poolMode = "edit" /\ Round = 1 + i /\ i \notin Pool!keptIds
    /\ settings' = settings /\ nextId' = nextId
    /\ backends' = [n \in DOMAIN backends \ {i} |-> backends[n]]
PoolAdded(j) ==
    /\ poolMode = "edit" /\ Round = 3 + j /\ upRows[j].id = 0
    /\ settings' = settings /\ nextId' = nextId + 1
    /\ backends' = [n \in DOMAIN backends \cup {nextId} |->
                      IF n = nextId THEN Pool!rowToCreate(upRows[j]) ELSE backends[n]]
PatchedRow(j) ==
    LET b == Pool!backendDiff(original[upRows[j].id], upRows[j])
    IN  [f \in Pool!Fields |-> IF f \in DOMAIN b THEN b[f] ELSE backends[upRows[j].id][f]]
PoolPatched(j) ==
    /\ poolMode = "edit" /\ Round = 3 + j /\ upRows[j].id # 0
    /\ upRows[j].id \in DOMAIN backends
    /\ settings' = settings /\ nextId' = nextId
    /\ backends' = [backends EXCEPT ![upRows[j].id] = PatchedRow(j)]

LEMMA Effect ==
    ASSUME PoolTypes, todo # <<>>, Pool!Accepts(todo[1]), Pool!Apply(todo[1])
    PROVE  \/ PoolCreated \/ PoolUpdated \/ \E i \in {1, 2} : PoolRemoved(i)
           \/ \E j \in 1 .. Len(upRows) : PoolAdded(j) \/ PoolPatched(j)
  <1>1. todo[1] = Pool!Plan[Round] /\ Round \in 1 .. Len(Pool!Plan)
    BY HeadIs
  <1>2. poolMode \in {"new", "edit"} /\ ~Pool!Needless(todo[1])
    BY DEF PoolTypes, PoolForm, PoolSaving
  <1>3. CASE poolMode = "new"
    <2>1. todo[1] = Pool!Op("create", 0, Pool!NoBackend)
      <3>1. Len(Pool!Plan) = 1
        BY <1>3, NewPlanIs
      <3>2. Round = 1
        BY <1>1, <3>1
      <3> QED
        BY <1>1, <1>3, <3>2, NewPlanIs
    <2>2. todo[1].op = "create"
      BY <2>1 DEF Pool!Op
    <2> QED
      BY <1>3, <2>2 DEF Pool!Apply, PoolCreated, FormSettings
  <1>4. CASE poolMode = "edit"
    <2>1. Len(upRows) \in Nat /\ Len(Pool!Plan) = 3 + Len(upRows)
      BY <1>4, PlanIs DEF PoolTypes, PoolForm
    <2>2. CASE Round = 1
      <3>1. todo[1].op = "update"
        BY <1>1, <1>4, <2>2, PlanIs DEF PoolTypes, Pool!Op
      <3> QED
        BY <1>4, <2>2, <3>1 DEF Pool!Apply, PoolUpdated, FormSettings
    <2>3. ASSUME NEW i \in {1, 2}, Round = 1 + i PROVE PoolRemoved(i)
      <3>1. todo[1] = Pool!Op("remove", i, Pool!NoBackend)
        BY <1>1, <1>4, <2>3, PlanIs DEF PoolTypes
      <3>2. todo[1].op = "remove" /\ todo[1].id = i
        BY <3>1 DEF Pool!Op
      <3>3. i \notin Pool!keptIds
        BY <1>2, <3>2 DEF Pool!Needless
      <3> QED
        BY <1>4, <2>3, <3>2, <3>3 DEF Pool!Apply, PoolRemoved
    <2>4. ASSUME NEW j \in 1 .. Len(upRows), Round = 3 + j PROVE PoolAdded(j) \/ PoolPatched(j)
      <3>1. todo[1] = Pool!RowRequests[j] /\ j \in DOMAIN upRows
        BY <1>1, <1>4, <2>4, PlanIs DEF PoolTypes, PoolForm
      <3>2. CASE upRows[j].id = 0
        <4>1. todo[1] = Pool!Op("add", 0, Pool!rowToCreate(upRows[j]))
          BY <3>1, <3>2 DEF Pool!RowRequests, Pool!NewId
        <4>2. todo[1].op = "add" /\ todo[1].b = Pool!rowToCreate(upRows[j])
          BY <4>1 DEF Pool!Op
        <4> QED
          BY <1>4, <2>4, <3>2, <4>2 DEF Pool!Apply, PoolAdded
      <3>3. CASE upRows[j].id # 0
        <4>1. todo[1] = Pool!Op("patch", upRows[j].id,
                                Pool!backendDiff(original[upRows[j].id], upRows[j]))
          BY <3>1, <3>3 DEF Pool!RowRequests, Pool!NewId
        <4>2. /\ todo[1].op = "patch" /\ todo[1].id = upRows[j].id
              /\ todo[1].b = Pool!backendDiff(original[upRows[j].id], upRows[j])
          BY <4>1 DEF Pool!Op
        <4>3. Pool!Patched(todo[1]) = PatchedRow(j)
          BY <4>2 DEF Pool!Patched, PatchedRow
        <4>4. upRows[j].id \in DOMAIN backends
          BY <4>2 DEF Pool!Accepts
        <4> QED
          BY <1>4, <2>4, <3>3, <4>2, <4>3, <4>4 DEF Pool!Apply, PoolPatched
      <3> QED
        BY <3>2, <3>3
    <2>5. Round = 1 \/ Round = 1 + 1 \/ Round = 1 + 2 \/ \E j \in 1 .. Len(upRows) : Round = 3 + j
      <3>1. PICK k : k = Round
        OBVIOUS
      <3>2. k \in 1 .. 3 + Len(upRows)
        BY <1>1, <2>1, <3>1
      <3>3. k = 1 \/ k = 2 \/ k = 3 \/ (k - 3 \in 1 .. Len(upRows) /\ k = 3 + (k - 3))
        BY <2>1, <3>2
      <3> QED
        BY <3>1, <3>3
    <2> QED
      BY <2>2, <2>3, <2>4, <2>5
  <1> QED
    BY <1>2, <1>3, <1>4

\* The pool keeps its types, whatever is applied.
LEMMA EffectTyped ==
    ASSUME PoolTypes, todo # <<>>, Pool!Accepts(todo[1]), Pool!Apply(todo[1])
    PROVE  /\ settings' \in PoolSettings
           /\ backends' \in [DOMAIN backends' -> PoolBackend]
           /\ nextId' \in Nat /\ nextId' >= 3 /\ \A i \in DOMAIN backends' : i \in 1 .. nextId' - 1
  <1>1. /\ \A j \in 1 .. Len(upRows) : upRows[j] \in PoolRow /\ Pool!validateRow(upRows[j])
        /\ FormSettings \in PoolSettings /\ settings \in PoolSettings /\ Len(upRows) \in Nat
    BY DEF PoolTypes, PoolForm, PoolApi, PoolSaving, FormSettings, PoolSettings
  <1>2. /\ backends \in [DOMAIN backends -> PoolBackend] /\ nextId \in Nat /\ nextId >= 3
        /\ \A i \in DOMAIN backends : i \in 1 .. nextId - 1
    BY DEF PoolTypes, PoolApi
  <1>3. CASE PoolCreated
    <2>1. \A i \in 3 .. 2 + Len(upRows) : Pool!rowToCreate(upRows[i - 2]) \in PoolBackend
      <3> TAKE i \in 3 .. 2 + Len(upRows)
      <3>1. i - 2 \in 1 .. Len(upRows)
        BY <1>1
      <3> QED
        BY <1>1, <3>1, RowGivesBackend
    <2>2. /\ DOMAIN backends' = 3 .. 2 + Len(upRows)
          /\ backends' \in [3 .. 2 + Len(upRows) -> PoolBackend]
      BY <1>3, <2>1 DEF PoolCreated
    <2>3. nextId' = 3 + Len(upRows) /\ settings' = FormSettings
      BY <1>3 DEF PoolCreated
    <2> QED
      BY <1>1, <2>2, <2>3
  <1>4. CASE PoolUpdated
    BY <1>1, <1>2, <1>4 DEF PoolUpdated
  <1>5. ASSUME NEW i \in {1, 2}, PoolRemoved(i)
        PROVE  /\ settings' \in PoolSettings
               /\ backends' \in [DOMAIN backends' -> PoolBackend]
               /\ nextId' \in Nat /\ nextId' >= 3
               /\ \A n \in DOMAIN backends' : n \in 1 .. nextId' - 1
    BY <1>1, <1>2, <1>5 DEF PoolRemoved
  <1>6. ASSUME NEW j \in 1 .. Len(upRows), PoolAdded(j)
        PROVE  /\ settings' \in PoolSettings
               /\ backends' \in [DOMAIN backends' -> PoolBackend]
               /\ nextId' \in Nat /\ nextId' >= 3
               /\ \A n \in DOMAIN backends' : n \in 1 .. nextId' - 1
    <2>1. Pool!rowToCreate(upRows[j]) \in PoolBackend
      BY <1>1, RowGivesBackend
    <2> QED
      BY <1>1, <1>2, <1>6, <2>1 DEF PoolAdded
  <1>7. ASSUME NEW j \in 1 .. Len(upRows), PoolPatched(j)
        PROVE  /\ settings' \in PoolSettings
               /\ backends' \in [DOMAIN backends' -> PoolBackend]
               /\ nextId' \in Nat /\ nextId' >= 3
               /\ \A n \in DOMAIN backends' : n \in 1 .. nextId' - 1
    <2>1. upRows[j].id \in {1, 2} /\ original[upRows[j].id] \in PoolBackend
      BY <1>1, <1>7, PoolAsOpened DEF PoolPatched, PoolRow, PoolTypes, PoolForm
    <2>2. PatchedRow(j) \in PoolBackend
      <3>1. backends[upRows[j].id] \in PoolBackend
        BY <1>2, <1>7 DEF PoolPatched
      <3> QED
        BY <1>1, <2>1, <3>1, PatchGivesBackend DEF PatchedRow
    <2> QED
      BY <1>1, <1>2, <1>7, <2>2 DEF PoolPatched
  <1> QED
    BY <1>3, <1>4, <1>5, <1>6, <1>7, Effect

-----------------------------------------------------------------------------
(* A save of a changed pool, round by round.                               *)

\* The form and the plan do not change while a request is in flight.
SameForm == UNCHANGED <<poolMode, original, upRows, method, upContext, todo>>

LEMMA SamePlan ==
    ASSUME UNCHANGED <<poolMode, original, upRows>>
    PROVE  /\ Pool!Plan' = Pool!Plan /\ Pool!keptIds' = Pool!keptIds
           /\ \A q : Pool!Needless(q)' <=> Pool!Needless(q)
  <1>1. Pool!keptIds' = Pool!keptIds
    BY DEF Pool!keptIds
  <1>2. Pool!Removals' = Pool!Removals /\ Pool!RowRequests' = Pool!RowRequests
    BY DEF Pool!Removals, Pool!RowRequests, Pool!Op, Pool!NoBackend, Pool!NewId, Pool!rowToCreate,
           Pool!backendDiff, Pool!Fields
  <1>3. Pool!Plan' = Pool!Plan
    BY <1>2 DEF Pool!Plan, Pool!Op, Pool!NoBackend, Pool!NewId
  <1> QED
    BY <1>1, <1>3 DEF Pool!Needless

\* What DoneTo depends on.
LEMMA DoneToSame ==
    ASSUME UNCHANGED <<poolMode, original, upRows, method, upContext, backends, settings>>, NEW k,
           DoneTo(k)
    PROVE  DoneTo(k)'
  BY SamePlan DEF DoneTo, FormSettings, Pool!rowToCreate

\* Each request that is accepted is one round further.
LEMMA RoundDone ==
    ASSUME PoolTypes, todo # <<>>, poolMode = "edit", SameForm,
           NEW k, k = Round, DoneTo(k), Pool!Accepts(todo[1]), Pool!Apply(todo[1])
    PROVE  DoneTo(k + 1)'
  <1>1. /\ \A j \in DOMAIN upRows : upRows[j] \in PoolRow
        /\ DOMAIN upRows = 1 .. Len(upRows) /\ Len(upRows) \in Nat
        /\ \A i, j \in DOMAIN upRows : upRows[i].id = upRows[j].id /\ upRows[i].id # 0 => i = j
        /\ DOMAIN original = {1, 2} /\ original \in [{1, 2} -> PoolBackend]
    BY PoolAsOpened DEF PoolTypes, PoolForm
  <1>2. /\ backends \in [DOMAIN backends -> PoolBackend] /\ nextId \in Nat /\ nextId >= 3
        /\ \A i \in DOMAIN backends : i \in 1 .. nextId - 1
    BY DEF PoolTypes, PoolApi
  <1>3. /\ Pool!keptIds' = Pool!keptIds /\ FormSettings' = FormSettings
        /\ UNCHANGED <<original, upRows>>
        /\ \A j \in DOMAIN upRows : Pool!rowToCreate(upRows[j])' = Pool!rowToCreate(upRows[j])
    BY SamePlan DEF SameForm, FormSettings, Pool!rowToCreate
  <1>4. \A j \in DOMAIN upRows : upRows[j].id \in Pool!keptIds /\ upRows[j].id \in {0, 1, 2}
    BY <1>1 DEF Pool!keptIds, PoolRow
  <1>5. CASE PoolUpdated
    BY <1>1, <1>3, <1>5 DEF PoolUpdated, DoneTo
  <1>6. ASSUME NEW i \in {1, 2}, PoolRemoved(i) PROVE DoneTo(k + 1)'
    BY <1>1, <1>2, <1>3, <1>4, <1>6 DEF PoolRemoved, DoneTo
  <1>7. ASSUME NEW j \in 1 .. Len(upRows), PoolAdded(j) PROVE DoneTo(k + 1)'
    <2>1. /\ k = 3 + j /\ upRows[j].id = 0 /\ settings' = settings
          /\ DOMAIN backends' = DOMAIN backends \cup {nextId}
          /\ backends'[nextId] = Pool!rowToCreate(upRows[j])
          /\ \A n \in DOMAIN backends : n # nextId /\ backends'[n] = backends[n]
          /\ nextId \notin {1, 2} /\ k \in Int /\ k > 3
      BY <1>1, <1>2, <1>7 DEF PoolAdded
    <2>2. settings' = FormSettings
      BY <2>1 DEF DoneTo
    <2>3. \A i \in DOMAIN original \ Pool!keptIds : i \notin DOMAIN backends' /\ ~(k + 1 <= 1 + i)
      BY <1>1, <2>1 DEF DoneTo
    <2>4. ASSUME NEW x \in DOMAIN upRows, upRows[x].id # 0
          PROVE  /\ upRows[x].id \in DOMAIN backends'
                 /\ backends'[upRows[x].id] = IF 3 + x < k + 1 THEN Pool!rowToCreate(upRows[x])
                                              ELSE original[upRows[x].id]
      <3>1. x # j /\ x \in Int /\ j \in Int
        BY <1>1, <2>1, <2>4
      <3>2. 3 + x < k + 1 <=> 3 + x < k
        BY <2>1, <3>1
      <3> QED
        BY <2>1, <2>4, <3>2 DEF DoneTo
    <2>5. ASSUME NEW x \in DOMAIN upRows, upRows[x].id = 0, 3 + x < k + 1
          PROVE  \E n \in DOMAIN backends' \ DOMAIN original :
                   backends'[n] = Pool!rowToCreate(upRows[x])
      <3>1. CASE x = j
        BY <1>1, <2>1, <3>1
      <3>2. CASE x # j
        <4>1. 3 + x < k
          BY <1>1, <2>1, <2>5, <3>2
        <4>2. PICK n \in DOMAIN backends \ DOMAIN original :
                backends[n] = Pool!rowToCreate(upRows[x])
          BY <2>5, <4>1 DEF DoneTo
        <4> QED
          BY <2>1, <4>2
      <3> QED
        BY <3>1, <3>2
    <2>6. \A n \in DOMAIN backends' \ DOMAIN original :
            \E x \in DOMAIN upRows : backends'[n] = Pool!rowToCreate(upRows[x])
      BY <1>1, <2>1 DEF DoneTo
    <2> QED
      BY <1>3, <2>2, <2>3, <2>4, <2>5, <2>6 DEF DoneTo
  <1>8. ASSUME NEW j \in 1 .. Len(upRows), PoolPatched(j) PROVE DoneTo(k + 1)'
    <2>1. PICK r : r = upRows[j].id
      OBVIOUS
    <2>2. /\ k = 3 + j /\ r # 0 /\ settings' = settings /\ r \in DOMAIN backends
          /\ backends' = [backends EXCEPT ![r] = PatchedRow(j)] /\ k \in Int /\ k > 3
      BY <1>1, <1>8, <2>1 DEF PoolPatched
    <2>3. r \in {1, 2} /\ r \in Pool!keptIds
      BY <1>1, <1>4, <2>1, <2>2
    <2>4. backends[r] = original[r] /\ original[r] \in PoolBackend
      BY <1>1, <2>1, <2>2, <2>3 DEF DoneTo
    <2>5. PatchedRow(j) = Pool!rowToCreate(upRows[j])
      BY <1>1, <2>1, <2>4, PatchGivesRow DEF PatchedRow
    <2>6. /\ DOMAIN backends' = DOMAIN backends /\ backends'[r] = Pool!rowToCreate(upRows[j])
          /\ \A n \in DOMAIN backends : n # r => backends'[n] = backends[n]
      BY <2>2, <2>5
    <2>7. settings' = FormSettings
      BY <2>2 DEF DoneTo
    <2>8. \A i \in DOMAIN original \ Pool!keptIds : i \notin DOMAIN backends' /\ ~(k + 1 <= 1 + i)
      BY <1>1, <2>2, <2>6 DEF DoneTo
    <2>9. ASSUME NEW x \in DOMAIN upRows, upRows[x].id # 0
          PROVE  /\ upRows[x].id \in DOMAIN backends'
                 /\ backends'[upRows[x].id] = IF 3 + x < k + 1 THEN Pool!rowToCreate(upRows[x])
                                              ELSE original[upRows[x].id]
      <3>1. CASE x = j
        BY <1>1, <2>1, <2>2, <2>6, <3>1
      <3>2. CASE x # j
        <4>1. upRows[x].id # r
          BY <1>1, <2>1, <2>9, <3>2
        <4>2. 3 + x < k + 1 <=> 3 + x < k
          BY <1>1, <2>2, <3>2
        <4> QED
          BY <2>6, <2>9, <4>1, <4>2 DEF DoneTo
      <3> QED
        BY <3>1, <3>2
    <2>10. ASSUME NEW x \in DOMAIN upRows, upRows[x].id = 0, 3 + x < k + 1
           PROVE  \E n \in DOMAIN backends' \ DOMAIN original :
                    backends'[n] = Pool!rowToCreate(upRows[x])
      <3>1. 3 + x < k
        BY <1>1, <2>1, <2>2, <2>10
      <3>2. PICK n \in DOMAIN backends \ DOMAIN original : backends[n] = Pool!rowToCreate(upRows[x])
        BY <2>10, <3>1 DEF DoneTo
      <3> QED
        BY <1>1, <2>3, <2>6, <3>2
    <2>11. \A n \in DOMAIN backends' \ DOMAIN original :
             \E x \in DOMAIN upRows : backends'[n] = Pool!rowToCreate(upRows[x])
      BY <1>1, <2>3, <2>6 DEF DoneTo
    <2> QED
      BY <1>3, <2>7, <2>8, <2>9, <2>10, <2>11 DEF DoneTo
  <1> QED
    BY <1>5, <1>6, <1>7, <1>8, Effect DEF PoolCreated

\* Rounds that ask for nothing may be passed over.
LEMMA RoundsPassed ==
    ASSUME PoolTypes, poolMode = "edit", NEW k \in 2 .. Len(Pool!Plan) + 1, DoneTo(k),
           NEW m \in k .. Len(Pool!Plan) + 1,
           \A x \in k .. m - 1 : Pool!Needless(Pool!Plan[x])
    PROVE  DoneTo(m)
  <1>1. /\ \A j \in DOMAIN upRows : upRows[j] \in PoolRow
        /\ DOMAIN upRows = 1 .. Len(upRows) /\ Len(upRows) \in Nat
        /\ DOMAIN original = {1, 2} /\ original \in [{1, 2} -> PoolBackend]
        /\ Len(Pool!Plan) = 3 + Len(upRows)
    BY PoolAsOpened, PlanIs DEF PoolTypes, PoolForm
  <1>2. ASSUME NEW i \in DOMAIN original \ Pool!keptIds
        PROVE  k <= 1 + i <=> m <= 1 + i
    <2>1. ~Pool!Needless(Pool!Plan[1 + i])
      <3>1. Pool!Plan[1 + i] = Pool!Op("remove", i, Pool!NoBackend)
        BY <1>1, PlanIs DEF PoolTypes
      <3>2. Pool!Plan[1 + i].op = "remove" /\ Pool!Plan[1 + i].id = i
        BY <3>1 DEF Pool!Op
      <3> QED
        BY <3>2 DEF Pool!Needless
    <2>2. 1 + i \notin k .. m - 1
      BY <2>1
    <2> QED
      BY <1>1, <2>2
  <1>3. ASSUME NEW j \in DOMAIN upRows, upRows[j].id # 0, 3 + j < m, ~(3 + j < k)
        PROVE  Pool!rowToCreate(upRows[j]) = original[upRows[j].id]
    <2>1. 3 + j \in k .. m - 1
      BY <1>1, <1>3
    <2>2. Pool!Plan[3 + j] = Pool!Op("patch", upRows[j].id,
                                     Pool!backendDiff(original[upRows[j].id], upRows[j]))
      BY <1>1, <1>3, PlanIs DEF PoolTypes, Pool!RowRequests, Pool!NewId
    <2>3. DOMAIN Pool!backendDiff(original[upRows[j].id], upRows[j]) = {}
      <3>1. Pool!Needless(Pool!Plan[3 + j])
        BY <2>1
      <3>2. /\ Pool!Plan[3 + j].op = "patch"
            /\ Pool!Plan[3 + j].b = Pool!backendDiff(original[upRows[j].id], upRows[j])
        BY <2>2 DEF Pool!Op
      <3> QED
        BY <3>1, <3>2 DEF Pool!Needless
    <2>4. original[upRows[j].id] \in PoolBackend
      BY <1>1, <1>3 DEF PoolRow
    <2> QED
      BY <1>1, <2>3, <2>4, PatchGivesRow
  <1>4. ASSUME NEW j \in DOMAIN upRows, upRows[j].id = 0, 3 + j < m
        PROVE  3 + j < k
    <2>1. Pool!Plan[3 + j] = Pool!Op("add", 0, Pool!rowToCreate(upRows[j]))
      BY <1>1, <1>4, PlanIs DEF PoolTypes, Pool!RowRequests, Pool!NewId
    <2>2. ~Pool!Needless(Pool!Plan[3 + j])
      BY <2>1 DEF Pool!Needless, Pool!Op
    <2>3. 3 + j \notin k .. m - 1
      BY <2>2
    <2> QED
      BY <1>1, <1>4, <2>3
  <1>5. k > 1 /\ k <= m /\ k \in Int /\ m \in Int
    BY <1>1
  <1> QED
    BY <1>1, <1>2, <1>3, <1>4, <1>5 DEF DoneTo

\* A plan that is done to its end leaves the pool as entered.
LEMMA AllDone ==
    ASSUME PoolTypes, poolMode = "edit", DoneTo(Len(Pool!Plan) + 1)
    PROVE  AsEntered
  <1>1. /\ \A j \in DOMAIN upRows : upRows[j] \in PoolRow
        /\ DOMAIN upRows = 1 .. Len(upRows) /\ Len(upRows) \in Nat
        /\ DOMAIN original = {1, 2} /\ Len(Pool!Plan) = 3 + Len(upRows)
    BY PoolAsOpened, PlanIs DEF PoolTypes, PoolForm
  <1>2. settings = FormSettings
    BY <1>1 DEF DoneTo
  <1>3. ASSUME NEW n \in DOMAIN backends
        PROVE  \E j \in DOMAIN upRows : backends[n] = Pool!rowToCreate(upRows[j])
    <2>1. CASE n \in DOMAIN original \ Pool!keptIds
      BY <1>1, <1>3, <2>1 DEF DoneTo
    <2>2. CASE n \in DOMAIN original /\ n \in Pool!keptIds
      <3>1. PICK j \in DOMAIN upRows : upRows[j].id = n
        BY <2>2 DEF Pool!keptIds
      <3> QED
        BY <1>1, <2>2, <3>1 DEF DoneTo
    <2>3. CASE n \notin DOMAIN original
      BY <1>3, <2>3 DEF DoneTo
    <2> QED
      BY <2>1, <2>2, <2>3
  <1>4. ASSUME NEW j \in DOMAIN upRows
        PROVE  \E n \in DOMAIN backends : backends[n] = Pool!rowToCreate(upRows[j])
    BY <1>1, <1>4 DEF DoneTo
  <1> QED
    BY <1>2, <1>3, <1>4 DEF AsEntered, Pool!Held, Pool!Entered

-----------------------------------------------------------------------------
(* The form.                                                               *)

LEMMA EmptyRow == Pool!newRow \in PoolRow /\ Pool!newRow.id = 0
  <1>1. FALSE \in BOOLEAN
    BY Zenon
  <1> QED
    BY <1>1, PoolConstants DEF Pool!newRow, PoolRow, Pool!NewId

\* A row keeps its identity through a change.
LEMMA RowChanged ==
    ASSUME PoolForm, NEW i \in DOMAIN upRows, NEW r \in PoolRow, r.id = upRows[i].id,
           upRows' = [upRows EXCEPT ![i] = r]
    PROVE  /\ upRows' \in Seq(PoolRow) /\ Len(upRows') = Len(upRows)
           /\ DOMAIN upRows' = DOMAIN upRows
           /\ \A j \in DOMAIN upRows : upRows'[j].id = upRows[j].id
  BY DEF PoolForm

LEMMA OneMoreEdit ==
    ASSUME PoolForm, rowEdits < MaxRowEdits, rowEdits' = rowEdits + 1
    PROVE  rowEdits' \in 0 .. MaxRowEdits
  <1>1. MaxRowEdits \in Nat
    BY PoolConstants
  <1>2. rowEdits \in 0 .. MaxRowEdits
    BY DEF PoolForm
  <1> QED
    BY <1>1, <1>2

LEMMA FormStep ==
    ASSUME PoolTypes, Pool!PoolNext
    PROVE  PoolForm'
  <1> USE DEF Pool!theRest, Pool!theSave, Pool!theApi
  <1>1. ASSUME NEW c \in Pool!Contexts, Pool!changeContext(c) PROVE PoolForm'
    <2>1. /\ upContext' = c /\ rowEdits' = rowEdits + 1 /\ rowEdits < MaxRowEdits
          /\ method' = IF c # "http" /\ method = "ip_hash" THEN "round_robin" ELSE method
          /\ UNCHANGED <<upRows, poolMode, original>>
      BY <1>1 DEF Pool!changeContext, Pool!FormEdit
    <2>2. method' \in Pool!Methods /\ Pool!Legal'
      BY <2>1 DEF PoolTypes, PoolForm, Pool!Methods, Pool!Legal
    <2>3. rowEdits' \in 0 .. MaxRowEdits
      BY <2>1, OneMoreEdit DEF PoolTypes
    <2> QED
      BY <2>1, <2>2, <2>3 DEF PoolTypes, PoolForm
  <1>2. ASSUME NEW m \in Pool!Methods, Pool!ChooseMethod(m) PROVE PoolForm'
    <2>1. /\ method' = m /\ rowEdits' = rowEdits + 1 /\ rowEdits < MaxRowEdits
          /\ upContext # "http" => m # "ip_hash"
          /\ UNCHANGED <<upRows, upContext, poolMode, original>>
      BY <1>2 DEF Pool!ChooseMethod, Pool!FormEdit
    <2>2. Pool!Legal'
      BY <2>1 DEF Pool!Legal
    <2>3. rowEdits' \in 0 .. MaxRowEdits
      BY <2>1, OneMoreEdit DEF PoolTypes
    <2> QED
      BY <2>1, <2>2, <2>3 DEF PoolTypes, PoolForm
  <1>3. ASSUME NEW i \in 1 .. MaxRows, Pool!updateRow(i) PROVE PoolForm'
    <2>1. /\ rowEdits' = rowEdits + 1 /\ rowEdits < MaxRowEdits /\ i \in DOMAIN upRows
          /\ UNCHANGED <<method, upContext, poolMode, original>>
      BY <1>3 DEF Pool!updateRow, Pool!FormEdit
    <2>2. PICK r \in PoolRow : r.id = upRows[i].id /\ upRows' = [upRows EXCEPT ![i] = r]
      <3>1. upRows[i] \in PoolRow
        BY <2>1 DEF PoolTypes, PoolForm
      <3>2. CASE upRows' = [upRows EXCEPT ![i].down = ~@]
        <4>1. PICK r : r = [upRows[i] EXCEPT !.down = ~upRows[i].down]
          OBVIOUS
        <4>2. r \in PoolRow /\ r.id = upRows[i].id
          BY <3>1, <4>1 DEF PoolRow
        <4>3. upRows' = [upRows EXCEPT ![i] = r]
          BY <2>1, <3>2, <4>1
        <4> QED
          BY <4>2, <4>3
      <3>3. ASSUME NEW a \in Addresses, upRows' = [upRows EXCEPT ![i].addr = a]
            PROVE  \E r \in PoolRow : r.id = upRows[i].id /\ upRows' = [upRows EXCEPT ![i] = r]
        <4>1. PICK r : r = [upRows[i] EXCEPT !.addr = a]
          OBVIOUS
        <4>2. r \in PoolRow /\ r.id = upRows[i].id
          BY <3>1, <4>1 DEF PoolRow
        <4>3. upRows' = [upRows EXCEPT ![i] = r]
          BY <2>1, <3>3, <4>1
        <4> QED
          BY <4>2, <4>3
      <3> QED
        BY <1>3, <3>2, <3>3 DEF Pool!updateRow, Pool!CardInputs, Pool!TableInputs
    <2>3. /\ upRows' \in Seq(PoolRow) /\ Len(upRows') = Len(upRows)
          /\ DOMAIN upRows' = DOMAIN upRows
          /\ \A j \in DOMAIN upRows : upRows'[j].id = upRows[j].id
      BY <2>1, <2>2, RowChanged DEF PoolTypes
    <2>4. Pool!Legal'
      BY <2>1 DEF PoolTypes, PoolForm, Pool!Legal
    <2>5. rowEdits' \in 0 .. MaxRowEdits
      BY <2>1, OneMoreEdit DEF PoolTypes
    <2> QED
      BY <2>1, <2>3, <2>4, <2>5 DEF PoolTypes, PoolForm
  <1>4. ASSUME NEW i \in 1 .. MaxRows, Pool!removeRow(i) PROVE PoolForm'
    <2>1. /\ rowEdits' = rowEdits + 1 /\ rowEdits < MaxRowEdits /\ i \in DOMAIN upRows
          /\ UNCHANGED <<method, upContext, poolMode, original>>
          /\ upRows' = [j \in 1 .. (Len(upRows) - 1) |-> upRows[IF j < i THEN j ELSE j + 1]]
      BY <1>4 DEF Pool!removeRow, Pool!FormEdit
    <2>2. upRows \in Seq(PoolRow) /\ Len(upRows) \in Nat /\ DOMAIN upRows = 1 .. Len(upRows)
      BY DEF PoolTypes, PoolForm
    <2>3. Len(upRows) - 1 \in Nat
      BY <2>1, <2>2
    <2>4. \A j \in 1 .. (Len(upRows) - 1) : (IF j < i THEN j ELSE j + 1) \in DOMAIN upRows
      BY <2>1, <2>2
    <2>5. upRows' \in [1 .. (Len(upRows) - 1) -> PoolRow]
      BY <2>1, <2>2, <2>4
    <2>6. /\ upRows' \in Seq(PoolRow) /\ Len(upRows') = Len(upRows) - 1
          /\ DOMAIN upRows' = 1 .. (Len(upRows) - 1)
      BY <2>3, <2>5, FunctionIsSequence
    <2>7. \A j, k \in DOMAIN upRows' :
            upRows'[j].id = upRows'[k].id /\ upRows'[j].id # 0 => j = k
      <3> SUFFICES ASSUME NEW j \in DOMAIN upRows', NEW k \in DOMAIN upRows',
                          upRows'[j].id = upRows'[k].id, upRows'[j].id # 0
                   PROVE  j = k
        OBVIOUS
      <3>1. PICK a : a = IF j < i THEN j ELSE j + 1
        OBVIOUS
      <3>2. PICK b : b = IF k < i THEN k ELSE k + 1
        OBVIOUS
      <3>3. /\ a \in DOMAIN upRows /\ b \in DOMAIN upRows
            /\ upRows'[j] = upRows[a] /\ upRows'[k] = upRows[b]
        BY <2>1, <2>4, <2>6, <3>1, <3>2
      <3>4. a = b
        BY <3>3 DEF PoolTypes, PoolForm
      <3> QED
        BY <2>1, <2>2, <2>6, <3>1, <3>2, <3>4
    <2>8. \A j \in DOMAIN upRows' : upRows'[j].id # 0 => poolMode' = "edit"
      BY <2>1, <2>4, <2>6 DEF PoolTypes, PoolForm
    <2>9. Pool!Legal'
      BY <2>1 DEF PoolTypes, PoolForm, Pool!Legal
    <2>10. rowEdits' \in 0 .. MaxRowEdits
      BY <2>1, OneMoreEdit DEF PoolTypes
    <2>11. Len(upRows') <= MaxRows
      <3>1. MaxRows \in Nat /\ Len(upRows) <= MaxRows
        BY PoolConstants DEF PoolTypes, PoolForm
      <3> QED
        BY <2>2, <2>6, <3>1
    <2> QED
      BY <2>1, <2>6, <2>7, <2>8, <2>9, <2>10, <2>11 DEF PoolTypes, PoolForm
  <1>5. CASE Pool!addRow
    <2>1. /\ rowEdits' = rowEdits + 1 /\ rowEdits < MaxRowEdits /\ Len(upRows) < MaxRows
          /\ UNCHANGED <<method, upContext, poolMode, original>>
          /\ upRows' = Append(upRows, Pool!newRow)
      BY <1>5 DEF Pool!addRow, Pool!FormEdit
    <2>2. PICK r \in PoolRow : r = Pool!newRow /\ r.id = 0
      BY EmptyRow
    <2>3. upRows \in Seq(PoolRow) /\ Len(upRows) \in Nat /\ DOMAIN upRows = 1 .. Len(upRows)
      BY DEF PoolTypes, PoolForm
    <2>4. /\ upRows' \in Seq(PoolRow) /\ Len(upRows') = Len(upRows) + 1
          /\ \A j \in 1 .. Len(upRows) : upRows'[j] = upRows[j]
          /\ upRows'[Len(upRows) + 1] = r
      BY <2>1, <2>2, <2>3
    <2>5. DOMAIN upRows' = 1 .. Len(upRows) + 1
      BY <2>4
    <2>6. \A j \in DOMAIN upRows' : upRows'[j].id # 0 =>
            j \in DOMAIN upRows /\ upRows'[j] = upRows[j]
      BY <2>2, <2>3, <2>4, <2>5
    <2>7. /\ \A j, k \in DOMAIN upRows' :
               upRows'[j].id = upRows'[k].id /\ upRows'[j].id # 0 => j = k
          /\ \A j \in DOMAIN upRows' : upRows'[j].id # 0 => poolMode' = "edit"
      BY <2>1, <2>6 DEF PoolTypes, PoolForm
    <2>8. Pool!Legal'
      BY <2>1 DEF PoolTypes, PoolForm, Pool!Legal
    <2>9. rowEdits' \in 0 .. MaxRowEdits
      BY <2>1, OneMoreEdit DEF PoolTypes
    <2>10. Len(upRows') <= MaxRows
      <3>1. MaxRows \in Nat
        BY PoolConstants
      <3> QED
        BY <2>1, <2>3, <2>4, <3>1
    <2> QED
      BY <2>1, <2>4, <2>7, <2>8, <2>9, <2>10 DEF PoolTypes, PoolForm
  <1>6. CASE UNCHANGED <<poolMode, original, upRows, method, upContext, rowEdits>>
    BY <1>6 DEF PoolTypes, PoolForm, Pool!Legal
  <1>7. CASE Pool!handleSubmit \/ Pool!ServePool \/ Pool!BreakPool \/ Pool!AnswerPool
    BY <1>6, <1>7 DEF Pool!handleSubmit, Pool!ServePool, Pool!BreakPool, Pool!AnswerPool
  <1> QED
    BY <1>1, <1>2, <1>3, <1>4, <1>5, <1>7 DEF Pool!PoolNext

LEMMA PoolFlagsStep ==
    ASSUME PoolTypes, Pool!PoolNext
    PROVE  PoolFlags'
  <1> USE DEF PoolTypes, PoolFlags, Pool!theRest, Pool!theSave
  <1>1. CASE Pool!handleSubmit
    <2>1. UNCHANGED <<poolOpen, dirtyBase>> /\ (poolError' = TRUE \/ poolError' = FALSE)
      BY <1>1 DEF Pool!handleSubmit
    <2> QED
      BY <2>1, Zenon
  <1>2. CASE Pool!AnswerPool
    <2>1. CASE reply = "err"
      <3>1. poolError' = TRUE /\ dirtyBase' = TRUE /\ poolOpen' = poolOpen
        BY <1>2, <2>1 DEF Pool!AnswerPool, Pool!Abandon
      <3> QED
        BY <3>1, Zenon
    <2>2. CASE reply # "err"
      <3>1. poolOpen' = (todo' # <<>>) /\ UNCHANGED <<poolError, dirtyBase>>
        BY <1>2, <2>2 DEF Pool!AnswerPool
      <3> QED
        BY <3>1, Zenon
    <2> QED
      BY <2>1, <2>2
  <1>3. CASE UNCHANGED <<poolOpen, poolError, dirtyBase>>
    BY <1>3
  <1> QED
    BY <1>1, <1>2, <1>3
       DEF Pool!PoolNext, Pool!changeContext, Pool!ChooseMethod, Pool!updateRow, Pool!removeRow,
           Pool!addRow, Pool!ServePool, Pool!BreakPool

\* The pool the API holds.
LEMMA ApiStep ==
    ASSUME PoolTypes, Pool!PoolNext
    PROVE  PoolApi'
  <1>1. CASE UNCHANGED <<backends, settings, nextId, poolFaults>>
    BY <1>1 DEF PoolTypes, PoolApi
  <1>2. ASSUME reply = "sent", Pool!Accepts(todo[1]) /\ Pool!Apply(todo[1]),
               poolFaults' \in 0 .. MaxPoolFaults
        PROVE  PoolApi'
    <2>1. todo # <<>>
      BY <1>2 DEF PoolTypes, PoolSaving, Pool!saving
    <2> QED
      BY <1>2, <2>1, EffectTyped DEF PoolApi
  <1>3. CASE Pool!ServePool
    <2>1. poolFaults' \in 0 .. MaxPoolFaults
      BY <1>3 DEF Pool!ServePool, PoolTypes, PoolApi
    <2> QED
      BY <1>1, <1>2, <1>3, <2>1 DEF Pool!ServePool, Pool!theApi
  <1>4. CASE Pool!BreakPool
    <2>1. poolFaults' \in 0 .. MaxPoolFaults
      <3>1. MaxPoolFaults \in Nat
        BY PoolConstants
      <3>2. /\ poolFaults \in 0 .. MaxPoolFaults /\ poolFaults < MaxPoolFaults
            /\ poolFaults' = poolFaults + 1
        BY <1>4 DEF Pool!BreakPool, PoolTypes, PoolApi
      <3> QED
        BY <3>1, <3>2
    <2>2. CASE UNCHANGED <<backends, settings, nextId>>
      BY <2>1, <2>2 DEF PoolTypes, PoolApi
    <2> QED
      BY <1>2, <1>4, <2>1, <2>2 DEF Pool!BreakPool, Pool!theApi
  <1> QED
    BY <1>1, <1>3, <1>4
       DEF Pool!PoolNext, Pool!changeContext, Pool!ChooseMethod, Pool!updateRow, Pool!removeRow,
           Pool!addRow, Pool!handleSubmit, Pool!AnswerPool, Pool!theRest, Pool!theApi

-----------------------------------------------------------------------------
(* The save.                                                               *)

\* A change of the form leaves the API and the save alone, and is made with no
\* save under way.
FormChanged ==
    /\ poolOpen /\ todo = <<>>
    /\ UNCHANGED <<poolMode, poolOpen, original, backends, settings, todo, reply, dirtyBase>>

LEMMA ActionsAre ==
    ASSUME Pool!PoolNext
    PROVE  FormChanged \/ Pool!handleSubmit \/ Pool!ServePool \/ Pool!BreakPool \/ Pool!AnswerPool
  BY DEF Pool!PoolNext, Pool!changeContext, Pool!ChooseMethod, Pool!updateRow, Pool!removeRow,
         Pool!addRow, Pool!FormEdit, Pool!saving, Pool!theRest, Pool!theSave, Pool!theApi,
         FormChanged

LEMMA WholePlan ==
    ASSUME PoolForm, poolMode # "off"
    PROVE  /\ Pool!Plan # <<>> /\ Len(Pool!Plan) \in Nat /\ Len(Pool!Plan) >= 1
           /\ SubSeq(Pool!Plan, 1, Len(Pool!Plan)) = Pool!Plan
           /\ ~Pool!Needless(Pool!Plan[1])
  <1>1. PICK p : p = Pool!Plan
    OBVIOUS
  <1>2. PICK Z : p \in Seq(Z)
    BY <1>1, PlanIsSequence
  <1>3. Len(p) \in Nat /\ Len(p) >= 1
    BY <1>1, <1>2, PlanIs, NewPlanIs DEF PoolForm
  <1>4. p # <<>> /\ SubSeq(p, 1, Len(p)) = p
    BY <1>2, <1>3
  <1>5. p[1].op \in {"update", "create"}
    BY <1>1, PlanIs, NewPlanIs DEF PoolForm, Pool!Op
  <1> QED
    BY <1>1, <1>3, <1>4, <1>5 DEF Pool!Needless

LEMMA SavingStep ==
    ASSUME PoolTypes, Pool!PoolNext
    PROVE  PoolSaving'
  <1> USE DEF PoolTypes, PoolSaving, Pool!saving
  <1>1. CASE FormChanged
    BY <1>1 DEF FormChanged
  <1>2. CASE Pool!handleSubmit
    <2>1. /\ todo = <<>> /\ poolOpen
          /\ UNCHANGED <<poolMode, poolOpen, original, upRows>>
      BY <1>2 DEF Pool!handleSubmit
    <2>2. CASE UNCHANGED <<todo, reply>>
      BY <2>1, <2>2
    <2>3. CASE /\ todo' = Pool!Plan /\ reply' = "sent"
               /\ \A i \in DOMAIN upRows : Pool!validateRow(upRows[i])
      <3>1. Pool!Plan' = Pool!Plan /\ \A q : Pool!Needless(q)' <=> Pool!Needless(q)
        BY <2>1, SamePlan
      <3>2. /\ Pool!Plan # <<>> /\ Len(Pool!Plan) \in Nat /\ Len(Pool!Plan) >= 1
            /\ SubSeq(Pool!Plan, 1, Len(Pool!Plan)) = Pool!Plan
            /\ ~Pool!Needless(Pool!Plan[1])
        BY <2>1, WholePlan
      <3>3. Round' = 1
        BY <2>3, <3>1, <3>2 DEF Round
      <3>4. ~Pool!Needless(todo[1])'
        BY <2>3, <3>1, <3>2 DEF Pool!Needless
      <3>5. \A i \in DOMAIN upRows' : Pool!validateRow(upRows[i])'
        BY <2>1, <2>3 DEF Pool!validateRow
      <3> QED
        BY <2>1, <2>3, <3>1, <3>2, <3>3, <3>4, <3>5
    <2> QED
      BY <1>2, <2>2, <2>3 DEF Pool!handleSubmit
  <1>3. CASE Pool!ServePool \/ Pool!BreakPool
    <2>1. /\ reply = "sent" /\ reply' \in {"ok", "err"}
          /\ UNCHANGED <<poolMode, poolOpen, original, upRows, todo>>
      BY <1>3 DEF Pool!ServePool, Pool!BreakPool
    <2>2. /\ Pool!Plan' = Pool!Plan /\ \A q : Pool!Needless(q)' <=> Pool!Needless(q)
          /\ Round' = Round /\ ~Pool!Needless(todo[1])'
          /\ \A i \in DOMAIN upRows : Pool!validateRow(upRows[i])' <=> Pool!validateRow(upRows[i])
      BY <2>1, SamePlan DEF Round, Pool!validateRow, Pool!Needless
    <2> QED
      BY <2>1, <2>2
  <1>4. CASE Pool!AnswerPool
    <2>1. /\ reply \in {"ok", "err"} /\ todo # <<>> /\ UNCHANGED <<poolMode, original, upRows>>
      BY <1>4 DEF Pool!AnswerPool
    <2>2. CASE reply = "err"
      BY <1>4, <2>1, <2>2 DEF Pool!AnswerPool, Pool!Abandon
    <2>3. CASE reply = "ok"
      <3>1. /\ todo' = Pool!Due(Tail(todo)) /\ reply' = IF todo' # <<>> THEN "sent" ELSE "none"
            /\ poolOpen' = (todo' # <<>>)
        BY <1>4, <2>3 DEF Pool!AnswerPool
      <3>2. CASE Pool!Due(Tail(todo)) = <<>>
        BY <2>1, <3>1, <3>2
      <3>3. ASSUME NEW m \in Round + 1 .. Len(Pool!Plan),
                   Pool!Due(Tail(todo)) = SubSeq(Pool!Plan, m, Len(Pool!Plan)),
                   ~Pool!Needless(Pool!Plan[m])
            PROVE  PoolSaving'
        <4>1. PICK p : p = Pool!Plan
          OBVIOUS
        <4>2. PICK Z : p \in Seq(Z)
          BY <2>1, <4>1, PlanIsSequence
        <4>3. Pool!Plan' = p /\ \A q : Pool!Needless(q)' <=> Pool!Needless(q)
          BY <2>1, <4>1, SamePlan
        <4>4. m \in 1 .. Len(p) /\ Len(p) \in Nat
          BY <2>1, <3>3, <4>1, HeadIs
        <4>5. todo' = SubSeq(p, m, Len(p))
          BY <3>1, <3>3, <4>1
        <4>6. todo' # <<>> /\ Len(todo') = Len(p) - m + 1 /\ todo'[1] = p[m]
          <5> HIDE DEF PoolTypes, PoolSaving, Pool!saving
          <5>1. PICK s : s = SubSeq(p, m, Len(p))
            OBVIOUS
          <5>2. s # <<>> /\ Len(s) = Len(p) - m + 1 /\ s[1] = p[m]
            BY SMTT(30), <4>2, <4>4, <5>1, TailOfPlan
          <5> QED
            BY <4>5, <5>1, <5>2
        <4>7. Round' = m
          BY <4>3, <4>4, <4>6 DEF Round
        <4>8. ~Pool!Needless(todo[1])'
          BY <2>1, <3>3, <4>1, <4>3, <4>6 DEF Pool!Needless
        <4>9. \A i \in DOMAIN upRows' : Pool!validateRow(upRows[i])'
          BY <2>1 DEF Pool!validateRow
        <4> QED
          BY <2>1, <3>1, <4>3, <4>4, <4>5, <4>6, <4>7, <4>8, <4>9
      <3> QED
        BY <2>1, <3>2, <3>3, DueIs
    <2> QED
      BY <2>1, <2>2, <2>3
  <1> QED
    BY <1>1, <1>2, <1>3, <1>4, ActionsAre

\* A first save of a pool that is changed.
LEMMA EditStep ==
    ASSUME PoolTypes, EditProgress, Pool!PoolNext
    PROVE  EditProgress'
  <1> SUFFICES ASSUME poolMode' = "edit", ~dirtyBase', poolOpen'
               PROVE  /\ reply' = "none" => backends' = original'
                      /\ reply' = "sent" => DoneTo(Round)'
                      /\ reply' = "ok" => DoneTo(Round + 1)'
                      /\ reply' = "err" => DoneTo(Round)' \/ DoneTo(Round + 1)'
    BY DEF EditProgress
  <1>1. CASE FormChanged
    <2>1. reply = "none" /\ UNCHANGED <<reply, backends, original, poolMode, dirtyBase, poolOpen>>
      BY <1>1 DEF FormChanged, PoolTypes, PoolSaving, Pool!saving
    <2> QED
      BY <2>1 DEF EditProgress
  <1>2. CASE Pool!handleSubmit
    <2>1. /\ todo = <<>> /\ reply = "none"
          /\ UNCHANGED <<poolMode, poolOpen, dirtyBase, original, upRows, method, upContext,
                         backends, settings>>
      BY <1>2 DEF Pool!handleSubmit, Pool!saving, Pool!theApi, PoolTypes, PoolSaving
    <2>2. backends = original /\ poolMode = "edit"
      BY <2>1 DEF EditProgress
    <2>3. CASE UNCHANGED reply
      BY <2>1, <2>2, <2>3
    <2>4. CASE todo' = Pool!Plan /\ reply' = "sent"
      <3>1. Round' = 1
        <4>1. Pool!Plan' = Pool!Plan /\ Len(Pool!Plan) \in Nat
          BY <2>1, <2>2, SamePlan, WholePlan DEF PoolTypes
        <4> QED
          BY <2>4, <4>1 DEF Round
      <3>2. DoneTo(1)
        <4>1. DOMAIN original = {1, 2}
          BY <2>2, PoolAsOpened DEF PoolTypes, PoolForm
        <4>2. upRows \in Seq(PoolRow)
          BY DEF PoolTypes, PoolForm
        <4>3. \A j \in DOMAIN upRows : upRows[j] \in PoolRow /\ j \in Nat
          BY <4>2
        <4>4. \A j \in DOMAIN upRows : upRows[j].id \in {0, 1, 2} /\ j \in Nat
          BY <4>3 DEF PoolRow
        <4> QED
          BY <2>2, <4>1, <4>4 DEF DoneTo
      <3>3. DoneTo(1)'
        BY <2>1, <3>2, DoneToSame
      <3> QED
        BY <2>4, <3>1, <3>3
    <2> QED
      BY <1>2, <2>3, <2>4 DEF Pool!handleSubmit
  <1>3. CASE Pool!ServePool \/ Pool!BreakPool
    <2>1. /\ reply = "sent" /\ reply' \in {"ok", "err"} /\ todo # <<>>
          /\ UNCHANGED <<poolMode, poolOpen, dirtyBase>> /\ SameForm
      BY <1>3 DEF Pool!ServePool, Pool!BreakPool, SameForm, PoolTypes, PoolSaving, Pool!saving
    <2>2. PICK k : k = Round
      OBVIOUS
    <2>3. DoneTo(k) /\ Round' = k
      BY <2>1, <2>2, SamePlan DEF EditProgress, Round, SameForm
    <2>4. CASE Pool!Accepts(todo[1]) /\ Pool!Apply(todo[1])
      <3>1. DoneTo(k + 1)'
        BY <2>1, <2>2, <2>3, <2>4, RoundDone
      <3> QED
        BY <2>1, <2>3, <3>1
    <2>5. CASE UNCHANGED <<backends, settings>> /\ reply' = "err"
      <3>1. DoneTo(k)'
        BY <2>1, <2>3, <2>5, DoneToSame DEF SameForm
      <3> QED
        BY <2>1, <2>3, <2>5, <3>1
    <2> QED
      BY <1>3, <2>4, <2>5 DEF Pool!ServePool, Pool!BreakPool, Pool!theApi
  <1>4. CASE Pool!AnswerPool
    <2>1. /\ reply = "ok" /\ todo' = Pool!Due(Tail(todo)) /\ todo # <<>> /\ todo' # <<>>
          /\ reply' = "sent" /\ poolOpen
          /\ UNCHANGED <<poolMode, dirtyBase, original, upRows, method, upContext,
                         backends, settings>>
      BY <1>4 DEF Pool!AnswerPool, Pool!Abandon, Pool!theApi, PoolTypes, PoolSaving, Pool!saving
    <2>2. PICK k : k = Round + 1
      OBVIOUS
    <2>3. DoneTo(k) /\ poolMode = "edit"
      BY <2>1, <2>2 DEF EditProgress
    <2>4. PICK m \in k .. Len(Pool!Plan) :
            /\ todo' = SubSeq(Pool!Plan, m, Len(Pool!Plan))
            /\ \A x \in k .. m - 1 : Pool!Needless(Pool!Plan[x])
      BY <2>1, <2>2, DueIs
    <2>5. /\ k \in 2 .. Len(Pool!Plan) + 1 /\ m \in k .. Len(Pool!Plan) + 1
          /\ m \in 1 .. Len(Pool!Plan)
      BY <2>1, <2>2, <2>4, HeadIs
    <2>6. DoneTo(m)
      BY <2>3, <2>4, <2>5, RoundsPassed
    <2>7. DoneTo(m)'
      BY <2>1, <2>6, DoneToSame
    <2>8. Round' = m
      <3>1. PICK p : p = Pool!Plan
        OBVIOUS
      <3>2. PICK Z : p \in Seq(Z)
        BY <2>3, <3>1, PlanIsSequence DEF PoolTypes
      <3>3. Pool!Plan' = p /\ Len(p) \in Nat
        BY <2>1, <3>1, <3>2, SamePlan
      <3>4. Len(todo') = Len(p) - m + 1
        BY <2>4, <2>5, <3>1, <3>2, TailOfPlan
      <3> QED
        BY <2>5, <3>1, <3>3, <3>4 DEF Round
    <2> QED
      BY <2>1, <2>7, <2>8
  <1> QED
    BY <1>1, <1>2, <1>3, <1>4, ActionsAre

-----------------------------------------------------------------------------
(* A new pool, and the pool once the dialog has closed.                    *)

LEMMA CreatedAsEntered ==
    ASSUME PoolTypes, PoolCreated, UNCHANGED <<upRows, method, upContext>>
    PROVE  AsEntered'
  <1>1. upRows \in Seq(PoolRow) /\ DOMAIN upRows = 1 .. Len(upRows) /\ Len(upRows) \in Nat
    BY DEF PoolTypes, PoolForm
  <1>2. /\ settings' = FormSettings
        /\ backends' = [i \in 3 .. (2 + Len(upRows)) |-> Pool!rowToCreate(upRows[i - 2])]
    BY DEF PoolCreated
  <1>3. Pool!Entered' = {Pool!rowToCreate(upRows[i]) : i \in DOMAIN upRows}
    BY DEF Pool!Entered, Pool!rowToCreate
  <1>4. Pool!Held' = {Pool!rowToCreate(upRows[i - 2]) : i \in 3 .. (2 + Len(upRows))}
    BY <1>2 DEF Pool!Held
  <1>5. \A i \in 1 .. Len(upRows) : i + 2 \in 3 .. (2 + Len(upRows)) /\ (i + 2) - 2 = i
    BY <1>1
  <1>6. \A i \in 3 .. (2 + Len(upRows)) : i - 2 \in 1 .. Len(upRows)
    BY <1>1
  <1>7. Pool!Held' = Pool!Entered'
    BY <1>1, <1>3, <1>4, <1>5, <1>6
  <1> QED
    BY <1>2, <1>7 DEF AsEntered, FormSettings

LEMMA NewStep ==
    ASSUME PoolTypes, Pool!PoolNext
    PROVE  NewProgress'
  <1> SUFFICES ASSUME poolMode' = "new", reply' = "ok" PROVE AsEntered'
    BY DEF NewProgress
  <1>1. Pool!ServePool
    BY ActionsAre DEF FormChanged, Pool!handleSubmit, Pool!BreakPool, Pool!AnswerPool, Pool!Abandon,
       PoolTypes, PoolSaving, Pool!saving
  <1>2. /\ todo # <<>> /\ Pool!Accepts(todo[1]) /\ Pool!Apply(todo[1]) /\ poolMode = "new"
        /\ UNCHANGED <<upRows, method, upContext>>
    BY <1>1 DEF Pool!ServePool, PoolTypes, PoolSaving, Pool!saving
  <1>3. PoolCreated
    BY <1>2, Effect DEF PoolUpdated, PoolRemoved, PoolAdded, PoolPatched
  <1> QED
    BY <1>2, <1>3, CreatedAsEntered

LEMMA EnteredSame ==
    ASSUME AsEntered, UNCHANGED <<upRows, method, upContext, backends, settings>>
    PROVE  AsEntered'
  BY DEF AsEntered, FormSettings, Pool!Held, Pool!Entered, Pool!rowToCreate

LEMMA ReconciledStep ==
    ASSUME PoolTypes, EditProgress, NewProgress, Reconciled, Pool!PoolNext
    PROVE  Reconciled'
  <1> SUFFICES ASSUME poolMode' # "off", ~poolOpen', ~dirtyBase' PROVE AsEntered'
    BY DEF Reconciled
  <1>1. Pool!AnswerPool /\ reply = "ok" /\ todo # <<>> /\ poolOpen
    BY ActionsAre DEF FormChanged, Pool!handleSubmit, Pool!ServePool, Pool!BreakPool,
       Pool!AnswerPool, Pool!Abandon, PoolTypes, PoolSaving, Pool!saving
  <1>2. /\ todo' = Pool!Due(Tail(todo)) /\ todo' = <<>>
        /\ UNCHANGED <<poolMode, dirtyBase, upRows, method, upContext, backends, settings>>
    BY <1>1 DEF Pool!AnswerPool, Pool!theApi
  <1>3. CASE poolMode = "new"
    BY <1>1, <1>2, <1>3, EnteredSame DEF NewProgress
  <1>4. CASE poolMode = "edit"
    <2>1. PICK k : k = Round + 1
      OBVIOUS
    <2>2. DoneTo(k)
      BY <1>1, <1>2, <1>4, <2>1 DEF EditProgress
    <2>3. \A x \in k .. Len(Pool!Plan) : Pool!Needless(Pool!Plan[x])
      <3>1. ASSUME NEW n \in Round + 1 .. Len(Pool!Plan),
                   todo' = SubSeq(Pool!Plan, n, Len(Pool!Plan))
            PROVE  FALSE
        <4>1. PICK p : p = Pool!Plan
          OBVIOUS
        <4>2. PICK Z : p \in Seq(Z)
          BY <1>4, <4>1, PlanIsSequence DEF PoolTypes
        <4>3. n \in 1 .. Len(p)
          BY <1>1, <3>1, <4>1, HeadIs
        <4>4. PICK s : s = SubSeq(p, n, Len(p))
          OBVIOUS
        <4>5. s # <<>>
          BY <4>2, <4>3, <4>4, TailOfPlan
        <4> QED
          BY <1>2, <3>1, <4>1, <4>4, <4>5
      <3> QED
        BY <1>1, <1>2, <2>1, <3>1, DueIs
    <2>4. PICK m : m = Len(Pool!Plan) + 1
      OBVIOUS
    <2>5. k \in 2 .. Len(Pool!Plan) + 1 /\ m \in k .. Len(Pool!Plan) + 1 /\ m - 1 = Len(Pool!Plan)
      BY <1>1, <2>1, <2>4, HeadIs
    <2>6. DoneTo(m)
      BY <1>4, <2>2, <2>3, <2>5, RoundsPassed
    <2>7. AsEntered
      BY <1>4, <2>4, <2>6, AllDone
    <2> QED
      BY <1>2, <2>7, EnteredSame
  <1> QED
    BY <1>2, <1>3, <1>4 DEF PoolTypes, PoolForm

-----------------------------------------------------------------------------
(* The pool dialog: the theorems.                                          *)

LEMMA PoolOpens ==
    ASSUME Pool!PoolInit({"new", "edit"})
    PROVE  PoolInv
  <1> USE DEF Pool!PoolInit
  <1>1. /\ poolMode \in {"new", "edit"} /\ poolOpen = TRUE /\ todo = <<>> /\ reply = "none"
        /\ poolError = FALSE /\ dirtyBase = FALSE /\ backends = original /\ nextId = 3
    OBVIOUS
  <1>2. original = IF poolMode = "edit" THEN Pool!OpenedPool ELSE <<>>
    OBVIOUS
  <1>3. /\ method \in Pool!Methods /\ upContext \in Pool!Contexts /\ Pool!Legal
        /\ settings \in PoolSettings
    BY DEF Pool!Methods, Pool!Contexts, Pool!Legal, PoolSettings
  <1>4. rowEdits \in 0 .. MaxRowEdits /\ poolFaults \in 0 .. MaxPoolFaults
    <2>1. MaxRowEdits \in Nat /\ MaxPoolFaults \in Nat
      BY PoolConstants
    <2> QED
      BY <2>1
  <1>5. /\ upRows \in Seq(PoolRow) /\ Len(upRows) <= MaxRows
        /\ \A i, j \in DOMAIN upRows : upRows[i].id = upRows[j].id /\ upRows[i].id # 0 => i = j
        /\ \A i \in DOMAIN upRows : upRows[i].id # 0 => poolMode = "edit"
    <2>1. MaxRows \in Nat /\ MaxRows >= 2
      BY PoolConstants
    <2>2. CASE poolMode = "new"
      <3>1. PICK r : r = Pool!newRow
        OBVIOUS
      <3>2. upRows = << r >> /\ r \in PoolRow /\ r.id = 0
        BY <2>2, <3>1, EmptyRow
      <3>3. upRows \in Seq(PoolRow) /\ Len(upRows) = 1 /\ DOMAIN upRows = {1} /\ upRows[1] = r
        BY <3>2
      <3> QED
        BY <2>1, <3>2, <3>3
    <2>3. CASE poolMode = "edit"
      <3>1. PICK r : r = Pool!rowFromBackend(1, Pool!OpenedPool[1])
        OBVIOUS
      <3>2. PICK s : s = Pool!rowFromBackend(2, Pool!OpenedPool[2])
        OBVIOUS
      <3>3. Pool!OpenedPool[1] \in PoolBackend /\ Pool!OpenedPool[2] \in PoolBackend
        BY PoolAsOpened
      <3>4. r \in PoolRow /\ r.id = 1 /\ s \in PoolRow /\ s.id = 2
        BY <3>1, <3>2, <3>3 DEF Pool!rowFromBackend, PoolRow, PoolBackend
      <3>5. upRows = << r, s >>
        BY <2>3, <3>1, <3>2
      <3>6. /\ upRows \in Seq(PoolRow) /\ Len(upRows) = 2 /\ DOMAIN upRows = {1, 2}
            /\ upRows[1] = r /\ upRows[2] = s
        BY <3>4, <3>5
      <3> QED
        BY <2>1, <2>3, <3>4, <3>6
    <2> QED
      BY <1>1, <2>2, <2>3
  <1>6. PoolForm
    BY <1>1, <1>2, <1>3, <1>4, <1>5 DEF PoolForm
  <1>7. PoolApi
    <2>1. CASE poolMode = "edit"
      BY <1>1, <1>2, <1>3, <1>4, <2>1, PoolAsOpened DEF PoolApi
    <2>2. CASE poolMode = "new"
      <3>1. DOMAIN backends = {} /\ backends = [i \in {} |-> 0]
        BY <1>1, <1>2, <2>2
      <3>2. backends \in [DOMAIN backends -> PoolBackend]
        BY <3>1
      <3> QED
        BY <1>1, <1>3, <1>4, <3>1, <3>2 DEF PoolApi
    <2> QED
      BY <1>1, <2>1, <2>2
  <1>8. PoolFlags
    BY <1>1, Zenon DEF PoolFlags
  <1>9. PoolSaving
    BY <1>1 DEF PoolSaving, Pool!saving
  <1>10. EditProgress /\ NewProgress /\ Reconciled
    BY <1>1 DEF EditProgress, NewProgress, Reconciled
  <1> QED
    BY <1>6, <1>7, <1>8, <1>9, <1>10 DEF PoolInv, PoolTypes

LEMMA PoolStaysShut ==
    ASSUME Pool!PoolOff
    PROVE  PoolInv
  <1> USE DEF Pool!PoolOff
  <1>1. /\ method \in Pool!Methods /\ upContext \in Pool!Contexts /\ Pool!Legal
        /\ settings \in PoolSettings
    BY DEF Pool!Methods, Pool!Contexts, Pool!Legal, PoolSettings
  <1>2. rowEdits \in 0 .. MaxRowEdits /\ poolFaults \in 0 .. MaxPoolFaults /\ 0 <= MaxRows
    <2>1. MaxRowEdits \in Nat /\ MaxPoolFaults \in Nat /\ MaxRows \in Nat
      BY PoolConstants
    <2> QED
      BY <2>1
  <1>3. upRows \in Seq(PoolRow) /\ Len(upRows) = 0 /\ DOMAIN upRows = {}
    OBVIOUS
  <1>4. PoolForm
    BY <1>1, <1>2, <1>3 DEF PoolForm
  <1>5. DOMAIN backends = {} /\ backends = [i \in {} |-> 0]
    OBVIOUS
  <1>6. backends \in [DOMAIN backends -> PoolBackend]
    BY <1>5
  <1>7. PoolApi
    BY <1>1, <1>2, <1>5, <1>6 DEF PoolApi
  <1>8. PoolFlags
    BY Zenon DEF PoolFlags
  <1>9. PoolSaving /\ EditProgress /\ NewProgress /\ Reconciled
    BY DEF PoolSaving, Pool!saving, EditProgress, NewProgress, Reconciled
  <1> QED
    BY <1>4, <1>7, <1>8, <1>9 DEF PoolInv, PoolTypes

LEMMA PoolUntouched ==
    ASSUME PoolInv, UNCHANGED P
    PROVE  PoolInv'
  <1>1. UNCHANGED <<poolMode, poolOpen, original, upRows, method, upContext, todo, reply, poolError,
                    backends, settings, nextId, rowEdits, poolFaults, dirtyBase>>
    BY DEF P
  <1>2. Pool!Plan' = Pool!Plan /\ \A q : Pool!Needless(q)' <=> Pool!Needless(q)
    BY <1>1, SamePlan
  <1>3. PoolForm' /\ PoolApi' /\ PoolFlags'
    BY <1>1 DEF PoolInv, PoolTypes, PoolForm, PoolApi, PoolFlags, Pool!Legal
  <1>4. Round' = Round
    BY <1>1, <1>2 DEF Round
  <1>5. PoolSaving'
    BY <1>1, <1>2, <1>4 DEF PoolInv, PoolTypes, PoolSaving, Pool!saving, Pool!validateRow,
                            Pool!Needless
  <1>6. EditProgress'
    <2>1. \A k : DoneTo(k) => DoneTo(k)'
      BY <1>1, DoneToSame
    <2>2. (DoneTo(Round) => DoneTo(Round)') /\ (DoneTo(Round + 1) => DoneTo(Round + 1)')
      BY <1>4, <2>1
    <2> QED
      BY <1>1, <2>2 DEF PoolInv, EditProgress
  <1>7. NewProgress' /\ Reconciled'
    BY <1>1, EnteredSame DEF PoolInv, NewProgress, Reconciled
  <1> QED
    BY <1>3, <1>5, <1>6, <1>7 DEF PoolInv, PoolTypes

LEMMA PoolStep ==
    ASSUME PoolInv, [Next]_vars
    PROVE  PoolInv'
  <1>1. CASE Pool!PoolNext
    BY <1>1, FormStep, PoolFlagsStep, ApiStep, SavingStep, EditStep, NewStep, ReconciledStep
       DEF PoolInv, PoolTypes
  <1>2. CASE UNCHANGED P
    BY <1>2, PoolUntouched
  <1> QED
    BY <1>1, <1>2 DEF Next, vars

THEOREM PoolInductive == Spec => []PoolInv
  <1>1. Init => PoolInv
    BY PoolOpens, PoolStaysShut DEF Init
  <1>2. PoolInv /\ [Next]_vars => PoolInv'
    BY PoolStep
  <1> QED
    BY <1>1, <1>2, PTL DEF Spec

\* Part of a save never goes beyond the pool as opened and the form.
LEMMA DoneIsHarmless ==
    ASSUME PoolTypes, poolMode = "edit", NEW k, DoneTo(k)
    PROVE  /\ Pool!Held \subseteq Pool!Entered \cup {original[i] : i \in DOMAIN original}
           /\ \A j \in DOMAIN upRows : upRows[j].id # 0 => upRows[j].id \in DOMAIN backends
  <1>1. \A j \in DOMAIN upRows : upRows[j].id # 0 => upRows[j].id \in DOMAIN backends
    BY DEF DoneTo
  <1>2. ASSUME NEW n \in DOMAIN backends
        PROVE  backends[n] \in Pool!Entered \cup {original[i] : i \in DOMAIN original}
    <2>1. CASE n \in DOMAIN original \ Pool!keptIds
      BY <1>2, <2>1 DEF DoneTo
    <2>2. CASE n \notin DOMAIN original
      BY <1>2, <2>2 DEF DoneTo, Pool!Entered
    <2>3. CASE n \in DOMAIN original /\ n \in Pool!keptIds
      <3>1. PICK j \in DOMAIN upRows : n = upRows[j].id
        BY <2>3 DEF Pool!keptIds
      <3>2. n # 0
        BY <2>3, PoolAsOpened DEF PoolTypes, PoolForm
      <3>3. backends[n] = Pool!rowToCreate(upRows[j]) \/ backends[n] = original[n]
        BY <3>1, <3>2 DEF DoneTo
      <3> QED
        BY <2>3, <3>1, <3>3 DEF Pool!Entered
    <2> QED
      BY <2>1, <2>2, <2>3
  <1> QED
    BY <1>1, <1>2 DEF Pool!Held

\* upstream-dialog.tsx, services/upstream.py: when the dialog closes on a first
\* save the pool is what the form shows, whatever rows were removed, changed and
\* added in whatever order; a save under way, or one that failed half way, has
\* applied nothing beyond the form and lost no backend that is still in it; and
\* no request pairs ip_hash with a stream.  For any number of rows, edits,
\* addresses and faults of the network.
THEOREM PoolReconcilesHolds == Spec => []PoolReconciles
  <1>1. PoolInv => PoolReconciles
    <2> SUFFICES ASSUME PoolInv
                 PROVE  /\ Pool!FirstSaveReconciles /\ Pool!HalfSavedIsHarmless
                        /\ Pool!MethodFitsContext
      BY DEF PoolReconciles
    <2>1. Pool!FirstSaveReconciles
      BY DEF PoolInv, Reconciled, AsEntered, FormSettings, Pool!FirstSaveReconciles,
             Pool!PoolAsEntered
    <2>2. Pool!HalfSavedIsHarmless
      <3> SUFFICES ASSUME poolMode = "edit", Pool!saving, ~dirtyBase
                   PROVE  /\ Pool!Held \subseteq
                              Pool!Entered \cup {original[i] : i \in DOMAIN original}
                          /\ \A j \in DOMAIN upRows :
                               upRows[j].id # 0 => upRows[j].id \in DOMAIN backends
        BY DEF Pool!HalfSavedIsHarmless, Pool!NewId
      <3>1. poolOpen /\ reply \in {"sent", "ok", "err"}
        BY DEF PoolInv, PoolTypes, PoolSaving, Pool!saving
      <3>2. DoneTo(Round) \/ DoneTo(Round + 1)
        BY <3>1 DEF PoolInv, EditProgress
      <3> QED
        BY <3>2, DoneIsHarmless DEF PoolInv
    <2>3. Pool!MethodFitsContext
      BY DEF PoolInv, PoolTypes, PoolForm, Pool!MethodFitsContext
    <2> QED
      BY <2>1, <2>2, <2>3
  <1> QED
    BY <1>1, PoolInductive, PTL

\* The types of the pool dialog.
LEMMA PoolTyped == PoolInv => Pool!PoolTypeOK
  <1> SUFFICES ASSUME PoolInv PROVE Pool!PoolTypeOK
    OBVIOUS
  <1>1. {poolOpen, poolError, dirtyBase} \subseteq BOOLEAN
    BY Zenon DEF PoolInv, PoolTypes, PoolFlags
  <1>2. upRows \in Seq(PoolRow) /\ Len(upRows) <= MaxRows
    BY DEF PoolInv, PoolTypes, PoolForm
  <1>3. \A i \in DOMAIN upRows : upRows[i] \in PoolRow
    BY <1>2
  <1>4. \A i \in DOMAIN upRows : upRows[i].addr \in Addresses /\ upRows[i].down \in BOOLEAN
    BY <1>3 DEF PoolRow
  <1>5. \A i \in DOMAIN backends : backends[i].addr \in Addresses \ {""}
    BY DEF PoolInv, PoolTypes, PoolApi, PoolBackend
  <1>6. /\ poolMode \in {"new", "edit", "off"}
        /\ method \in Pool!Methods /\ upContext \in Pool!Contexts
        /\ rowEdits \in 0 .. MaxRowEdits /\ poolFaults \in 0 .. MaxPoolFaults
        /\ settings \in [method : Pool!Methods, context : Pool!Contexts]
    BY DEF PoolInv, PoolTypes, PoolForm, PoolApi, PoolSettings
  <1>7. reply \in {"none", "sent", "ok", "err"} /\ (reply # "none" => Pool!saving)
    BY DEF PoolInv, PoolTypes, PoolSaving
  <1> QED
    BY <1>1, <1>2, <1>4, <1>5, <1>6, <1>7 DEF Pool!PoolTypeOK

-----------------------------------------------------------------------------
(* The console.                                                            *)

\* Every variable of the console keeps to its type.
THEOREM ConsoleTypeCorrect == Spec => []ConsoleTypeOK
  <1>1. PagedInv /\ PoolInv /\ SessionInv /\ LogInv /\ CardInv /\ EditorInv => ConsoleTypeOK
    BY PagedTyped, PoolTyped, SessionTyped, LogTyped, CardTyped, EditorTyped DEF ConsoleTypeOK
  <1> QED
    BY <1>1, PagedInductive, PoolInductive, SessionInductive, LogInductive, CardInductive,
       EditorInductive, PTL

=============================================================================
