----------------------------- MODULE PagedTables -----------------------------
(***************************************************************************)
(* The tables whose pages the API cuts: the decisions and alerts of the    *)
(* security page (components/security/security-view.tsx) and the audit log *)
(* (components/audit-log/audit-log-view.tsx).  A React effect asks for the *)
(* page again whenever the search, the page number or the refresh tick     *)
(* changes; the answers arrive in any order.  The security tables drop the *)
(* answer of an effect run that has been superseded, the audit log applies *)
(* every answer.                                                           *)
(***************************************************************************)
EXTENDS Naturals, FiniteSets

CONSTANTS
    Queries,   \* what the filters may hold; NoQuery is the empty one
    NoQuery,
    PageSize,
    MaxTotal,  \* rows that match the empty query at most
    MaxMoves,  \* operator inputs
    MaxErrors  \* requests that fail

VARIABLES
    table,   \* the mounted table, "off" when another page is shown
    phone,   \* the rows are cards
    typed,   \* the search box
    search,  \* its debounced value
    pg,      \* the page asked for, from 1
    listed,  \* the answer on the screen
    fetching,\* decLoading, alertLoading, loading
    failed,  \* decError, alertError, error
    asks,    \* requests for a page, in flight; active: of the latest effect run
    lift,    \* the ban or unban in flight: "no", "sent", "ok" or "err"
    total,   \* per query, the rows the API has
    moves, errors,
    crossed  \* history: two requests of the table were in flight together

pagedVars == <<table, phone, typed, search, pg, listed, fetching, failed,
               asks, lift, total, moves, errors, crossed>>

-----------------------------------------------------------------------------
(* components/security/lib.ts                                              *)

pageCount(n, size) == IF n = 0 THEN 1 ELSE (n + size - 1) \div size

clampPage(p, n, size) ==
    IF p < 1 THEN 1 ELSE IF p > pageCount(n, size) THEN pageCount(n, size) ELSE p

Guarded == table \in {"decisions", "alerts"}

NoList == [q |-> NoQuery, page |-> 0, total |-> 0]

\* What a row offers, as a card and in the table.  Both pages are behind
\* AdminOnly, so canWrite holds on them.
DecisionsCards == {"details", "unban"}
DecisionsTable == {"details", "unban"}
AlertsCards == {"details", "ban"}
AlertsTable == {"details", "ban"}
AuditCards == {"details"}
AuditTable == {"details"}

RowOffers ==
    CASE table = "decisions" -> IF phone THEN DecisionsCards ELSE DecisionsTable
      [] table = "alerts" -> IF phone THEN AlertsCards ELSE AlertsTable
      [] OTHER -> IF phone THEN AuditCards ELSE AuditTable

\* openBan and the header's button: a ban may be typed in without a row.
HeaderOffers == IF Guarded THEN {"ban"} ELSE {}

Ask(q, p) == [active |-> TRUE, q |-> q, page |-> p, st |-> "sent", total |-> 0]

\* The effect runs again, for query q and page p, while the other requests are
\* still in flight; its cleanup marks them as no longer wanted.
RunEffect(q, p, others) ==
    /\ asks' = {[a EXCEPT !.active = FALSE] : a \in others} \cup {Ask(q, p)}
    /\ fetching' = TRUE
    /\ pg' = p
    /\ crossed' = (crossed \/ others # {})

PagedInit(T) ==
    /\ table \in T /\ phone \in BOOLEAN
    /\ typed = NoQuery /\ search = NoQuery /\ pg = 1
    /\ listed = NoList /\ fetching = TRUE /\ failed = FALSE
    /\ asks = {Ask(NoQuery, 1)}
    /\ lift = "no"
    /\ total \in {t \in [Queries -> 0..MaxTotal] :
                    t[NoQuery] = MaxTotal /\ \A q \in Queries \ {NoQuery} : t[q] < MaxTotal}
    /\ moves = 0 /\ errors = 0 /\ crossed = FALSE

Init == PagedInit({"decisions", "alerts", "audit"})

\* Another page of the console is shown.
PagedOff ==
    /\ table = "off" /\ phone = FALSE
    /\ typed = NoQuery /\ search = NoQuery /\ pg = 1
    /\ listed = NoList /\ fetching = FALSE /\ failed = FALSE /\ asks = {}
    /\ lift = "no" /\ total = [q \in Queries |-> 0]
    /\ moves = 0 /\ errors = 0 /\ crossed = FALSE

fixed == <<table, phone>>
Move == moves < MaxMoves /\ moves' = moves + 1

\* The error panel of a security table stands in for its search box and pager.
Controls == table # "off" /\ (Guarded => ~failed)

\* changeDecQuery, changeAlertQuery, refilter: back to page one at once, the
\* search itself after the pause.
Type(q) ==
    /\ Controls /\ q # typed /\ Move
    /\ typed' = q
    /\ IF pg # 1 THEN RunEffect(search, 1, asks)
       ELSE UNCHANGED <<asks, fetching, pg, crossed>>
    /\ UNCHANGED <<fixed, search, listed, failed, lift, total, errors>>

\* useDebouncedValue: the pause is over.
Debounce ==
    /\ table # "off" /\ typed # search
    /\ search' = typed
    /\ RunEffect(typed, pg, asks)
    /\ UNCHANGED <<fixed, typed, listed, failed, lift, total, moves, errors>>

\* The filters that are not debounced: the community switch, in the header and
\* so at hand next to the error panel too (it has the same effect on both
\* tables), the action and the object type.
Select(q) ==
    /\ table # "off" /\ typed = search /\ q # search /\ Move
    /\ typed' = q /\ search' = q
    /\ RunEffect(q, 1, asks)
    /\ UNCHANGED <<fixed, listed, failed, lift, total, errors>>

\* PaginationControls, and the two buttons of the audit log.
SecurityPages ==
    LET last == pageCount(listed.total, PageSize) IN
    (IF pg > 1 THEN {1, pg - 1} ELSE {}) \cup (IF pg < last THEN {pg + 1, last} ELSE {})

AuditPages ==
    (IF pg > 1 THEN {pg - 1} ELSE {})
        \cup (IF pg * PageSize < listed.total THEN {pg + 1} ELSE {})

GoTo(p) ==
    /\ Controls /\ ~fetching /\ Move
    /\ p \in IF Guarded THEN SecurityPages ELSE AuditPages
    /\ RunEffect(search, p, asks)
    /\ UNCHANGED <<fixed, typed, search, listed, failed, lift, total, errors>>

\* Retry of the error panel: refreshTick, or load of the audit log.
RetryTable ==
    /\ table # "off" /\ failed /\ Move
    /\ RunEffect(search, pg, asks)
    /\ UNCHANGED <<fixed, typed, search, listed, failed, lift, total, errors>>

\* BanDialog.handleSubmit and UnbanDialog.handleConfirm.
StartLift ==
    /\ Guarded /\ lift = "no" /\ Move
    /\ \/ HeaderOffers # {}
       \/ ~fetching /\ ~failed /\ listed.total > 0 /\ {"ban", "unban"} \cap RowOffers # {}
    /\ lift' = "sent"
    /\ UNCHANGED <<fixed, typed, search, pg, listed, fetching, failed, asks, total,
                   errors, crossed>>

\* The API adds or removes a decision; the alerts are not touched by it.
ServeLift ==
    /\ lift = "sent"
    /\ \/ /\ lift' = "ok" /\ errors' = errors
          /\ total' \in {total} \cup
               IF table = "decisions" /\ total[NoQuery] > 0
               THEN {[total EXCEPT ![NoQuery] = @ - 1],
                     [q \in Queries |-> IF total[q] > 0 THEN total[q] - 1 ELSE 0]}
               ELSE {}
       \/ /\ errors < MaxErrors /\ errors' = errors + 1
          /\ lift' = "err" /\ total' = total
    /\ UNCHANGED <<fixed, typed, search, pg, listed, fetching, failed, asks, moves,
                   crossed>>

AnswerLift ==
    /\ lift \in {"ok", "err"}
    /\ lift' = "no"
    /\ IF lift = "ok" THEN RunEffect(search, pg, asks)
       ELSE UNCHANGED <<asks, fetching, pg, crossed>>
    /\ UNCHANGED <<fixed, typed, search, listed, failed, total, moves, errors>>

\* The API reads the page, or the request fails.
ServeAsk(a) ==
    /\ a \in asks /\ a.st = "sent"
    /\ \/ /\ asks' = (asks \ {a}) \cup {[a EXCEPT !.st = "ok", !.total = total[a.q]]}
          /\ errors' = errors
       \/ /\ errors < MaxErrors /\ errors' = errors + 1
          /\ asks' = (asks \ {a}) \cup {[a EXCEPT !.st = "err"]}
    /\ UNCHANGED <<fixed, typed, search, pg, listed, fetching, failed, lift, total,
                   moves, crossed>>

Answer(a) == [q |-> a.q, page |-> a.page, total |-> a.total]

\* Mutant of Active: every answer is applied.
ActiveAlways(a) == TRUE

\* The end of the decisions and alerts effects: an answer nobody waits for is
\* dropped, and one that shows the page to be past the end steps back.
Active(a) == a.active

AnswerGuarded(a) ==
    /\ Guarded /\ a \in asks /\ a.st # "sent"
    /\ IF ~Active(a)
       THEN asks' = asks \ {a} /\ UNCHANGED <<pg, listed, fetching, failed, crossed>>
       ELSE IF a.st = "err"
       THEN /\ asks' = asks \ {a} /\ failed' = TRUE /\ fetching' = FALSE
            /\ UNCHANGED <<pg, listed, crossed>>
       ELSE /\ listed' = Answer(a) /\ failed' = FALSE
            /\ LET p == clampPage(pg, a.total, PageSize) IN
               IF p # pg THEN RunEffect(search, p, asks \ {a})
               ELSE asks' = asks \ {a} /\ fetching' = FALSE /\ UNCHANGED <<pg, crossed>>
    /\ UNCHANGED <<fixed, typed, search, lift, total, moves, errors>>

\* load of the audit log: every answer is applied.
AnswerAudit(a) ==
    /\ table = "audit" /\ a \in asks /\ a.st # "sent"
    /\ asks' = asks \ {a}
    /\ listed' = IF a.st = "ok" THEN Answer(a) ELSE [NoList EXCEPT !.total = listed.total]
    /\ failed' = (a.st = "err")
    /\ fetching' = FALSE
    /\ UNCHANGED <<fixed, typed, search, pg, lift, total, moves, errors, crossed>>

PagedNext ==
    \/ \E q \in Queries : Type(q) \/ Select(q)
    \/ \E p \in 1..pageCount(MaxTotal, PageSize) : GoTo(p)
    \/ Debounce \/ RetryTable \/ StartLift \/ ServeLift \/ AnswerLift
    \/ \E a \in asks : ServeAsk(a) \/ AnswerGuarded(a) \/ AnswerAudit(a)

Next == PagedNext

\* The debounce timer fires and requests are answered.
PagedFairness ==
    /\ WF_pagedVars(Debounce) /\ WF_pagedVars(ServeLift) /\ WF_pagedVars(AnswerLift)
    /\ WF_pagedVars(\E a \in asks : ServeAsk(a) \/ AnswerGuarded(a) \/ AnswerAudit(a))

Spec == Init /\ [][Next]_pagedVars /\ PagedFairness

-----------------------------------------------------------------------------
\* Type invariant of the tables.
PagedTypeOK ==
    /\ table \in {"decisions", "alerts", "audit", "off"}
    /\ {phone, fetching, failed, crossed} \subseteq BOOLEAN
    /\ {typed, search} \subseteq Queries /\ pg \in Nat \ {0}
    /\ listed \in [q : Queries, page : Nat, total : Nat]
    /\ asks \subseteq [active : BOOLEAN, q : Queries, page : Nat \ {0}, st : {"sent", "ok", "err"},
                       total : Nat]
    /\ lift \in {"no", "sent", "ok", "err"}
    /\ total \in [Queries -> 0..MaxTotal]
    /\ moves \in 0..MaxMoves /\ errors \in 0..MaxErrors

\* When nothing is in flight the rows on the screen are those of the search
\* and the page the controls show, whatever order the answers came in (the
\* `active` flag of the decisions and alerts effects).  The audit log promises
\* it only while its requests never overlap.
ShownIsAsked ==
    (table # "off" /\ asks = {} /\ ~failed /\ (Guarded \/ ~crossed)) =>
        /\ listed.q = search /\ listed.page = pg
        /\ Guarded => pg <= pageCount(listed.total, PageSize)

\* A table that is not waiting is not left waiting: its loading flag stands
\* for a request of the latest effect run ("if (active) setDecLoading(false)").
LoadingIsLatest ==
    Guarded => (fetching <=> \E a \in asks : a.active)

\* The table settles on what was last typed.
TableSettles ==
    <>[](table # "off" => ~fetching /\ typed = search
                           /\ (Guarded => failed \/ listed.q = typed))

=============================================================================
