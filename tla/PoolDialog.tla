------------------------------ MODULE PoolDialog ------------------------------
(***************************************************************************)
(* The upstream pool dialog (components/upstreams/upstream-dialog.tsx).    *)
(* A new pool is one request; an existing one is saved as a row of         *)
(* requests, one for the pool and one for every backend that was removed,  *)
(* changed or added, worked out against the pool as it was when the dialog *)
(* opened.  Any of them may fail, the ones before it stay applied, and the *)
(* operator may change the form and save again.                            *)
(***************************************************************************)
EXTENDS Naturals, Sequences, FiniteSets, FiniteSetsExt

CONSTANTS
    Addresses,      \* what the host and port of a backend may be; "" is blank
    MaxRows,        \* backends in the form
    MaxRowEdits,    \* changes of the form
    MaxPoolFaults   \* requests that fail for a reason of the network

NewId == 0

VARIABLES
    poolMode,   \* "new", "edit", or "off" when the dialog is not open
    poolOpen,   \* the dialog is still open
    original,   \* originalBackends: id -> backend, as the dialog was opened
    upRows,     \* the backends in the form
    method, upContext, \* the pool's own settings in the form
    todo,       \* the requests handleSubmit has still to make
    reply,      \* the one in flight: "none", "sent", "ok" or "err"
    poolError,  \* the error line is shown
    backends,   \* the API: id -> backend
    settings,   \* the API: the pool's method and context
    attached,   \* the API: the contexts of the hosts and streams that use the pool
    nextId, rowEdits, poolFaults,
    dirtyBase   \* history: an earlier save of this dialog failed half way

poolVars == <<poolMode, poolOpen, original, upRows, method, upContext, todo, reply, poolError,
              backends, settings, attached, nextId, rowEdits, poolFaults, dirtyBase>>

Methods == {"round_robin", "ip_hash"}
Contexts == {"http", "stream", "both"}

newRow == [id |-> NewId, addr |-> "", down |-> FALSE]
rowFromBackend(i, b) == [id |-> i, addr |-> b.addr, down |-> b.down]
rowToCreate(r) == [addr |-> r.addr, down |-> r.down]
Fields == {"addr", "down"}

\* backendDiff: the fields of an existing backend that differ from the row.
backendDiff(o, r) == [f \in {g \in Fields : r[g] # o[g]} |-> r[f]]
validateRow(r) == r.addr # ""

saving == todo # <<>>

\* The pool an instance edits.
OpenedPool == [i \in {1, 2} |-> [addr |-> IF i = 1 THEN "a" ELSE "b", down |-> FALSE]]

PoolInit(M) ==
    /\ poolMode \in M /\ poolOpen = TRUE
    /\ backends = IF poolMode = "edit" THEN OpenedPool ELSE <<>>
    /\ original = backends
    /\ upRows = IF poolMode = "edit"
                THEN << rowFromBackend(1, OpenedPool[1]), rowFromBackend(2, OpenedPool[2]) >>
                ELSE << newRow >>
    /\ settings = [method |-> IF poolMode = "edit" THEN "ip_hash" ELSE "round_robin",
                   context |-> "http"]
    /\ attached \in SUBSET (IF poolMode = "edit" THEN {settings.context} ELSE {})
    /\ method = settings.method /\ upContext = settings.context
    /\ todo = <<>> /\ reply = "none" /\ poolError = FALSE
    /\ nextId = 3 /\ rowEdits = 0 /\ poolFaults = 0 /\ dirtyBase = FALSE

PoolOff ==
    /\ poolMode = "off" /\ poolOpen = FALSE /\ backends = <<>> /\ original = <<>>
    /\ upRows = <<>> /\ settings = [method |-> "round_robin", context |-> "http"]
    /\ attached = {}
    /\ method = "round_robin" /\ upContext = "http"
    /\ todo = <<>> /\ reply = "none" /\ poolError = FALSE
    /\ nextId = 3 /\ rowEdits = 0 /\ poolFaults = 0 /\ dirtyBase = FALSE

Init == PoolInit({"new", "edit"})

theApi == <<backends, settings, attached, nextId>>
theSave == <<todo, reply, poolError, dirtyBase>>
theRest == <<poolMode, poolOpen, original, poolFaults, theApi, theSave>>

FormEdit ==
    /\ poolOpen /\ ~saving /\ rowEdits < MaxRowEdits /\ rowEdits' = rowEdits + 1

\* changeContext: ip_hash is an http-only method.
changeContext(c) ==
    /\ FormEdit /\ c # upContext
    /\ upContext' = c
    /\ method' = IF c # "http" /\ method = "ip_hash" THEN "round_robin" ELSE method
    /\ UNCHANGED <<upRows, theRest>>

\* The method select offers what the context allows.
ChooseMethod(m) ==
    /\ FormEdit /\ m # method
    /\ upContext # "http" => m # "ip_hash"
    /\ method' = m
    /\ UNCHANGED <<upRows, upContext, theRest>>

\* updateRow, from the inputs of a card and of a line of the table.
CardInputs(i) ==
    upRows' \in {[upRows EXCEPT ![i].down = ~@]} \cup {[upRows EXCEPT ![i].addr = a] : a \in Addresses}
TableInputs(i) ==
    upRows' \in {[upRows EXCEPT ![i].down = ~@]} \cup {[upRows EXCEPT ![i].addr = a] : a \in Addresses}

updateRow(i) ==
    /\ FormEdit /\ i \in DOMAIN upRows
    /\ CardInputs(i) \/ TableInputs(i)
    /\ UNCHANGED <<method, upContext, theRest>>

addRow ==
    /\ FormEdit /\ Len(upRows) < MaxRows
    /\ upRows' = Append(upRows, newRow)
    /\ UNCHANGED <<method, upContext, theRest>>

removeRow(i) ==
    /\ FormEdit /\ i \in DOMAIN upRows
    /\ upRows' = [j \in 1..(Len(upRows) - 1) |-> upRows[IF j < i THEN j ELSE j + 1]]
    /\ UNCHANGED <<method, upContext, theRest>>

\* The requests of one save, in order.
Op(op, id, b) == [op |-> op, id |-> id, b |-> b]
NoBackend == [addr |-> "", down |-> FALSE]

\* Mutant of keptIds: the ids of the new rows are collected.
keptIdsOfNew == {upRows[i].id : i \in {j \in DOMAIN upRows : upRows[j].id = NewId}}

keptIds == {upRows[i].id : i \in DOMAIN upRows}

\* The loops of a save: over the backends it was opened with, over the rows.
Removals == [i \in 1..2 |-> Op("remove", i, NoBackend)]

RowRequests ==
    [i \in DOMAIN upRows |->
       IF upRows[i].id = NewId THEN Op("add", NewId, rowToCreate(upRows[i]))
       ELSE Op("patch", upRows[i].id, backendDiff(original[upRows[i].id], upRows[i]))]

Plan ==
    IF poolMode = "new" THEN << Op("create", NewId, NoBackend) >>
    ELSE << Op("update", NewId, NoBackend) >> \o Removals \o RowRequests

\* Rounds of the loops that ask for nothing.
Needless(q) == IF q.op = "remove" THEN q.id \in keptIds ELSE q.op = "patch" /\ DOMAIN q.b = {}

\* What is left of the plan p once those at its front are passed over.
Due(p) ==
    LET wanted == {k \in DOMAIN p : ~Needless(p[k])}
    IN  IF wanted = {} THEN <<>> ELSE SubSeq(p, Min(wanted), Len(p))

handleSubmit ==
    /\ poolOpen /\ ~saving
    /\ IF Len(upRows) = 0 \/ \E i \in DOMAIN upRows : ~validateRow(upRows[i])
       THEN poolError = FALSE /\ poolError' = TRUE /\ UNCHANGED <<todo, reply>>
       ELSE poolError' = FALSE /\ todo' = Plan /\ reply' = "sent"
    /\ UNCHANGED <<poolMode, poolOpen, original, upRows, method, upContext, theApi, rowEdits,
                   poolFaults, dirtyBase>>

-----------------------------------------------------------------------------
(* The API: services/upstream.py.                                          *)

\* validate_pool_config; the dialog has no control for backup servers.
Legal == ~(method = "ip_hash" /\ upContext # "http")

\* assert_context_change_allowed: a context in use is not dropped.
ContextKept == upContext \in {settings.context, "both"} \/ attached \subseteq {upContext}

\* UNIQUE (upstream_id, host, port)
Taken(a, but) == \E i \in DOMAIN backends \ {but} : backends[i].addr = a

\* update_backend: the fields that were sent over the ones that are held.
Patched(q) == [f \in Fields |-> IF f \in DOMAIN q.b THEN q.b[f] ELSE backends[q.id][f]]

Accepts(q) ==
    CASE q.op = "create" ->
           Legal /\ \A i, j \in DOMAIN upRows : i # j => upRows[i].addr # upRows[j].addr
      [] q.op = "update" -> Legal /\ ContextKept
      [] q.op = "remove" -> q.id \in DOMAIN backends
      [] q.op = "patch" -> q.id \in DOMAIN backends /\ ~Taken(Patched(q).addr, q.id)
      [] q.op = "add" -> ~Taken(q.b.addr, NewId)

Apply(q) ==
    /\ settings' = IF q.op \in {"create", "update"}
                   THEN [method |-> method, context |-> upContext] ELSE settings
    /\ backends' = CASE q.op = "create" -> [i \in 3..(2 + Len(upRows)) |-> rowToCreate(upRows[i - 2])]
                     [] q.op = "update" -> backends
                     [] q.op = "remove" -> [i \in DOMAIN backends \ {q.id} |-> backends[i]]
                     [] q.op = "patch" -> [backends EXCEPT ![q.id] = Patched(q)]
                     [] q.op = "add" -> [i \in DOMAIN backends \cup {nextId} |->
                                            IF i = nextId THEN q.b ELSE backends[i]]
    /\ nextId' = CASE q.op = "create" -> 3 + Len(upRows)
                   [] q.op = "add" -> nextId + 1
                   [] OTHER -> nextId
    /\ attached' = attached

ServePool ==
    /\ reply = "sent"
    /\ IF Accepts(todo[1]) THEN reply' = "ok" /\ Apply(todo[1])
       ELSE reply' = "err" /\ UNCHANGED theApi
    /\ UNCHANGED <<poolMode, poolOpen, original, upRows, method, upContext, todo, poolError,
                   rowEdits, poolFaults, dirtyBase>>

\* The connection breaks, before or after the API did its part.
BreakPool ==
    /\ reply = "sent" /\ poolFaults < MaxPoolFaults /\ poolFaults' = poolFaults + 1
    /\ reply' = "err"
    /\ UNCHANGED theApi \/ (Accepts(todo[1]) /\ Apply(todo[1]))
    /\ UNCHANGED <<poolMode, poolOpen, original, upRows, method, upContext, todo, poolError,
                   rowEdits, dirtyBase>>

\* The catch and finally of handleSubmit.
Abandon ==
    /\ todo' = <<>> /\ reply' = "none" /\ poolError' = TRUE /\ dirtyBase' = TRUE

\* The loop goes on, ends, or throws: what was applied stays, the dialog stays
\* open over the same originalBackends and nothing is reloaded.
AnswerPool ==
    /\ reply \in {"ok", "err"}
    /\ IF reply = "err"
       THEN Abandon /\ poolOpen' = poolOpen
       ELSE /\ todo' = Due(Tail(todo))
            /\ reply' = IF todo' # <<>> THEN "sent" ELSE "none"
            /\ poolOpen' = (todo' # <<>>)
            /\ UNCHANGED <<poolError, dirtyBase>>
    /\ UNCHANGED <<poolMode, original, upRows, method, upContext, theApi, rowEdits, poolFaults>>

PoolNext ==
    \/ \E c \in Contexts : changeContext(c)
    \/ \E m \in Methods : ChooseMethod(m)
    \/ \E i \in 1..MaxRows : updateRow(i) \/ removeRow(i)
    \/ addRow \/ handleSubmit \/ ServePool \/ BreakPool \/ AnswerPool

Next == PoolNext

PoolFairness == WF_poolVars(ServePool) /\ WF_poolVars(AnswerPool)

Spec == Init /\ [][Next]_poolVars /\ PoolFairness

-----------------------------------------------------------------------------
\* Type invariant of the pool dialog.
PoolTypeOK ==
    /\ poolMode \in {"new", "edit", "off"} /\ {poolOpen, poolError, dirtyBase} \subseteq BOOLEAN
    /\ \A i \in DOMAIN upRows : upRows[i].addr \in Addresses /\ upRows[i].down \in BOOLEAN
    /\ Len(upRows) <= MaxRows
    /\ method \in Methods /\ upContext \in Contexts
    /\ settings \in [method : Methods, context : Contexts]
    /\ reply \in {"none", "sent", "ok", "err"} /\ (reply # "none" => saving)
    /\ \A i \in DOMAIN backends : backends[i].addr \in Addresses \ {""}
    /\ poolFaults \in 0..MaxPoolFaults /\ rowEdits \in 0..MaxRowEdits

Entered == {rowToCreate(upRows[i]) : i \in DOMAIN upRows}
Held == {backends[i] : i \in DOMAIN backends}

\* When the dialog closes on a save, the pool is what the form shows.
PoolAsEntered == (poolMode # "off" /\ ~poolOpen) =>
    /\ Held = Entered /\ settings = [method |-> method, context |-> upContext]

\* The same for a dialog no earlier save of which failed: the order in which a
\* save removes, patches and adds leaves nothing out and nothing behind.
FirstSaveReconciles == ~dirtyBase => PoolAsEntered

\* What a save that failed has applied so far is part of what the form asks
\* for: the pool never holds a backend that was neither there nor entered, and
\* loses none that is still in the form.
HalfSavedIsHarmless ==
    (poolMode = "edit" /\ saving /\ ~dirtyBase) =>
        /\ Held \subseteq Entered \cup {original[i] : i \in DOMAIN original}
        /\ \A i \in DOMAIN upRows : upRows[i].id # NewId => upRows[i].id \in DOMAIN backends

\* No save pairs ip_hash with a stream context, however the two selects and the
\* retries follow each other (changeContext drops the illegal selection).
MethodFitsContext == saving => Legal

\* No save lasts for ever, however often it fails and is tried again.
PoolSaveEnds == []<>~saving

=============================================================================
