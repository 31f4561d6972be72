------------------------------ MODULE ListPages ------------------------------
(***************************************************************************)
(* The list pages of the console (src/frontend/src/components): one of the *)
(* twelve views is mounted, loads its rows, flips switches optimistically, *)
(* opens dialogs over the rows and reloads after every write.  The API is  *)
(* asynchronous: requests are served and answered in any order, may be     *)
(* refused, and an answer may be lost after its request was applied.       *)
(*                                                                         *)
(* A row is the set of its flags that are on: its switches, and the        *)
(* attributes on which the row's buttons depend.                           *)
(***************************************************************************)
EXTENDS Naturals, FiniteSets, Functions

CONSTANTS
    Rows,       \* the ids a row may have
    Initial,    \* the ids of the rows the API starts with
    Views,      \* the views an instance mounts
    Searches,   \* the sets of rows a search may filter out
    MaxFlight,  \* requests in flight at one time
    MaxClicks,  \* requests the operator starts
    MaxFaults   \* requests refused and answers lost

NoRow == 0

ViewNames == {"proxy_hosts", "upstreams", "streams", "dead_hosts", "redirection_hosts",
              "access_lists", "certificates", "dns_credentials", "users", "backups",
              "custom_pages", "whitelists"}

ASSUME ListPagesAssumption ==
    /\ Views \subseteq ViewNames
    /\ IsFiniteSet(Rows) /\ NoRow \notin Rows /\ Initial \subseteq Rows
    /\ Searches \subseteq SUBSET Rows
    /\ MaxFlight \in Nat \ {0} /\ MaxClicks \in Nat /\ MaxFaults \in Nat

VARIABLES
    view,      \* the mounted view
    admin,     \* the role of the signed-in user is admin
    mobile,    \* useIsMobile: the rows are cards instead of a table
    hidden,    \* the rows the search box filters out
    server,    \* the rows the API holds
    job,       \* what the worker is at: nothing, a backup or a restore
    rows,      \* the rows the view holds
    loading,   \* the skeleton stands in for the rows
    loadError, \* the last load failed (whitelists: wlStatus is null)
    extras,    \* dns_credentials: the catalogue is loaded; users: canInvite
    blocked,   \* backups: the restore status the view holds says running
    dialog,    \* the open dialog [slot, row]; one at a time, it is modal
    forms,     \* per dialog slot, the state of its mounted component
    flight,    \* the requests in flight
    pending,   \* the EnabledToggle instances that wait for their request
    renewing,  \* certificates: renewingId
    tracked,   \* certificates: tasks being polled
    clicks, faults, \* spent of MaxClicks and MaxFaults
    doubt      \* history: a load overlapped a write, two writes of a row
               \* overlapped, or an answer was lost

vars == <<view, admin, mobile, hidden, server, job, rows, loading, loadError,
          extras, blocked, dialog, forms, flight, pending, renewing, tracked, clicks,
          faults, doubt>>

-----------------------------------------------------------------------------
(* What each view loads, and the flags and switches of its rows.           *)

ProxyHostsLoad == {"rows", "upstreams", "accessLists", "certificates", "customPages"}
UpstreamsLoad == {"rows"}
StreamsLoad == {"rows", "certificates", "upstreams"}
DeadHostsLoad == {"rows", "certificates"}
RedirectionHostsLoad == {"rows", "certificates"}
AccessListsLoad == {"rows"}
CertificatesLoad == {"rows"}
DnsCredentialsLoad == {"rows", "catalog"}
UsersLoad == {"rows"}
BackupsLoad == {"rows", "settings", "status"}
CustomPagesLoad == {"rows"}
WhitelistsLoad == {"rows", "status"}

Parts(v) ==
    CASE v = "proxy_hosts" -> ProxyHostsLoad
      [] v = "upstreams" -> UpstreamsLoad
      [] v = "streams" -> StreamsLoad
      [] v = "dead_hosts" -> DeadHostsLoad
      [] v = "redirection_hosts" -> RedirectionHostsLoad
      [] v = "access_lists" -> AccessListsLoad
      [] v = "certificates" -> CertificatesLoad
      [] v = "dns_credentials" -> DnsCredentialsLoad
      [] v = "users" -> UsersLoad
      [] v = "backups" -> BackupsLoad
      [] v = "custom_pages" -> CustomPagesLoad
      [] v = "whitelists" -> WhitelistsLoad

\* The optimistic handlers: setEnabled, setPoolEnabled and setMaintenance.
ProxyHostsSetEnabled == {"enabled"}
ProxyHostsSetMaintenance == {"maintenance"}
UpstreamsSetPoolEnabled == {"enabled"}
StreamsSetEnabled == {"enabled"}
DeadHostsSetEnabled == {"enabled"}
RedirectionHostsSetEnabled == {"enabled"}

\* The switch of a whitelist is not optimistic: it sends the whole row as the
\* page holds it and reloads.
ToggleWhitelist == {"enabled"}
Optimistic == view # "whitelists"

Switches(v) ==
    CASE v = "proxy_hosts" -> ProxyHostsSetEnabled \cup ProxyHostsSetMaintenance
      [] v = "upstreams" -> UpstreamsSetPoolEnabled
      [] v = "streams" -> StreamsSetEnabled
      [] v = "dead_hosts" -> DeadHostsSetEnabled
      [] v = "redirection_hosts" -> RedirectionHostsSetEnabled
      [] v = "whitelists" -> ToggleWhitelist
      [] OTHER -> {}

Flags(v) ==
    Switches(v) \cup
    CASE v = "certificates" -> {"letsencrypt"}
      [] v = "users" -> {"totp", "invited", "self"}
      [] v = "backups" -> {"key_matches"}
      [] v = "whitelists" -> {"entries"}
      [] OTHER -> {}

\* Mutant of FormFlags: every form sends the entries of a whitelist.
FormFlagsForeign(v) == Switches(v) \cup {"entries"}

\* The flags a form of the view sends: its switches and, where there are such,
\* the provider or the entries of the row.
FormFlags(v) ==
    Switches(v) \cup CASE v = "certificates" -> {"letsencrypt"}
                        [] v = "whitelists" -> {"entries"}
                        [] OTHER -> {}

\* The flag sets the rows of an instance start with.
Seeds(v) ==
    CASE v = "certificates" -> {{}, {"letsencrypt"}}
      [] v = "users" -> {{"totp", "invited"}, {"self"}}
      [] v = "backups" -> {{}, {"key_matches"}}
      [] OTHER -> {Switches(v) \ {"maintenance"}}

-----------------------------------------------------------------------------
(* The controls a view offers: in its header, and on a row r, as a card of *)
(* the phone layout and as a line of the table.                            *)

canWrite == admin

\* AdminOnly renders the page, and so fires its requests, for an admin only.
Mounted == admin

ProxyHostsHeader == IF canWrite THEN {"new"} ELSE {}
ProxyHostsCards(r) ==
    IF canWrite THEN {"enabled", "maintenance", "edit", "delete"} ELSE {}
ProxyHostsTable(r) ==
    IF canWrite THEN {"enabled", "maintenance", "edit", "delete"} ELSE {}

UpstreamsHeader == IF canWrite THEN {"new"} ELSE {}
UpstreamsCards(r) == IF canWrite THEN {"enabled", "edit", "delete"} ELSE {}
UpstreamsTable(r) == IF canWrite THEN {"enabled", "edit", "delete"} ELSE {}

StreamsHeader == IF canWrite THEN {"new"} ELSE {}
StreamsCards(r) == IF canWrite THEN {"enabled", "edit", "delete"} ELSE {}
StreamsTable(r) == IF canWrite THEN {"enabled", "edit", "delete"} ELSE {}

DeadHostsHeader == IF canWrite THEN {"new"} ELSE {}
DeadHostsCards(r) == IF canWrite THEN {"enabled", "edit", "delete"} ELSE {}
DeadHostsTable(r) == IF canWrite THEN {"enabled", "edit", "delete"} ELSE {}

RedirectionHostsHeader == IF canWrite THEN {"new"} ELSE {}
RedirectionHostsCards(r) == IF canWrite THEN {"enabled", "edit", "delete"} ELSE {}
RedirectionHostsTable(r) == IF canWrite THEN {"enabled", "edit", "delete"} ELSE {}

AccessListsHeader == IF canWrite THEN {"new"} ELSE {}
AccessListsCards(r) == IF canWrite THEN {"edit", "delete"} ELSE {}
AccessListsTable(r) == IF canWrite THEN {"edit", "delete"} ELSE {}

\* A certificate is renewed, never edited; one renewal shows at a time.
CertificatesHeader == IF canWrite THEN {"new"} ELSE {}
CanRenew(r) == "letsencrypt" \in rows[r] /\ renewing # r
CertificatesCards(r) ==
    IF ~canWrite THEN {}
    ELSE {"delete"} \cup IF CanRenew(r) THEN {"renew"} ELSE {}
CertificatesTable(r) ==
    IF ~canWrite THEN {}
    ELSE {"delete"} \cup IF CanRenew(r) THEN {"renew"} ELSE {}

\* New needs the catalogue, which comes with the first load that succeeds.
DnsCredentialsHeader == IF extras THEN {"new"} ELSE {}
DnsCredentialsCards(r) == {"edit", "verify", "delete"}
DnsCredentialsTable(r) == {"edit", "verify", "delete"}

\* Invite is hidden until the backend says an invitation could be sent.
UsersHeader == {"new"} \cup IF extras THEN {"invite"} ELSE {}
UsersCards(r) ==
    {"edit", "reset"}
        \cup (IF "totp" \in rows[r] THEN {"totp"} ELSE {})
        \cup (IF "invited" \in rows[r] THEN {"resend"} ELSE {})
        \cup (IF "self" \in rows[r] THEN {} ELSE {"delete"})
UsersTable(r) ==
    {"edit", "reset"}
        \cup (IF "totp" \in rows[r] THEN {"totp"} ELSE {})
        \cup (IF "invited" \in rows[r] THEN {"resend"} ELSE {})
        \cup (IF "self" \in rows[r] THEN {} ELSE {"delete"})

\* busy: a backup or an upload started here, or the reload an upload waits
\* for, is still unanswered.
Busy == \E i \in DOMAIN flight : flight[i].slot = "busy"
BackupsHeader == IF Busy THEN {} ELSE {"take", "upload"}
BackupsRowActions(r) ==
    {"download", "delete"} \cup IF "key_matches" \in rows[r] THEN {"restore"} ELSE {}

\* Edit and New leave for the editor page.
CustomPagesHeader == IF canWrite THEN {"leave"} ELSE {}
CustomPagesCards(r) == {"preview"} \cup IF canWrite THEN {"leave", "delete"} ELSE {}
CustomPagesTable(r) == {"preview"} \cup IF canWrite THEN {"leave", "delete"} ELSE {}

\* Delete asks nothing; there is no skeleton and no error panel.
WhitelistsHeader == IF canWrite THEN {"new"} ELSE {}
WhitelistsCards(r) == IF canWrite THEN {"enabled", "edit", "remove"} ELSE {}
WhitelistsTable(r) == IF canWrite THEN {"enabled", "edit", "remove"} ELSE {}

Header ==
    CASE view = "proxy_hosts" -> ProxyHostsHeader
      [] view = "upstreams" -> UpstreamsHeader
      [] view = "streams" -> StreamsHeader
      [] view = "dead_hosts" -> DeadHostsHeader
      [] view = "redirection_hosts" -> RedirectionHostsHeader
      [] view = "access_lists" -> AccessListsHeader
      [] view = "certificates" -> CertificatesHeader
      [] view = "dns_credentials" -> DnsCredentialsHeader
      [] view = "users" -> UsersHeader
      [] view = "backups" -> BackupsHeader
      [] view = "custom_pages" -> CustomPagesHeader
      [] view = "whitelists" -> WhitelistsHeader

Cards(r) ==
    CASE view = "proxy_hosts" -> ProxyHostsCards(r)
      [] view = "upstreams" -> UpstreamsCards(r)
      [] view = "streams" -> StreamsCards(r)
      [] view = "dead_hosts" -> DeadHostsCards(r)
      [] view = "redirection_hosts" -> RedirectionHostsCards(r)
      [] view = "access_lists" -> AccessListsCards(r)
      [] view = "certificates" -> CertificatesCards(r)
      [] view = "dns_credentials" -> DnsCredentialsCards(r)
      [] view = "users" -> UsersCards(r)
      [] view = "backups" -> BackupsRowActions(r)
      [] view = "custom_pages" -> CustomPagesCards(r)
      [] view = "whitelists" -> WhitelistsCards(r)

Table(r) ==
    CASE view = "proxy_hosts" -> ProxyHostsTable(r)
      [] view = "upstreams" -> UpstreamsTable(r)
      [] view = "streams" -> StreamsTable(r)
      [] view = "dead_hosts" -> DeadHostsTable(r)
      [] view = "redirection_hosts" -> RedirectionHostsTable(r)
      [] view = "access_lists" -> AccessListsTable(r)
      [] view = "certificates" -> CertificatesTable(r)
      [] view = "dns_credentials" -> DnsCredentialsTable(r)
      [] view = "users" -> UsersTable(r)
      [] view = "backups" -> BackupsRowActions(r)
      [] view = "custom_pages" -> CustomPagesTable(r)
      [] view = "whitelists" -> WhitelistsTable(r)

\* Whether row r is on the screen, and the controls that can be used on it
\* and in the header: none while a dialog or the restore screen covers them.
Rendered(r) == Mounted /\ ~loading /\ r \in DOMAIN rows \ hidden
Reachable == Mounted /\ dialog.slot = "none" /\ ~blocked
RowControls(r) == IF mobile THEN Cards(r) ELSE Table(r)
Offered(r, c) == Reachable /\ Rendered(r) /\ c \in RowControls(r)
OfferedInHeader(c) == Reachable /\ c \in Header

-----------------------------------------------------------------------------
(* Dialogs.  A slot is one dialog component of a view; its state is the    *)
(* flags in its form, whether the operator changed something else in it,   *)
(* and the request it waits for (saving, deleting, starting).              *)

Slots == {"form", "confirm", "totp", "reset", "invite", "verify", "restore", "preview"}

\* How a view mounts a slot.  "perOpen": only while it is open.  "keyed":
\* always, and again when its key, the target row, changes.  "mounted": once.
ProxyHostsDialogs(s) == "perOpen"
UpstreamsDialogs(s) == "perOpen"
StreamsDialogs(s) == "perOpen"
DeadHostsDialogs(s) == "perOpen"
RedirectionHostsDialogs(s) == "perOpen"
AccessListsDialogs(s) == "perOpen"
CertificatesDialogs(s) == "perOpen"
CustomPagesDialogs(s) == "perOpen"
WhitelistsDialogs(s) == "perOpen"
BackupsDialogs(s) == "perOpen"
DnsCredentialsDialogs(s) ==
    CASE s = "form" -> "keyed" [] s = "confirm" -> "mounted" [] OTHER -> "perOpen"
UsersDialogs(s) ==
    CASE s = "form" -> "keyed"
      [] s \in {"confirm", "totp"} -> "mounted"
      [] OTHER -> "perOpen"

Mount(v, s) ==
    CASE v = "proxy_hosts" -> ProxyHostsDialogs(s)
      [] v = "upstreams" -> UpstreamsDialogs(s)
      [] v = "streams" -> StreamsDialogs(s)
      [] v = "dead_hosts" -> DeadHostsDialogs(s)
      [] v = "redirection_hosts" -> RedirectionHostsDialogs(s)
      [] v = "access_lists" -> AccessListsDialogs(s)
      [] v = "certificates" -> CertificatesDialogs(s)
      [] v = "dns_credentials" -> DnsCredentialsDialogs(s)
      [] v = "users" -> UsersDialogs(s)
      [] v = "backups" -> BackupsDialogs(s)
      [] v = "custom_pages" -> CustomPagesDialogs(s)
      [] v = "whitelists" -> WhitelistsDialogs(s)

NoDialog == [slot |-> "none", row |-> NoRow]

\* The slot a control opens.
SlotOf == [c \in {"new", "edit", "delete", "totp", "reset", "invite", "verify",
                  "restore", "preview"} |->
             CASE c \in {"new", "edit"} -> "form"
               [] c = "delete" -> "confirm"
               [] OTHER -> c]

\* A form as it is seeded for row r: the flags it will send, from the row or
\* the defaults of a new one.
Seeded(r) ==
    [key |-> r,
     vals |-> FormFlags(view) \cap IF r \in DOMAIN rows THEN rows[r]
                                 ELSE FormFlags(view) \ {"maintenance"},
     dirty |-> FALSE,
     wait |-> 0]

Saving(s) == forms[s].wait # 0

-----------------------------------------------------------------------------
(* Requests.                                                               *)

Idle == [op |-> "idle", slot |-> "none", row |-> NoRow, flag |-> "none", on |-> FALSE,
         snap |-> <<>>, failed |-> {}, st |-> "idle"]

Writes == {"toggle", "save", "create", "delete", "remove", "totp", "upload"}

Request(op, slot, r) == [Idle EXCEPT !.op = op, !.slot = slot, !.row = r, !.st = "sent"]

Free == {i \in DOMAIN flight : flight[i].op = "idle"}

InFlight(ops) == {i \in DOMAIN flight : flight[i].op \in ops}

\* req leaves in slot i of the connection pool; the history records whether
\* it overlaps a request that may make a loaded list out of date.
Send(i, req) ==
    /\ i \in Free /\ \A j \in Free : i <= j
    /\ flight' = [flight EXCEPT ![i] = req]
    /\ doubt' = IF req.op = "load" /\ InFlight(Writes \cup {"load"}) = {}
                THEN FALSE
                ELSE \/ doubt
                     \/ req.op = "load" /\ InFlight(Writes) # {}
                     \/ req.op \in Writes /\ \E j \in InFlight(Writes \cup {"load"}) :
                                               flight[j].row \in {NoRow, req.row}

\* Bound: with the last request spent the operator only closes dialogs.
AtWork == clicks < MaxClicks

Click == AtWork /\ clicks' = clicks + 1

\* The answer to request i has been handled, and next is sent in its place.
Settle(i, next) ==
    /\ flight' = [flight EXCEPT ![i] = next]
    /\ doubt' = IF next.op = "load" /\ InFlight(Writes \cup {"load"}) \subseteq {i}
                THEN FALSE
                ELSE doubt \/ (next.op = "load" /\ InFlight(Writes) \ {i} # {})

-----------------------------------------------------------------------------
Blank == [key |-> NoRow, vals |-> {}, dirty |-> FALSE, wait |-> 0]

Init ==
    /\ view \in Views
    /\ admin \in BOOLEAN
    /\ mobile = FALSE
    /\ hidden = {}
    /\ \E f \in Seeds(view) : server = [r \in Initial |-> f]
    /\ job = "none"
    /\ rows = <<>>
    /\ loading = (view # "whitelists") /\ loadError = FALSE
    /\ extras = FALSE /\ blocked = FALSE
    /\ dialog = NoDialog
    /\ forms = [s \in Slots |-> Blank]
    /\ flight = [i \in 1..MaxFlight |->
                   IF Mounted /\ i = 1 THEN Request("load", "none", NoRow) ELSE Idle]
    /\ pending = {} /\ renewing = NoRow /\ tracked = 0
    /\ clicks = 0 /\ faults = 0 /\ doubt = FALSE

page == <<view, admin, mobile, hidden>>
backend == <<server, job>>
shown == <<rows, loading, loadError, extras, blocked>>
over == <<dialog, forms>>
waits == <<pending, renewing, tracked>>

\* The views whose reload puts the skeleton over the rows.
Skeleton == view \notin {"backups", "whitelists"}

-----------------------------------------------------------------------------
(* The operator.                                                           *)

Flipped(flags, f) == IF f \in flags THEN flags \ {f} ELSE flags \cup {f}

\* EnabledToggle.handleChange and the view's optimistic handler.
Toggle(r, f) ==
    /\ f \in Switches(view) /\ Offered(r, f)
    /\ \A p \in pending : ~(p.row = r /\ p.flag = f)
    /\ Click
    /\ \E i \in Free :
         /\ Send(i, [Request("toggle", "none", r) EXCEPT
                       !.flag = f, !.on = f \notin rows[r], !.snap = [x \in {r} |-> rows[r]]])
         /\ pending' = pending \cup {[row |-> r, flag |-> f, req |-> i]}
    /\ rows' = IF Optimistic THEN [rows EXCEPT ![r] = Flipped(@, f)] ELSE rows
    /\ UNCHANGED <<page, backend, loading, loadError, extras, blocked, over, renewing,
                   tracked, faults>>

\* A switch of a row that leaves the screen is unmounted, and with it the
\* memory of the request it waits for.
StillMounted(P) == {p \in P : p.row \in DOMAIN rows' /\ p.row \notin hidden' /\ ~loading'}

Search(H) ==
    /\ AtWork /\ Reachable /\ view \notin {"users", "dns_credentials", "backups"}
    /\ H # hidden
    /\ hidden' = H
    /\ UNCHANGED shown
    /\ pending' = StillMounted(pending)
    /\ UNCHANGED <<view, admin, mobile, backend, over, flight, renewing, tracked,
                   clicks, faults, doubt>>

Resize ==
    /\ AtWork /\ Mounted
    /\ mobile' = ~mobile
    /\ pending' = {}
    /\ UNCHANGED <<view, admin, hidden, backend, shown, over, flight, renewing, tracked,
                   clicks, faults, doubt>>

\* A control of the header (r is NoRow) or of a row opens its dialog.
Open(c, r) ==
    /\ AtWork /\ c \in DOMAIN SlotOf
    /\ IF r = NoRow THEN OfferedInHeader(c) ELSE Offered(r, c)
    /\ dialog' = [slot |-> SlotOf[c], row |-> r]
    /\ LET s == SlotOf[c] IN
       forms' = CASE Mount(view, s) = "mounted" -> forms
                  [] Mount(view, s) = "keyed" /\ forms[s].key = r -> forms
                  [] OTHER -> [forms EXCEPT ![s] = Seeded(r)]
    /\ UNCHANGED <<page, backend, shown, waits, flight, clicks, faults, doubt>>

\* The form once the dialog of slot s is gone.
Closed(s) == IF Mount(view, s) = "perOpen" THEN [forms EXCEPT ![s] = Blank] ELSE forms

\* Escape, the close button, or Cancel; only Cancel is disabled while saving.
Dismiss ==
    /\ dialog # NoDialog /\ ~blocked
    /\ dialog' = NoDialog
    /\ forms' = Closed(dialog.slot)
    /\ UNCHANGED <<page, backend, shown, waits, flight, clicks, faults, doubt>>

\* A field of the form changes: a flag of the row or, on the views whose forms
\* have none, something else.
EditField(f) ==
    /\ AtWork /\ dialog.slot \in {"form", "restore"} /\ ~blocked
    /\ LET s == dialog.slot IN
       /\ ~Saving(s)
       /\ f \in IF s = "restore" THEN {"hostname"}
                ELSE IF FormFlags(view) # {} THEN FormFlags(view) ELSE {"other"}
       /\ forms' = [forms EXCEPT ![s].dirty = @ \/ f \notin FormFlags(view),
                                 ![s].vals = IF f \in FormFlags(view) THEN Flipped(@, f) ELSE @]
    /\ UNCHANGED <<page, backend, shown, dialog, waits, flight, clicks, faults, doubt>>

\* The request the button of a dialog sends.
Submission(s, r) ==
    CASE s = "form" /\ r # NoRow -> "save"
      [] s = "form" /\ r = NoRow -> "create"
      [] s = "invite" -> "create"
      [] s = "confirm" -> "delete"
      [] OTHER -> s

\* Submit, Delete, Reset, Restore...  The restore button is reachable once the
\* hostname is typed; the backups page closes its delete dialog first.
Submit ==
    LET s == dialog.slot
        r == dialog.row
        sent == [x \in {r} |-> IF s = "invite" THEN {"invited"} ELSE forms[s].vals]
    IN
    /\ dialog # NoDialog /\ s # "preview" /\ ~blocked
    /\ ~Saving(s)
    /\ s = "restore" => forms[s].dirty
    /\ Click
    /\ \E i \in Free :
         IF view = "backups" /\ s = "confirm"
         THEN /\ Send(i, Request("delete", "none", r))
              /\ dialog' = NoDialog /\ forms' = Closed(s)
         ELSE /\ Send(i, [Request(Submission(s, r), s, r) EXCEPT !.snap = sent])
              /\ dialog' = dialog /\ forms' = [forms EXCEPT ![s].wait = i]
    /\ UNCHANGED <<page, backend, shown, waits, faults>>

Renew(r) ==
    /\ Offered(r, "renew") /\ Click
    /\ renewing' = r
    /\ \E i \in Free : Send(i, Request("renew", "none", r))
    /\ UNCHANGED <<page, backend, shown, over, pending, tracked, faults>>

\* Buttons that send a request and open nothing.
Call(c, r) ==
    /\ \/ c \in {"resend", "download", "remove"} /\ r # NoRow /\ Offered(r, c)
       \/ c \in {"take", "upload"} /\ r = NoRow /\ OfferedInHeader(c)
    /\ Click
    /\ \E i \in Free : Send(i, Request(c, IF r = NoRow THEN "busy" ELSE "none", r))
    /\ UNCHANGED <<page, backend, shown, over, waits, faults>>

Retry ==
    /\ loadError /\ Reachable /\ Skeleton /\ Click
    /\ loading' = TRUE
    /\ pending' = {}
    /\ \E i \in Free : Send(i, Request("load", "none", NoRow))
    /\ UNCHANGED <<page, backend, rows, loadError, extras, blocked, over, renewing,
                   tracked, faults>>

-----------------------------------------------------------------------------
(* The API, as the pages use it: it serves a request at some moment, and   *)
(* the answer is handled at a later one.                                   *)

Put(f, r, s) == [x \in DOMAIN f \cup {r} |-> IF x = r THEN s ELSE f[x]]

\* During a restore the API answers 503 to everything but the status.
Unavailable == job = "restore"

Known(q) == q.row # NoRow => q.row \in DOMAIN server

\* The rows after request q.
Effects(q) ==
    CASE q.op = "toggle" ->
           LET base == IF Optimistic THEN server[q.row] ELSE q.snap[q.row] IN
           {Put(server, q.row, IF q.on THEN base \cup {q.flag} ELSE base \ {q.flag})}
      [] q.op = "save" ->
           {Put(server, q.row, (server[q.row] \ FormFlags(view)) \cup q.snap[q.row])}
      [] q.op = "create" -> {Put(server, r, q.snap[NoRow]) : r \in Rows \ DOMAIN server}
      [] q.op = "upload" -> {Put(server, r, {"key_matches"}) : r \in Rows \ DOMAIN server}
      [] q.op \in {"delete", "remove"} -> {Restrict(server, DOMAIN server \ {q.row})}
      [] q.op = "totp" -> {Put(server, q.row, server[q.row] \ {"totp"})}
      [] OTHER -> {server}

\* The job the worker is at after request q: one at a time.
JobAfter(q) ==
    CASE q.op = "take" /\ job = "none" -> "backup"
      [] q.op = "restore" /\ job = "none" -> "restore"
      [] OTHER -> job

Acceptable(q) ==
    /\ ~Unavailable /\ Known(q)
    /\ Effects(q) # {}
    /\ q.op = "restore" => job = "none"

Outcome(i, o) == flight' = [flight EXCEPT ![i].st = o]

\* The parts of a load are served at one moment; one of them may fail, and
\* Promise.all then fails them all.
ServeLoad(i) ==
    /\ flight[i].op = "load" /\ flight[i].st = "sent"
    /\ \E F \in {{}} \cup {{x} : x \in Parts(view)} :
         /\ F # {} => faults < MaxFaults
         /\ faults' = IF F = {} THEN faults ELSE faults + 1
         /\ flight' = [flight EXCEPT
              ![i].st = "ok",
              ![i].snap = server,
              ![i].on = Unavailable,
              ![i].failed =
                 IF view # "backups" THEN IF F = {} THEN {} ELSE Parts(view)
                 ELSE F \cup IF Unavailable THEN Parts(view) \ {"status"} ELSE {}]
    /\ UNCHANGED <<page, backend, shown, over, waits, clicks, doubt>>

Serve(i) ==
    /\ flight[i].op \notin {"idle", "load"} /\ flight[i].st = "sent"
    /\ LET q == flight[i] IN
       IF Acceptable(q)
       THEN /\ server' \in Effects(q) /\ job' = JobAfter(q)
            /\ Outcome(i, "ok")
       ELSE Outcome(i, "err") /\ UNCHANGED backend
    /\ UNCHANGED <<page, shown, over, waits, clicks, faults, doubt>>

\* The request is refused: a conflict, a validation error, a dead connection.
Refuse(i) ==
    /\ flight[i].op \notin {"idle", "load"} /\ flight[i].st = "sent"
    /\ faults < MaxFaults /\ faults' = faults + 1
    /\ Outcome(i, "err")
    /\ UNCHANGED <<page, backend, shown, over, waits, clicks, doubt>>

\* The request is applied and its answer is lost.
Lose(i) ==
    /\ flight[i].op \notin {"idle", "load"} /\ flight[i].st = "sent"
    /\ faults < MaxFaults /\ faults' = faults + 1
    /\ LET q == flight[i] IN
       Acceptable(q) /\ server' \in Effects(q) /\ job' = JobAfter(q)
    /\ Outcome(i, "err")
    /\ doubt' = TRUE
    /\ UNCHANGED <<page, shown, over, waits, clicks>>

\* The worker finishes: a new backup exists, or the restore is over.
JobEnds ==
    /\ job # "none"
    /\ job' = "none"
    /\ server' \in IF job = "backup" /\ Rows \ DOMAIN server # {}
                   THEN {Put(server, r, {"key_matches"}) : r \in Rows \ DOMAIN server}
                   ELSE {server}
    /\ doubt' = TRUE
    /\ UNCHANGED <<page, shown, over, waits, flight, clicks, faults>>

-----------------------------------------------------------------------------
(* The answers.                                                            *)

\* load of every view but backups: all of its parts, or an error.
LoadedAll(q) ==
    /\ rows' = IF q.failed = {} THEN q.snap ELSE rows
    /\ loadError' = (q.failed # {})
    /\ extras' = (extras \/ (view = "dns_credentials" /\ q.failed = {}))
    /\ blocked' = blocked

\* load of the backups page: each part on its own.
LoadedSettled(q) ==
    /\ rows' = IF "rows" \in q.failed THEN rows ELSE q.snap
    /\ loadError' = ("rows" \in q.failed)
    /\ blocked' = IF "status" \in q.failed THEN blocked ELSE q.on
    /\ extras' = extras

\* Mutant of LoadingAfter: the flag is dropped in the success path only.
LoadingAfterSuccess(q) == q.failed # {}

\* `finally`: whatever the answer, the skeleton lifts.
LoadingAfter(q) == FALSE

AnswerLoad(i) ==
    /\ flight[i].op = "load" /\ flight[i].st # "sent"
    /\ IF view = "backups" THEN LoadedSettled(flight[i]) ELSE LoadedAll(flight[i])
    /\ loading' = LoadingAfter(flight[i])
    /\ pending' = {p \in pending : p.row \in DOMAIN rows' /\ p.req # i}
    \* The restore screen replaces the page: its dialogs lose their state.
    /\ forms' = IF blocked' THEN [s \in Slots |-> Blank] ELSE forms
    /\ Settle(i, Idle)
    /\ UNCHANGED <<page, backend, dialog, renewing, tracked, clicks, faults>>

\* Mutant of RolledBack: the failed flip stays on the screen.
RolledBackNot(q) == rows

\* The rows after request q failed: the flag is put back in the row, if the
\* row is still there.
RolledBack(q) ==
    [r \in DOMAIN rows |->
        IF r # q.row THEN rows[r] ELSE IF q.on THEN rows[r] \ {q.flag} ELSE rows[r] \cup {q.flag}]

\* The end of setEnabled and of handleChange.
AnswerToggle(i) ==
    LET q == flight[i] IN
    /\ q.op = "toggle" /\ q.st # "sent"
    /\ rows' = IF q.st = "ok" \/ ~Optimistic THEN rows ELSE RolledBack(q)
    \* toggleWhitelist reloads before the switch is released.
    /\ IF q.st = "ok" /\ ~Optimistic
       THEN Settle(i, Request("load", "none", NoRow)) /\ pending' = pending
       ELSE Settle(i, Idle) /\ pending' = {p \in pending : p.req # i}
    /\ UNCHANGED <<page, backend, loading, loadError, extras, blocked, over, renewing,
                   tracked, clicks, faults>>

\* Mutant of Released: the dialog goes on saving.
ReleasedNot(s, i) == forms

\* `finally`: the dialog of slot s, if it still waits for request i, is free.
Released(s, i) == [forms EXCEPT ![s].wait = IF @ = i THEN 0 ELSE @]

\* The end of a dialog's handler.  Success closes whatever its slot shows by
\* now and refreshes the page.
AnswerDialog(i) ==
    LET q == flight[i]
        s == q.slot
        mine == Released(s, i)
        done == q.st = "ok" /\ q.op # "verify"
    IN
    /\ s \in Slots /\ q.st # "sent"
    /\ IF done
       THEN /\ Settle(i, Request("load", "none", NoRow))
            /\ loading' = (loading \/ Skeleton)
            /\ pending' = IF Skeleton THEN {} ELSE pending
            /\ dialog' = IF dialog.slot = s THEN NoDialog ELSE dialog
            /\ forms' = IF dialog.slot = s /\ Mount(view, s) = "perOpen"
                        THEN [mine EXCEPT ![s] = Blank] ELSE mine
       ELSE Settle(i, Idle) /\ forms' = mine /\ UNCHANGED <<loading, pending, dialog>>
    /\ tracked' = IF done /\ q.op = "create" /\ view = "certificates"
                        /\ "letsencrypt" \in q.snap[NoRow]
                  THEN tracked + 1 ELSE tracked
    /\ UNCHANGED <<page, backend, rows, loadError, extras, blocked, renewing, clicks,
                   faults>>

AnswerRenew(i) ==
    /\ flight[i].op = "renew" /\ flight[i].st # "sent"
    /\ renewing' = NoRow
    /\ tracked' = IF flight[i].st = "ok" THEN tracked + 1 ELSE tracked
    /\ Settle(i, Idle)
    /\ UNCHANGED <<page, backend, shown, over, pending, clicks, faults>>

AnswerCall(i) ==
    LET q == flight[i] IN
    /\ q.op \in {"resend", "download", "delete", "remove", "take", "upload"}
    /\ q.slot \notin Slots /\ q.st # "sent"
    /\ Settle(i, IF q.st = "ok" /\ q.op = "upload" THEN Request("load", "busy", NoRow)
                 ELSE IF q.st = "ok" /\ q.op \in {"delete", "remove"}
                 THEN Request("load", "none", NoRow)
                 ELSE Idle)
    /\ UNCHANGED <<page, backend, shown, over, waits, clicks, faults>>

\* The users page learns that an invitation could be sent.
Capabilities ==
    /\ Mounted /\ view = "users" /\ ~extras
    /\ extras' = TRUE
    /\ UNCHANGED <<page, backend, rows, loading, loadError, blocked, over, waits, flight,
                   clicks, faults, doubt>>

\* pollTask returns, with a result, an error or after its timeout.
PollEnds ==
    /\ tracked > 0
    /\ tracked' = tracked - 1
    /\ \E i \in Free : Send(i, Request("load", "none", NoRow))
    /\ UNCHANGED <<page, backend, shown, over, pending, renewing, clicks, faults>>

\* The backups page reloads on its timer and on every backup or restore event.
\* Bound: a reload waits while an earlier one is unanswered.
Poll ==
    /\ Mounted /\ view = "backups" /\ InFlight({"load"}) = {}
    /\ \E i \in Free : Send(i, Request("load", "none", NoRow))
    /\ UNCHANGED <<page, backend, shown, over, waits, clicks, faults>>

Operator ==
    \/ \E r \in Rows : Renew(r) \/ (\E f \in Switches(view) : Toggle(r, f))
    \/ \E r \in Rows \cup {NoRow}, c \in DOMAIN SlotOf : Open(c, r)
    \/ \E r \in Rows \cup {NoRow}, c \in {"resend", "download", "remove", "take", "upload"} : Call(c, r)
    \/ \E H \in Searches : Search(H)
    \/ \E f \in FormFlags(view) \cup {"other", "hostname"} : EditField(f)
    \/ Dismiss \/ Submit \/ Resize \/ Retry

Served(i) == ServeLoad(i) \/ Serve(i)

Answered(i) ==
    AnswerLoad(i) \/ AnswerToggle(i) \/ AnswerDialog(i) \/ AnswerRenew(i) \/ AnswerCall(i)

Next ==
    \/ Operator
    \/ \E i \in 1..MaxFlight : Served(i) \/ Refuse(i) \/ Lose(i) \/ Answered(i)
    \/ Capabilities \/ PollEnds \/ Poll \/ JobEnds

\* A request is answered in the end (fetch settles), the timers run and the
\* worker finishes; the operator need not do anything.
Fairness ==
    /\ \A i \in 1..MaxFlight : WF_vars(Served(i)) /\ WF_vars(Answered(i))
    /\ WF_vars(PollEnds) /\ WF_vars(Poll) /\ WF_vars(JobEnds)

Spec == Init /\ [][Next]_vars /\ Fairness

-----------------------------------------------------------------------------
(* Properties.                                                             *)

RowSet(f) == DOMAIN f \subseteq Rows /\ \A r \in DOMAIN f : f[r] \subseteq Flags(view)

\* Type invariant of the pages.
TypeOK ==
    /\ view \in Views /\ admin \in BOOLEAN /\ mobile \in BOOLEAN /\ hidden \subseteq Rows
    /\ RowSet(server) /\ RowSet(rows)
    /\ job \in {"none", "backup", "restore"}
    /\ {loading, loadError, extras, blocked, doubt} \subseteq BOOLEAN
    /\ dialog.slot \in Slots \cup {"none"} /\ dialog.row \in Rows \cup {NoRow}
    /\ \A s \in Slots :
         /\ forms[s].key \in Rows \cup {NoRow} /\ forms[s].vals \subseteq FormFlags(view)
         /\ forms[s].dirty \in BOOLEAN /\ forms[s].wait \in 0..MaxFlight
    /\ DOMAIN flight = 1..MaxFlight
    /\ \A p \in pending : p.row \in Rows /\ p.flag \in Switches(view) /\ p.req \in 1..MaxFlight
    /\ renewing \in Rows \cup {NoRow} /\ tracked \in 0..MaxClicks
    /\ clicks \in 0..MaxClicks /\ faults \in 0..MaxFaults

Quiet == \A i \in DOMAIN flight : flight[i].op = "idle"

\* Once every request is answered, and provided no answer was lost, no load
\* crossed a write and no two writes of a row crossed since the last load, the
\* page shows what the API holds: every optimistic flip was confirmed or rolled back (setEnabled), and
\* every dialog reloaded the page (onSaved, onDeleted).
SettledRows == (Mounted /\ Quiet /\ ~doubt /\ ~loadError) => rows = server

\* A switch, a form or a renew button that waits does so for a request that
\* is still in flight and is its own: `finally` never strands a control.
WaitsForItsOwn ==
    /\ \A p \in pending :
         \/ flight[p.req].op = "toggle" /\ flight[p.req].row = p.row
            /\ flight[p.req].flag = p.flag
         \/ flight[p.req].op = "load" /\ ~Optimistic
    /\ \A s \in Slots : Saving(s) => flight[forms[s].wait].slot = s
    /\ renewing # NoRow => \E i \in DOMAIN flight :
                              flight[i].op = "renew" /\ flight[i].row = renewing

\* Once the operator stops, the page comes to rest and stays there: the
\* skeleton lifts, no switch, form or renew button waits any more and the
\* banners of tracked tasks are gone, whatever failed (the `finally` of load,
\* handleChange, handleRenew and trackTask).  The backups page also catches up
\* with the backup or restore that finished behind its back and lifts the
\* restore screen (POLL_MS, Promise.allSettled).
ComesToRest ==
    Mounted => <>[](/\ ~loading /\ pending = {} /\ renewing = NoRow /\ tracked = 0
                    /\ \A s \in Slots : ~Saving(s)
                    /\ view = "backups" => rows = server /\ ~blocked)

\* The form on the screen is the one that was seeded for the row it is open
\* for, however often and for whichever rows it was opened, dismissed and
\* answered before: a value typed for one row is never saved to another (the
\* `key` of the form in users-view.tsx and dns-credentials-view.tsx).
FormShowsItsRow == dialog.slot = "form" => forms["form"].key = dialog.row

\* Both: a control waits for its own request only, and a form is about its own row.
KeepsToItsOwn == WaitsForItsOwn /\ FormShowsItsRow

=============================================================================
