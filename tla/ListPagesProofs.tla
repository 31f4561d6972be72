--------------------------- MODULE ListPagesProofs ---------------------------
(***************************************************************************)
(* Proofs about the list pages, for any rows, any views and every bound on *)
(* requests, clicks and faults.                                            *)
(***************************************************************************)
EXTENDS ListPages, Integers, FiniteSetTheorems, TLAPS

-----------------------------------------------------------------------------
(* The inductive invariant: types.                                         *)

Ids == Rows \cup {NoRow}
FlagNames == {"enabled", "maintenance", "letsencrypt", "totp", "invited", "self", "key_matches",
              "entries"}
PartNames == {"rows", "upstreams", "accessLists", "certificates", "customPages", "catalog",
              "settings", "status"}
Ops == {"idle", "load", "renew", "resend", "download", "take", "verify", "reset", "restore"}
         \cup Writes

\* Rows, or what a form sends for one.
Lists == UNION {[D -> SUBSET FlagNames] : D \in SUBSET Ids}

Requests == [op : Ops, slot : Slots \cup {"none", "busy"}, row : Ids,
             flag : FlagNames \cup {"none"}, on : BOOLEAN, snap : Lists,
             failed : SUBSET PartNames, st : {"idle", "sent", "ok", "err"}]
FormStates == [key : Ids, vals : SUBSET FlagNames, dirty : BOOLEAN, wait : 0 .. MaxFlight]

PageScreen ==
    /\ view \in Views /\ hidden \subseteq Rows /\ job \in {"none", "backup", "restore"}
    /\ dialog \in [slot : Slots \cup {"none"}, row : Ids] /\ renewing \in Ids
    /\ clicks \in 0 .. MaxClicks /\ faults \in 0 .. MaxFaults /\ tracked \in Nat
PageFlags ==
    /\ admin \in BOOLEAN /\ mobile \in BOOLEAN /\ loading \in BOOLEAN /\ loadError \in BOOLEAN
    /\ extras \in BOOLEAN /\ blocked \in BOOLEAN /\ doubt \in BOOLEAN
PageLists == server \in Lists /\ rows \in Lists /\ RowSet(server) /\ RowSet(rows)
PageForms ==
    /\ forms \in [Slots -> FormStates]
    /\ \A s \in Slots : forms[s].vals \subseteq FormFlags(view)
PageWaits ==
    pending \subseteq [row : Rows, flag : Switches(view), req : 1 .. MaxFlight]

\* Which slot, row and list each request has.
Sound(q) ==
    /\ q.op = "idle" => q.slot = "none"
    /\ q.op = "load" => q.slot \in {"none", "busy"} /\ q.row = NoRow /\ RowSet(q.snap)
    /\ q.op = "renew" => q.slot = "none" /\ q.row \in Rows
    /\ q.op = "toggle" => /\ q.slot = "none" /\ q.row \in Rows /\ q.flag \in Switches(view)
                          /\ q.row \in DOMAIN q.snap /\ q.snap[q.row] \subseteq Flags(view)
    /\ q.op = "save" => /\ q.row \in Rows /\ q.row \in DOMAIN q.snap
                        /\ q.snap[q.row] \subseteq Flags(view)
    /\ q.op = "create" => /\ q.row = NoRow /\ NoRow \in DOMAIN q.snap
                          /\ q.snap[NoRow] \subseteq Flags(view)
    /\ q.op \in {"delete", "remove", "totp"} => q.row \in Rows
    /\ q.op \in {"take", "upload"} => view = "backups"
PageFlight ==
    flight \in [1 .. MaxFlight -> Requests] /\ \A i \in 1 .. MaxFlight : Sound(flight[i])

\* What is open where: the backups page has no form, only the users page
\* invites, and only the backups page runs jobs and shows the restore screen.
PageOpen ==
    /\ dialog.slot = "none" => dialog.row = NoRow
    /\ dialog.slot = "form" => view # "backups"
    /\ dialog.slot = "invite" => view = "users" /\ dialog.row = NoRow
    /\ dialog.slot \in {"confirm", "totp"} => dialog.row \in Rows
    /\ blocked => view = "backups"
    /\ job = "backup" => view = "backups"

\* A task is tracked for a click each: the click has been answered.
Pledged == Cardinality(InFlight({"renew", "create"}))
Tracking == tracked + Pledged <= clicks

PageTypes ==
    /\ PageScreen /\ PageFlags /\ PageLists /\ PageForms /\ PageWaits /\ PageFlight /\ PageOpen
    /\ Tracking

-----------------------------------------------------------------------------
(* The inductive invariant: what the rows on the screen are worth.         *)

Loads == InFlight({"load"})
Written == InFlight(Writes)

\* The write of request i is applied and the page does not show it: its answer
\* will have the page reload.
Outdated(i) ==
    /\ flight[i].st = "ok" /\ flight[i].op \in Writes
    /\ ~(flight[i].op = "toggle" /\ Optimistic)

\* An optimistic flip of row r that the API has not applied.
AheadOf(i, r) ==
    flight[i].op = "toggle" /\ Optimistic /\ flight[i].row = r /\ flight[i].st # "ok"

\* Row r is on the screen as the API holds it, or one flip ahead.
AgreeAt(r) ==
    \/ rows[r] = server[r] /\ \A i \in DOMAIN flight : ~AheadOf(i, r)
    \/ \E i \in DOMAIN flight :
         /\ AheadOf(i, r) /\ rows[r] = Flipped(server[r], flight[i].flag)
         /\ flight[i].on = (flight[i].flag \notin server[r])

\* The page shows the rows of the API, but for the flips that are ahead.
Agree == DOMAIN rows = DOMAIN server /\ \A r \in DOMAIN server : AgreeAt(r)

\* While nothing is in doubt, loads and writes are never under way together, no
\* two writes are about one row, and a page that is not loading shows the rows of
\* the API or is about to load them.
Apart == Loads # {} => Written = {} /\ \A i \in Loads : flight[i].st # "sent" => flight[i].snap = server
OnePerRow == \A i, j \in Written : flight[i].row = flight[j].row => i = j
UpToDate ==
    (Mounted /\ Loads = {} /\ ~loadError) => Agree \/ \E i \in DOMAIN flight : Outdated(i)
Accounted == ~doubt => Apart /\ OnePerRow /\ UpToDate

\* The request an EnabledToggle waits for.
Awaited(p) ==
    \/ flight[p.req].op = "toggle" /\ flight[p.req].row = p.row /\ flight[p.req].flag = p.flag
    \/ flight[p.req].op = "load" /\ ~Optimistic

PagesInv == PageTypes /\ KeepsToItsOwn /\ Accounted

-----------------------------------------------------------------------------
(* Flags, lists and requests.                                              *)

LEMMA FlagsAre ==
    ASSUME NEW v \in ViewNames
    PROVE  /\ Switches(v) \subseteq FormFlags(v) /\ FormFlags(v) \subseteq Flags(v)
           /\ Flags(v) \subseteq FlagNames
           /\ v = "users" => "invited" \in Flags(v)
           /\ v = "backups" => "key_matches" \in Flags(v)
  <1> USE DEF ViewNames, Switches, FormFlags, Flags, ProxyHostsSetEnabled, ProxyHostsSetMaintenance,
              UpstreamsSetPoolEnabled, StreamsSetEnabled, DeadHostsSetEnabled,
              RedirectionHostsSetEnabled, ToggleWhitelist
  <1>1. Switches(v) \subseteq FormFlags(v)
    OBVIOUS
  <1>2. FormFlags(v) \subseteq Flags(v)
    OBVIOUS
  <1>3. Flags(v) \subseteq FlagNames
    BY DEF FlagNames
  <1>4. /\ v = "users" => "invited" \in Flags(v)
        /\ v = "backups" => "key_matches" \in Flags(v)
    OBVIOUS
  <1> QED
    BY <1>1, <1>2, <1>3, <1>4

LEMMA PartsAre ==
    ASSUME NEW v \in ViewNames
    PROVE  Parts(v) \subseteq PartNames
  BY DEF ViewNames, Parts, PartNames, ProxyHostsLoad, UpstreamsLoad, StreamsLoad, DeadHostsLoad,
         RedirectionHostsLoad, AccessListsLoad, CertificatesLoad, DnsCredentialsLoad, UsersLoad,
         BackupsLoad, CustomPagesLoad, WhitelistsLoad

LEMMA SeedsAre ==
    ASSUME NEW v \in ViewNames, NEW f \in Seeds(v)
    PROVE  f \subseteq Flags(v)
  BY FlagsAre DEF ViewNames, Seeds, Flags

LEMMA ViewIsKnown ==
    ASSUME PageScreen
    PROVE  view \in ViewNames
  BY ListPagesAssumption DEF PageScreen

LEMMA ListHas ==
    ASSUME NEW f \in Lists
    PROVE  DOMAIN f \subseteq Ids /\ f \in [DOMAIN f -> SUBSET FlagNames]
  BY DEF Lists

LEMMA ListIs ==
    ASSUME NEW D \in SUBSET Ids, NEW f \in [D -> SUBSET FlagNames]
    PROVE  f \in Lists
  BY DEF Lists

LEMMA EmptyList == <<>> \in Lists /\ DOMAIN <<>> = {}
  <1>1. <<>> \in [{} -> SUBSET FlagNames] /\ DOMAIN <<>> = {}
    OBVIOUS
  <1> QED
    BY <1>1 DEF Lists

\* A request as it leaves.
LEMMA RequestIs ==
    ASSUME NEW o, NEW s, NEW r
    PROVE  Request(o, s, r) = [op |-> o, slot |-> s, row |-> r, flag |-> "none", on |-> FALSE,
                               snap |-> <<>>, failed |-> {}, st |-> "sent"]
  <1>1. PICK e : e = <<>>
    OBVIOUS
  <1>2. PICK b : b = FALSE
    OBVIOUS
  <1>3. Idle = [op |-> "idle", slot |-> "none", row |-> NoRow, flag |-> "none", on |-> b,
                snap |-> e, failed |-> {}, st |-> "idle"]
    BY <1>1, <1>2 DEF Idle
  <1>4. Request(o, s, r) = [op |-> o, slot |-> s, row |-> r, flag |-> "none", on |-> b,
                            snap |-> e, failed |-> {}, st |-> "sent"]
    <2>1. PICK f : f = [Idle EXCEPT !.op = o]
      OBVIOUS
    <2>2. f = [op |-> o, slot |-> "none", row |-> NoRow, flag |-> "none", on |-> b,
               snap |-> e, failed |-> {}, st |-> "idle"]
      BY <1>3, <2>1
    <2>3. PICK g : g = [f EXCEPT !.slot = s]
      OBVIOUS
    <2>4. g = [op |-> o, slot |-> s, row |-> NoRow, flag |-> "none", on |-> b,
               snap |-> e, failed |-> {}, st |-> "idle"]
      BY <2>2, <2>3
    <2>5. PICK h : h = [g EXCEPT !.row = r]
      OBVIOUS
    <2>6. h = [op |-> o, slot |-> s, row |-> r, flag |-> "none", on |-> b,
               snap |-> e, failed |-> {}, st |-> "idle"]
      BY <2>4, <2>5
    <2>7. [h EXCEPT !.st = "sent"] = [op |-> o, slot |-> s, row |-> r, flag |-> "none", on |-> b,
                                      snap |-> e, failed |-> {}, st |-> "sent"]
      BY <2>6
    <2> QED
      BY <2>1, <2>3, <2>5, <2>7 DEF Request
  <1> QED
    BY <1>1, <1>2, <1>4

LEMMA IdleIs == Idle \in Requests /\ Sound(Idle) /\ Idle.op = "idle"
  <1>1. FALSE \in BOOLEAN
    BY Zenon
  <1>2. Idle \in Requests
    BY <1>1, EmptyList DEF Idle, Requests, Ops, Ids
  <1> QED
    BY <1>2 DEF Sound, Idle

LEMMA RequestTyped ==
    ASSUME NEW o \in Ops, NEW s \in Slots \cup {"none", "busy"}, NEW r \in Ids, NEW q, q = Request(o, s, r)
    PROVE  /\ q \in Requests /\ q.op = o /\ q.slot = s /\ q.row = r /\ q.st = "sent"
           /\ q.snap = <<>>
  <1>1. FALSE \in BOOLEAN
    BY Zenon
  <1> QED
    BY <1>1, EmptyList, RequestIs DEF Requests

LEMMA LoadIs ==
    ASSUME NEW s \in {"none", "busy"}, NEW q, q = Request("load", s, NoRow)
    PROVE  q \in Requests /\ Sound(q) /\ q.op = "load" /\ q.slot = s /\ q.row = NoRow /\ q.st = "sent"
  <1>1. "load" \in Ops /\ NoRow \in Ids
    BY DEF Ops, Ids
  <1>2. q \in Requests /\ q.op = "load" /\ q.slot = s /\ q.row = NoRow /\ q.st = "sent" /\ q.snap = <<>>
    BY <1>1, RequestTyped
  <1>3. RowSet(q.snap)
    BY <1>2, EmptyList DEF RowSet
  <1> QED
    BY <1>2, <1>3 DEF Sound

\* One request takes the place of another.
LEMMA Replaced ==
    ASSUME PageFlight, NEW i \in 1 .. MaxFlight, NEW q \in Requests,
           flight' = [flight EXCEPT ![i] = q]
    PROVE  /\ DOMAIN flight = 1 .. MaxFlight /\ DOMAIN flight' = 1 .. MaxFlight
           /\ flight'[i] = q /\ \A j \in 1 .. MaxFlight : j # i => flight'[j] = flight[j]
           /\ flight' \in [1 .. MaxFlight -> Requests]
  BY DEF PageFlight

LEMMA FlightReplaced ==
    ASSUME PageFlight, NEW i \in 1 .. MaxFlight, NEW q \in Requests,
           flight' = [flight EXCEPT ![i] = q], view' = view, Sound(q)
    PROVE  PageFlight'
  <1>1. /\ flight' \in [1 .. MaxFlight -> Requests] /\ flight'[i] = q
        /\ \A j \in 1 .. MaxFlight : j # i => flight'[j] = flight[j]
    BY Replaced
  <1>2. \A x : Sound(x) => Sound(x)'
    BY DEF Sound, RowSet
  <1>3. \A j \in 1 .. MaxFlight : Sound(flight'[j])
    BY <1>1 DEF PageFlight
  <1>4. \A j \in 1 .. MaxFlight : Sound(flight[j])'
    BY <1>3 DEF Sound, RowSet
  <1> QED
    BY <1>1, <1>4 DEF PageFlight

LEMMA InFlightReplaced ==
    ASSUME PageFlight, NEW i \in 1 .. MaxFlight, NEW q \in Requests,
           flight' = [flight EXCEPT ![i] = q], NEW S
    PROVE  /\ q.op \in S => InFlight(S)' = InFlight(S) \cup {i}
           /\ q.op \notin S => InFlight(S)' = InFlight(S) \ {i}
  BY Replaced DEF InFlight

LEMMA FlightFinite ==
    ASSUME PageFlight, NEW S
    PROVE  /\ IsFiniteSet(InFlight(S)) /\ Cardinality(InFlight(S)) \in Nat
           /\ \A i : i \in InFlight(S) => i \in 1 .. MaxFlight
  <1>1. MaxFlight \in Nat
    BY ListPagesAssumption
  <1>2. InFlight(S) \subseteq 1 .. MaxFlight
    BY DEF InFlight, PageFlight
  <1>3. IsFiniteSet(1 .. MaxFlight)
    BY <1>1, FS_Interval
  <1> QED
    BY <1>2, <1>3, FS_Subset, FS_CardinalityType

-----------------------------------------------------------------------------
(* Which control is offered where.                                         *)

LEMMA HeaderOffers ==
    ASSUME view \in ViewNames, NEW c \in Header
    PROVE  /\ c \in {"new", "invite", "take", "upload", "leave"}
           /\ c = "new" => view # "backups"
           /\ c = "invite" => view = "users"
           /\ c \in {"take", "upload"} => view = "backups"
  BY DEF ViewNames, Header, ProxyHostsHeader, UpstreamsHeader, StreamsHeader, DeadHostsHeader,
         RedirectionHostsHeader, AccessListsHeader, CertificatesHeader, DnsCredentialsHeader,
         UsersHeader, BackupsHeader, CustomPagesHeader, WhitelistsHeader

LEMMA RowOffers ==
    ASSUME view \in ViewNames, NEW r, NEW c \in RowControls(r)
    PROVE  c \notin {"new", "invite", "take", "upload"} /\ (c = "edit" => view # "backups")
  <1>1. c \in Cards(r) => c \notin {"new", "invite", "take", "upload"} /\ (c = "edit" => view # "backups")
    BY DEF ViewNames, Cards, ProxyHostsCards, UpstreamsCards, StreamsCards, DeadHostsCards,
           RedirectionHostsCards, AccessListsCards, CertificatesCards, DnsCredentialsCards,
           UsersCards, BackupsRowActions, CustomPagesCards, WhitelistsCards
  <1>2. c \in Table(r) => c \notin {"new", "invite", "take", "upload"} /\ (c = "edit" => view # "backups")
    BY DEF ViewNames, Table, ProxyHostsTable, UpstreamsTable, StreamsTable, DeadHostsTable,
           RedirectionHostsTable, AccessListsTable, CertificatesTable, DnsCredentialsTable,
           UsersTable, BackupsRowActions, CustomPagesTable, WhitelistsTable
  <1> QED
    BY <1>1, <1>2 DEF RowControls

\* The form of a view is never mounted for good without a key.
LEMMA FormIsKeyed ==
    ASSUME view \in ViewNames
    PROVE  Mount(view, "form") # "mounted"
  BY DEF ViewNames, Mount, ProxyHostsDialogs, UpstreamsDialogs, StreamsDialogs, DeadHostsDialogs,
         RedirectionHostsDialogs, AccessListsDialogs, CertificatesDialogs, CustomPagesDialogs,
         WhitelistsDialogs, BackupsDialogs, DnsCredentialsDialogs, UsersDialogs

LEMMA SlotsAre ==
    ASSUME NEW c \in DOMAIN SlotOf
    PROVE  /\ SlotOf[c] \in Slots
           /\ SlotOf[c] = "form" => c \in {"new", "edit"}
           /\ SlotOf[c] = "invite" => c = "invite"
           /\ SlotOf[c] \in {"confirm", "totp"} => c \in {"delete", "totp"}
  BY DEF SlotOf, Slots

-----------------------------------------------------------------------------
(* What each step does to the requests.                                    *)

\* Nothing is sent, served or answered, and the rows stay.
Looks == UNCHANGED <<view, admin, server, rows, loadError, flight, doubt>>

\* Request q is sent in slot i.
Sends(i, q) ==
    /\ i \in 1 .. MaxFlight /\ flight[i].op = "idle" /\ q \in Requests /\ Sound(q) /\ q.st = "sent"
    /\ q.op # "idle" /\ Send(i, q) /\ UNCHANGED <<view, admin, server, loadError>>

LEMMA SendIs ==
    ASSUME PageFlight, NEW i \in Free, NEW q, Send(i, q)
    PROVE  i \in 1 .. MaxFlight /\ flight[i].op = "idle" /\ flight' = [flight EXCEPT ![i] = q]
  BY DEF PageFlight, Free, Send

LEMMA Sending ==
    ASSUME PageFlight, NEW i \in Free, NEW q \in Requests, Send(i, q), Sound(q), q.st = "sent",
           q.op # "idle", UNCHANGED <<view, admin, server, loadError>>
    PROVE  Sends(i, q)
  BY SendIs DEF Sends

LEMMA ToggleSends ==
    ASSUME PageTypes, NEW r \in Rows, NEW f \in Switches(view), Toggle(r, f)
    PROVE  \E i \in 1 .. MaxFlight, q \in Requests :
             /\ Sends(i, q) /\ q.op = "toggle" /\ q.row = r /\ q.flag = f
             /\ q.on = (f \notin rows[r])
             /\ pending' = pending \cup {[row |-> r, flag |-> f, req |-> i]}
             /\ rows' = IF Optimistic THEN [rows EXCEPT ![r] = Flipped(@, f)] ELSE rows
             /\ r \in DOMAIN rows /\ clicks < MaxClicks /\ clicks' = clicks + 1
             /\ UNCHANGED <<mobile, hidden, job, loading, extras, blocked, dialog, forms,
                            renewing, tracked, faults>>
  <1>1. /\ r \in DOMAIN rows /\ clicks < MaxClicks /\ clicks' = clicks + 1
        /\ rows' = IF Optimistic THEN [rows EXCEPT ![r] = Flipped(@, f)] ELSE rows
        /\ UNCHANGED <<view, admin, server, loadError>>
        /\ UNCHANGED <<mobile, hidden, job, loading, extras, blocked, dialog, forms,
                       renewing, tracked, faults>>
    BY DEF Toggle, Offered, Rendered, Click, AtWork, page, backend, over
  <1>2. PICK n : n = [Request("toggle", "none", r) EXCEPT
                        !.flag = f, !.on = f \notin rows[r], !.snap = [x \in {r} |-> rows[r]]]
    OBVIOUS
  <1>3. PICK i \in Free : Send(i, n) /\ pending' = pending \cup {[row |-> r, flag |-> f, req |-> i]}
    BY <1>2 DEF Toggle
  <1>4. "toggle" \in Ops /\ "none" \in Slots \cup {"none", "busy"} /\ r \in Ids
    BY DEF Ops, Writes, Ids
  <1>5. PICK m : m = Request("toggle", "none", r)
    OBVIOUS
  <1>6. m \in Requests /\ m.op = "toggle" /\ m.slot = "none" /\ m.row = r /\ m.st = "sent"
    BY <1>4, <1>5, RequestTyped
  <1>7. PICK b \in BOOLEAN : b = (f \notin rows[r])
    BY Zenon
  <1>8. PICK s : s = [x \in {r} |-> rows[r]]
    OBVIOUS
  <1>9. rows[r] \subseteq Flags(view) /\ Flags(view) \subseteq FlagNames /\ f \in FlagNames
    BY <1>1, ViewIsKnown, FlagsAre DEF PageTypes, PageLists, RowSet
  <1>10. s \in Lists /\ DOMAIN s = {r} /\ s[r] \subseteq Flags(view)
    <2>1. s \in [{r} -> SUBSET FlagNames] /\ {r} \in SUBSET Ids
      BY <1>4, <1>8, <1>9
    <2> QED
      BY <1>8, <1>9, <2>1, ListIs
  <1>11. n = [[[m EXCEPT !.flag = f] EXCEPT !.on = b] EXCEPT !.snap = s]
    BY <1>2, <1>5, <1>7, <1>8
  <1>12. /\ n \in Requests /\ n.op = "toggle" /\ n.slot = "none" /\ n.row = r /\ n.st = "sent"
         /\ n.flag = f /\ n.on = b /\ n.snap = s
    BY <1>6, <1>7, <1>9, <1>10, <1>11 DEF Requests
  <1>13. Sound(n)
    BY <1>10, <1>12 DEF Sound, Writes
  <1>14. Sends(i, n)
    BY <1>1, <1>3, <1>12, <1>13, Sending DEF PageTypes
  <1>15. i \in 1 .. MaxFlight
    BY <1>14 DEF Sends
  <1> QED
    BY <1>1, <1>3, <1>7, <1>12, <1>14, <1>15

LEMMA SubmitSends ==
    ASSUME PageTypes, Submit
    PROVE  \E i \in 1 .. MaxFlight, q \in Requests :
             /\ Sends(i, q) /\ q.op \notin {"load", "toggle", "renew"}
             /\ \/ /\ q.slot = "none" /\ q.op # "create"
                   /\ dialog' = NoDialog /\ forms' = Closed(dialog.slot)
                \/ /\ q.slot = dialog.slot /\ dialog' = dialog
                   /\ forms' = [forms EXCEPT ![dialog.slot].wait = i]
             /\ dialog.slot \in Slots /\ clicks < MaxClicks /\ clicks' = clicks + 1
             /\ UNCHANGED <<mobile, hidden, job, rows, loading, extras, blocked, pending, renewing,
                            tracked, faults>>
  <1>1. PICK s : s = dialog.slot
    OBVIOUS
  <1>2. PICK r : r = dialog.row
    OBVIOUS
  <1>3. s \in Slots /\ r \in Ids /\ s # "preview"
    BY <1>1, <1>2 DEF Submit, NoDialog, PageTypes, PageScreen, PageOpen
  <1>4. /\ clicks < MaxClicks /\ clicks' = clicks + 1
        /\ UNCHANGED <<view, admin, server, loadError>>
        /\ UNCHANGED <<mobile, hidden, job, rows, loading, extras, blocked, pending, renewing,
                       tracked, faults>>
    BY DEF Submit, Click, AtWork, page, backend, shown, waits
  <1>5. view \in ViewNames
    BY ViewIsKnown DEF PageTypes
  <1>6. PICK sent : sent = [x \in {r} |-> IF s = "invite" THEN {"invited"} ELSE forms[s].vals]
    OBVIOUS
  <1>7. sent \in Lists /\ DOMAIN sent = {r} /\ sent[r] \subseteq Flags(view)
    <2>1. forms[s].vals \subseteq FormFlags(view)
      BY <1>3 DEF PageTypes, PageForms
    <2>2. FormFlags(view) \subseteq Flags(view) /\ Flags(view) \subseteq FlagNames
      BY <1>5, FlagsAre
    <2>3. s = "invite" => {"invited"} \subseteq Flags(view)
      BY <1>1, <1>5, FlagsAre DEF PageTypes, PageOpen
    <2>4. sent[r] \subseteq Flags(view) /\ DOMAIN sent = {r}
      BY <1>6, <2>1, <2>2, <2>3
    <2>5. sent \in [{r} -> SUBSET FlagNames] /\ {r} \in SUBSET Ids
      BY <1>3, <1>6, <2>2, <2>4
    <2> QED
      BY <2>4, <2>5, ListIs
  <1>8. PICK i \in Free :
          \/ /\ view = "backups" /\ s = "confirm" /\ Send(i, Request("delete", "none", r))
             /\ dialog' = NoDialog /\ forms' = Closed(s)
          \/ /\ Send(i, [Request(Submission(s, r), s, r) EXCEPT !.snap = sent])
             /\ dialog' = dialog /\ forms' = [forms EXCEPT ![s].wait = i]
    BY <1>1, <1>2, <1>6 DEF Submit
  <1>9. CASE /\ view = "backups" /\ s = "confirm" /\ Send(i, Request("delete", "none", r))
             /\ dialog' = NoDialog /\ forms' = Closed(s)
    <2>1. PICK q : q = Request("delete", "none", r)
      OBVIOUS
    <2>2. "delete" \in Ops /\ "none" \in Slots \cup {"none", "busy"} /\ r \in Rows
      BY <1>1, <1>2, <1>9 DEF Ops, Writes, PageTypes, PageOpen
    <2>3. q \in Requests /\ q.op = "delete" /\ q.slot = "none" /\ q.row = r /\ q.st = "sent"
      BY <1>3, <2>1, <2>2, RequestTyped
    <2>4. Sound(q)
      BY <2>2, <2>3 DEF Sound
    <2>5. Send(i, q)
      BY <1>9, <2>1
    <2>6. Sends(i, q)
      BY <1>4, <2>3, <2>4, <2>5, Sending DEF PageTypes
    <2>7. i \in 1 .. MaxFlight
      BY <2>6 DEF Sends
    <2> QED
      BY <1>1, <1>3, <1>4, <1>9, <2>3, <2>6, <2>7
  <1>10. CASE /\ Send(i, [Request(Submission(s, r), s, r) EXCEPT !.snap = sent])
              /\ dialog' = dialog /\ forms' = [forms EXCEPT ![s].wait = i]
    <2>1. PICK o : o = Submission(s, r)
      OBVIOUS
    <2>2. /\ o \in {"save", "create", "delete", "totp", "reset", "verify", "restore"}
          /\ o = "save" => r \in Rows
          /\ o = "create" => r = NoRow
          /\ o \in {"delete", "totp"} => r \in Rows
      <3>1. s \in {"form", "confirm", "totp", "reset", "invite", "verify", "restore"}
        BY <1>3 DEF Slots
      <3>2. /\ s = "invite" => r = NoRow
            /\ s \in {"confirm", "totp"} => r \in Rows
        BY <1>1, <1>2 DEF PageTypes, PageOpen
      <3> QED
        BY <1>3, <2>1, <3>1, <3>2 DEF Submission, Ids
    <2>3. o \in Ops /\ s \in Slots \cup {"none", "busy"}
      BY <1>3, <2>2 DEF Ops, Writes
    <2>4. PICK m : m = Request(o, s, r)
      OBVIOUS
    <2>5. m \in Requests /\ m.op = o /\ m.slot = s /\ m.row = r /\ m.st = "sent"
      BY <1>3, <2>3, <2>4, RequestTyped
    <2>6. PICK q : q = [m EXCEPT !.snap = sent]
      OBVIOUS
    <2>7. /\ q \in Requests /\ q.op = o /\ q.slot = s /\ q.row = r /\ q.st = "sent" /\ q.snap = sent
      BY <1>7, <2>5, <2>6 DEF Requests
    <2>8. Sound(q)
      BY <1>7, <2>2, <2>7 DEF Sound
    <2>9. Send(i, q)
      BY <1>10, <2>1, <2>4, <2>6
    <2>10. q.op # "idle" /\ q.op \notin {"load", "toggle", "renew"}
      BY <2>2, <2>7
    <2>11. Sends(i, q)
      BY <1>4, <2>7, <2>8, <2>9, <2>10, Sending DEF PageTypes
    <2>12. i \in 1 .. MaxFlight
      BY <2>11 DEF Sends
    <2> QED
      BY <1>1, <1>3, <1>4, <1>10, <2>7, <2>10, <2>11, <2>12
  <1> QED
    BY <1>8, <1>9, <1>10

LEMMA RenewSends ==
    ASSUME PageTypes, NEW r \in Rows, Renew(r)
    PROVE  \E i \in 1 .. MaxFlight, q \in Requests :
             /\ Sends(i, q) /\ q.op = "renew" /\ q.row = r /\ renewing' = r
             /\ clicks < MaxClicks /\ clicks' = clicks + 1
             /\ UNCHANGED <<mobile, hidden, job, rows, loading, extras, blocked, dialog, forms,
                            pending, tracked, faults>>
  <1>1. /\ clicks < MaxClicks /\ clicks' = clicks + 1 /\ renewing' = r
        /\ UNCHANGED <<view, admin, server, loadError>>
        /\ UNCHANGED <<mobile, hidden, job, rows, loading, extras, blocked, dialog, forms,
                       pending, tracked, faults>>
    BY DEF Renew, Click, AtWork, page, backend, shown, over
  <1>2. PICK q : q = Request("renew", "none", r)
    OBVIOUS
  <1>3. PICK i \in Free : Send(i, q)
    BY <1>2 DEF Renew
  <1>4. "renew" \in Ops /\ "none" \in Slots \cup {"none", "busy"} /\ r \in Ids
    BY DEF Ops, Ids
  <1>5. q \in Requests /\ q.op = "renew" /\ q.slot = "none" /\ q.row = r /\ q.st = "sent"
    BY <1>2, <1>4, RequestTyped
  <1>6. Sound(q)
    BY <1>5 DEF Sound
  <1>7. Sends(i, q)
    BY <1>1, <1>3, <1>5, <1>6, Sending DEF PageTypes
  <1>8. i \in 1 .. MaxFlight
    BY <1>7 DEF Sends
  <1> QED
    BY <1>1, <1>5, <1>7, <1>8

LEMMA CallSends ==
    ASSUME PageTypes, NEW r \in Ids, NEW c \in {"resend", "download", "remove", "take", "upload"},
           Call(c, r)
    PROVE  \E i \in 1 .. MaxFlight, q \in Requests :
             /\ Sends(i, q) /\ q.op = c /\ q.slot \in {"none", "busy"}
             /\ clicks < MaxClicks /\ clicks' = clicks + 1
             /\ UNCHANGED <<mobile, hidden, job, rows, loading, extras, blocked, dialog, forms,
                            pending, renewing, tracked, faults>>
  <1>1. /\ clicks < MaxClicks /\ clicks' = clicks + 1
        /\ UNCHANGED <<view, admin, server, loadError>>
        /\ UNCHANGED <<mobile, hidden, job, rows, loading, extras, blocked, dialog, forms,
                       pending, renewing, tracked, faults>>
    BY DEF Call, Click, AtWork, page, backend, shown, over, waits
  <1>2. PICK s : s = IF r = NoRow THEN "busy" ELSE "none"
    OBVIOUS
  <1>3. PICK q : q = Request(c, s, r)
    OBVIOUS
  <1>4. PICK i \in Free : Send(i, q)
    BY <1>2, <1>3 DEF Call
  <1>5. c \in Ops /\ s \in Slots \cup {"none", "busy"} /\ s \in {"none", "busy"}
    BY <1>2 DEF Ops, Writes
  <1>6. q \in Requests /\ q.op = c /\ q.slot = s /\ q.row = r /\ q.st = "sent"
    BY <1>3, <1>5, RequestTyped
  <1>7. c = "remove" => r \in Rows
    BY DEF Call, Ids
  <1>8. c \in {"take", "upload"} => view = "backups"
    BY ViewIsKnown, HeaderOffers DEF Call, OfferedInHeader, PageTypes
  <1>9. Sound(q)
    BY <1>6, <1>7, <1>8 DEF Sound
  <1>10. Sends(i, q)
    BY <1>1, <1>4, <1>6, <1>9, Sending DEF PageTypes
  <1>11. i \in 1 .. MaxFlight
    BY <1>10 DEF Sends
  <1> QED
    BY <1>1, <1>5, <1>6, <1>10, <1>11

\* A load is sent: Retry, the end of a tracked task, the timer of the backups.
LEMMA LoadSends ==
    ASSUME PageTypes, Retry \/ PollEnds \/ Poll
    PROVE  \E i \in 1 .. MaxFlight, q \in Requests :
             /\ Sends(i, q) /\ q.op = "load"
             /\ \/ tracked' = tracked /\ clicks' = clicks
                \/ tracked' = tracked /\ clicks < MaxClicks /\ clicks' = clicks + 1
                \/ tracked > 0 /\ tracked' = tracked - 1 /\ clicks' = clicks
             /\ loading' = loading \/ loading' = TRUE
             /\ pending' = pending \/ pending' = {}
             /\ UNCHANGED <<mobile, hidden, job, rows, extras, blocked, dialog, forms, renewing,
                            faults>>
  <1>1. /\ \/ tracked' = tracked /\ clicks' = clicks
           \/ tracked' = tracked /\ clicks < MaxClicks /\ clicks' = clicks + 1
           \/ tracked > 0 /\ tracked' = tracked - 1 /\ clicks' = clicks
        /\ loading' = loading \/ loading' = TRUE
        /\ pending' = pending \/ pending' = {}
        /\ UNCHANGED <<view, admin, server, loadError>>
        /\ UNCHANGED <<mobile, hidden, job, rows, extras, blocked, dialog, forms, renewing, faults>>
    BY DEF Retry, PollEnds, Poll, Click, AtWork, page, backend, shown, over, waits
  <1>2. PICK q : q = Request("load", "none", NoRow)
    OBVIOUS
  <1>3. PICK i \in Free : Send(i, q)
    BY <1>2 DEF Retry, PollEnds, Poll
  <1>4. q \in Requests /\ Sound(q) /\ q.op = "load" /\ q.st = "sent"
    BY <1>2, LoadIs
  <1>5. Sends(i, q)
    BY <1>1, <1>3, <1>4, Sending DEF PageTypes
  <1>6. i \in 1 .. MaxFlight
    BY <1>5 DEF Sends
  <1> QED
    BY <1>1, <1>4, <1>5, <1>6

-----------------------------------------------------------------------------
(* What the API does.                                                      *)

\* Request i is as before but for its outcome.
HasOutcome(i, o) ==
    /\ i \in 1 .. MaxFlight /\ flight[i].st = "sent" /\ flight[i].op \notin {"idle", "load"}
    /\ \E q \in Requests :
         /\ flight' = [flight EXCEPT ![i] = q] /\ Sound(q) /\ q.st = o /\ q.op = flight[i].op
         /\ q.slot = flight[i].slot /\ q.row = flight[i].row /\ q.flag = flight[i].flag
         /\ q.on = flight[i].on
    /\ UNCHANGED <<view, admin, mobile, hidden, rows, loading, loadError, extras, blocked, dialog,
                   forms, pending, renewing, tracked, clicks>>

LEMMA OutcomeIs ==
    ASSUME PageTypes, NEW i \in 1 .. MaxFlight, NEW o \in {"ok", "err"}, Outcome(i, o),
           flight[i].op # "load"
    PROVE  \E q \in Requests :
             /\ flight' = [flight EXCEPT ![i] = q] /\ Sound(q) /\ q.st = o /\ q.op = flight[i].op
             /\ q.slot = flight[i].slot /\ q.row = flight[i].row /\ q.flag = flight[i].flag
             /\ q.on = flight[i].on
  <1>1. flight \in [1 .. MaxFlight -> Requests] /\ flight[i] \in Requests /\ Sound(flight[i])
    BY DEF PageTypes, PageFlight
  <1>2. PICK m : m = flight[i]
    OBVIOUS
  <1>3. PICK q : q = [m EXCEPT !.st = o]
    OBVIOUS
  <1>4. /\ q \in Requests /\ q.op = m.op /\ q.slot = m.slot /\ q.row = m.row /\ q.flag = m.flag
        /\ q.on = m.on /\ q.snap = m.snap /\ q.st = o
    BY <1>1, <1>2, <1>3 DEF Requests
  <1>5. flight' = [flight EXCEPT ![i] = q]
    BY <1>2, <1>3 DEF Outcome
  <1>6. Sound(q)
    BY <1>1, <1>2, <1>4 DEF Sound
  <1> QED
    BY <1>2, <1>4, <1>5, <1>6

LEMMA RefuseIs ==
    ASSUME PageTypes, NEW i \in 1 .. MaxFlight, Refuse(i)
    PROVE  /\ HasOutcome(i, "err") /\ UNCHANGED <<server, job, doubt>>
           /\ faults < MaxFaults /\ faults' = faults + 1
  <1>1. /\ Outcome(i, "err") /\ flight[i].op # "load"
        /\ flight[i].st = "sent" /\ flight[i].op \notin {"idle", "load"}
        /\ UNCHANGED <<view, admin, mobile, hidden, rows, loading, loadError, extras, blocked, dialog,
                       forms, pending, renewing, tracked, clicks>>
        /\ UNCHANGED <<server, job, doubt>> /\ faults < MaxFaults /\ faults' = faults + 1
    BY DEF Refuse, page, backend, shown, over, waits
  <1> QED
    BY <1>1, OutcomeIs DEF HasOutcome

LEMMA LoseIs ==
    ASSUME PageTypes, NEW i \in 1 .. MaxFlight, Lose(i)
    PROVE  /\ HasOutcome(i, "err") /\ doubt' = TRUE
           /\ Acceptable(flight[i]) /\ server' \in Effects(flight[i]) /\ job' = JobAfter(flight[i])
           /\ faults < MaxFaults /\ faults' = faults + 1
  <1>1. /\ Outcome(i, "err") /\ flight[i].op # "load"
        /\ flight[i].st = "sent" /\ flight[i].op \notin {"idle", "load"}
        /\ UNCHANGED <<view, admin, mobile, hidden, rows, loading, loadError, extras, blocked, dialog,
                       forms, pending, renewing, tracked, clicks>>
        /\ doubt' = TRUE /\ faults < MaxFaults /\ faults' = faults + 1
        /\ Acceptable(flight[i]) /\ server' \in Effects(flight[i]) /\ job' = JobAfter(flight[i])
    BY DEF Lose, page, shown, over, waits
  <1> QED
    BY <1>1, OutcomeIs DEF HasOutcome

LEMMA ServeIs ==
    ASSUME PageTypes, NEW i \in 1 .. MaxFlight, Serve(i)
    PROVE  /\ \/ /\ HasOutcome(i, "ok") /\ Acceptable(flight[i]) /\ server' \in Effects(flight[i])
                 /\ job' = JobAfter(flight[i])
              \/ HasOutcome(i, "err") /\ UNCHANGED <<server, job>>
           /\ doubt' = doubt /\ faults' = faults
  <1>1. /\ flight[i].op # "load"
        /\ flight[i].st = "sent" /\ flight[i].op \notin {"idle", "load"}
        /\ UNCHANGED <<view, admin, mobile, hidden, rows, loading, loadError, extras, blocked, dialog,
                       forms, pending, renewing, tracked, clicks>>
        /\ doubt' = doubt /\ faults' = faults
    BY DEF Serve, page, shown, over, waits
  <1>2. \/ /\ Outcome(i, "ok") /\ Acceptable(flight[i]) /\ server' \in Effects(flight[i])
           /\ job' = JobAfter(flight[i])
        \/ Outcome(i, "err") /\ UNCHANGED <<server, job>>
    BY DEF Serve, backend
  <1>3. CASE Outcome(i, "ok") /\ Acceptable(flight[i]) /\ server' \in Effects(flight[i])
              /\ job' = JobAfter(flight[i])
    BY <1>1, <1>3, OutcomeIs DEF HasOutcome
  <1>4. CASE Outcome(i, "err") /\ UNCHANGED <<server, job>>
    BY <1>1, <1>4, OutcomeIs DEF HasOutcome
  <1> QED
    BY <1>1, <1>2, <1>3, <1>4

LEMMA ServeLoadIs ==
    ASSUME PageTypes, NEW i \in 1 .. MaxFlight, ServeLoad(i)
    PROVE  /\ flight[i].op = "load" /\ flight[i].st = "sent"
           /\ \E q \in Requests :
                /\ flight' = [flight EXCEPT ![i] = q] /\ Sound(q) /\ q.op = "load" /\ q.st = "ok"
                /\ q.snap = server /\ q.slot = flight[i].slot /\ q.row = flight[i].row
           /\ faults' = faults \/ (faults < MaxFaults /\ faults' = faults + 1)
           /\ UNCHANGED <<view, admin, mobile, hidden, server, job, rows, loading, loadError, extras,
                          blocked, dialog, forms, pending, renewing, tracked, clicks, doubt>>
  <1>1. /\ flight[i].op = "load" /\ flight[i].st = "sent"
        /\ UNCHANGED <<view, admin, mobile, hidden, server, job, rows, loading, loadError, extras,
                       blocked, dialog, forms, pending, renewing, tracked, clicks, doubt>>
    BY DEF ServeLoad, page, backend, shown, over, waits
  <1>2. PICK F \in {{}} \cup {{x} : x \in Parts(view)} :
          /\ F # {} => faults < MaxFaults
          /\ faults' = IF F = {} THEN faults ELSE faults + 1
          /\ flight' = [flight EXCEPT
               ![i].st = "ok",
               ![i].snap = server,
               ![i].on = Unavailable,
               ![i].failed =
                  IF view # "backups" THEN IF F = {} THEN {} ELSE Parts(view)
                  ELSE F \cup IF Unavailable THEN Parts(view) \ {"status"} ELSE {}]
    BY DEF ServeLoad
  <1>3. PICK u \in BOOLEAN : u = Unavailable
    BY Zenon DEF Unavailable
  <1>4. PICK p : p = IF view # "backups" THEN IF F = {} THEN {} ELSE Parts(view)
                     ELSE F \cup IF Unavailable THEN Parts(view) \ {"status"} ELSE {}
    OBVIOUS
  <1>5. p \in SUBSET PartNames
    BY <1>2, <1>4, ViewIsKnown, PartsAre DEF PageTypes
  <1>6. flight' = [flight EXCEPT ![i].st = "ok", ![i].snap = server, ![i].on = u, ![i].failed = p]
    BY <1>2, <1>3, <1>4
  <1>7. flight \in [1 .. MaxFlight -> Requests] /\ flight[i] \in Requests /\ Sound(flight[i])
    BY DEF PageTypes, PageFlight
  <1>8. PICK m : m = flight[i]
    OBVIOUS
  <1>9. PICK q : q = [m EXCEPT !.st = "ok", !.snap = server, !.on = u, !.failed = p]
    OBVIOUS
  <1>10. server \in Lists /\ RowSet(server)
    BY DEF PageTypes, PageLists
  <1>11. /\ q \in Requests /\ q.op = m.op /\ q.slot = m.slot /\ q.row = m.row
         /\ q.snap = server /\ q.st = "ok"
    <2>1. m \in Requests
      BY <1>7, <1>8
    <2> QED
      BY <1>3, <1>5, <1>9, <1>10, <2>1 DEF Requests
  <1>12. flight' = [flight EXCEPT ![i] = q]
    BY <1>6, <1>7, <1>8, <1>9
  <1>13. Sound(q)
    BY <1>1, <1>7, <1>8, <1>10, <1>11 DEF Sound
  <1> QED
    BY <1>1, <1>2, <1>8, <1>11, <1>12, <1>13

LEMMA PutIs ==
    ASSUME NEW g \in Lists, RowSet(g), NEW r \in Rows, NEW s, s \subseteq Flags(view),
           view \in ViewNames, NEW h, h = Put(g, r, s)
    PROVE  h \in Lists /\ RowSet(h)
  <1>1. DOMAIN h = DOMAIN g \cup {r} /\ \A x \in DOMAIN h : h[x] = IF x = r THEN s ELSE g[x]
    BY DEF Put
  <1>2. \A x \in DOMAIN h : h[x] \subseteq Flags(view)
    BY <1>1 DEF RowSet
  <1>3. DOMAIN h \subseteq Rows /\ DOMAIN h \in SUBSET Ids
    BY <1>1 DEF RowSet, Ids
  <1>4. Flags(view) \subseteq FlagNames
    BY FlagsAre
  <1>5. \A x \in DOMAIN h : h[x] \in SUBSET FlagNames
    BY <1>2, <1>4
  <1>6. h \in [DOMAIN h -> SUBSET FlagNames]
    BY <1>5 DEF Put
  <1> QED
    BY <1>2, <1>3, <1>6, ListIs DEF RowSet

\* The API's rows stay rows of the view.
LEMMA EffectsAre ==
    ASSUME PageTypes, NEW q \in Requests, Sound(q), Acceptable(q), server' \in Effects(q)
    PROVE  /\ server' \in Lists /\ RowSet(server')
           /\ q.op \notin Writes => server' = server
           /\ (q.op = "toggle" /\ Optimistic) =>
                /\ q.row \in DOMAIN server /\ DOMAIN server' = DOMAIN server
                /\ server'[q.row] = IF q.on THEN server[q.row] \cup {q.flag}
                                    ELSE server[q.row] \ {q.flag}
                /\ \A r \in DOMAIN server : r # q.row => server'[r] = server[r]
  <1>1. server \in Lists /\ RowSet(server) /\ view \in ViewNames
    BY ViewIsKnown DEF PageTypes, PageLists
  <1>2. q.row # NoRow => q.row \in DOMAIN server
    BY DEF Acceptable, Known
  <1>3. NoRow \notin Rows
    BY ListPagesAssumption
  <1>4. CASE q.op = "toggle"
    <2>1. PICK b : b = IF Optimistic THEN server[q.row] ELSE q.snap[q.row]
      OBVIOUS
    <2>2. /\ q.row \in Rows /\ q.row \in DOMAIN server /\ q.flag \in Switches(view)
          /\ q.snap[q.row] \subseteq Flags(view)
      BY <1>2, <1>3, <1>4 DEF Sound
    <2>3. b \subseteq Flags(view)
      BY <1>1, <2>1, <2>2 DEF RowSet
    <2>4. PICK s : s = IF q.on THEN b \cup {q.flag} ELSE b \ {q.flag}
      OBVIOUS
    <2>5. server' = Put(server, q.row, s)
      BY <1>4, <2>1, <2>4 DEF Effects
    <2>6. s \subseteq Flags(view)
      BY <1>1, <2>2, <2>3, <2>4, FlagsAre
    <2>7. server' \in Lists /\ RowSet(server')
      BY <1>1, <2>2, <2>5, <2>6, PutIs
    <2>8. /\ DOMAIN server' = DOMAIN server /\ server'[q.row] = s
          /\ \A r \in DOMAIN server : r # q.row => server'[r] = server[r]
      BY <2>2, <2>5 DEF Put
    <2>9. q.op \in Writes
      BY <1>4 DEF Writes
    <2> QED
      BY <2>1, <2>2, <2>4, <2>7, <2>8, <2>9
  <1>5. CASE q.op = "save"
    <2>1. PICK s : s = (server[q.row] \ FormFlags(view)) \cup q.snap[q.row]
      OBVIOUS
    <2>2. q.row \in Rows /\ q.row \in DOMAIN server /\ q.snap[q.row] \subseteq Flags(view)
      BY <1>2, <1>3, <1>5 DEF Sound
    <2>3. s \subseteq Flags(view)
      BY <1>1, <2>1, <2>2 DEF RowSet
    <2>4. server' = Put(server, q.row, s)
      BY <1>5, <2>1 DEF Effects
    <2> QED
      BY <1>1, <1>5, <2>2, <2>3, <2>4, PutIs DEF Writes
  <1>6. CASE q.op = "create"
    <2>1. PICK r \in Rows \ DOMAIN server : server' = Put(server, r, q.snap[NoRow])
      BY <1>6 DEF Effects
    <2>2. q.snap[NoRow] \subseteq Flags(view)
      BY <1>6 DEF Sound
    <2> QED
      BY <1>1, <1>6, <2>1, <2>2, PutIs DEF Writes
  <1>7. CASE q.op = "upload"
    <2>1. PICK r \in Rows \ DOMAIN server : server' = Put(server, r, {"key_matches"})
      BY <1>7 DEF Effects
    <2>2. {"key_matches"} \subseteq Flags(view)
      BY <1>1, <1>7, FlagsAre DEF Sound
    <2> QED
      BY <1>1, <1>7, <2>1, <2>2, PutIs DEF Writes
  <1>8. CASE q.op \in {"delete", "remove"}
    <2>1. PICK D : D = DOMAIN server \ {q.row}
      OBVIOUS
    <2>2. server' = [x \in D |-> server[x]]
      BY <1>8, <2>1 DEF Effects, Restrict
    <2>3. /\ DOMAIN server \in SUBSET Rows
          /\ \A x \in DOMAIN server : server[x] \subseteq Flags(view)
      BY <1>1 DEF RowSet
    <2>4. RowSet(server')
      BY <2>1, <2>2, <2>3 DEF RowSet
    <2>5. D \in SUBSET Ids /\ server' \in [D -> SUBSET FlagNames]
      BY <1>1, <2>1, <2>2, <2>3, FlagsAre DEF Ids
    <2> QED
      BY <1>8, <2>4, <2>5, ListIs DEF Writes
  <1>9. CASE q.op = "totp"
    <2>1. server' = Put(server, q.row, server[q.row] \ {"totp"})
      BY <1>9 DEF Effects
    <2>2. q.row \in Rows /\ server[q.row] \ {"totp"} \subseteq Flags(view)
      BY <1>1, <1>2, <1>3, <1>9 DEF Sound, RowSet
    <2> QED
      BY <1>1, <1>9, <2>1, <2>2, PutIs DEF Writes
  <1>10. CASE q.op \notin Writes
    BY <1>1, <1>10 DEF Effects, Writes
  <1> QED
    BY <1>4, <1>5, <1>6, <1>7, <1>8, <1>9, <1>10 DEF Writes

-----------------------------------------------------------------------------
(* What an answer does.                                                    *)

\* Request i is answered, and q, a reload or nothing, takes its place.
Settles(i, q) ==
    /\ i \in 1 .. MaxFlight /\ flight[i].st # "sent" /\ Settle(i, q)
    /\ q \in Requests /\ Sound(q) /\ q.op \in {"idle", "load"}
    /\ q.op = "load" => q.st = "sent"
    /\ UNCHANGED <<view, admin, mobile, hidden, server, job, clicks, faults>>

LEMMA SettleIs ==
    ASSUME NEW i \in 1 .. MaxFlight, flight[i].st # "sent", NEW q, Settle(i, q),
           q = Idle \/ q = Request("load", "none", NoRow) \/ q = Request("load", "busy", NoRow),
           UNCHANGED <<view, admin, mobile, hidden, server, job, clicks, faults>>
    PROVE  Settles(i, q)
  BY IdleIs, LoadIs DEF Settles

LEMMA AnswerLoadIs ==
    ASSUME PageTypes, NEW i \in 1 .. MaxFlight, AnswerLoad(i)
    PROVE  /\ flight[i].op = "load" /\ \E q \in Requests : Settles(i, q) /\ q.op = "idle"
           /\ rows' \in Lists /\ RowSet(rows') /\ (loadError' = FALSE => rows' = flight[i].snap)
           /\ loadError' \in BOOLEAN /\ extras' \in BOOLEAN /\ blocked' \in BOOLEAN
           /\ loading' \in BOOLEAN /\ (blocked' => view = "backups")
           /\ pending' \subseteq {p \in pending : p.req # i}
           /\ forms' = IF blocked' THEN [s \in Slots |-> Blank] ELSE forms
           /\ UNCHANGED <<dialog, renewing, tracked>>
  <1>1. /\ flight[i].op = "load" /\ flight[i].st # "sent" /\ Settle(i, Idle)
        /\ IF view = "backups" THEN LoadedSettled(flight[i]) ELSE LoadedAll(flight[i])
        /\ loading' = FALSE /\ pending' \subseteq {p \in pending : p.req # i}
        /\ forms' = IF blocked' THEN [s \in Slots |-> Blank] ELSE forms
        /\ UNCHANGED <<dialog, renewing, tracked>>
        /\ UNCHANGED <<view, admin, mobile, hidden, server, job, clicks, faults>>
    BY DEF AnswerLoad, LoadingAfter, page, backend
  <1>2. PICK q : q = flight[i]
    OBVIOUS
  <1>3. q \in Requests /\ Sound(q) /\ RowSet(q.snap) /\ q.snap \in Lists /\ q.on \in BOOLEAN
    BY <1>1, <1>2 DEF PageTypes, PageFlight, Sound, Requests
  <1>4. rows \in Lists /\ RowSet(rows)
    BY DEF PageTypes, PageLists
  <1>5. extras \in BOOLEAN /\ blocked \in BOOLEAN /\ (blocked => view = "backups")
    BY DEF PageTypes, PageFlags, PageOpen
  <1>6. CASE view = "backups"
    <2>1. LoadedSettled(q)
      BY <1>1, <1>2, <1>6
    <2>2. (rows' = rows \/ rows' = q.snap) /\ (loadError' = FALSE => rows' = q.snap)
      BY <2>1 DEF LoadedSettled
    <2>3. extras' \in BOOLEAN /\ (blocked' = blocked \/ blocked' = q.on)
      BY <1>5, <2>1 DEF LoadedSettled
    <2>4. loadError' \in BOOLEAN /\ loading' \in BOOLEAN
      <3>1. loadError' = ("rows" \in q.failed)
        BY <2>1 DEF LoadedSettled
      <3>2. loading' = FALSE
        BY <1>1
      <3>3. loadError' \in BOOLEAN
        <4>1. loadError' = TRUE \/ loadError' = FALSE
          BY <3>1
        <4> QED
          BY <4>1, Zenon
      <3>4. loading' \in BOOLEAN
        BY <3>2, Zenon
      <3> QED
        BY <3>3, <3>4
    <2> QED
      BY <1>1, <1>2, <1>3, <1>4, <1>5, <1>6, <2>2, <2>3, <2>4, SettleIs, IdleIs DEF Settles
  <1>7. CASE view # "backups"
    <2>1. LoadedAll(q)
      BY <1>1, <1>2, <1>7
    <2>2. (rows' = rows \/ rows' = q.snap) /\ (loadError' = FALSE => rows' = q.snap)
      BY <2>1 DEF LoadedAll
    <2>3. blocked' = blocked
      BY <2>1 DEF LoadedAll
    <2>4. loadError' \in BOOLEAN /\ loading' \in BOOLEAN /\ extras' \in BOOLEAN
      BY <1>1, <2>1, Zenon DEF LoadedAll
    <2> QED
      BY <1>1, <1>2, <1>3, <1>4, <1>5, <1>7, <2>2, <2>3, <2>4, SettleIs, IdleIs DEF Settles
  <1> QED
    BY <1>6, <1>7

LEMMA AnswerToggleIs ==
    ASSUME PageTypes, NEW i \in 1 .. MaxFlight, AnswerToggle(i)
    PROVE  /\ flight[i].op = "toggle" /\ flight[i].st # "sent"
           /\ rows' = IF flight[i].st = "ok" \/ ~Optimistic THEN rows ELSE RolledBack(flight[i])
           /\ \E q \in Requests :
                /\ Settles(i, q)
                /\ IF flight[i].st = "ok" /\ ~Optimistic
                   THEN q.op = "load" /\ pending' = pending
                   ELSE q.op = "idle" /\ pending' = {p \in pending : p.req # i}
           /\ UNCHANGED <<loading, loadError, extras, blocked, dialog, forms, renewing, tracked>>
  <1>1. /\ flight[i].op = "toggle" /\ flight[i].st # "sent"
        /\ rows' = IF flight[i].st = "ok" \/ ~Optimistic THEN rows ELSE RolledBack(flight[i])
        /\ IF flight[i].st = "ok" /\ ~Optimistic
           THEN Settle(i, Request("load", "none", NoRow)) /\ pending' = pending
           ELSE Settle(i, Idle) /\ pending' = {p \in pending : p.req # i}
        /\ UNCHANGED <<loading, loadError, extras, blocked, dialog, forms, renewing, tracked>>
        /\ UNCHANGED <<view, admin, mobile, hidden, server, job, clicks, faults>>
    BY DEF AnswerToggle, page, backend, over
  <1>2. CASE flight[i].st = "ok" /\ ~Optimistic
    <2>1. PICK q : q = Request("load", "none", NoRow)
      OBVIOUS
    <2>2. Settles(i, q) /\ q.op = "load" /\ q \in Requests
      BY <1>1, <1>2, <2>1, SettleIs, LoadIs
    <2> QED
      BY <1>1, <1>2, <2>2
  <1>3. CASE ~(flight[i].st = "ok" /\ ~Optimistic)
    <2>1. Settles(i, Idle) /\ Idle.op = "idle" /\ Idle \in Requests
      BY <1>1, <1>3, SettleIs, IdleIs
    <2> QED
      BY <1>1, <1>3, <2>1
  <1> QED
    BY <1>2, <1>3

LEMMA AnswerDialogIs ==
    ASSUME PageTypes, NEW i \in 1 .. MaxFlight, AnswerDialog(i)
    PROVE  LET s == flight[i].slot IN
           /\ s \in Slots /\ flight[i].st # "sent"
           /\ \E q \in Requests :
                /\ Settles(i, q)
                /\ \/ /\ q.op = "idle" /\ (flight[i].st # "ok" \/ flight[i].op = "verify")
                      /\ forms' = Released(s, i)
                      /\ UNCHANGED <<loading, pending, dialog, tracked>>
                   \/ /\ q.op = "load" /\ loading' \in BOOLEAN /\ pending' \subseteq pending
                      /\ dialog' = IF dialog.slot = s THEN NoDialog ELSE dialog
                      /\ \/ forms' = Released(s, i)
                         \/ dialog.slot = s /\ forms' = [Released(s, i) EXCEPT ![s] = Blank]
                      /\ \/ tracked' = tracked
                         \/ flight[i].op = "create" /\ tracked' = tracked + 1
           /\ UNCHANGED <<rows, loadError, extras, blocked, renewing>>
  <1>1. PICK s : s = flight[i].slot
    OBVIOUS
  <1>2. /\ s \in Slots /\ flight[i].st # "sent"
        /\ UNCHANGED <<rows, loadError, extras, blocked, renewing>>
        /\ UNCHANGED <<view, admin, mobile, hidden, server, job, clicks, faults>>
    BY <1>1 DEF AnswerDialog, page, backend
  <1>3. CASE flight[i].st = "ok" /\ flight[i].op # "verify"
    <2>1. PICK q : q = Request("load", "none", NoRow)
      OBVIOUS
    <2>2. /\ Settle(i, q)
          /\ loading' = (loading \/ Skeleton)
          /\ pending' = IF Skeleton THEN {} ELSE pending
          /\ dialog' = IF dialog.slot = s THEN NoDialog ELSE dialog
          /\ \/ forms' = Released(s, i)
             \/ dialog.slot = s /\ forms' = [Released(s, i) EXCEPT ![s] = Blank]
      BY <1>1, <1>3, <2>1 DEF AnswerDialog
    <2>3. \/ tracked' = tracked
          \/ flight[i].op = "create" /\ tracked' = tracked + 1
      BY <1>1, <1>3 DEF AnswerDialog
    <2>4. Settles(i, q) /\ q.op = "load" /\ q \in Requests
      BY <1>2, <2>1, <2>2, SettleIs, LoadIs
    <2>5. loading' \in BOOLEAN
      BY <2>2, Zenon
    <2>6. pending' \subseteq pending
      BY <2>2
    <2> QED
      BY <1>1, <1>2, <2>2, <2>3, <2>4, <2>5, <2>6
  <1>4. CASE ~(flight[i].st = "ok" /\ flight[i].op # "verify")
    <2>1. /\ Settle(i, Idle) /\ forms' = Released(s, i) /\ UNCHANGED <<loading, pending, dialog, tracked>>
      BY <1>1, <1>4 DEF AnswerDialog
    <2>2. Settles(i, Idle) /\ Idle.op = "idle" /\ Idle \in Requests
      BY <1>2, <2>1, SettleIs, IdleIs
    <2> QED
      BY <1>1, <1>2, <1>4, <2>1, <2>2
  <1> QED
    BY <1>3, <1>4

LEMMA AnswerRenewIs ==
    ASSUME PageTypes, NEW i \in 1 .. MaxFlight, AnswerRenew(i)
    PROVE  /\ flight[i].op = "renew" /\ \E q \in Requests : Settles(i, q) /\ q.op = "idle"
           /\ renewing' = NoRow /\ (tracked' = tracked \/ tracked' = tracked + 1)
           /\ UNCHANGED <<rows, loading, loadError, extras, blocked, dialog, forms, pending>>
  <1>1. /\ flight[i].op = "renew" /\ flight[i].st # "sent" /\ Settle(i, Idle)
        /\ renewing' = NoRow /\ (tracked' = tracked \/ tracked' = tracked + 1)
        /\ UNCHANGED <<rows, loading, loadError, extras, blocked, dialog, forms, pending>>
        /\ UNCHANGED <<view, admin, mobile, hidden, server, job, clicks, faults>>
    BY DEF AnswerRenew, page, backend, shown, over
  <1>2. Settles(i, Idle) /\ Idle.op = "idle" /\ Idle \in Requests
    BY <1>1, SettleIs, IdleIs
  <1> QED
    BY <1>1, <1>2

LEMMA AnswerCallIs ==
    ASSUME PageTypes, NEW i \in 1 .. MaxFlight, AnswerCall(i)
    PROVE  /\ flight[i].op \in {"resend", "download", "delete", "remove", "take", "upload"}
           /\ flight[i].slot \notin Slots
           /\ \E q \in Requests :
                /\ Settles(i, q)
                /\ (flight[i].st = "ok" /\ flight[i].op \in Writes) => q.op = "load"
           /\ UNCHANGED <<rows, loading, loadError, extras, blocked, dialog, forms, pending, renewing,
                          tracked>>
  <1>1. PICK q : q = IF flight[i].st = "ok" /\ flight[i].op = "upload" THEN Request("load", "busy", NoRow)
                     ELSE IF flight[i].st = "ok" /\ flight[i].op \in {"delete", "remove"}
                     THEN Request("load", "none", NoRow)
                     ELSE Idle
    OBVIOUS
  <1>2. /\ flight[i].op \in {"resend", "download", "delete", "remove", "take", "upload"}
        /\ flight[i].slot \notin Slots /\ flight[i].st # "sent" /\ Settle(i, q)
        /\ UNCHANGED <<rows, loading, loadError, extras, blocked, dialog, forms, pending, renewing,
                       tracked>>
        /\ UNCHANGED <<view, admin, mobile, hidden, server, job, clicks, faults>>
    BY <1>1 DEF AnswerCall, page, backend, shown, over, waits
  <1>3. q = Idle \/ q = Request("load", "none", NoRow) \/ q = Request("load", "busy", NoRow)
    BY <1>1
  <1>4. Settles(i, q)
    BY <1>2, <1>3, SettleIs
  <1>5. q \in Requests
    BY <1>4 DEF Settles
  <1>6. (flight[i].st = "ok" /\ flight[i].op \in Writes) => q.op = "load"
    BY <1>1, <1>2, LoadIs DEF Writes
  <1> QED
    BY <1>2, <1>4, <1>5, <1>6

-----------------------------------------------------------------------------
(* What the rows on the screen are worth, step by step.                    *)

\* A row keeps its standing when neither it nor the flips ahead of it change.
LEMMA AgreeAtStays ==
    ASSUME NEW r, AgreeAt(r), DOMAIN flight' = DOMAIN flight, rows'[r] = rows[r],
           server'[r] = server[r],
           \A j \in DOMAIN flight : AheadOf(j, r) <=> AheadOf(j, r)',
           \A j \in DOMAIN flight :
             AheadOf(j, r) => flight'[j].flag = flight[j].flag /\ flight'[j].on = flight[j].on
    PROVE  AgreeAt(r)'
  <1>1. CASE rows[r] = server[r] /\ \A i \in DOMAIN flight : ~AheadOf(i, r)
    BY <1>1 DEF AgreeAt
  <1>2. CASE \E i \in DOMAIN flight :
               /\ AheadOf(i, r) /\ rows[r] = Flipped(server[r], flight[i].flag)
               /\ flight[i].on = (flight[i].flag \notin server[r])
    <2>1. PICK i \in DOMAIN flight :
            /\ AheadOf(i, r) /\ rows[r] = Flipped(server[r], flight[i].flag)
            /\ flight[i].on = (flight[i].flag \notin server[r])
      BY <1>2
    <2>2. AheadOf(i, r)' /\ flight'[i].flag = flight[i].flag /\ flight'[i].on = flight[i].on
      BY <2>1
    <2>3. rows'[r] = Flipped(server'[r], flight'[i].flag)
      BY <2>1, <2>2
    <2>4. flight'[i].on = (flight'[i].flag \notin server'[r])
      BY <2>1, <2>2
    <2>5. i \in DOMAIN flight'
      OBVIOUS
    <2> QED
      BY <2>2, <2>3, <2>4, <2>5 DEF AgreeAt, Flipped
  <1> QED
    BY <1>1, <1>2 DEF AgreeAt

\* A request whose flips, if any, are ahead before the step as after it.
LEMMA UpToDateStays ==
    ASSUME UpToDate, DOMAIN flight' = DOMAIN flight, UNCHANGED <<admin, rows, server, loadError>>,
           Loads' = {} => Loads = {},
           \A j \in DOMAIN flight : \A r : AheadOf(j, r) <=> AheadOf(j, r)',
           \A j \in DOMAIN flight : \A r :
             AheadOf(j, r) => flight'[j].flag = flight[j].flag /\ flight'[j].on = flight[j].on,
           \A j \in DOMAIN flight : Outdated(j) => Outdated(j)'
    PROVE  UpToDate'
  <1> SUFFICES ASSUME Mounted', Loads' = {}, ~loadError'
               PROVE  Agree' \/ \E i \in DOMAIN flight' : Outdated(i)'
    BY DEF UpToDate
  <1>1. Agree \/ \E i \in DOMAIN flight : Outdated(i)
    BY DEF UpToDate, Mounted
  <1>2. CASE Agree
    <2>1. \A r \in DOMAIN server : AgreeAt(r)'
      BY <1>2, AgreeAtStays DEF Agree
    <2> QED
      BY <1>2, <2>1 DEF Agree
  <1>3. CASE \E i \in DOMAIN flight : Outdated(i)
    BY <1>3
  <1> QED
    BY <1>1, <1>2, <1>3

LEMMA AccountedLooks ==
    ASSUME Accounted, Looks
    PROVE  Accounted'
  <1>1. UNCHANGED <<view, admin, server, rows, loadError, flight, doubt>>
    BY DEF Looks
  <1>2. Loads' = Loads /\ Written' = Written
    BY <1>1 DEF Loads, Written, InFlight
  <1>3. /\ \A j \in DOMAIN flight : \A r : AheadOf(j, r) <=> AheadOf(j, r)'
        /\ \A j \in DOMAIN flight : Outdated(j) => Outdated(j)'
    BY <1>1 DEF AheadOf, Outdated, Optimistic
  <1>4. Apart => Apart'
    BY <1>1, <1>2 DEF Apart
  <1>5. OnePerRow => OnePerRow'
    BY <1>1, <1>2 DEF OnePerRow
  <1>6. UpToDate => UpToDate'
    BY <1>1, <1>2, <1>3, UpToDateStays
  <1> QED
    BY <1>1, <1>4, <1>5, <1>6 DEF Accounted

\* Loads and writes after one request took the place of another.
LEMMA LoadsAndWrites ==
    ASSUME PageFlight, NEW i \in 1 .. MaxFlight, NEW q \in Requests,
           flight' = [flight EXCEPT ![i] = q]
    PROVE  /\ q.op = "load" => Loads' = Loads \cup {i} /\ Written' = Written \ {i}
           /\ q.op \in Writes => Loads' = Loads \ {i} /\ Written' = Written \cup {i}
           /\ q.op \notin Writes \cup {"load"} => Loads' = Loads \ {i} /\ Written' = Written \ {i}
           /\ InFlight(Writes \cup {"load"}) = Written \cup Loads
  <1>1. "load" \notin Writes
    BY DEF Writes
  <1>2. /\ q.op = "load" => Loads' = Loads \cup {i}
        /\ q.op # "load" => Loads' = Loads \ {i}
    <2>1. PICK S : S = {"load"}
      OBVIOUS
    <2>2. /\ q.op \in S => InFlight(S)' = InFlight(S) \cup {i}
          /\ q.op \notin S => InFlight(S)' = InFlight(S) \ {i}
      BY InFlightReplaced
    <2> QED
      BY <2>1, <2>2 DEF Loads, InFlight
  <1>3. /\ q.op \in Writes => Written' = Written \cup {i}
        /\ q.op \notin Writes => Written' = Written \ {i}
    <2>1. PICK S : S = Writes
      OBVIOUS
    <2>2. /\ q.op \in S => InFlight(S)' = InFlight(S) \cup {i}
          /\ q.op \notin S => InFlight(S)' = InFlight(S) \ {i}
      BY InFlightReplaced
    <2> QED
      BY <2>1, <2>2 DEF Written, InFlight
  <1>4. InFlight(Writes \cup {"load"}) = Written \cup Loads
    BY DEF InFlight, Written, Loads
  <1> QED
    BY <1>1, <1>2, <1>3, <1>4

\* A request other than an optimistic flip is sent.
LEMMA AccountedSend ==
    ASSUME PageTypes, Accounted, NEW i, NEW q, Sends(i, q), q.op # "toggle", rows' = rows
    PROVE  Accounted'
  <1>1. /\ i \in 1 .. MaxFlight /\ flight[i].op = "idle" /\ q \in Requests /\ Sound(q)
        /\ q.st = "sent" /\ flight' = [flight EXCEPT ![i] = q]
        /\ UNCHANGED <<view, admin, server, loadError>>
    BY DEF Sends, Send
  <1>2. /\ DOMAIN flight = 1 .. MaxFlight /\ DOMAIN flight' = 1 .. MaxFlight
        /\ flight'[i] = q /\ \A j \in 1 .. MaxFlight : j # i => flight'[j] = flight[j]
    BY <1>1, Replaced DEF PageTypes
  <1>3. /\ q.op = "load" => Loads' = Loads \cup {i} /\ Written' = Written \ {i}
        /\ q.op \in Writes => Loads' = Loads \ {i} /\ Written' = Written \cup {i}
        /\ q.op \notin Writes \cup {"load"} => Loads' = Loads \ {i} /\ Written' = Written \ {i}
        /\ InFlight(Writes \cup {"load"}) = Written \cup Loads
    BY <1>1, LoadsAndWrites DEF PageTypes
  <1>4. /\ i \notin Loads /\ i \notin Written
        /\ Loads \subseteq 1 .. MaxFlight /\ Written \subseteq 1 .. MaxFlight
        /\ \A j \in Loads : flight[j].op = "load"
    BY <1>1, <1>2 DEF Loads, Written, InFlight, Writes
  <1>5. /\ \A j \in DOMAIN flight : \A r : AheadOf(j, r) <=> AheadOf(j, r)'
        /\ \A j \in DOMAIN flight : \A r :
             AheadOf(j, r) => flight'[j].flag = flight[j].flag /\ flight'[j].on = flight[j].on
        /\ \A j \in DOMAIN flight : Outdated(j) => Outdated(j)'
    BY <1>1, <1>2 DEF AheadOf, Outdated, Optimistic, Writes
  <1>6. (UpToDate /\ (Loads' = {} => Loads = {})) => UpToDate'
    BY <1>1, <1>2, <1>5, UpToDateStays
  <1> SUFFICES ASSUME ~doubt'
               PROVE  Apart' /\ OnePerRow' /\ UpToDate'
    BY DEF Accounted
  <1>7. doubt' = IF q.op = "load" /\ Written \cup Loads = {}
                 THEN FALSE
                 ELSE \/ doubt
                      \/ q.op = "load" /\ Written # {}
                      \/ q.op \in Writes /\ \E j \in Written \cup Loads : flight[j].row \in {NoRow, q.row}
    BY <1>3 DEF Sends, Send, Written
  <1>8. CASE q.op = "load"
    <2>1. "load" \notin Writes
      BY DEF Writes
    <2>2. Written = {} /\ (Loads # {} => ~doubt)
      BY <1>7, <1>8, <2>1
    <2>3. Loads' = Loads \cup {i} /\ Written' = {}
      BY <1>3, <1>8, <2>2
    <2>4. ASSUME NEW j \in Loads', flight'[j].st # "sent"
          PROVE  flight'[j].snap = server'
      <3>1. j # i /\ j \in Loads /\ flight'[j] = flight[j]
        BY <1>1, <1>2, <1>4, <2>3, <2>4
      <3>2. Apart
        BY <2>2, <3>1 DEF Accounted
      <3> QED
        BY <1>1, <2>4, <3>1, <3>2 DEF Apart
    <2>5. Apart'
      BY <2>3, <2>4 DEF Apart
    <2>6. OnePerRow' /\ UpToDate'
      BY <2>3 DEF OnePerRow, UpToDate
    <2> QED
      BY <2>5, <2>6
  <1>9. CASE q.op \in Writes
    <2>1. "load" \notin Writes
      BY DEF Writes
    <2>2. ~doubt /\ \A j \in Written \cup Loads : flight[j].row \notin {NoRow, q.row}
      BY <1>7, <1>9, <2>1
    <2>3. Apart /\ OnePerRow /\ UpToDate
      BY <2>2 DEF Accounted
    <2>4. \A j \in Loads : flight[j].row = NoRow
      BY <1>4 DEF PageTypes, PageFlight, Sound
    <2>5. Loads = {} /\ Loads' = {} /\ Written' = Written \cup {i}
      BY <1>3, <1>9, <2>2, <2>4
    <2>6. Apart'
      BY <2>5 DEF Apart
    <2>7. OnePerRow'
      <3> SUFFICES ASSUME NEW j \in Written', NEW k \in Written', flight'[j].row = flight'[k].row
                   PROVE  j = k
        BY DEF OnePerRow
      <3>1. CASE j = i \/ k = i
        BY <1>2, <1>4, <2>2, <2>5, <3>1
      <3>2. CASE j # i /\ k # i
        BY <1>2, <1>4, <2>3, <2>5, <3>2 DEF OnePerRow
      <3> QED
        BY <3>1, <3>2
    <2> QED
      BY <1>6, <2>3, <2>5, <2>6, <2>7
  <1>10. CASE q.op \notin Writes \cup {"load"}
    <2>1. ~doubt /\ Loads' = Loads /\ Written' = Written
      BY <1>3, <1>4, <1>7, <1>10
    <2>2. Apart /\ OnePerRow /\ UpToDate
      BY <2>1 DEF Accounted
    <2>3. Apart'
      BY <1>1, <1>2, <1>4, <2>1, <2>2 DEF Apart
    <2>4. OnePerRow'
      BY <1>1, <1>2, <1>4, <2>1, <2>2 DEF OnePerRow
    <2> QED
      BY <1>6, <2>1, <2>2, <2>3, <2>4
  <1> QED
    BY <1>8, <1>9, <1>10

\* A switch is flipped.
LEMMA AccountedToggle ==
    ASSUME PageTypes, Accounted, NEW r \in Rows, NEW f \in Switches(view), Toggle(r, f)
    PROVE  Accounted'
  <1>1. PICK i \in 1 .. MaxFlight, q \in Requests :
             /\ Sends(i, q) /\ q.op = "toggle" /\ q.row = r /\ q.flag = f
             /\ q.on = (f \notin rows[r])
             /\ rows' = IF Optimistic THEN [rows EXCEPT ![r] = Flipped(@, f)] ELSE rows
             /\ r \in DOMAIN rows
    BY ToggleSends
  <1>2. /\ flight[i].op = "idle" /\ q.st = "sent" /\ flight' = [flight EXCEPT ![i] = q]
        /\ UNCHANGED <<view, admin, server, loadError>>
    BY <1>1 DEF Sends, Send
  <1>3. /\ DOMAIN flight = 1 .. MaxFlight /\ DOMAIN flight' = 1 .. MaxFlight
        /\ flight'[i] = q /\ \A j \in 1 .. MaxFlight : j # i => flight'[j] = flight[j]
    BY <1>2, Replaced DEF PageTypes
  <1>4. q.op \in Writes /\ "load" \notin Writes
    BY <1>1 DEF Writes
  <1>5. /\ Loads' = Loads \ {i} /\ Written' = Written \cup {i}
        /\ InFlight(Writes \cup {"load"}) = Written \cup Loads
    BY <1>2, <1>4, LoadsAndWrites DEF PageTypes
  <1>6. /\ i \notin Loads /\ i \notin Written
        /\ Loads \subseteq 1 .. MaxFlight /\ Written \subseteq 1 .. MaxFlight
        /\ \A j \in Loads : flight[j].op = "load"
        /\ \A j \in 1 .. MaxFlight : flight[j].op \in Writes => j \in Written
    BY <1>2, <1>3 DEF Loads, Written, InFlight, Writes
  <1> SUFFICES ASSUME ~doubt'
               PROVE  Apart' /\ OnePerRow' /\ UpToDate'
    BY DEF Accounted
  <1>7. ~doubt /\ \A j \in Written \cup Loads : flight[j].row \notin {NoRow, q.row}
    BY <1>1, <1>4, <1>5 DEF Sends, Send, Written
  <1>8. Apart /\ OnePerRow /\ UpToDate
    BY <1>7 DEF Accounted
  <1>9. \A j \in Loads : flight[j].row = NoRow
    BY <1>6 DEF PageTypes, PageFlight, Sound
  <1>10. Loads = {} /\ Loads' = {}
    BY <1>5, <1>7, <1>9
  <1>11. Apart'
    BY <1>10 DEF Apart
  <1>12. OnePerRow'
    <2> SUFFICES ASSUME NEW j \in Written', NEW k \in Written', flight'[j].row = flight'[k].row
                 PROVE  j = k
      BY DEF OnePerRow
    <2>1. CASE j = i \/ k = i
      BY <1>3, <1>5, <1>6, <1>7, <2>1
    <2>2. CASE j # i /\ k # i
      BY <1>3, <1>5, <1>6, <1>8, <2>2 DEF OnePerRow
    <2> QED
      BY <2>1, <2>2
  <1>13. \A j \in DOMAIN flight : Outdated(j) => Outdated(j)'
    BY <1>2, <1>3 DEF Outdated, Optimistic, Writes
  <1>14. CASE ~Optimistic
    <2>1. \A j \in DOMAIN flight : \A x : ~AheadOf(j, x) /\ ~AheadOf(j, x)'
      BY <1>2, <1>14 DEF AheadOf, Optimistic
    <2> QED
      BY <1>1, <1>2, <1>3, <1>8, <1>10, <1>11, <1>12, <1>13, <1>14, <2>1, UpToDateStays
  <1>15. CASE Optimistic
    <2> SUFFICES ASSUME Mounted', Loads' = {}, ~loadError'
                 PROVE  Agree' \/ \E j \in DOMAIN flight' : Outdated(j)'
      BY <1>11, <1>12 DEF UpToDate
    <2>1. Agree \/ \E j \in DOMAIN flight : Outdated(j)
      BY <1>2, <1>8, <1>10 DEF UpToDate, Mounted
    <2>2. CASE \E j \in DOMAIN flight : Outdated(j)
      BY <1>3, <1>13, <2>2
    <2>3. CASE Agree
      <3>1. DOMAIN rows = DOMAIN server /\ \A x \in DOMAIN server : AgreeAt(x)
        BY <2>3 DEF Agree
      <3>2. rows' = [rows EXCEPT ![r] = Flipped(rows[r], f)] /\ rows \in [DOMAIN rows -> SUBSET FlagNames]
        BY <1>1, <1>15, ListHas DEF PageTypes, PageLists
      <3>3. /\ DOMAIN rows' = DOMAIN rows /\ rows'[r] = Flipped(rows[r], f)
            /\ \A x \in DOMAIN rows : x # r => rows'[x] = rows[x]
        BY <1>1, <3>2
      <3>4. \A j \in DOMAIN flight : ~AheadOf(j, r)
        <4>1. \A j \in DOMAIN flight : AheadOf(j, r) => j \in Written /\ flight[j].row = r
          BY <1>3, <1>6 DEF AheadOf, Writes
        <4> QED
          BY <1>1, <1>7, <4>1
      <3>5. rows[r] = server[r]
        BY <1>1, <3>1, <3>4 DEF AgreeAt
      <3>6. AgreeAt(r)'
        <4>1. AheadOf(i, r)'
          BY <1>1, <1>2, <1>3, <1>15 DEF AheadOf, Optimistic
        <4>2. rows'[r] = Flipped(server'[r], flight'[i].flag)
          BY <1>1, <1>2, <1>3, <3>3, <3>5
        <4>3. flight'[i].on = (flight'[i].flag \notin server'[r])
          BY <1>1, <1>2, <1>3, <3>5
        <4>4. i \in DOMAIN flight'
          BY <1>3
        <4> QED
          BY <4>1, <4>2, <4>3, <4>4 DEF AgreeAt, Flipped
      <3>7. ASSUME NEW x \in DOMAIN server, x # r
            PROVE  AgreeAt(x)'
        <4>1. \A j \in DOMAIN flight : AheadOf(j, x) <=> AheadOf(j, x)'
          BY <1>1, <1>2, <1>3, <3>7 DEF AheadOf, Optimistic
        <4>2. \A j \in DOMAIN flight :
                AheadOf(j, x) => flight'[j].flag = flight[j].flag /\ flight'[j].on = flight[j].on
          BY <1>2, <1>3 DEF AheadOf
        <4>3. rows'[x] = rows[x] /\ server'[x] = server[x] /\ AgreeAt(x)
          BY <1>2, <3>1, <3>3, <3>7
        <4> QED
          BY <1>3, <4>1, <4>2, <4>3, AgreeAtStays
      <3>8. Agree'
        BY <1>2, <3>1, <3>3, <3>6, <3>7 DEF Agree
      <3> QED
        BY <3>8
    <2> QED
      BY <2>1, <2>2, <2>3
  <1> QED
    BY <1>14, <1>15

\* A load is served: it sees the rows of the API as they are.
LEMMA AccountedServeLoad ==
    ASSUME PageTypes, Accounted, NEW i \in 1 .. MaxFlight, ServeLoad(i)
    PROVE  Accounted'
  <1>1. /\ flight[i].op = "load" /\ UNCHANGED <<view, admin, server, rows, loadError, doubt>>
        /\ \E q \in Requests : /\ flight' = [flight EXCEPT ![i] = q] /\ q.op = "load"
                               /\ q.snap = server
    BY ServeLoadIs
  <1>2. PICK q \in Requests : flight' = [flight EXCEPT ![i] = q] /\ q.op = "load" /\ q.snap = server
    BY <1>1
  <1>3. /\ DOMAIN flight = 1 .. MaxFlight /\ DOMAIN flight' = 1 .. MaxFlight
        /\ flight'[i] = q /\ \A j \in 1 .. MaxFlight : j # i => flight'[j] = flight[j]
    BY <1>2, Replaced DEF PageTypes
  <1>4. i \in Loads /\ i \notin Written /\ Loads \subseteq 1 .. MaxFlight /\ Written \subseteq 1 .. MaxFlight
    BY <1>1, <1>3 DEF Loads, Written, InFlight, Writes
  <1>5. Loads' = Loads /\ Written' = Written
    BY <1>1, <1>2, <1>3 DEF Loads, Written, InFlight
  <1>6. \A j \in Written : flight'[j].row = flight[j].row
    BY <1>3, <1>4
  <1>7. Apart => Apart'
    BY <1>1, <1>2, <1>3, <1>4, <1>5 DEF Apart
  <1>8. OnePerRow => OnePerRow'
    BY <1>5, <1>6 DEF OnePerRow
  <1>9. UpToDate'
    BY <1>4, <1>5 DEF UpToDate
  <1> QED
    BY <1>1, <1>7, <1>8, <1>9 DEF Accounted

\* A request is turned down.
LEMMA AccountedRefused ==
    ASSUME PageTypes, Accounted, NEW i \in 1 .. MaxFlight, HasOutcome(i, "err"),
           UNCHANGED <<server, doubt>>
    PROVE  Accounted'
  <1>1. /\ flight[i].st = "sent" /\ flight[i].op \notin {"idle", "load"}
        /\ UNCHANGED <<view, admin, rows, loadError>>
    BY DEF HasOutcome
  <1>2. PICK q \in Requests :
          /\ flight' = [flight EXCEPT ![i] = q] /\ q.st = "err" /\ q.op = flight[i].op
          /\ q.row = flight[i].row /\ q.flag = flight[i].flag /\ q.on = flight[i].on
    BY DEF HasOutcome
  <1>3. /\ DOMAIN flight = 1 .. MaxFlight /\ DOMAIN flight' = 1 .. MaxFlight
        /\ flight'[i] = q /\ \A j \in 1 .. MaxFlight : j # i => flight'[j] = flight[j]
    BY <1>2, Replaced DEF PageTypes
  <1>4. Loads' = Loads /\ Written' = Written
    BY <1>2, <1>3 DEF Loads, Written, InFlight
  <1>5. /\ i \notin Loads /\ Loads \subseteq 1 .. MaxFlight /\ Written \subseteq 1 .. MaxFlight
    BY <1>1, <1>3 DEF Loads, Written, InFlight
  <1>6. \A j \in Written : flight'[j].row = flight[j].row
    BY <1>2, <1>3, <1>5
  <1>7. Apart => Apart'
    BY <1>1, <1>3, <1>4, <1>5 DEF Apart
  <1>8. OnePerRow => OnePerRow'
    BY <1>4, <1>6 DEF OnePerRow
  <1>9. /\ \A j \in DOMAIN flight : \A r : AheadOf(j, r) <=> AheadOf(j, r)'
        /\ \A j \in DOMAIN flight : \A r :
             AheadOf(j, r) => flight'[j].flag = flight[j].flag /\ flight'[j].on = flight[j].on
        /\ \A j \in DOMAIN flight : Outdated(j) => Outdated(j)'
    BY <1>1, <1>2, <1>3 DEF AheadOf, Outdated, Optimistic
  <1>10. UpToDate => UpToDate'
    BY <1>1, <1>3, <1>4, <1>9, UpToDateStays
  <1> QED
    BY <1>7, <1>8, <1>10 DEF Accounted

\* A request is applied.
LEMMA AccountedApplied ==
    ASSUME PageTypes, Accounted, NEW i \in 1 .. MaxFlight, HasOutcome(i, "ok"),
           Acceptable(flight[i]), server' \in Effects(flight[i]), doubt' = doubt
    PROVE  Accounted'
  <1>1. /\ flight[i].st = "sent" /\ flight[i].op \notin {"idle", "load"}
        /\ UNCHANGED <<view, admin, rows, loadError>>
    BY DEF HasOutcome
  <1>2. PICK q \in Requests :
          /\ flight' = [flight EXCEPT ![i] = q] /\ q.st = "ok" /\ q.op = flight[i].op
          /\ q.row = flight[i].row /\ q.flag = flight[i].flag /\ q.on = flight[i].on
    BY DEF HasOutcome
  <1>3. /\ DOMAIN flight = 1 .. MaxFlight /\ DOMAIN flight' = 1 .. MaxFlight
        /\ flight'[i] = q /\ \A j \in 1 .. MaxFlight : j # i => flight'[j] = flight[j]
    BY <1>2, Replaced DEF PageTypes
  <1>4. Loads' = Loads /\ Written' = Written
    BY <1>2, <1>3 DEF Loads, Written, InFlight
  <1>5. /\ i \notin Loads /\ Loads \subseteq 1 .. MaxFlight /\ Written \subseteq 1 .. MaxFlight
        /\ \A j \in 1 .. MaxFlight : flight[j].op \in Writes => j \in Written
    BY <1>1, <1>3 DEF Loads, Written, InFlight
  <1>6. \A j \in Written : flight'[j].row = flight[j].row
    BY <1>2, <1>3, <1>5
  <1>7. PICK m \in Requests : m = flight[i] /\ Sound(m)
    BY DEF PageTypes, PageFlight
  <1>8. /\ m.op \notin Writes => server' = server
        /\ (m.op = "toggle" /\ Optimistic) =>
             /\ m.row \in DOMAIN server /\ DOMAIN server' = DOMAIN server
             /\ server'[m.row] = IF m.on THEN server[m.row] \cup {m.flag}
                                 ELSE server[m.row] \ {m.flag}
             /\ \A r \in DOMAIN server : r # m.row => server'[r] = server[r]
    BY <1>7, EffectsAre
  <1> SUFFICES ASSUME ~doubt'
               PROVE  Apart' /\ OnePerRow' /\ UpToDate'
    BY DEF Accounted
  <1>9. Apart /\ OnePerRow /\ UpToDate
    BY DEF Accounted
  <1>10. OnePerRow'
    BY <1>4, <1>6, <1>9 DEF OnePerRow
  <1>11. \A j \in DOMAIN flight : Outdated(j) => Outdated(j)'
    BY <1>1, <1>2, <1>3 DEF Outdated, Optimistic
  <1>12. CASE m.op \notin Writes
    <2>1. server' = server
      BY <1>8, <1>12
    <2>2. Apart'
      BY <1>3, <1>4, <1>5, <1>9, <2>1 DEF Apart
    <2>3. /\ \A j \in DOMAIN flight : \A r : AheadOf(j, r) <=> AheadOf(j, r)'
          /\ \A j \in DOMAIN flight : \A r :
               AheadOf(j, r) => flight'[j].flag = flight[j].flag /\ flight'[j].on = flight[j].on
      BY <1>1, <1>2, <1>3, <1>7, <1>12 DEF AheadOf, Optimistic, Writes
    <2>4. UpToDate'
      BY <1>1, <1>3, <1>4, <1>9, <1>11, <2>1, <2>3, UpToDateStays
    <2> QED
      BY <1>10, <2>2, <2>4
  <1>13. CASE m.op \in Writes
    <2>1. i \in Written /\ Loads = {}
      BY <1>5, <1>7, <1>9, <1>13 DEF Apart
    <2>2. Apart'
      BY <1>4, <2>1 DEF Apart
    <2>3. CASE ~(m.op = "toggle" /\ Optimistic)
      <3>1. Outdated(i)'
        BY <1>1, <1>2, <1>3, <1>7, <1>13, <2>3 DEF Outdated, Optimistic
      <3> QED
        BY <1>3, <1>10, <2>2, <3>1 DEF UpToDate
    <2>4. CASE m.op = "toggle" /\ Optimistic
      <3> SUFFICES ASSUME Mounted', Loads' = {}, ~loadError'
                   PROVE  Agree' \/ \E j \in DOMAIN flight' : Outdated(j)'
        BY <1>10, <2>2 DEF UpToDate
      <3>1. Agree \/ \E j \in DOMAIN flight : Outdated(j)
        BY <1>1, <1>9, <2>1 DEF UpToDate, Mounted
      <3>2. CASE \E j \in DOMAIN flight : Outdated(j)
        BY <1>3, <1>11, <3>2
      <3>3. CASE Agree
        <4>1. PICK r : r = m.row
          OBVIOUS
        <4>2. /\ r \in DOMAIN server /\ DOMAIN server' = DOMAIN server
              /\ server'[r] = IF m.on THEN server[r] \cup {m.flag} ELSE server[r] \ {m.flag}
              /\ \A x \in DOMAIN server : x # r => server'[x] = server[x]
          BY <1>8, <2>4, <4>1
        <4>3. DOMAIN rows = DOMAIN server /\ \A x \in DOMAIN server : AgreeAt(x)
          BY <3>3 DEF Agree
        <4>4. \A j \in DOMAIN flight : AheadOf(j, r) => j = i
          <5>1. \A j \in DOMAIN flight : AheadOf(j, r) => j \in Written /\ flight[j].row = flight[i].row
            BY <1>3, <1>5, <1>7, <4>1 DEF AheadOf, Writes
          <5> QED
            BY <1>9, <2>1, <5>1 DEF OnePerRow
        <4>5. AheadOf(i, r)
          BY <1>1, <1>7, <2>4, <4>1 DEF AheadOf
        <4>6. rows[r] = Flipped(server[r], m.flag) /\ m.on = (m.flag \notin server[r])
          BY <1>3, <1>7, <4>2, <4>3, <4>4, <4>5 DEF AgreeAt
        <4>7. rows'[r] = server'[r]
          BY <1>1, <4>2, <4>6 DEF Flipped
        <4>8. \A j \in DOMAIN flight : ~AheadOf(j, r)'
          <5>1. ~AheadOf(i, r)'
            BY <1>2, <1>3 DEF AheadOf
          <5>2. \A j \in DOMAIN flight : j # i => (AheadOf(j, r)' => AheadOf(j, r))
            BY <1>1, <1>3 DEF AheadOf, Optimistic
          <5> QED
            BY <4>4, <5>1, <5>2
        <4>9. AgreeAt(r)'
          BY <1>3, <4>7, <4>8 DEF AgreeAt
        <4>10. ASSUME NEW x \in DOMAIN server, x # r
               PROVE  AgreeAt(x)'
          <5>1. \A j \in DOMAIN flight : AheadOf(j, x) <=> AheadOf(j, x)'
            BY <1>1, <1>2, <1>3, <1>7, <4>1, <4>10 DEF AheadOf, Optimistic
          <5>2. \A j \in DOMAIN flight :
                  AheadOf(j, x) => flight'[j].flag = flight[j].flag /\ flight'[j].on = flight[j].on
            BY <1>2, <1>3
          <5>3. rows'[x] = rows[x] /\ server'[x] = server[x] /\ AgreeAt(x)
            BY <1>1, <4>2, <4>3, <4>10
          <5> QED
            BY <1>3, <5>1, <5>2, <5>3, AgreeAtStays
        <4>11. Agree'
          BY <1>1, <4>2, <4>3, <4>9, <4>10 DEF Agree
        <4> QED
          BY <4>11
      <3> QED
        BY <3>1, <3>2, <3>3
    <2> QED
      BY <2>3, <2>4
  <1> QED
    BY <1>12, <1>13

\* An answer is handled that leaves the rows as they are.
LEMMA AccountedSettle ==
    ASSUME PageTypes, Accounted, NEW i, NEW q, Settles(i, q), UNCHANGED <<rows, loadError>>,
           flight[i].op # "load", \A r : ~AheadOf(i, r), Outdated(i) => q.op = "load"
    PROVE  Accounted'
  <1>1. /\ i \in 1 .. MaxFlight /\ q \in Requests /\ q.op \in {"idle", "load"}
        /\ q.op = "load" => q.st = "sent"
        /\ flight' = [flight EXCEPT ![i] = q] /\ UNCHANGED <<view, admin, server>>
    BY DEF Settles, Settle
  <1>2. /\ DOMAIN flight = 1 .. MaxFlight /\ DOMAIN flight' = 1 .. MaxFlight
        /\ flight'[i] = q /\ \A j \in 1 .. MaxFlight : j # i => flight'[j] = flight[j]
    BY <1>1, Replaced DEF PageTypes
  <1>3. /\ q.op = "load" => Loads' = Loads \cup {i} /\ Written' = Written \ {i}
        /\ q.op \notin Writes \cup {"load"} => Loads' = Loads \ {i} /\ Written' = Written \ {i}
        /\ InFlight(Writes \cup {"load"}) = Written \cup Loads
    BY <1>1, LoadsAndWrites DEF PageTypes
  <1>4. i \notin Loads /\ Loads \subseteq 1 .. MaxFlight /\ Written \subseteq 1 .. MaxFlight
    BY <1>2 DEF Loads, Written, InFlight
  <1> SUFFICES ASSUME ~doubt'
               PROVE  Apart' /\ OnePerRow' /\ UpToDate'
    BY DEF Accounted
  <1>5. doubt' = IF q.op = "load" /\ Written \cup Loads \subseteq {i}
                 THEN FALSE ELSE doubt \/ (q.op = "load" /\ Written \ {i} # {})
    BY <1>3 DEF Settles, Settle, Written
  <1>6. CASE q.op = "load"
    <2>1. Written \ {i} = {} /\ (Loads # {} => ~doubt)
      BY <1>4, <1>5, <1>6
    <2>2. Loads' = Loads \cup {i} /\ Written' = {}
      BY <1>3, <1>6, <2>1
    <2>3. ASSUME NEW j \in Loads', flight'[j].st # "sent"
          PROVE  flight'[j].snap = server'
      <3>1. j # i /\ j \in Loads /\ flight'[j] = flight[j]
        BY <1>1, <1>2, <1>4, <1>6, <2>2, <2>3
      <3>2. Apart
        BY <2>1, <3>1 DEF Accounted
      <3> QED
        BY <1>1, <2>3, <3>1, <3>2 DEF Apart
    <2>4. Apart'
      BY <2>2, <2>3 DEF Apart
    <2>5. OnePerRow' /\ UpToDate'
      BY <2>2 DEF OnePerRow, UpToDate
    <2> QED
      BY <2>4, <2>5
  <1>7. CASE q.op = "idle"
    <2>1. "idle" \notin Writes \cup {"load"}
      BY DEF Writes
    <2>2. ~doubt /\ Loads' = Loads /\ Written' = Written \ {i}
      BY <1>3, <1>4, <1>5, <1>7, <2>1
    <2>3. Apart /\ OnePerRow /\ UpToDate
      BY <2>2 DEF Accounted
    <2>4. Apart'
      BY <1>1, <1>2, <1>4, <2>2, <2>3 DEF Apart
    <2>5. \A j \in Written' : j \in Written /\ flight'[j] = flight[j]
      BY <1>2, <1>4, <2>2
    <2>6. OnePerRow'
      BY <2>3, <2>5 DEF OnePerRow
    <2>7. ~Outdated(i)
      BY <1>7
    <2>8. \A j \in DOMAIN flight : Outdated(j) => Outdated(j)'
      BY <1>1, <1>2, <2>7 DEF Outdated, Optimistic
    <2>9. \A r : ~AheadOf(i, r)'
      BY <1>2, <1>7 DEF AheadOf
    <2>10. \A j \in DOMAIN flight : \A r : AheadOf(j, r) <=> AheadOf(j, r)'
      <3>1. \A j \in DOMAIN flight : j # i => \A r : AheadOf(j, r) <=> AheadOf(j, r)'
        BY <1>1, <1>2 DEF AheadOf, Optimistic
      <3> QED
        BY <2>9, <3>1
    <2>11. \A j \in DOMAIN flight : \A r :
             AheadOf(j, r) => flight'[j].flag = flight[j].flag /\ flight'[j].on = flight[j].on
      BY <1>2
    <2>12. UpToDate'
      BY <1>1, <1>2, <2>2, <2>3, <2>8, <2>10, <2>11, UpToDateStays
    <2> QED
      BY <2>4, <2>6, <2>12
  <1> QED
    BY <1>1, <1>6, <1>7

\* The rows of a load are shown: no write was under way.
LEMMA AccountedAnswerLoad ==
    ASSUME PageTypes, Accounted, NEW i \in 1 .. MaxFlight, AnswerLoad(i)
    PROVE  Accounted'
  <1>1. /\ flight[i].op = "load" /\ loadError' \in BOOLEAN
        /\ (loadError' = FALSE => rows' = flight[i].snap)
    BY AnswerLoadIs
  <1>2. PICK q \in Requests : Settles(i, q) /\ q.op = "idle"
    BY AnswerLoadIs
  <1>3. /\ flight[i].st # "sent" /\ flight' = [flight EXCEPT ![i] = q]
        /\ UNCHANGED <<view, admin, server>> /\ (doubt => doubt')
    BY <1>2 DEF Settles, Settle
  <1>4. /\ DOMAIN flight = 1 .. MaxFlight /\ DOMAIN flight' = 1 .. MaxFlight
        /\ flight'[i] = q /\ \A j \in 1 .. MaxFlight : j # i => flight'[j] = flight[j]
    BY <1>3, Replaced DEF PageTypes
  <1>5. Loads' = Loads \ {i} /\ Written' = Written \ {i}
    BY <1>2, <1>3, LoadsAndWrites DEF PageTypes, Writes
  <1>6. i \in Loads /\ Loads \subseteq 1 .. MaxFlight /\ Written \subseteq 1 .. MaxFlight
    BY <1>1, <1>4 DEF Loads, Written, InFlight
  <1> SUFFICES ASSUME ~doubt'
               PROVE  Apart' /\ OnePerRow' /\ UpToDate'
    BY DEF Accounted
  <1>7. Apart
    BY <1>3 DEF Accounted
  <1>8. Written = {} /\ flight[i].snap = server
    BY <1>3, <1>6, <1>7 DEF Apart
  <1>9. Apart'
    BY <1>3, <1>4, <1>5, <1>6, <1>7, <1>8 DEF Apart
  <1>10. OnePerRow'
    BY <1>5, <1>8 DEF OnePerRow
  <1>11. \A j \in DOMAIN flight' : \A r : ~AheadOf(j, r)'
    <2>1. \A j \in 1 .. MaxFlight : flight[j].op # "toggle"
      BY <1>4, <1>8 DEF Written, InFlight, Writes
    <2> QED
      BY <1>2, <1>4, <2>1 DEF AheadOf
  <1>12. ~loadError' => Agree'
    <2>1. ~loadError' => rows' = server'
      BY <1>1, <1>3, <1>8
    <2> QED
      BY <1>11, <2>1 DEF Agree, AgreeAt
  <1>13. UpToDate'
    BY <1>12 DEF UpToDate
  <1> QED
    BY <1>9, <1>10, <1>13

\* A flip is confirmed, or rolled back.
LEMMA AccountedAnswerToggle ==
    ASSUME PageTypes, Accounted, NEW i \in 1 .. MaxFlight, AnswerToggle(i)
    PROVE  Accounted'
  <1>1. /\ flight[i].op = "toggle" /\ flight[i].st # "sent" /\ loadError' = loadError
        /\ rows' = IF flight[i].st = "ok" \/ ~Optimistic THEN rows ELSE RolledBack(flight[i])
    BY AnswerToggleIs
  <1>2. PICK q \in Requests :
          /\ Settles(i, q)
          /\ IF flight[i].st = "ok" /\ ~Optimistic THEN q.op = "load" ELSE q.op = "idle"
    BY AnswerToggleIs
  <1>3. CASE flight[i].st = "ok" \/ ~Optimistic
    <2>1. \A r : ~AheadOf(i, r)
      BY <1>3 DEF AheadOf
    <2>2. Outdated(i) => q.op = "load"
      BY <1>1, <1>2 DEF Outdated
    <2> QED
      BY <1>1, <1>2, <1>3, <2>1, <2>2, AccountedSettle
  <1>4. CASE flight[i].st # "ok" /\ Optimistic
    <2>1. /\ flight' = [flight EXCEPT ![i] = q] /\ UNCHANGED <<view, admin, server>>
          /\ (doubt => doubt') /\ q.op = "idle"
      BY <1>2, <1>4 DEF Settles, Settle
    <2>2. /\ DOMAIN flight = 1 .. MaxFlight /\ DOMAIN flight' = 1 .. MaxFlight
          /\ flight'[i] = q /\ \A j \in 1 .. MaxFlight : j # i => flight'[j] = flight[j]
      BY <2>1, Replaced DEF PageTypes
    <2>3. Loads' = Loads \ {i} /\ Written' = Written \ {i}
      BY <2>1, LoadsAndWrites DEF PageTypes, Writes
    <2>4. /\ i \notin Loads /\ i \in Written
          /\ Loads \subseteq 1 .. MaxFlight /\ Written \subseteq 1 .. MaxFlight
          /\ \A j \in 1 .. MaxFlight : flight[j].op = "toggle" => j \in Written
      BY <1>1, <2>2 DEF Loads, Written, InFlight, Writes
    <2> SUFFICES ASSUME ~doubt'
                 PROVE  Apart' /\ OnePerRow' /\ UpToDate'
      BY DEF Accounted
    <2>5. Apart /\ OnePerRow /\ UpToDate
      BY <2>1 DEF Accounted
    <2>6. Loads = {} /\ Loads' = {}
      BY <2>3, <2>4, <2>5 DEF Apart
    <2>7. Apart'
      BY <2>6 DEF Apart
    <2>8. \A j \in Written' : j \in Written /\ flight'[j] = flight[j]
      BY <2>2, <2>3, <2>4
    <2>9. OnePerRow'
      BY <2>5, <2>8 DEF OnePerRow
    <2> SUFFICES ASSUME Mounted', ~loadError'
                 PROVE  Agree' \/ \E j \in DOMAIN flight' : Outdated(j)'
      BY <2>7, <2>9 DEF UpToDate
    <2>10. Agree \/ \E j \in DOMAIN flight : Outdated(j)
      BY <1>1, <2>1, <2>5, <2>6 DEF UpToDate, Mounted
    <2>11. CASE \E j \in DOMAIN flight : Outdated(j)
      BY <1>4, <2>1, <2>2, <2>11 DEF Outdated, Optimistic
    <2>12. CASE Agree
      <3>1. DOMAIN rows = DOMAIN server /\ \A x \in DOMAIN server : AgreeAt(x)
        BY <2>12 DEF Agree
      <3>2. PICK r : r = flight[i].row
        OBVIOUS
      <3>3. PICK f : f = flight[i].flag
        OBVIOUS
      <3>4. rows' = [x \in DOMAIN rows |-> IF x # r THEN rows[x]
                                           ELSE IF flight[i].on THEN rows[x] \ {f} ELSE rows[x] \cup {f}]
        BY <1>1, <1>4, <3>2, <3>3 DEF RolledBack
      <3>5. \A j \in DOMAIN flight : AheadOf(j, r) => j = i
        <4>1. \A j \in DOMAIN flight : AheadOf(j, r) => j \in Written /\ flight[j].row = flight[i].row
          BY <2>2, <2>4, <3>2 DEF AheadOf
        <4> QED
          BY <2>4, <2>5, <4>1 DEF OnePerRow
      <3>6. AheadOf(i, r)
        BY <1>1, <1>4, <3>2 DEF AheadOf
      <3>7. ~AheadOf(i, r)' /\ \A x : ~AheadOf(i, x)'
        BY <2>1, <2>2 DEF AheadOf
      <3>8. \A j \in DOMAIN flight : j # i => \A x : AheadOf(j, x) <=> AheadOf(j, x)'
        BY <2>1, <2>2 DEF AheadOf, Optimistic
      <3>9. ASSUME r \in DOMAIN server
            PROVE  AgreeAt(r)'
        <4>1. rows[r] = Flipped(server[r], f) /\ flight[i].on = (f \notin server[r])
          BY <2>2, <3>1, <3>3, <3>5, <3>6, <3>9 DEF AgreeAt
        <4>2. rows'[r] = IF flight[i].on THEN rows[r] \ {f} ELSE rows[r] \cup {f}
          BY <3>1, <3>4, <3>9
        <4>3. rows'[r] = server[r]
          BY <4>1, <4>2 DEF Flipped
        <4>4. \A j \in DOMAIN flight' : ~AheadOf(j, r)'
          BY <2>2, <3>5, <3>7, <3>8
        <4> QED
          BY <2>1, <4>3, <4>4 DEF AgreeAt
      <3>10. ASSUME NEW x \in DOMAIN server, x # r
             PROVE  AgreeAt(x)'
        <4>1. ~AheadOf(i, x)
          BY <3>2, <3>10 DEF AheadOf
        <4>2. \A j \in DOMAIN flight : AheadOf(j, x) <=> AheadOf(j, x)'
          BY <3>7, <3>8, <4>1
        <4>3. \A j \in DOMAIN flight :
                AheadOf(j, x) => flight'[j].flag = flight[j].flag /\ flight'[j].on = flight[j].on
          BY <2>2, <4>1
        <4>4. rows'[x] = rows[x] /\ server'[x] = server[x] /\ AgreeAt(x)
          BY <2>1, <3>1, <3>4, <3>10
        <4> QED
          BY <2>2, <4>2, <4>3, <4>4, AgreeAtStays
      <3>11. DOMAIN rows' = DOMAIN server'
        BY <2>1, <3>1, <3>4
      <3>12. Agree'
        BY <2>1, <3>9, <3>10, <3>11 DEF Agree
      <3> QED
        BY <3>12
    <2> QED
      BY <2>10, <2>11, <2>12
  <1> QED
    BY <1>3, <1>4

-----------------------------------------------------------------------------
(* What a step leaves alone.                                               *)

LEMMA ListsKept ==
    ASSUME PageLists, UNCHANGED <<view, server, rows>>
    PROVE  PageLists'
  BY DEF PageLists, RowSet

LEMMA ListsAre ==
    ASSUME view' = view, server' \in Lists, rows' \in Lists, RowSet(server'), RowSet(rows')
    PROVE  PageLists'
  BY DEF PageLists, RowSet

LEMMA FormsKept ==
    ASSUME PageForms, UNCHANGED <<view, forms>>
    PROVE  PageForms'
  BY DEF PageForms

LEMMA WaitsKept ==
    ASSUME PageWaits, view' = view, pending' \subseteq pending
    PROVE  PageWaits'
  BY DEF PageWaits

LEMMA FlightKept ==
    ASSUME PageFlight, UNCHANGED <<view, flight>>
    PROVE  PageFlight'
  <1>1. ASSUME NEW j \in 1 .. MaxFlight
        PROVE  Sound(flight[j])'
    BY DEF PageFlight, Sound, RowSet
  <1> QED
    BY <1>1 DEF PageFlight

LEMMA OpenKept ==
    ASSUME PageOpen, UNCHANGED <<view, dialog, blocked>>, job' = "backup" => job = "backup"
    PROVE  PageOpen'
  BY DEF PageOpen

LEMMA PledgedKept ==
    ASSUME flight' = flight
    PROVE  Pledged' = Pledged
  BY DEF Pledged, InFlight

LEMMA PledgedAfter ==
    ASSUME PageFlight, NEW i \in 1 .. MaxFlight, NEW q \in Requests,
           flight' = [flight EXCEPT ![i] = q]
    PROVE  /\ Pledged \in Nat /\ Pledged' \in Nat
           /\ Pledged' <= Pledged + 1
           /\ q.op \notin {"renew", "create"} => Pledged' <= Pledged
           /\ flight[i].op \in {"renew", "create"} => Pledged' <= Pledged
           /\ (q.op \notin {"renew", "create"} /\ flight[i].op \in {"renew", "create"})
                => Pledged' + 1 = Pledged
  <1>1. PICK S : S = {"renew", "create"}
    OBVIOUS
  <1>2. PICK T : T = InFlight(S)
    OBVIOUS
  <1>3. PICK U : U = InFlight(S)'
    OBVIOUS
  <1>4. IsFiniteSet(T) /\ Pledged = Cardinality(T) /\ Cardinality(T) \in Nat
    BY <1>1, <1>2, FlightFinite DEF Pledged
  <1>5. Pledged' = Cardinality(U)
    BY <1>1, <1>3 DEF Pledged, InFlight
  <1>6. /\ q.op \in S => U = T \cup {i}
        /\ q.op \notin S => U = T \ {i}
    BY <1>2, <1>3, InFlightReplaced
  <1>7. flight[i].op \in S <=> i \in T
    BY <1>2 DEF InFlight, PageFlight
  <1>8. /\ Cardinality(T \cup {i}) = IF i \in T THEN Cardinality(T) ELSE Cardinality(T) + 1
        /\ Cardinality(T \ {i}) = IF i \in T THEN Cardinality(T) - 1 ELSE Cardinality(T)
        /\ Cardinality(T \cup {i}) \in Nat /\ Cardinality(T \ {i}) \in Nat
    BY <1>4, FS_AddElement, FS_RemoveElement, FS_CardinalityType
  <1>9. PICK n \in Nat : n = Cardinality(T) /\ n = Pledged
    BY <1>4
  <1>10. /\ Pledged' \in Nat
         /\ q.op \in S => Pledged' = IF i \in T THEN n ELSE n + 1
         /\ q.op \notin S => Pledged' = IF i \in T THEN n - 1 ELSE n
    BY <1>5, <1>6, <1>8, <1>9
  <1>11. PICK m \in Nat : m = Pledged'
    BY <1>10
  <1>12. CASE q.op \in S
    <2>1. m = IF i \in T THEN n ELSE n + 1
      BY <1>10, <1>11, <1>12
    <2>2. m <= n + 1 /\ (i \in T => m <= n)
      BY <2>1
    <2> QED
      BY <1>1, <1>7, <1>9, <1>11, <1>12, <2>2
  <1>13. CASE q.op \notin S
    <2>1. m = IF i \in T THEN n - 1 ELSE n
      BY <1>10, <1>11, <1>13
    <2>2. m <= n + 1 /\ m <= n /\ (i \in T => m + 1 = n)
      BY <2>1
    <2> QED
      BY <1>1, <1>7, <1>9, <1>11, <1>13, <2>2
  <1> QED
    BY <1>12, <1>13

\* A control that does not wait for request i waits as before.
LEMMA WaitsAfter ==
    ASSUME PageTypes, WaitsForItsOwn, NEW i \in 1 .. MaxFlight, NEW q \in Requests,
           flight' = [flight EXCEPT ![i] = q], view' = view
    PROVE  /\ \A p \in pending : p.req # i => Awaited(p)'
           /\ \A s \in Slots : forms[s].wait \notin {0, i} => flight'[forms[s].wait].slot = s
           /\ (renewing # NoRow /\ flight[i].op # "renew") =>
                \E j \in DOMAIN flight' : flight'[j].op = "renew" /\ flight'[j].row = renewing
  <1>1. /\ DOMAIN flight = 1 .. MaxFlight /\ DOMAIN flight' = 1 .. MaxFlight
        /\ \A j \in 1 .. MaxFlight : j # i => flight'[j] = flight[j]
    BY Replaced DEF PageTypes
  <1>2. ASSUME NEW p \in pending, p.req # i
        PROVE  Awaited(p)'
    <2>1. p.req \in 1 .. MaxFlight
      BY DEF PageTypes, PageWaits
    <2>2. flight'[p.req] = flight[p.req]
      BY <1>1, <1>2, <2>1
    <2> QED
      BY <2>2 DEF WaitsForItsOwn, Awaited, Optimistic
  <1>3. ASSUME NEW s \in Slots, forms[s].wait \notin {0, i}
        PROVE  flight'[forms[s].wait].slot = s
    <2>1. forms[s].wait \in 1 .. MaxFlight
      BY <1>3, ListPagesAssumption DEF PageTypes, PageForms, FormStates
    <2> QED
      BY <1>1, <1>3, <2>1 DEF WaitsForItsOwn, Saving
  <1>4. ASSUME renewing # NoRow, flight[i].op # "renew"
        PROVE  \E j \in DOMAIN flight' : flight'[j].op = "renew" /\ flight'[j].row = renewing
    <2>1. PICK j \in DOMAIN flight : flight[j].op = "renew" /\ flight[j].row = renewing
      BY <1>4 DEF WaitsForItsOwn
    <2> QED
      BY <1>1, <1>4, <2>1
  <1> QED
    BY <1>2, <1>3, <1>4

\* Nobody waits for an empty slot of the connection pool.
LEMMA WaitsSend ==
    ASSUME PageTypes, WaitsForItsOwn, NEW i, NEW q, Sends(i, q)
    PROVE  /\ \A p \in pending : Awaited(p)'
           /\ \A s \in Slots : forms[s].wait # 0 => flight'[forms[s].wait].slot = s
           /\ renewing # NoRow =>
                \E j \in DOMAIN flight' : flight'[j].op = "renew" /\ flight'[j].row = renewing
  <1>1. /\ i \in 1 .. MaxFlight /\ flight[i].op = "idle" /\ q \in Requests
        /\ flight' = [flight EXCEPT ![i] = q] /\ view' = view
    BY DEF Sends, Send
  <1>2. \A p \in pending : p.req # i
    BY <1>1 DEF WaitsForItsOwn
  <1>3. \A s \in Slots : forms[s].wait # 0 => forms[s].wait # i
    <2>1. flight[i].slot = "none" /\ "none" \notin Slots
      BY <1>1 DEF PageTypes, PageFlight, Sound, Slots
    <2> QED
      BY <2>1 DEF WaitsForItsOwn, Saving
  <1> QED
    BY <1>1, <1>2, <1>3, WaitsAfter

LEMMA OwnFrom ==
    ASSUME \A p \in pending' : Awaited(p)',
           \A s \in Slots : forms'[s].wait # 0 => flight'[forms'[s].wait].slot = s,
           renewing' # NoRow =>
             \E j \in DOMAIN flight' : flight'[j].op = "renew" /\ flight'[j].row = renewing'
    PROVE  WaitsForItsOwn'
  BY DEF WaitsForItsOwn, Awaited, Saving

LEMMA OwnKept ==
    ASSUME WaitsForItsOwn, UNCHANGED <<view, flight, forms, renewing>>, pending' \subseteq pending
    PROVE  WaitsForItsOwn'
  BY DEF WaitsForItsOwn, Saving, Optimistic

LEMMA ShowsKept ==
    ASSUME FormShowsItsRow, UNCHANGED <<dialog, forms>>
    PROVE  FormShowsItsRow'
  BY DEF FormShowsItsRow

LEMMA DoubtIs ==
    ASSUME PageTypes, NEW i, NEW q, Sends(i, q) \/ Settles(i, q)
    PROVE  doubt' \in BOOLEAN
  <1>1. doubt \in BOOLEAN
    BY DEF PageTypes, PageFlags
  <1>2. ASSUME Send(i, q)
        PROVE  doubt' \in BOOLEAN
    BY <1>1, <1>2, Zenon DEF Send
  <1>3. ASSUME Settle(i, q)
        PROVE  doubt' \in BOOLEAN
    BY <1>1, <1>3, Zenon DEF Settle
  <1> QED
    BY <1>2, <1>3 DEF Sends, Settles

-----------------------------------------------------------------------------
(* The operator looks around: nothing is sent.                             *)

LEMMA SeededIs ==
    ASSUME PageTypes, NEW r \in Ids
    PROVE  /\ Seeded(r) \in FormStates /\ Seeded(r).vals \subseteq FormFlags(view)
           /\ Seeded(r).key = r /\ Seeded(r).wait = 0
  <1>1. PICK V : V = FormFlags(view) \cap IF r \in DOMAIN rows THEN rows[r]
                                          ELSE FormFlags(view) \ {"maintenance"}
    OBVIOUS
  <1>2. V \subseteq FormFlags(view) /\ V \in SUBSET FlagNames
    BY <1>1, ViewIsKnown, FlagsAre DEF PageTypes
  <1>3. PICK b \in BOOLEAN : b = FALSE
    BY Zenon
  <1>4. Seeded(r) = [key |-> r, vals |-> V, dirty |-> b, wait |-> 0]
    BY <1>1, <1>3 DEF Seeded
  <1>5. 0 \in 0 .. MaxFlight
    BY ListPagesAssumption
  <1> QED
    BY <1>2, <1>4, <1>5 DEF FormStates

LEMMA BlankIs == Blank \in FormStates /\ Blank.vals = {} /\ Blank.wait = 0
  <1>1. PICK b \in BOOLEAN : b = FALSE
    BY Zenon
  <1>2. Blank = [key |-> NoRow, vals |-> {}, dirty |-> b, wait |-> 0]
    BY <1>1 DEF Blank
  <1>3. 0 \in 0 .. MaxFlight /\ NoRow \in Ids
    BY ListPagesAssumption DEF Ids
  <1> QED
    BY <1>2, <1>3 DEF FormStates

\* One form is replaced.
LEMMA FormReplaced ==
    ASSUME PageForms, view' = view, NEW s \in Slots, NEW f \in FormStates,
           f.vals \subseteq FormFlags(view), forms' = [forms EXCEPT ![s] = f]
    PROVE  /\ PageForms' /\ forms'[s] = f
           /\ \A t \in Slots : t # s => forms'[t] = forms[t]
  BY DEF PageForms

\* A form that waits for nothing takes the place of another: all others wait
\* as before.
LEMMA OwnReplaced ==
    ASSUME PageForms, WaitsForItsOwn, UNCHANGED <<view, flight, renewing>>, pending' \subseteq pending,
           NEW s \in Slots, NEW f, f.wait = 0 \/ f.wait = forms[s].wait,
           forms' = [forms EXCEPT ![s] = f]
    PROVE  WaitsForItsOwn'
  <1>1. \A t \in Slots : forms'[t].wait = 0 \/ forms'[t].wait = forms[t].wait
    BY DEF PageForms
  <1>2. \A p \in pending' : Awaited(p)'
    BY DEF WaitsForItsOwn, Awaited, Optimistic
  <1>3. \A t \in Slots : forms'[t].wait # 0 => flight'[forms'[t].wait].slot = t
    BY <1>1 DEF WaitsForItsOwn, Saving
  <1>4. renewing' # NoRow =>
          \E j \in DOMAIN flight' : flight'[j].op = "renew" /\ flight'[j].row = renewing'
    BY DEF WaitsForItsOwn
  <1> QED
    BY <1>2, <1>3, <1>4, OwnFrom

LEMMA ClosedIs ==
    ASSUME PageForms, NEW s \in Slots
    PROVE  Closed(s) = forms \/ Closed(s) = [forms EXCEPT ![s] = Blank]
  BY DEF Closed

LEMMA OpenKeeps ==
    ASSUME PagesInv, NEW r \in Rows \cup {NoRow}, NEW c \in DOMAIN SlotOf, Open(c, r)
    PROVE  PagesInv'
  <1>1. PICK s : s = SlotOf[c]
    OBVIOUS
  <1>2. /\ dialog' = [slot |-> s, row |-> r] /\ r \in Ids
        /\ UNCHANGED <<view, admin, mobile, hidden, server, job, rows, loading, loadError, extras,
                       blocked, flight, pending, renewing, tracked, clicks, faults, doubt>>
    BY <1>1 DEF Open, page, backend, shown, waits, Ids
  <1>3. \/ forms' = forms /\ (s = "form" => forms[s].key = r)
        \/ forms' = [forms EXCEPT ![s] = Seeded(r)]
    <2>1. view \in ViewNames
      BY ViewIsKnown DEF PagesInv, PageTypes
    <2> QED
      BY <1>1, <2>1, FormIsKeyed DEF Open
  <1>4. /\ s \in Slots
        /\ s = "form" => c \in {"new", "edit"}
        /\ s = "invite" => c = "invite"
        /\ s \in {"confirm", "totp"} => c \in {"delete", "totp"}
    BY <1>1, SlotsAre
  <1>5. IF r = NoRow THEN c \in Header ELSE c \in RowControls(r)
    BY DEF Open, Offered, OfferedInHeader
  <1>6. /\ PageTypes /\ PageScreen /\ PageFlags /\ PageLists /\ PageForms /\ PageWaits /\ PageFlight
        /\ PageOpen /\ Tracking
    BY DEF PagesInv, PageTypes
  <1>7. KeepsToItsOwn /\ WaitsForItsOwn /\ Accounted
    BY DEF PagesInv, KeepsToItsOwn
  <1>8. PageScreen'
    BY <1>2, <1>4, <1>6 DEF PageScreen
  <1>9. PageFlags'
    BY <1>2, <1>6 DEF PageFlags
  <1>10. PageLists' /\ PageWaits' /\ PageFlight'
    BY <1>2, <1>6, ListsKept, WaitsKept, FlightKept
  <1>11. PageForms'
    BY <1>2, <1>3, <1>4, <1>6, FormsKept, FormReplaced, SeededIs
  <1>12. PageOpen'
    <2>1. view \in ViewNames
      BY <1>6, ViewIsKnown
    <2>2. CASE r = NoRow
      <3>1. c \in Header
        BY <1>5, <2>2
      <3>2. /\ c \notin {"delete", "totp", "edit"} /\ (c = "new" => view # "backups")
            /\ (c = "invite" => view = "users")
        BY <2>1, <3>1, HeaderOffers
      <3> QED
        BY <1>2, <1>4, <1>6, <2>2, <3>2 DEF PageOpen, Slots
    <2>3. CASE r \in Rows
      <3>1. r # NoRow
        BY <2>3, ListPagesAssumption
      <3>2. c \in RowControls(r)
        BY <1>5, <3>1
      <3>3. c \notin {"new", "invite"} /\ (c = "edit" => view # "backups")
        BY <2>1, <3>2, RowOffers
      <3> QED
        BY <1>2, <1>4, <1>6, <2>3, <3>3 DEF PageOpen, Slots
    <2> QED
      BY <2>2, <2>3
  <1>13. Tracking'
    BY <1>2, <1>6, PledgedKept DEF Tracking
  <1>14. WaitsForItsOwn'
    BY <1>2, <1>3, <1>4, <1>6, <1>7, OwnKept, OwnReplaced, SeededIs
  <1>15. FormShowsItsRow'
    <2>1. s = "form" => forms'[s].key = r
      BY <1>2, <1>3, <1>4, <1>6, SeededIs DEF PageForms
    <2> QED
      BY <1>2, <2>1 DEF FormShowsItsRow
  <1>16. Accounted'
    BY <1>2, <1>7, AccountedLooks DEF Looks
  <1> QED
    BY <1>8, <1>9, <1>10, <1>11, <1>12, <1>13, <1>14, <1>15, <1>16
       DEF PagesInv, PageTypes, KeepsToItsOwn

LEMMA DismissKeeps ==
    ASSUME PagesInv, Dismiss
    PROVE  PagesInv'
  <1>1. PICK s : s = dialog.slot
    OBVIOUS
  <1>2. /\ dialog # NoDialog /\ dialog' = NoDialog /\ forms' = Closed(s)
        /\ UNCHANGED <<view, admin, mobile, hidden, server, job, rows, loading, loadError, extras,
                       blocked, flight, pending, renewing, tracked, clicks, faults, doubt>>
    BY <1>1 DEF Dismiss, page, backend, shown, waits
  <1>3. /\ PageTypes /\ PageScreen /\ PageFlags /\ PageLists /\ PageForms /\ PageWaits /\ PageFlight
        /\ PageOpen /\ Tracking
    BY DEF PagesInv, PageTypes
  <1>4. KeepsToItsOwn /\ WaitsForItsOwn /\ Accounted
    BY DEF PagesInv, KeepsToItsOwn
  <1>5. s \in Slots
    BY <1>1, <1>2, <1>3 DEF NoDialog, PageScreen, PageOpen
  <1>6. forms' = forms \/ forms' = [forms EXCEPT ![s] = Blank]
    BY <1>2, <1>3, <1>5, ClosedIs
  <1>7. PageScreen'
    BY <1>2, <1>3 DEF PageScreen, NoDialog, Ids
  <1>8. PageFlags'
    BY <1>2, <1>3 DEF PageFlags
  <1>9. PageLists' /\ PageWaits' /\ PageFlight'
    BY <1>2, <1>3, ListsKept, WaitsKept, FlightKept
  <1>10. PageForms'
    BY <1>2, <1>3, <1>5, <1>6, FormsKept, FormReplaced, BlankIs
  <1>11. PageOpen'
    BY <1>2, <1>3 DEF PageOpen, NoDialog
  <1>12. Tracking'
    BY <1>2, <1>3, PledgedKept DEF Tracking
  <1>13. WaitsForItsOwn'
    BY <1>2, <1>3, <1>4, <1>5, <1>6, OwnKept, OwnReplaced, BlankIs
  <1>14. FormShowsItsRow'
    BY <1>2 DEF FormShowsItsRow, NoDialog
  <1>15. Accounted'
    BY <1>2, <1>4, AccountedLooks DEF Looks
  <1> QED
    BY <1>7, <1>8, <1>9, <1>10, <1>11, <1>12, <1>13, <1>14, <1>15
       DEF PagesInv, PageTypes, KeepsToItsOwn

LEMMA SearchKeeps ==
    ASSUME PagesInv, NEW H \in Searches, Search(H)
    PROVE  PagesInv'
  <1>1. /\ hidden' = H /\ pending' \subseteq pending
        /\ UNCHANGED <<view, admin, mobile, server, job, rows, loading, loadError, extras, blocked,
                       dialog, forms, flight, renewing, tracked, clicks, faults, doubt>>
    BY DEF Search, StillMounted, backend, shown, over
  <1>2. /\ PageTypes /\ PageScreen /\ PageFlags /\ PageLists /\ PageForms /\ PageWaits /\ PageFlight
        /\ PageOpen /\ Tracking
    BY DEF PagesInv, PageTypes
  <1>3. WaitsForItsOwn /\ FormShowsItsRow /\ Accounted
    BY DEF PagesInv, KeepsToItsOwn
  <1>4. PageScreen'
    BY <1>1, <1>2, ListPagesAssumption DEF PageScreen
  <1>5. PageFlags'
    BY <1>1, <1>2 DEF PageFlags
  <1>6. PageLists' /\ PageForms' /\ PageWaits' /\ PageFlight' /\ PageOpen'
    BY <1>1, <1>2, ListsKept, FormsKept, WaitsKept, FlightKept, OpenKept
  <1>7. Tracking'
    BY <1>1, <1>2, PledgedKept DEF Tracking
  <1>8. WaitsForItsOwn' /\ FormShowsItsRow'
    BY <1>1, <1>3, OwnKept, ShowsKept
  <1>9. Accounted'
    BY <1>1, <1>3, AccountedLooks DEF Looks
  <1> QED
    BY <1>4, <1>5, <1>6, <1>7, <1>8, <1>9 DEF PagesInv, PageTypes, KeepsToItsOwn

LEMMA ResizeKeeps ==
    ASSUME PagesInv, Resize
    PROVE  PagesInv'
  <1>1. /\ mobile' = ~mobile /\ pending' = {}
        /\ UNCHANGED <<view, admin, hidden, server, job, rows, loading, loadError, extras, blocked,
                       dialog, forms, flight, renewing, tracked, clicks, faults, doubt>>
    BY DEF Resize, backend, shown, over
  <1>2. /\ PageTypes /\ PageScreen /\ PageFlags /\ PageLists /\ PageForms /\ PageWaits /\ PageFlight
        /\ PageOpen /\ Tracking
    BY DEF PagesInv, PageTypes
  <1>3. WaitsForItsOwn /\ FormShowsItsRow /\ Accounted
    BY DEF PagesInv, KeepsToItsOwn
  <1>4. PageScreen'
    BY <1>1, <1>2 DEF PageScreen
  <1>5. mobile' \in BOOLEAN
    BY <1>1, Zenon
  <1>6. PageFlags'
    BY <1>1, <1>2, <1>5 DEF PageFlags
  <1>7. pending' \subseteq pending
    BY <1>1
  <1>8. PageLists' /\ PageForms' /\ PageWaits' /\ PageFlight' /\ PageOpen'
    BY <1>1, <1>2, <1>7, ListsKept, FormsKept, WaitsKept, FlightKept, OpenKept
  <1>9. Tracking'
    BY <1>1, <1>2, PledgedKept DEF Tracking
  <1>10. WaitsForItsOwn' /\ FormShowsItsRow'
    BY <1>1, <1>3, <1>7, OwnKept, ShowsKept
  <1>11. Accounted'
    BY <1>1, <1>3, AccountedLooks DEF Looks
  <1> QED
    BY <1>4, <1>6, <1>8, <1>9, <1>10, <1>11 DEF PagesInv, PageTypes, KeepsToItsOwn

LEMMA CapabilitiesKeeps ==
    ASSUME PagesInv, Capabilities
    PROVE  PagesInv'
  <1>1. /\ extras' = TRUE
        /\ UNCHANGED <<view, admin, mobile, hidden, server, job, rows, loading, loadError, blocked,
                       dialog, forms, flight, pending, renewing, tracked, clicks, faults, doubt>>
    BY DEF Capabilities, page, backend, over, waits
  <1>2. /\ PageTypes /\ PageScreen /\ PageFlags /\ PageLists /\ PageForms /\ PageWaits /\ PageFlight
        /\ PageOpen /\ Tracking
    BY DEF PagesInv, PageTypes
  <1>3. WaitsForItsOwn /\ FormShowsItsRow /\ Accounted
    BY DEF PagesInv, KeepsToItsOwn
  <1>4. PageScreen'
    BY <1>1, <1>2 DEF PageScreen
  <1>5. extras' \in BOOLEAN
    BY <1>1, Zenon
  <1>6. PageFlags'
    BY <1>1, <1>2, <1>5 DEF PageFlags
  <1>7. PageLists' /\ PageForms' /\ PageWaits' /\ PageFlight' /\ PageOpen'
    BY <1>1, <1>2, ListsKept, FormsKept, WaitsKept, FlightKept, OpenKept
  <1>8. Tracking'
    BY <1>1, <1>2, PledgedKept DEF Tracking
  <1>9. WaitsForItsOwn' /\ FormShowsItsRow'
    BY <1>1, <1>3, OwnKept, ShowsKept
  <1>10. Accounted'
    BY <1>1, <1>3, AccountedLooks DEF Looks
  <1> QED
    BY <1>4, <1>6, <1>7, <1>8, <1>9, <1>10 DEF PagesInv, PageTypes, KeepsToItsOwn

LEMMA EditFieldKeeps ==
    ASSUME PagesInv, NEW f \in FormFlags(view) \cup {"other", "hostname"}, EditField(f)
    PROVE  PagesInv'
  <1>1. PICK s : s = dialog.slot
    OBVIOUS
  <1>2. /\ s \in Slots
        /\ UNCHANGED <<view, admin, mobile, hidden, server, job, rows, loading, loadError, extras,
                       blocked, dialog, flight, pending, renewing, tracked, clicks, faults, doubt>>
    BY <1>1 DEF EditField, page, backend, shown, waits, Slots
  <1>3. /\ PageTypes /\ PageScreen /\ PageFlags /\ PageLists /\ PageForms /\ PageWaits /\ PageFlight
        /\ PageOpen /\ Tracking
    BY DEF PagesInv, PageTypes
  <1>4. WaitsForItsOwn /\ FormShowsItsRow /\ Accounted
    BY DEF PagesInv, KeepsToItsOwn
  <1>5. PICK g \in FormStates : /\ forms' = [forms EXCEPT ![s] = g] /\ g.key = forms[s].key
                                /\ g.wait = forms[s].wait /\ g.vals \subseteq FormFlags(view)
    <2>1. PICK m \in FormStates : m = forms[s] /\ m.vals \subseteq FormFlags(view)
      BY <1>2, <1>3 DEF PageForms
    <2>2. m.dirty \in BOOLEAN
      BY DEF FormStates
    <2>3. PICK b \in BOOLEAN : b = (m.dirty \/ f \notin FormFlags(view))
      BY <2>2, Zenon
    <2>4. PICK V : V = IF f \in FormFlags(view) THEN Flipped(m.vals, f) ELSE m.vals
      OBVIOUS
    <2>5. V \subseteq FormFlags(view) /\ V \in SUBSET FlagNames
      BY <1>3, <2>1, <2>4, ViewIsKnown, FlagsAre DEF Flipped
    <2>6. PICK h : h = [m EXCEPT !.dirty = b]
      OBVIOUS
    <2>7. PICK g : g = [h EXCEPT !.vals = V]
      OBVIOUS
    <2>8. h \in FormStates /\ h.key = m.key /\ h.wait = m.wait /\ h.vals = m.vals
      BY <2>1, <2>3, <2>6 DEF FormStates
    <2>9. g \in FormStates /\ g.key = m.key /\ g.wait = m.wait /\ g.vals = V
      BY <2>5, <2>7, <2>8 DEF FormStates
    <2>10. forms' = [[forms EXCEPT ![s].dirty = b] EXCEPT ![s].vals = V]
      BY <1>1, <2>1, <2>3, <2>4 DEF EditField
    <2>11. forms' = [forms EXCEPT ![s] = g]
      <3>1. forms \in [Slots -> FormStates]
        BY <1>3 DEF PageForms
      <3>2. PICK k : k = [forms EXCEPT ![s].dirty = b]
        OBVIOUS
      <3>3. k = [forms EXCEPT ![s] = h]
        BY <2>1, <2>6, <3>2
      <3>4. k[s] = h /\ k \in [Slots -> FormStates]
        BY <1>2, <2>8, <3>1, <3>3
      <3>5. forms' = [k EXCEPT ![s] = g]
        BY <2>7, <2>10, <3>2, <3>4
      <3> QED
        BY <1>2, <3>1, <3>3, <3>5
    <2> QED
      BY <2>1, <2>5, <2>9, <2>11
  <1>6. PageScreen'
    BY <1>2, <1>3 DEF PageScreen
  <1>7. PageFlags'
    BY <1>2, <1>3 DEF PageFlags
  <1>8. PageLists' /\ PageWaits' /\ PageFlight' /\ PageOpen'
    BY <1>2, <1>3, ListsKept, WaitsKept, FlightKept, OpenKept
  <1>9. PageForms'
    BY <1>2, <1>3, <1>5, FormReplaced
  <1>10. Tracking'
    BY <1>2, <1>3, PledgedKept DEF Tracking
  <1>11. WaitsForItsOwn'
    BY <1>2, <1>3, <1>4, <1>5, OwnReplaced
  <1>12. FormShowsItsRow'
    <2>1. "form" \in Slots
      BY DEF Slots
    <2>2. forms'["form"].key = forms["form"].key
      BY <1>2, <1>3, <1>5, <2>1 DEF PageForms
    <2> QED
      BY <1>2, <1>4, <2>2 DEF FormShowsItsRow
  <1>13. Accounted'
    BY <1>2, <1>4, AccountedLooks DEF Looks
  <1> QED
    BY <1>6, <1>7, <1>8, <1>9, <1>10, <1>11, <1>12, <1>13 DEF PagesInv, PageTypes, KeepsToItsOwn

-----------------------------------------------------------------------------
(* A request is sent.                                                      *)

LEMMA SendTypes ==
    ASSUME PagesInv, NEW i, NEW q, Sends(i, q),
           UNCHANGED <<mobile, hidden, job, extras, blocked, faults>>,
           loading' \in BOOLEAN, rows' \in Lists, RowSet(rows'),
           dialog' = dialog \/ dialog' = NoDialog, renewing' \in Ids,
           clicks' \in 0 .. MaxClicks, tracked' \in Nat
    PROVE  PageScreen' /\ PageFlags' /\ PageLists' /\ PageFlight' /\ PageOpen'
  <1>1. /\ i \in 1 .. MaxFlight /\ q \in Requests /\ Sound(q) /\ flight' = [flight EXCEPT ![i] = q]
        /\ UNCHANGED <<view, admin, server, loadError>>
    BY DEF Sends, Send
  <1>2. PageTypes /\ PageScreen /\ PageFlags /\ PageLists /\ PageFlight /\ PageOpen
    BY DEF PagesInv, PageTypes
  <1>3. PageScreen'
    BY <1>1, <1>2 DEF PageScreen, NoDialog, Ids
  <1>4. doubt' \in BOOLEAN
    BY <1>2, DoubtIs
  <1>5. PageFlags'
    BY <1>1, <1>2, <1>4 DEF PageFlags
  <1>6. PageLists'
    BY <1>1, <1>2, ListsAre DEF PageLists
  <1>7. PageFlight'
    BY <1>1, <1>2, FlightReplaced
  <1>8. PageOpen'
    BY <1>1, <1>2 DEF PageOpen, NoDialog
  <1> QED
    BY <1>3, <1>5, <1>6, <1>7, <1>8

LEMMA RowsStay ==
    ASSUME PagesInv, UNCHANGED <<view, rows>>
    PROVE  rows' \in Lists /\ RowSet(rows')
  BY DEF PagesInv, PageTypes, PageLists

\* A click pays for the task it may end in.
LEMMA SendTracks ==
    ASSUME PagesInv, NEW i, NEW q, Sends(i, q),
           \/ clicks' = clicks + 1 /\ tracked' = tracked
           \/ q.op \notin {"renew", "create"} /\ tracked' \in Nat /\ tracked' <= tracked /\ clicks' = clicks
    PROVE  Tracking'
  <1>1. i \in 1 .. MaxFlight /\ q \in Requests /\ flight' = [flight EXCEPT ![i] = q] /\ PageFlight
    BY DEF Sends, Send, PagesInv, PageTypes
  <1>2. tracked + Pledged <= clicks /\ tracked \in Nat /\ clicks \in 0 .. MaxClicks /\ MaxClicks \in Nat
    BY ListPagesAssumption DEF PagesInv, PageTypes, PageScreen, Tracking
  <1>3. PICK n \in Nat : n = Pledged
    BY <1>1, PledgedAfter
  <1>4. PICK m \in Nat : m = Pledged'
    BY <1>1, PledgedAfter
  <1>5. m <= n + 1 /\ (q.op \notin {"renew", "create"} => m <= n)
    BY <1>1, <1>3, <1>4, PledgedAfter
  <1>6. tracked + n <= clicks
    BY <1>2, <1>3
  <1>7. tracked' + m <= clicks'
    BY <1>2, <1>5, <1>6
  <1> QED
    BY <1>4, <1>7 DEF Tracking

LEMMA ClickIs ==
    ASSUME PagesInv, clicks < MaxClicks, clicks' = clicks + 1
    PROVE  clicks' \in 0 .. MaxClicks
  BY ListPagesAssumption DEF PagesInv, PageTypes, PageScreen

LEMMA ToggleKeeps ==
    ASSUME PagesInv, NEW r \in Rows, NEW f \in Switches(view), Toggle(r, f)
    PROVE  PagesInv'
  <1>1. /\ PageTypes /\ PageScreen /\ PageFlags /\ PageLists /\ PageForms /\ PageWaits
    BY DEF PagesInv, PageTypes
  <1>2. WaitsForItsOwn /\ FormShowsItsRow /\ Accounted
    BY DEF PagesInv, KeepsToItsOwn
  <1>3. PICK i \in 1 .. MaxFlight, q \in Requests :
             /\ Sends(i, q) /\ q.op = "toggle" /\ q.row = r /\ q.flag = f
             /\ pending' = pending \cup {[row |-> r, flag |-> f, req |-> i]}
             /\ rows' = IF Optimistic THEN [rows EXCEPT ![r] = Flipped(@, f)] ELSE rows
             /\ r \in DOMAIN rows /\ clicks < MaxClicks /\ clicks' = clicks + 1
             /\ UNCHANGED <<mobile, hidden, job, loading, extras, blocked, dialog, forms,
                            renewing, tracked, faults>>
    BY <1>1, ToggleSends
  <1>4. flight' = [flight EXCEPT ![i] = q] /\ UNCHANGED <<view, server, loadError>>
    BY <1>3 DEF Sends, Send
  <1>5. rows' \in Lists /\ RowSet(rows')
    <2>1. view \in ViewNames
      BY <1>1, ViewIsKnown
    <2>2. CASE ~Optimistic
      BY <1>3, <1>4, <2>2, RowsStay
    <2>3. CASE Optimistic
      <3>1. Flipped(rows[r], f) \subseteq Flags(view)
        BY <1>1, <1>3, <2>1, FlagsAre DEF PageLists, RowSet, Flipped
      <3>2. rows' = Put(rows, r, Flipped(rows[r], f))
        <4>1. rows' = [rows EXCEPT ![r] = Flipped(rows[r], f)]
          BY <1>3, <2>3
        <4>2. rows \in [DOMAIN rows -> SUBSET FlagNames]
          BY <1>1, ListHas DEF PageLists
        <4>3. DOMAIN rows \cup {r} = DOMAIN rows
          BY <1>3
        <4> QED
          BY <4>1, <4>2, <4>3 DEF Put
      <3> QED
        BY <1>1, <2>1, <3>1, <3>2, PutIs DEF PageLists
    <2> QED
      BY <2>2, <2>3
  <1>6. clicks' \in 0 .. MaxClicks
    BY <1>3, ClickIs
  <1>7. PageScreen' /\ PageFlags' /\ PageLists' /\ PageFlight' /\ PageOpen'
    <2>1. tracked' \in Nat /\ renewing' \in Ids /\ loading' \in BOOLEAN
      BY <1>1, <1>3 DEF PageScreen, PageFlags
    <2> QED
      BY <1>3, <1>5, <1>6, <2>1, SendTypes
  <1>8. PageForms'
    BY <1>1, <1>3, <1>4, FormsKept
  <1>9. PageWaits'
    BY <1>1, <1>3, <1>4 DEF PageWaits
  <1>10. Tracking'
    BY <1>3, SendTracks
  <1>11. WaitsForItsOwn'
    <2>1. flight'[i] = q
      BY <1>1, <1>4, Replaced DEF PageTypes
    <2>2. ASSUME NEW p \in pending'
          PROVE  Awaited(p)'
      <3>1. CASE p \in pending
        BY <1>1, <1>2, <1>3, <3>1, WaitsSend
      <3>2. CASE p = [row |-> r, flag |-> f, req |-> i]
        BY <1>3, <2>1, <3>2 DEF Awaited
      <3> QED
        BY <1>3, <2>2, <3>1, <3>2
    <2> QED
      BY <1>1, <1>2, <1>3, <2>2, WaitsSend, OwnFrom
  <1>12. FormShowsItsRow'
    BY <1>2, <1>3, ShowsKept
  <1>13. Accounted'
    BY <1>1, <1>2, AccountedToggle
  <1> QED
    BY <1>7, <1>8, <1>9, <1>10, <1>11, <1>12, <1>13 DEF PagesInv, PageTypes, KeepsToItsOwn

LEMMA RenewKeeps ==
    ASSUME PagesInv, NEW r \in Rows, Renew(r)
    PROVE  PagesInv'
  <1>1. PageTypes /\ PageScreen /\ PageFlags /\ PageForms /\ PageWaits
    BY DEF PagesInv, PageTypes
  <1>2. WaitsForItsOwn /\ FormShowsItsRow /\ Accounted
    BY DEF PagesInv, KeepsToItsOwn
  <1>3. PICK i \in 1 .. MaxFlight, q \in Requests :
             /\ Sends(i, q) /\ q.op = "renew" /\ q.row = r /\ renewing' = r
             /\ clicks < MaxClicks /\ clicks' = clicks + 1
             /\ UNCHANGED <<mobile, hidden, job, rows, loading, extras, blocked, dialog, forms,
                            pending, tracked, faults>>
    BY <1>1, RenewSends
  <1>4. flight' = [flight EXCEPT ![i] = q] /\ UNCHANGED <<view, server, loadError>>
    BY <1>3 DEF Sends, Send
  <1>5. /\ rows' \in Lists /\ RowSet(rows') /\ clicks' \in 0 .. MaxClicks
        /\ tracked' \in Nat /\ renewing' \in Ids /\ loading' \in BOOLEAN
    BY <1>1, <1>3, <1>4, RowsStay, ClickIs DEF PageScreen, PageFlags, Ids
  <1>6. PageScreen' /\ PageFlags' /\ PageLists' /\ PageFlight' /\ PageOpen'
    BY <1>3, <1>5, SendTypes
  <1>7. PageForms' /\ PageWaits'
    BY <1>1, <1>3, <1>4, FormsKept, WaitsKept
  <1>8. Tracking'
    BY <1>3, SendTracks
  <1>9. WaitsForItsOwn'
    <2>1. flight'[i] = q /\ i \in DOMAIN flight'
      BY <1>1, <1>4, Replaced DEF PageTypes
    <2>2. \A p \in pending' : Awaited(p)'
      BY <1>1, <1>2, <1>3, WaitsSend
    <2>3. \A s \in Slots : forms'[s].wait # 0 => flight'[forms'[s].wait].slot = s
      BY <1>1, <1>2, <1>3, WaitsSend
    <2> QED
      BY <1>3, <2>1, <2>2, <2>3, OwnFrom
  <1>10. FormShowsItsRow'
    BY <1>2, <1>3, ShowsKept
  <1>11. Accounted'
    BY <1>1, <1>2, <1>3, AccountedSend
  <1> QED
    BY <1>6, <1>7, <1>8, <1>9, <1>10, <1>11 DEF PagesInv, PageTypes, KeepsToItsOwn

LEMMA CallKeeps ==
    ASSUME PagesInv, NEW r \in Ids, NEW c \in {"resend", "download", "remove", "take", "upload"},
           Call(c, r)
    PROVE  PagesInv'
  <1>1. PageTypes /\ PageScreen /\ PageFlags /\ PageForms /\ PageWaits
    BY DEF PagesInv, PageTypes
  <1>2. WaitsForItsOwn /\ FormShowsItsRow /\ Accounted
    BY DEF PagesInv, KeepsToItsOwn
  <1>3. PICK i \in 1 .. MaxFlight, q \in Requests :
             /\ Sends(i, q) /\ q.op = c /\ clicks < MaxClicks /\ clicks' = clicks + 1
             /\ UNCHANGED <<mobile, hidden, job, rows, loading, extras, blocked, dialog, forms,
                            pending, renewing, tracked, faults>>
    BY <1>1, CallSends
  <1>4. view' = view
    BY <1>3 DEF Sends
  <1>5. /\ rows' \in Lists /\ RowSet(rows') /\ clicks' \in 0 .. MaxClicks
        /\ tracked' \in Nat /\ renewing' \in Ids /\ loading' \in BOOLEAN
    BY <1>1, <1>3, <1>4, RowsStay, ClickIs DEF PageScreen, PageFlags
  <1>6. PageScreen' /\ PageFlags' /\ PageLists' /\ PageFlight' /\ PageOpen'
    BY <1>3, <1>5, SendTypes
  <1>7. PageForms' /\ PageWaits'
    BY <1>1, <1>3, <1>4, FormsKept, WaitsKept
  <1>8. Tracking'
    BY <1>3, SendTracks
  <1>9. WaitsForItsOwn'
    BY <1>1, <1>2, <1>3, WaitsSend, OwnFrom
  <1>10. FormShowsItsRow'
    BY <1>2, <1>3, ShowsKept
  <1>11. Accounted'
    BY <1>1, <1>2, <1>3, AccountedSend
  <1> QED
    BY <1>6, <1>7, <1>8, <1>9, <1>10, <1>11 DEF PagesInv, PageTypes, KeepsToItsOwn

LEMMA LoadKeeps ==
    ASSUME PagesInv, Retry \/ PollEnds \/ Poll
    PROVE  PagesInv'
  <1>1. PageTypes /\ PageScreen /\ PageFlags /\ PageForms /\ PageWaits
    BY DEF PagesInv, PageTypes
  <1>2. WaitsForItsOwn /\ FormShowsItsRow /\ Accounted
    BY DEF PagesInv, KeepsToItsOwn
  <1>3. PICK i \in 1 .. MaxFlight, q \in Requests :
             /\ Sends(i, q) /\ q.op = "load"
             /\ \/ tracked' = tracked /\ clicks' = clicks
                \/ tracked' = tracked /\ clicks < MaxClicks /\ clicks' = clicks + 1
                \/ tracked > 0 /\ tracked' = tracked - 1 /\ clicks' = clicks
             /\ loading' = loading \/ loading' = TRUE
             /\ pending' = pending \/ pending' = {}
             /\ UNCHANGED <<mobile, hidden, job, rows, extras, blocked, dialog, forms, renewing,
                            faults>>
    BY <1>1, LoadSends
  <1>4. view' = view /\ pending' \subseteq pending
    BY <1>3 DEF Sends
  <1>5. rows' \in Lists /\ RowSet(rows')
    BY <1>3, <1>4, RowsStay
  <1>6. loading' \in BOOLEAN
    <2>1. loading \in BOOLEAN
      BY <1>1 DEF PageFlags
    <2> QED
      BY <1>3, <2>1, Zenon
  <1>7. renewing' \in Ids /\ clicks \in 0 .. MaxClicks /\ tracked \in Nat
    BY <1>1, <1>3 DEF PageScreen
  <1>8. clicks' \in 0 .. MaxClicks
    BY <1>3, <1>7, ClickIs
  <1>9. /\ tracked' \in Nat
        /\ \/ clicks' = clicks + 1 /\ tracked' = tracked
           \/ tracked' <= tracked /\ clicks' = clicks
    BY <1>3, <1>7
  <1>10. PageScreen' /\ PageFlags' /\ PageLists' /\ PageFlight' /\ PageOpen'
    BY <1>3, <1>5, <1>6, <1>7, <1>8, <1>9, SendTypes
  <1>11. PageForms' /\ PageWaits'
    BY <1>1, <1>3, <1>4, FormsKept, WaitsKept
  <1>12. Tracking'
    BY <1>3, <1>9, SendTracks
  <1>13. WaitsForItsOwn'
    BY <1>1, <1>2, <1>3, <1>4, WaitsSend, OwnFrom
  <1>14. FormShowsItsRow'
    BY <1>2, <1>3, ShowsKept
  <1>15. Accounted'
    BY <1>1, <1>2, <1>3, AccountedSend
  <1> QED
    BY <1>10, <1>11, <1>12, <1>13, <1>14, <1>15 DEF PagesInv, PageTypes, KeepsToItsOwn

LEMMA SubmitKeeps ==
    ASSUME PagesInv, Submit
    PROVE  PagesInv'
  <1>1. PageTypes /\ PageScreen /\ PageFlags /\ PageForms /\ PageWaits
    BY DEF PagesInv, PageTypes
  <1>2. WaitsForItsOwn /\ FormShowsItsRow /\ Accounted
    BY DEF PagesInv, KeepsToItsOwn
  <1>3. PICK s : s = dialog.slot
    OBVIOUS
  <1>4. PICK i \in 1 .. MaxFlight, q \in Requests :
             /\ Sends(i, q) /\ q.op \notin {"load", "toggle", "renew"}
             /\ \/ dialog' = NoDialog /\ forms' = Closed(s)
                \/ q.slot = s /\ dialog' = dialog /\ forms' = [forms EXCEPT ![s].wait = i]
             /\ s \in Slots /\ clicks < MaxClicks /\ clicks' = clicks + 1
             /\ UNCHANGED <<mobile, hidden, job, rows, loading, extras, blocked, pending, renewing,
                            tracked, faults>>
    BY <1>1, <1>3, SubmitSends
  <1>5. flight' = [flight EXCEPT ![i] = q] /\ view' = view
    BY <1>4 DEF Sends, Send
  <1>6. /\ rows' \in Lists /\ RowSet(rows') /\ clicks' \in 0 .. MaxClicks
        /\ tracked' \in Nat /\ renewing' \in Ids /\ loading' \in BOOLEAN
    BY <1>1, <1>4, <1>5, RowsStay, ClickIs DEF PageScreen, PageFlags
  <1>7. PageScreen' /\ PageFlags' /\ PageLists' /\ PageFlight' /\ PageOpen'
    BY <1>4, <1>6, SendTypes
  <1>8. PageWaits'
    BY <1>1, <1>4, <1>5, WaitsKept
  <1>9. Tracking'
    BY <1>4, SendTracks
  <1>10. Accounted'
    BY <1>1, <1>2, <1>4, AccountedSend
  <1>11. flight'[i] = q
    BY <1>1, <1>5, Replaced DEF PageTypes
  <1>12. \A p \in pending' : Awaited(p)'
    BY <1>1, <1>2, <1>4, WaitsSend
  <1>13. renewing' # NoRow =>
           \E j \in DOMAIN flight' : flight'[j].op = "renew" /\ flight'[j].row = renewing'
    BY <1>1, <1>2, <1>4, WaitsSend
  <1>14. CASE dialog' = NoDialog /\ forms' = Closed(s)
    <2>1. forms' = forms \/ forms' = [forms EXCEPT ![s] = Blank]
      BY <1>1, <1>4, <1>14, ClosedIs
    <2>2. PageForms'
      BY <1>1, <1>4, <1>5, <2>1, FormsKept, FormReplaced, BlankIs
    <2>3. \A t \in Slots : forms'[t].wait # 0 => forms'[t].wait = forms[t].wait
      BY <1>1, <1>4, <2>1, BlankIs DEF PageForms
    <2>4. \A t \in Slots : forms'[t].wait # 0 => flight'[forms'[t].wait].slot = t
      BY <1>1, <1>2, <1>4, <2>3, WaitsSend
    <2>5. WaitsForItsOwn'
      BY <1>12, <1>13, <2>4, OwnFrom
    <2>6. FormShowsItsRow'
      BY <1>14 DEF FormShowsItsRow, NoDialog
    <2> QED
      BY <1>7, <1>8, <1>9, <1>10, <2>2, <2>5, <2>6 DEF PagesInv, PageTypes, KeepsToItsOwn
  <1>15. CASE q.slot = s /\ dialog' = dialog /\ forms' = [forms EXCEPT ![s].wait = i]
    <2>1. PICK f : f = [forms[s] EXCEPT !.wait = i]
      OBVIOUS
    <2>2. forms[s] \in FormStates /\ forms[s].vals \subseteq FormFlags(view) /\ i \in 0 .. MaxFlight
      BY <1>1, <1>4, ListPagesAssumption DEF PageForms
    <2>3. f \in FormStates /\ f.vals = forms[s].vals /\ f.key = forms[s].key /\ f.wait = i
      BY <2>1, <2>2 DEF FormStates
    <2>4. forms' = [forms EXCEPT ![s] = f]
      BY <1>15, <2>1
    <2>5. PageForms' /\ forms'[s] = f /\ \A t \in Slots : t # s => forms'[t] = forms[t]
      BY <1>1, <1>4, <1>5, <2>2, <2>3, <2>4, FormReplaced
    <2>6. \A t \in Slots : forms'[t].wait # 0 => flight'[forms'[t].wait].slot = t
      <3>1. flight'[forms'[s].wait].slot = s
        BY <1>11, <1>15, <2>3, <2>5
      <3>2. \A t \in Slots : (t # s /\ forms'[t].wait # 0) => flight'[forms'[t].wait].slot = t
        BY <1>1, <1>2, <1>4, <2>5, WaitsSend
      <3> QED
        BY <3>1, <3>2
    <2>7. WaitsForItsOwn'
      BY <1>12, <1>13, <2>6, OwnFrom
    <2>8. FormShowsItsRow'
      <3>1. \A t \in Slots : forms'[t].key = forms[t].key
        BY <2>3, <2>5
      <3>2. "form" \in Slots
        BY DEF Slots
      <3> QED
        BY <1>2, <1>15, <3>1, <3>2 DEF FormShowsItsRow
    <2> QED
      BY <1>7, <1>8, <1>9, <1>10, <2>5, <2>7, <2>8 DEF PagesInv, PageTypes, KeepsToItsOwn
  <1> QED
    BY <1>4, <1>14, <1>15

-----------------------------------------------------------------------------
(* The API and the worker.                                                 *)

\* A request that keeps what it is about keeps those who wait for it.
LEMMA WaitsServed ==
    ASSUME PageTypes, WaitsForItsOwn, NEW i \in 1 .. MaxFlight, NEW q \in Requests,
           flight' = [flight EXCEPT ![i] = q], UNCHANGED <<view, forms, pending, renewing>>,
           q.op = flight[i].op, q.slot = flight[i].slot, q.row = flight[i].row,
           q.flag = flight[i].flag \/ q.op = "load"
    PROVE  WaitsForItsOwn'
  <1>1. /\ DOMAIN flight = 1 .. MaxFlight /\ DOMAIN flight' = 1 .. MaxFlight
        /\ flight'[i] = q /\ \A j \in 1 .. MaxFlight : j # i => flight'[j] = flight[j]
    BY Replaced DEF PageTypes
  <1>2. \A j \in 1 .. MaxFlight : /\ flight'[j].op = flight[j].op /\ flight'[j].slot = flight[j].slot
                                  /\ flight'[j].row = flight[j].row
                                  /\ flight'[j].flag = flight[j].flag \/ flight'[j].op = "load"
    BY <1>1
  <1>3. ASSUME NEW p \in pending
        PROVE  Awaited(p)'
    <2>1. p.req \in 1 .. MaxFlight
      BY DEF PageTypes, PageWaits
    <2> QED
      BY <1>2, <2>1 DEF WaitsForItsOwn, Awaited, Optimistic
  <1>4. ASSUME NEW s \in Slots, forms[s].wait # 0
        PROVE  flight'[forms[s].wait].slot = s
    <2>1. forms[s].wait \in 1 .. MaxFlight
      BY <1>4, ListPagesAssumption DEF PageTypes, PageForms, FormStates
    <2> QED
      BY <1>2, <1>4, <2>1 DEF WaitsForItsOwn, Saving
  <1>5. renewing # NoRow =>
          \E j \in DOMAIN flight' : flight'[j].op = "renew" /\ flight'[j].row = renewing
    BY <1>1, <1>2 DEF WaitsForItsOwn
  <1> QED
    BY <1>3, <1>4, <1>5, OwnFrom

LEMMA OutcomeKeeps ==
    ASSUME PagesInv, NEW i \in 1 .. MaxFlight, NEW o, HasOutcome(i, o),
           server' \in Lists, RowSet(server'), job' \in {"none", "backup", "restore"},
           job' = "backup" => view = "backups", doubt' \in BOOLEAN, faults' \in 0 .. MaxFaults,
           Accounted'
    PROVE  PagesInv'
  <1>1. UNCHANGED <<view, admin, mobile, hidden, rows, loading, loadError, extras, blocked, dialog,
                    forms, pending, renewing, tracked, clicks>>
    BY DEF HasOutcome
  <1>2. PICK q \in Requests :
         /\ flight' = [flight EXCEPT ![i] = q] /\ Sound(q) /\ q.op = flight[i].op
         /\ q.slot = flight[i].slot /\ q.row = flight[i].row /\ q.flag = flight[i].flag
    BY DEF HasOutcome
  <1>3. /\ PageTypes /\ PageScreen /\ PageFlags /\ PageLists /\ PageForms /\ PageWaits /\ PageFlight
        /\ PageOpen /\ Tracking
    BY DEF PagesInv, PageTypes
  <1>4. WaitsForItsOwn /\ FormShowsItsRow
    BY DEF PagesInv, KeepsToItsOwn
  <1>5. PageScreen'
    BY <1>1, <1>3 DEF PageScreen
  <1>6. PageFlags'
    BY <1>1, <1>3 DEF PageFlags
  <1>7. PageLists'
    BY <1>1, RowsStay, ListsAre
  <1>8. PageForms' /\ PageWaits'
    BY <1>1, <1>3, FormsKept, WaitsKept
  <1>9. PageFlight'
    BY <1>1, <1>2, <1>3, FlightReplaced
  <1>10. PageOpen'
    BY <1>1, <1>3 DEF PageOpen
  <1>11. Tracking'
    <2>1. PICK n \in Nat : n = Pledged
      BY <1>2, <1>3, PledgedAfter
    <2>2. PICK m \in Nat : m = Pledged'
      BY <1>2, <1>3, PledgedAfter
    <2>3. m <= n
      BY <1>2, <1>3, <2>1, <2>2, PledgedAfter
    <2>4. tracked + n <= clicks /\ tracked \in Nat /\ clicks \in Nat
      BY <1>3, <2>1, ListPagesAssumption DEF Tracking, PageScreen
    <2>5. tracked + m <= clicks
      BY <2>3, <2>4
    <2> QED
      BY <1>1, <2>2, <2>5 DEF Tracking
  <1>12. WaitsForItsOwn' /\ FormShowsItsRow'
    BY <1>1, <1>2, <1>3, <1>4, WaitsServed, ShowsKept
  <1> QED
    BY <1>5, <1>6, <1>7, <1>8, <1>9, <1>10, <1>11, <1>12 DEF PagesInv, PageTypes, KeepsToItsOwn

\* Serve, Refuse and Lose.
LEMMA ServedKeeps ==
    ASSUME PagesInv, NEW i \in 1 .. MaxFlight, Serve(i) \/ Refuse(i) \/ Lose(i)
    PROVE  PagesInv'
  <1>1. /\ PageTypes /\ PageScreen /\ PageFlags /\ PageLists /\ PageFlight /\ PageOpen /\ Accounted
    BY DEF PagesInv, PageTypes
  <1>2. /\ doubt \in BOOLEAN /\ faults \in 0 .. MaxFaults /\ MaxFaults \in Nat
        /\ job \in {"none", "backup", "restore"} /\ (job = "backup" => view = "backups")
        /\ server \in Lists /\ RowSet(server)
    BY <1>1, ListPagesAssumption DEF PageScreen, PageFlags, PageLists, PageOpen
  <1>3. flight[i] \in Requests /\ Sound(flight[i])
    BY <1>1 DEF PageFlight
  <1>4. Acceptable(flight[i]) /\ server' \in Effects(flight[i]) => server' \in Lists /\ RowSet(server')
    BY <1>1, <1>3, EffectsAre
  <1>5. job' = JobAfter(flight[i]) =>
          job' \in {"none", "backup", "restore"} /\ (job' = "backup" => view = "backups")
    BY <1>2, <1>3 DEF JobAfter, Sound
  <1>6. CASE Serve(i)
    <2>1. /\ \/ /\ HasOutcome(i, "ok") /\ Acceptable(flight[i]) /\ server' \in Effects(flight[i])
                /\ job' = JobAfter(flight[i])
             \/ HasOutcome(i, "err") /\ UNCHANGED <<server, job>>
          /\ doubt' = doubt /\ faults' = faults
      BY <1>1, <1>6, ServeIs
    <2>2. CASE /\ HasOutcome(i, "ok") /\ Acceptable(flight[i]) /\ server' \in Effects(flight[i])
               /\ job' = JobAfter(flight[i])
      <3>1. Accounted'
        BY <1>1, <2>1, <2>2, AccountedApplied
      <3> QED
        BY <1>2, <1>4, <1>5, <2>1, <2>2, <3>1, OutcomeKeeps
    <2>3. CASE HasOutcome(i, "err") /\ UNCHANGED <<server, job>>
      <3>1. Accounted'
        BY <1>1, <2>1, <2>3, AccountedRefused
      <3> QED
        BY <1>2, <2>1, <2>3, <3>1, OutcomeKeeps
    <2> QED
      BY <2>1, <2>2, <2>3
  <1>7. CASE Refuse(i)
    <2>1. /\ HasOutcome(i, "err") /\ UNCHANGED <<server, job, doubt>>
          /\ faults < MaxFaults /\ faults' = faults + 1
      BY <1>1, <1>7, RefuseIs
    <2>2. Accounted'
      BY <1>1, <2>1, AccountedRefused
    <2>3. faults' \in 0 .. MaxFaults
      BY <1>2, <2>1
    <2> QED
      BY <1>2, <2>1, <2>2, <2>3, OutcomeKeeps
  <1>8. CASE Lose(i)
    <2>1. /\ HasOutcome(i, "err") /\ doubt' = TRUE
          /\ Acceptable(flight[i]) /\ server' \in Effects(flight[i]) /\ job' = JobAfter(flight[i])
          /\ faults < MaxFaults /\ faults' = faults + 1
      BY <1>1, <1>8, LoseIs
    <2>2. Accounted'
      BY <2>1 DEF Accounted
    <2>3. faults' \in 0 .. MaxFaults
      BY <1>2, <2>1
    <2>4. doubt' \in BOOLEAN
      BY <2>1, Zenon
    <2> QED
      BY <1>4, <1>5, <2>1, <2>2, <2>3, <2>4, OutcomeKeeps
  <1> QED
    BY <1>6, <1>7, <1>8

LEMMA ServeLoadKeeps ==
    ASSUME PagesInv, NEW i \in 1 .. MaxFlight, ServeLoad(i)
    PROVE  PagesInv'
  <1>1. /\ PageTypes /\ PageScreen /\ PageFlags /\ PageLists /\ PageForms /\ PageWaits /\ PageFlight
        /\ PageOpen /\ Tracking
    BY DEF PagesInv, PageTypes
  <1>2. WaitsForItsOwn /\ FormShowsItsRow /\ Accounted
    BY DEF PagesInv, KeepsToItsOwn
  <1>3. /\ flight[i].op = "load"
        /\ faults' = faults \/ (faults < MaxFaults /\ faults' = faults + 1)
        /\ UNCHANGED <<view, admin, mobile, hidden, server, job, rows, loading, loadError, extras,
                       blocked, dialog, forms, pending, renewing, tracked, clicks, doubt>>
    BY <1>1, ServeLoadIs
  <1>4. PICK q \in Requests :
          /\ flight' = [flight EXCEPT ![i] = q] /\ Sound(q) /\ q.op = "load"
          /\ q.slot = flight[i].slot /\ q.row = flight[i].row
    BY <1>1, ServeLoadIs
  <1>5. faults' \in 0 .. MaxFaults
    BY <1>1, <1>3, ListPagesAssumption DEF PageScreen
  <1>6. PageScreen'
    BY <1>1, <1>3, <1>5 DEF PageScreen
  <1>7. PageFlags'
    BY <1>1, <1>3 DEF PageFlags
  <1>8. PageLists' /\ PageForms' /\ PageWaits' /\ PageOpen'
    BY <1>1, <1>3, ListsKept, FormsKept, WaitsKept, OpenKept
  <1>9. PageFlight'
    BY <1>1, <1>3, <1>4, FlightReplaced
  <1>10. Tracking'
    <2>1. PICK n \in Nat : n = Pledged
      BY <1>1, <1>4, PledgedAfter
    <2>2. PICK m \in Nat : m = Pledged'
      BY <1>1, <1>4, PledgedAfter
    <2>3. m <= n
      BY <1>1, <1>4, <2>1, <2>2, PledgedAfter
    <2>4. tracked + n <= clicks /\ tracked \in Nat /\ clicks \in Nat
      BY <1>1, <2>1, ListPagesAssumption DEF Tracking, PageScreen
    <2>5. tracked + m <= clicks
      BY <2>3, <2>4
    <2> QED
      BY <1>3, <2>2, <2>5 DEF Tracking
  <1>11. WaitsForItsOwn' /\ FormShowsItsRow'
    BY <1>1, <1>2, <1>3, <1>4, WaitsServed, ShowsKept
  <1>12. Accounted'
    BY <1>1, <1>2, AccountedServeLoad
  <1> QED
    BY <1>6, <1>7, <1>8, <1>9, <1>10, <1>11, <1>12 DEF PagesInv, PageTypes, KeepsToItsOwn

LEMMA JobEndsKeeps ==
    ASSUME PagesInv, JobEnds
    PROVE  PagesInv'
  <1>1. /\ PageTypes /\ PageScreen /\ PageFlags /\ PageLists /\ PageForms /\ PageWaits /\ PageFlight
        /\ PageOpen /\ Tracking
    BY DEF PagesInv, PageTypes
  <1>2. WaitsForItsOwn /\ FormShowsItsRow
    BY DEF PagesInv, KeepsToItsOwn
  <1>3. /\ job' = "none" /\ doubt' = TRUE
        /\ \/ server' = server
           \/ job = "backup" /\ \E r \in Rows \ DOMAIN server : server' = Put(server, r, {"key_matches"})
        /\ UNCHANGED <<view, admin, mobile, hidden, rows, loading, loadError, extras, blocked, dialog,
                       forms, flight, pending, renewing, tracked, clicks, faults>>
    BY DEF JobEnds, page, shown, over, waits
  <1>4. server' \in Lists /\ RowSet(server')
    <2>1. server \in Lists /\ RowSet(server) /\ view \in ViewNames
      BY <1>1, ViewIsKnown DEF PageLists
    <2>2. CASE job = "backup" /\ \E r \in Rows \ DOMAIN server : server' = Put(server, r, {"key_matches"})
      <3>1. PICK r \in Rows \ DOMAIN server : server' = Put(server, r, {"key_matches"})
        BY <2>2
      <3>2. {"key_matches"} \subseteq Flags(view)
        BY <1>1, <2>1, <2>2, FlagsAre DEF PageOpen
      <3> QED
        BY <2>1, <3>1, <3>2, PutIs
    <2> QED
      BY <1>3, <2>1, <2>2
  <1>5. PageScreen'
    BY <1>1, <1>3 DEF PageScreen
  <1>6. doubt' \in BOOLEAN
    BY <1>3, Zenon
  <1>7. PageFlags'
    BY <1>1, <1>3, <1>6 DEF PageFlags
  <1>8. PageLists'
    BY <1>3, <1>4, RowsStay, ListsAre
  <1>9. PageForms' /\ PageWaits' /\ PageFlight' /\ PageOpen'
    BY <1>1, <1>3, FormsKept, WaitsKept, FlightKept, OpenKept
  <1>10. Tracking'
    BY <1>1, <1>3, PledgedKept DEF Tracking
  <1>11. WaitsForItsOwn' /\ FormShowsItsRow'
    BY <1>2, <1>3, OwnKept, ShowsKept
  <1>12. Accounted'
    BY <1>3 DEF Accounted
  <1> QED
    BY <1>5, <1>7, <1>8, <1>9, <1>10, <1>11, <1>12 DEF PagesInv, PageTypes, KeepsToItsOwn

-----------------------------------------------------------------------------
(* The answers.                                                            *)

LEMMA AnswerTypes ==
    ASSUME PagesInv, NEW i, NEW q, Settles(i, q), loading' \in BOOLEAN, loadError' \in BOOLEAN,
           extras' \in BOOLEAN, blocked' \in BOOLEAN, blocked' => view = "backups",
           rows' \in Lists, RowSet(rows'), dialog' = dialog \/ dialog' = NoDialog,
           renewing' \in Ids, tracked' \in Nat, pending' \subseteq pending
    PROVE  PageScreen' /\ PageFlags' /\ PageLists' /\ PageWaits' /\ PageFlight' /\ PageOpen'
  <1>1. /\ i \in 1 .. MaxFlight /\ q \in Requests /\ Sound(q) /\ flight' = [flight EXCEPT ![i] = q]
        /\ UNCHANGED <<view, admin, mobile, hidden, server, job, clicks, faults>>
    BY DEF Settles, Settle
  <1>2. PageTypes /\ PageScreen /\ PageFlags /\ PageLists /\ PageWaits /\ PageFlight /\ PageOpen
    BY DEF PagesInv, PageTypes
  <1>3. PageScreen'
    BY <1>1, <1>2 DEF PageScreen, NoDialog, Ids
  <1>4. doubt' \in BOOLEAN
    BY <1>2, DoubtIs
  <1>5. PageFlags'
    BY <1>1, <1>2, <1>4 DEF PageFlags
  <1>6. PageLists'
    BY <1>1, <1>2, ListsAre DEF PageLists
  <1>7. PageFlight'
    BY <1>1, <1>2, FlightReplaced
  <1>8. PageOpen'
    BY <1>1, <1>2 DEF PageOpen, NoDialog
  <1> QED
    BY <1>1, <1>2, <1>3, <1>5, <1>6, <1>7, <1>8, WaitsKept

\* A task is tracked once its request is answered.
LEMMA AnswerTracks ==
    ASSUME PagesInv, NEW i, NEW q, Settles(i, q),
           \/ tracked' = tracked
           \/ flight[i].op \in {"renew", "create"} /\ tracked' = tracked + 1
    PROVE  Tracking'
  <1>1. /\ i \in 1 .. MaxFlight /\ q \in Requests /\ flight' = [flight EXCEPT ![i] = q] /\ PageFlight
        /\ clicks' = clicks /\ q.op \notin {"renew", "create"}
    BY DEF Settles, Settle, PagesInv, PageTypes
  <1>2. tracked + Pledged <= clicks /\ tracked \in Nat /\ clicks \in Nat
    BY ListPagesAssumption DEF PagesInv, PageTypes, PageScreen, Tracking
  <1>3. PICK n \in Nat : n = Pledged
    BY <1>1, PledgedAfter
  <1>4. PICK m \in Nat : m = Pledged'
    BY <1>1, PledgedAfter
  <1>5. m <= n /\ (flight[i].op \in {"renew", "create"} => m + 1 = n)
    BY <1>1, <1>3, <1>4, PledgedAfter
  <1>6. tracked + n <= clicks
    BY <1>2, <1>3
  <1>7. tracked' + m <= clicks
    BY <1>2, <1>5, <1>6
  <1> QED
    BY <1>1, <1>4, <1>7 DEF Tracking

LEMMA WaitsSettle ==
    ASSUME PageTypes, WaitsForItsOwn, NEW i, NEW q, Settles(i, q)
    PROVE  /\ i \in 1 .. MaxFlight /\ view' = view
           /\ \A p \in pending : p.req # i => Awaited(p)'
           /\ \A s \in Slots : forms[s].wait \notin {0, i} => flight'[forms[s].wait].slot = s
           /\ \A s \in Slots : forms[s].wait = i => flight[i].slot = s
           /\ (renewing # NoRow /\ flight[i].op # "renew") =>
                \E j \in DOMAIN flight' : flight'[j].op = "renew" /\ flight'[j].row = renewing
  <1>1. i \in 1 .. MaxFlight /\ q \in Requests /\ flight' = [flight EXCEPT ![i] = q] /\ view' = view
    BY DEF Settles, Settle
  <1>2. \A s \in Slots : forms[s].wait = i => flight[i].slot = s
    BY <1>1 DEF WaitsForItsOwn, Saving
  <1> QED
    BY <1>1, <1>2, WaitsAfter

LEMMA AnswerLoadKeeps ==
    ASSUME PagesInv, NEW i \in 1 .. MaxFlight, AnswerLoad(i)
    PROVE  PagesInv'
  <1>1. PageTypes /\ PageScreen /\ PageForms /\ PageFlight /\ PageOpen
    BY DEF PagesInv, PageTypes
  <1>2. WaitsForItsOwn /\ FormShowsItsRow /\ Accounted
    BY DEF PagesInv, KeepsToItsOwn
  <1>3. /\ flight[i].op = "load" /\ rows' \in Lists /\ RowSet(rows')
        /\ loadError' \in BOOLEAN /\ extras' \in BOOLEAN /\ blocked' \in BOOLEAN
        /\ loading' \in BOOLEAN /\ (blocked' => view = "backups")
        /\ pending' \subseteq {p \in pending : p.req # i}
        /\ forms' = IF blocked' THEN [s \in Slots |-> Blank] ELSE forms
        /\ UNCHANGED <<dialog, renewing, tracked>>
    BY <1>1, AnswerLoadIs
  <1>4. PICK q \in Requests : Settles(i, q)
    BY <1>1, AnswerLoadIs
  <1>5. /\ PageScreen' /\ PageFlags' /\ PageLists' /\ PageWaits' /\ PageFlight' /\ PageOpen'
    <2>1. pending' \subseteq pending
      BY <1>3
    <2>2. renewing' \in Ids /\ tracked' \in Nat
      BY <1>1, <1>3 DEF PageScreen
    <2> QED
      BY <1>3, <1>4, <2>1, <2>2, AnswerTypes
  <1>6. Tracking'
    BY <1>3, <1>4, AnswerTracks
  <1>7. view' = view
    BY <1>4 DEF Settles
  <1>8. PageForms'
    <2>1. CASE ~blocked'
      BY <1>1, <1>3, <1>7, <2>1, FormsKept
    <2>2. CASE blocked'
      <3>1. forms' = [s \in Slots |-> Blank]
        BY <1>3, <2>2
      <3> QED
        BY <3>1, BlankIs DEF PageForms
    <2> QED
      BY <2>1, <2>2
  <1>9. WaitsForItsOwn'
    <2>1. \A p \in pending' : Awaited(p)'
      BY <1>1, <1>2, <1>3, <1>4, WaitsSettle
    <2>2. \A s \in Slots : forms[s].wait # i
      <3>1. flight[i].slot \notin Slots
        BY <1>1, <1>3 DEF PageFlight, Sound, Slots
      <3> QED
        BY <1>1, <1>2, <1>4, <3>1, WaitsSettle
    <2>3. \A s \in Slots : forms'[s].wait = 0 \/ forms'[s].wait = forms[s].wait
      BY <1>3, BlankIs
    <2>4. \A s \in Slots : forms'[s].wait # 0 => flight'[forms'[s].wait].slot = s
      BY <1>1, <1>2, <1>4, <2>2, <2>3, WaitsSettle
    <2>5. renewing' # NoRow =>
            \E j \in DOMAIN flight' : flight'[j].op = "renew" /\ flight'[j].row = renewing'
      BY <1>1, <1>2, <1>3, <1>4, WaitsSettle
    <2> QED
      BY <2>1, <2>4, <2>5, OwnFrom
  <1>10. FormShowsItsRow'
    BY <1>1, <1>2, <1>3 DEF FormShowsItsRow, PageOpen
  <1>11. Accounted'
    BY <1>1, <1>2, AccountedAnswerLoad
  <1> QED
    BY <1>5, <1>6, <1>8, <1>9, <1>10, <1>11 DEF PagesInv, PageTypes, KeepsToItsOwn

LEMMA RolledBackIs ==
    ASSUME PagesInv, NEW q, q.flag \in Switches(view)
    PROVE  RolledBack(q) \in Lists /\ RowSet(RolledBack(q))
  <1>1. rows \in Lists /\ RowSet(rows) /\ view \in ViewNames
    BY ViewIsKnown DEF PagesInv, PageTypes, PageLists
  <1>2. PICK h : h = RolledBack(q)
    OBVIOUS
  <1>3. /\ h = [r \in DOMAIN rows |-> h[r]] /\ DOMAIN h = DOMAIN rows
        /\ \A r \in DOMAIN rows : h[r] \subseteq rows[r] \cup {q.flag}
    BY <1>2 DEF RolledBack
  <1>4. q.flag \in Flags(view) /\ Flags(view) \subseteq FlagNames
    BY <1>1, FlagsAre
  <1>5. \A r \in DOMAIN h : h[r] \subseteq Flags(view)
    BY <1>1, <1>3, <1>4 DEF RowSet
  <1>6. RowSet(h)
    BY <1>1, <1>3, <1>5 DEF RowSet
  <1>7. DOMAIN h \in SUBSET Ids /\ h \in [DOMAIN h -> SUBSET FlagNames]
    BY <1>1, <1>3, <1>4, <1>5 DEF RowSet, Ids
  <1> QED
    BY <1>2, <1>6, <1>7, ListIs

LEMMA AnswerToggleKeeps ==
    ASSUME PagesInv, NEW i \in 1 .. MaxFlight, AnswerToggle(i)
    PROVE  PagesInv'
  <1>1. PageTypes /\ PageScreen /\ PageFlags /\ PageForms /\ PageFlight /\ PageOpen
    BY DEF PagesInv, PageTypes
  <1>2. WaitsForItsOwn /\ FormShowsItsRow /\ Accounted
    BY DEF PagesInv, KeepsToItsOwn
  <1>3. /\ flight[i].op = "toggle"
        /\ rows' = IF flight[i].st = "ok" \/ ~Optimistic THEN rows ELSE RolledBack(flight[i])
        /\ UNCHANGED <<loading, loadError, extras, blocked, dialog, forms, renewing, tracked>>
    BY <1>1, AnswerToggleIs
  <1>4. PICK q \in Requests :
          /\ Settles(i, q)
          /\ IF flight[i].st = "ok" /\ ~Optimistic
             THEN q.op = "load" /\ pending' = pending
             ELSE q.op = "idle" /\ pending' = {p \in pending : p.req # i}
    BY <1>1, AnswerToggleIs
  <1>5. flight[i].slot \notin Slots /\ flight[i].flag \in Switches(view)
    BY <1>1, <1>3 DEF PageFlight, Sound, Slots
  <1>6. view' = view /\ flight' = [flight EXCEPT ![i] = q]
    BY <1>4 DEF Settles, Settle
  <1>7. rows' \in Lists /\ RowSet(rows')
    BY <1>3, <1>5, <1>6, RowsStay, RolledBackIs
  <1>8. PageScreen' /\ PageFlags' /\ PageLists' /\ PageWaits' /\ PageFlight' /\ PageOpen'
    <2>1. pending' \subseteq pending
      BY <1>4
    <2>2. renewing' \in Ids /\ tracked' \in Nat
      BY <1>1, <1>3 DEF PageScreen
    <2>3. /\ loading' \in BOOLEAN /\ loadError' \in BOOLEAN /\ extras' \in BOOLEAN
          /\ blocked' \in BOOLEAN /\ (blocked' => view = "backups")
      BY <1>1, <1>3 DEF PageFlags, PageOpen
    <2> QED
      BY <1>3, <1>4, <1>7, <2>1, <2>2, <2>3, AnswerTypes
  <1>9. Tracking'
    BY <1>3, <1>4, AnswerTracks
  <1>10. PageForms'
    BY <1>1, <1>3, <1>6, FormsKept
  <1>11. WaitsForItsOwn'
    <2>1. ASSUME NEW p \in pending'
          PROVE  Awaited(p)'
      <3>1. p \in pending
        BY <1>4, <2>1
      <3>2. CASE p.req # i
        BY <1>1, <1>2, <1>4, <3>1, <3>2, WaitsSettle
      <3>3. CASE p.req = i
        <4>1. q.op = "load" /\ ~Optimistic
          BY <1>4, <2>1, <3>3
        <4>2. flight'[i] = q
          BY <1>1, <1>6, Replaced
        <4> QED
          BY <1>6, <3>3, <4>1, <4>2 DEF Awaited, Optimistic
      <3> QED
        BY <3>2, <3>3
    <2>2. \A s \in Slots : forms[s].wait # i
      BY <1>1, <1>2, <1>4, <1>5, WaitsSettle
    <2>3. \A s \in Slots : forms'[s].wait # 0 => flight'[forms'[s].wait].slot = s
      BY <1>1, <1>2, <1>3, <1>4, <2>2, WaitsSettle
    <2>4. renewing' # NoRow =>
            \E j \in DOMAIN flight' : flight'[j].op = "renew" /\ flight'[j].row = renewing'
      BY <1>1, <1>2, <1>3, <1>4, WaitsSettle
    <2> QED
      BY <2>1, <2>3, <2>4, OwnFrom
  <1>12. FormShowsItsRow'
    BY <1>2, <1>3, ShowsKept
  <1>13. Accounted'
    BY <1>1, <1>2, AccountedAnswerToggle
  <1> QED
    BY <1>8, <1>9, <1>10, <1>11, <1>12, <1>13 DEF PagesInv, PageTypes, KeepsToItsOwn

LEMMA ReleasedIs ==
    ASSUME PageForms, NEW s \in Slots, NEW i
    PROVE  \E f \in FormStates :
             /\ Released(s, i) = [forms EXCEPT ![s] = f] /\ f.vals = forms[s].vals
             /\ f.key = forms[s].key
             /\ f.wait # i \/ f.wait = 0
             /\ f.wait = 0 \/ f.wait = forms[s].wait
  <1>1. PICK m \in FormStates : m = forms[s]
    BY DEF PageForms
  <1>2. PICK w : w = IF m.wait = i THEN 0 ELSE m.wait
    OBVIOUS
  <1>3. w \in 0 .. MaxFlight
    BY <1>2, ListPagesAssumption DEF FormStates
  <1>4. PICK f : f = [m EXCEPT !.wait = w]
    OBVIOUS
  <1>5. f \in FormStates /\ f.vals = m.vals /\ f.key = m.key /\ f.wait = w
    BY <1>1, <1>3, <1>4 DEF FormStates
  <1>6. Released(s, i) = [forms EXCEPT ![s] = f]
    BY <1>1, <1>2, <1>4 DEF Released
  <1> QED
    BY <1>1, <1>2, <1>5, <1>6

LEMMA AnswerDialogKeeps ==
    ASSUME PagesInv, NEW i \in 1 .. MaxFlight, AnswerDialog(i)
    PROVE  PagesInv'
  <1>1. PageTypes /\ PageScreen /\ PageFlags /\ PageForms /\ PageFlight /\ PageOpen
    BY DEF PagesInv, PageTypes
  <1>2. WaitsForItsOwn /\ FormShowsItsRow /\ Accounted
    BY DEF PagesInv, KeepsToItsOwn
  <1>3. PICK s : s = flight[i].slot
    OBVIOUS
  <1>4. s \in Slots /\ UNCHANGED <<rows, loadError, extras, blocked, renewing>>
    BY <1>1, <1>3, AnswerDialogIs
  <1>5. PICK q \in Requests :
          /\ Settles(i, q)
          /\ \/ /\ q.op = "idle" /\ (flight[i].st # "ok" \/ flight[i].op = "verify")
                /\ forms' = Released(s, i) /\ UNCHANGED <<loading, pending, dialog, tracked>>
             \/ /\ q.op = "load" /\ loading' \in BOOLEAN /\ pending' \subseteq pending
                /\ dialog' = IF dialog.slot = s THEN NoDialog ELSE dialog
                /\ \/ forms' = Released(s, i)
                   \/ dialog.slot = s /\ forms' = [Released(s, i) EXCEPT ![s] = Blank]
                /\ \/ tracked' = tracked
                   \/ flight[i].op = "create" /\ tracked' = tracked + 1
    BY <1>1, <1>3, AnswerDialogIs
  <1>6. view' = view
    BY <1>5 DEF Settles
  <1>7. flight[i].op \notin {"load", "toggle", "renew"}
    BY <1>1, <1>3, <1>4 DEF PageFlight, Sound, Slots
  <1>8. loading' \in BOOLEAN /\ pending' \subseteq pending /\ tracked' \in Nat
    BY <1>1, <1>5 DEF PageFlags, PageScreen
  <1>9. dialog' = dialog \/ dialog' = NoDialog
    BY <1>5
  <1>10. PageScreen' /\ PageFlags' /\ PageLists' /\ PageWaits' /\ PageFlight' /\ PageOpen'
    <2>1. rows' \in Lists /\ RowSet(rows') /\ renewing' \in Ids
      BY <1>1, <1>4, <1>6, RowsStay DEF PageScreen
    <2>2. /\ loadError' \in BOOLEAN /\ extras' \in BOOLEAN
          /\ blocked' \in BOOLEAN /\ (blocked' => view = "backups")
      BY <1>1, <1>4 DEF PageFlags, PageOpen
    <2> QED
      BY <1>5, <1>8, <1>9, <2>1, <2>2, AnswerTypes
  <1>11. Tracking'
    BY <1>5, AnswerTracks
  <1>12. PICK f \in FormStates :
           /\ Released(s, i) = [forms EXCEPT ![s] = f] /\ f.vals = forms[s].vals
           /\ f.key = forms[s].key
           /\ f.wait # i \/ f.wait = 0
           /\ f.wait = 0 \/ f.wait = forms[s].wait
    BY <1>1, <1>4, ReleasedIs
  <1>13. PICK g \in FormStates :
           /\ forms' = [forms EXCEPT ![s] = g] /\ g.vals \subseteq FormFlags(view)
           /\ g.wait # i \/ g.wait = 0
           /\ g.wait = 0 \/ g.wait = forms[s].wait
           /\ g.key = forms[s].key \/ dialog' = NoDialog
    <2>1. forms[s].vals \subseteq FormFlags(view) /\ forms \in [Slots -> FormStates]
      BY <1>1, <1>4 DEF PageForms
    <2>2. CASE forms' = Released(s, i)
      BY <1>12, <2>1, <2>2
    <2>3. CASE dialog.slot = s /\ dialog' = NoDialog /\ forms' = [Released(s, i) EXCEPT ![s] = Blank]
      <3>1. forms' = [forms EXCEPT ![s] = Blank]
        BY <1>4, <1>12, <2>1, <2>3
      <3> QED
        BY <2>3, <3>1, BlankIs
    <2> QED
      BY <1>5, <2>2, <2>3
  <1>14. PageForms' /\ forms'[s] = g /\ \A t \in Slots : t # s => forms'[t] = forms[t]
    BY <1>1, <1>4, <1>6, <1>13, FormReplaced
  <1>15. WaitsForItsOwn'
    <2>1. \A p \in pending' : Awaited(p)'
      <3>1. \A p \in pending : p.req # i
        BY <1>2, <1>7 DEF WaitsForItsOwn
      <3> QED
        BY <1>1, <1>2, <1>5, <1>8, <3>1, WaitsSettle
    <2>2. ASSUME NEW t \in Slots, forms'[t].wait # 0
          PROVE  flight'[forms'[t].wait].slot = t
      <3>1. forms'[t].wait = forms[t].wait
        BY <1>13, <1>14, <2>2
      <3>2. forms[t].wait # i
        <4>1. CASE t = s
          BY <1>13, <1>14, <2>2, <3>1, <4>1
        <4>2. CASE t # s
          BY <1>1, <1>2, <1>3, <1>5, <4>2, WaitsSettle
        <4> QED
          BY <4>1, <4>2
      <3> QED
        BY <1>1, <1>2, <1>5, <2>2, <3>1, <3>2, WaitsSettle
    <2>3. renewing' # NoRow =>
            \E j \in DOMAIN flight' : flight'[j].op = "renew" /\ flight'[j].row = renewing'
      BY <1>1, <1>2, <1>4, <1>5, <1>7, WaitsSettle
    <2> QED
      BY <2>1, <2>2, <2>3, OwnFrom
  <1>16. FormShowsItsRow'
    <2>1. CASE dialog' = NoDialog
      BY <2>1 DEF FormShowsItsRow, NoDialog
    <2>2. CASE dialog' # NoDialog
      <3>1. dialog' = dialog /\ \A t \in Slots : forms'[t].key = forms[t].key
        BY <1>9, <1>13, <1>14, <2>2
      <3>2. "form" \in Slots
        BY DEF Slots
      <3> QED
        BY <1>2, <3>1, <3>2 DEF FormShowsItsRow
    <2> QED
      BY <2>1, <2>2
  <1>17. Accounted'
    <2>1. \A r : ~AheadOf(i, r)
      BY <1>7 DEF AheadOf
    <2>2. Outdated(i) => q.op = "load"
      BY <1>5 DEF Outdated, Writes
    <2> QED
      BY <1>1, <1>2, <1>4, <1>5, <1>7, <2>1, <2>2, AccountedSettle
  <1> QED
    BY <1>10, <1>11, <1>14, <1>15, <1>16, <1>17 DEF PagesInv, PageTypes, KeepsToItsOwn

LEMMA AnswerRenewKeeps ==
    ASSUME PagesInv, NEW i \in 1 .. MaxFlight, AnswerRenew(i)
    PROVE  PagesInv'
  <1>1. PageTypes /\ PageScreen /\ PageFlags /\ PageForms /\ PageFlight /\ PageOpen
    BY DEF PagesInv, PageTypes
  <1>2. WaitsForItsOwn /\ FormShowsItsRow /\ Accounted
    BY DEF PagesInv, KeepsToItsOwn
  <1>3. /\ flight[i].op = "renew" /\ renewing' = NoRow
        /\ (tracked' = tracked \/ tracked' = tracked + 1)
        /\ UNCHANGED <<rows, loading, loadError, extras, blocked, dialog, forms, pending>>
    BY <1>1, AnswerRenewIs
  <1>4. PICK q \in Requests : Settles(i, q)
    BY <1>1, AnswerRenewIs
  <1>5. view' = view
    BY <1>4 DEF Settles
  <1>6. flight[i].slot \notin Slots
    BY <1>1, <1>3 DEF PageFlight, Sound, Slots
  <1>7. PageScreen' /\ PageFlags' /\ PageLists' /\ PageWaits' /\ PageFlight' /\ PageOpen'
    <2>1. rows' \in Lists /\ RowSet(rows') /\ renewing' \in Ids /\ tracked' \in Nat
      BY <1>1, <1>3, <1>5, RowsStay DEF PageScreen, Ids
    <2>2. /\ loading' \in BOOLEAN /\ loadError' \in BOOLEAN /\ extras' \in BOOLEAN
          /\ blocked' \in BOOLEAN /\ (blocked' => view = "backups")
      BY <1>1, <1>3 DEF PageFlags, PageOpen
    <2> QED
      BY <1>3, <1>4, <2>1, <2>2, AnswerTypes
  <1>8. Tracking'
    BY <1>3, <1>4, AnswerTracks
  <1>9. PageForms'
    BY <1>1, <1>3, <1>5, FormsKept
  <1>10. WaitsForItsOwn'
    <2>1. \A p \in pending' : Awaited(p)'
      <3>1. \A p \in pending : p.req # i
        BY <1>2, <1>3 DEF WaitsForItsOwn
      <3> QED
        BY <1>1, <1>2, <1>3, <1>4, <3>1, WaitsSettle
    <2>2. \A s \in Slots : forms'[s].wait # 0 => flight'[forms'[s].wait].slot = s
      BY <1>1, <1>2, <1>3, <1>4, <1>6, WaitsSettle
    <2> QED
      BY <1>3, <2>1, <2>2, OwnFrom
  <1>11. FormShowsItsRow'
    BY <1>2, <1>3, ShowsKept
  <1>12. Accounted'
    <2>1. (\A r : ~AheadOf(i, r)) /\ ~Outdated(i)
      BY <1>3 DEF AheadOf, Outdated, Writes
    <2> QED
      BY <1>1, <1>2, <1>3, <1>4, <2>1, AccountedSettle
  <1> QED
    BY <1>7, <1>8, <1>9, <1>10, <1>11, <1>12 DEF PagesInv, PageTypes, KeepsToItsOwn

LEMMA AnswerCallKeeps ==
    ASSUME PagesInv, NEW i \in 1 .. MaxFlight, AnswerCall(i)
    PROVE  PagesInv'
  <1>1. PageTypes /\ PageScreen /\ PageFlags /\ PageForms /\ PageFlight /\ PageOpen
    BY DEF PagesInv, PageTypes
  <1>2. WaitsForItsOwn /\ FormShowsItsRow /\ Accounted
    BY DEF PagesInv, KeepsToItsOwn
  <1>3. /\ flight[i].op \notin {"load", "toggle", "renew"} /\ flight[i].slot \notin Slots
        /\ UNCHANGED <<rows, loading, loadError, extras, blocked, dialog, forms, pending, renewing,
                       tracked>>
    BY <1>1, AnswerCallIs
  <1>4. PICK q \in Requests : /\ Settles(i, q)
                              /\ (flight[i].st = "ok" /\ flight[i].op \in Writes) => q.op = "load"
    BY <1>1, AnswerCallIs
  <1>5. view' = view
    BY <1>4 DEF Settles
  <1>6. PageScreen' /\ PageFlags' /\ PageLists' /\ PageWaits' /\ PageFlight' /\ PageOpen'
    <2>1. rows' \in Lists /\ RowSet(rows') /\ renewing' \in Ids /\ tracked' \in Nat
      BY <1>1, <1>3, <1>5, RowsStay DEF PageScreen
    <2>2. /\ loading' \in BOOLEAN /\ loadError' \in BOOLEAN /\ extras' \in BOOLEAN
          /\ blocked' \in BOOLEAN /\ (blocked' => view = "backups")
      BY <1>1, <1>3 DEF PageFlags, PageOpen
    <2> QED
      BY <1>3, <1>4, <2>1, <2>2, AnswerTypes
  <1>7. Tracking'
    BY <1>3, <1>4, AnswerTracks
  <1>8. PageForms'
    BY <1>1, <1>3, <1>5, FormsKept
  <1>9. WaitsForItsOwn'
    <2>1. \A p \in pending' : Awaited(p)'
      <3>1. \A p \in pending : p.req # i
        BY <1>2, <1>3 DEF WaitsForItsOwn
      <3> QED
        BY <1>1, <1>2, <1>3, <1>4, <3>1, WaitsSettle
    <2>2. \A s \in Slots : forms'[s].wait # 0 => flight'[forms'[s].wait].slot = s
      BY <1>1, <1>2, <1>3, <1>4, WaitsSettle
    <2>3. renewing' # NoRow =>
            \E j \in DOMAIN flight' : flight'[j].op = "renew" /\ flight'[j].row = renewing'
      BY <1>1, <1>2, <1>3, <1>4, WaitsSettle
    <2> QED
      BY <2>1, <2>2, <2>3, OwnFrom
  <1>10. FormShowsItsRow'
    BY <1>2, <1>3, ShowsKept
  <1>11. Accounted'
    <2>1. \A r : ~AheadOf(i, r)
      BY <1>3 DEF AheadOf
    <2>2. Outdated(i) => q.op = "load"
      BY <1>4 DEF Outdated
    <2> QED
      BY <1>1, <1>2, <1>3, <1>4, <2>1, <2>2, AccountedSettle
  <1> QED
    BY <1>6, <1>7, <1>8, <1>9, <1>10, <1>11 DEF PagesInv, PageTypes, KeepsToItsOwn

-----------------------------------------------------------------------------
(* The theorems.                                                           *)

LEMMA PagesInitially ==
    ASSUME Init
    PROVE  PagesInv
  <1>1. /\ view \in Views /\ admin \in BOOLEAN /\ mobile = FALSE /\ hidden = {} /\ job = "none"
        /\ rows = <<>> /\ loading = (view # "whitelists") /\ loadError = FALSE /\ extras = FALSE
        /\ blocked = FALSE /\ dialog = NoDialog /\ forms = [s \in Slots |-> Blank]
        /\ pending = {} /\ renewing = NoRow /\ tracked = 0
        /\ clicks = 0 /\ faults = 0 /\ doubt = FALSE
    BY DEF Init
  <1>2. view \in ViewNames /\ MaxFlight \in Nat \ {0} /\ MaxClicks \in Nat /\ MaxFaults \in Nat
    BY <1>1, ListPagesAssumption
  <1>3. PageScreen
    BY <1>1, <1>2 DEF PageScreen, NoDialog, Ids
  <1>4. PageFlags
    BY <1>1, Zenon DEF PageFlags
  <1>5. PageLists
    <2>1. PICK f \in Seeds(view) : server = [r \in Initial |-> f]
      BY DEF Init
    <2>2. f \subseteq Flags(view) /\ Flags(view) \subseteq FlagNames
      BY <1>2, SeedsAre, FlagsAre
    <2>3. Initial \subseteq Rows
      BY ListPagesAssumption
    <2>4. RowSet(server)
      BY <2>1, <2>2, <2>3 DEF RowSet
    <2>5. Initial \in SUBSET Ids /\ server \in [Initial -> SUBSET FlagNames]
      BY <2>1, <2>2, <2>3 DEF Ids
    <2>6. rows \in Lists /\ RowSet(rows)
      BY <1>1, EmptyList DEF RowSet
    <2> QED
      BY <2>4, <2>5, <2>6, ListIs DEF PageLists
  <1>6. PageForms
    BY <1>1, BlankIs DEF PageForms
  <1>7. PageWaits
    BY <1>1 DEF PageWaits
  <1>8. PICK q : q = Request("load", "none", NoRow)
    OBVIOUS
  <1>9. q \in Requests /\ Sound(q) /\ q.op = "load" /\ q.st = "sent"
    BY <1>8, LoadIs
  <1>10. flight = [i \in 1 .. MaxFlight |-> IF Mounted /\ i = 1 THEN q ELSE Idle]
    BY <1>8 DEF Init
  <1>11. PageFlight
    BY <1>9, <1>10, IdleIs DEF PageFlight
  <1>12. PageOpen
    BY <1>1 DEF PageOpen, NoDialog
  <1>13. Tracking
    <2>1. InFlight({"renew", "create"}) = {}
      BY <1>9, <1>10, IdleIs DEF InFlight
    <2>2. Pledged = 0
      BY <2>1, FS_EmptySet DEF Pledged
    <2> QED
      BY <1>1, <2>2 DEF Tracking
  <1>14. KeepsToItsOwn
    BY <1>1, BlankIs DEF KeepsToItsOwn, WaitsForItsOwn, FormShowsItsRow, Saving, NoDialog
  <1>15. Accounted
    <2>1. Written = {}
      BY <1>9, <1>10, IdleIs DEF Written, InFlight, Writes
    <2>2. \A i \in Loads : flight[i].st = "sent"
      BY <1>9, <1>10, IdleIs DEF Loads, InFlight
    <2>3. Mounted => 1 \in Loads
      BY <1>2, <1>9, <1>10 DEF Loads, InFlight
    <2> QED
      BY <2>1, <2>2, <2>3 DEF Accounted, Apart, OnePerRow, UpToDate
  <1> QED
    BY <1>3, <1>4, <1>5, <1>6, <1>7, <1>11, <1>12, <1>13, <1>14, <1>15 DEF PagesInv, PageTypes

LEMMA PagesStutter ==
    ASSUME PagesInv, UNCHANGED vars
    PROVE  PagesInv'
  <1>1. UNCHANGED <<view, admin, mobile, hidden, server, job, rows, loading, loadError, extras, blocked,
                    dialog, forms, flight, pending, renewing, tracked, clicks, faults, doubt>>
    BY DEF vars
  <1>2. /\ PageTypes /\ PageScreen /\ PageFlags /\ PageLists /\ PageForms /\ PageWaits /\ PageFlight
        /\ PageOpen /\ Tracking
    BY DEF PagesInv, PageTypes
  <1>3. WaitsForItsOwn /\ FormShowsItsRow /\ Accounted
    BY DEF PagesInv, KeepsToItsOwn
  <1>4. PageScreen'
    BY <1>1, <1>2 DEF PageScreen
  <1>5. PageFlags'
    BY <1>1, <1>2 DEF PageFlags
  <1>6. PageLists' /\ PageForms' /\ PageWaits' /\ PageFlight' /\ PageOpen'
    BY <1>1, <1>2, ListsKept, FormsKept, WaitsKept, FlightKept, OpenKept
  <1>7. Tracking'
    BY <1>1, <1>2, PledgedKept DEF Tracking
  <1>8. WaitsForItsOwn' /\ FormShowsItsRow'
    BY <1>1, <1>3, OwnKept, ShowsKept
  <1>9. Accounted'
    BY <1>1, <1>3, AccountedLooks DEF Looks
  <1> QED
    BY <1>4, <1>5, <1>6, <1>7, <1>8, <1>9 DEF PagesInv, PageTypes, KeepsToItsOwn

\* Every step of a page, of the API or of the worker keeps the invariant.
THEOREM PagesInductive == Spec => []PagesInv
  <1>1. ASSUME PagesInv, Next
        PROVE  PagesInv'
    <2>1. CASE Operator
      <3>1. ASSUME NEW r \in Rows, Renew(r)
            PROVE  PagesInv'
        BY <1>1, <3>1, RenewKeeps
      <3>2. ASSUME NEW r \in Rows, NEW f \in Switches(view), Toggle(r, f)
            PROVE  PagesInv'
        BY <1>1, <3>2, ToggleKeeps
      <3>3. ASSUME NEW r \in Rows \cup {NoRow}, NEW c \in DOMAIN SlotOf, Open(c, r)
            PROVE  PagesInv'
        BY <1>1, <3>3, OpenKeeps
      <3>4. ASSUME NEW r \in Rows \cup {NoRow},
                   NEW c \in {"resend", "download", "remove", "take", "upload"}, Call(c, r)
            PROVE  PagesInv'
        BY <1>1, <3>4, CallKeeps DEF Ids
      <3>5. ASSUME NEW H \in Searches, Search(H)
            PROVE  PagesInv'
        BY <1>1, <3>5, SearchKeeps
      <3>6. ASSUME NEW f \in FormFlags(view) \cup {"other", "hostname"}, EditField(f)
            PROVE  PagesInv'
        BY <1>1, <3>6, EditFieldKeeps
      <3>7. Dismiss \/ Submit \/ Resize \/ Retry => PagesInv'
        BY <1>1, DismissKeeps, SubmitKeeps, ResizeKeeps, LoadKeeps
      <3> QED
        BY <2>1, <3>1, <3>2, <3>3, <3>4, <3>5, <3>6, <3>7 DEF Operator
    <2>2. ASSUME NEW i \in 1 .. MaxFlight, Served(i) \/ Refuse(i) \/ Lose(i)
          PROVE  PagesInv'
      BY <1>1, <2>2, ServeLoadKeeps, ServedKeeps DEF Served
    <2>3. ASSUME NEW i \in 1 .. MaxFlight, Answered(i)
          PROVE  PagesInv'
      BY <1>1, <2>3, AnswerLoadKeeps, AnswerToggleKeeps, AnswerDialogKeeps, AnswerRenewKeeps,
         AnswerCallKeeps DEF Answered
    <2>4. Capabilities \/ PollEnds \/ Poll \/ JobEnds => PagesInv'
      BY <1>1, CapabilitiesKeeps, LoadKeeps, JobEndsKeeps
    <2> QED
      BY <1>1, <2>1, <2>2, <2>3, <2>4 DEF Next
  <1>2. PagesInv /\ [Next]_vars => PagesInv'
    BY <1>1, PagesStutter
  <1>3. Init => PagesInv
    BY PagesInitially
  <1> QED
    BY <1>2, <1>3, PTL DEF Spec

\* The state of a page keeps its types: rows have the flags of their view only,
\* a form sends nothing but the flags of its view, and no more tasks are tracked
\* than were started.
THEOREM PagesTypeCorrect == Spec => []TypeOK
  <1>1. ASSUME PagesInv
        PROVE  TypeOK
    <2>1. /\ PageScreen /\ PageFlags /\ PageLists /\ PageForms /\ PageWaits /\ PageFlight
          /\ Tracking
      BY <1>1 DEF PagesInv, PageTypes
    <2>2. /\ view \in Views /\ hidden \subseteq Rows /\ job \in {"none", "backup", "restore"}
          /\ dialog.slot \in Slots \cup {"none"} /\ dialog.row \in Rows \cup {NoRow}
          /\ renewing \in Rows \cup {NoRow} /\ clicks \in 0 .. MaxClicks /\ faults \in 0 .. MaxFaults
      BY <2>1 DEF PageScreen, Ids
    <2>3. /\ admin \in BOOLEAN /\ mobile \in BOOLEAN
          /\ {loading, loadError, extras, blocked, doubt} \subseteq BOOLEAN
      BY <2>1 DEF PageFlags
    <2>4. \A s \in Slots :
            /\ forms[s].key \in Rows \cup {NoRow} /\ forms[s].vals \subseteq FormFlags(view)
            /\ forms[s].dirty \in BOOLEAN /\ forms[s].wait \in 0 .. MaxFlight
      BY <2>1 DEF PageForms, FormStates, Ids
    <2>5. DOMAIN flight = 1 .. MaxFlight
      BY <2>1 DEF PageFlight
    <2>6. \A p \in pending : p.row \in Rows /\ p.flag \in Switches(view) /\ p.req \in 1 .. MaxFlight
      BY <2>1 DEF PageWaits
    <2>7. tracked \in 0 .. MaxClicks
      <3>1. Pledged \in Nat
        BY <2>1, FlightFinite DEF Pledged
      <3> QED
        BY <2>1, <3>1, ListPagesAssumption DEF PageScreen, Tracking
    <2> QED
      BY <2>1, <2>2, <2>3, <2>4, <2>5, <2>6, <2>7 DEF TypeOK, PageLists
  <1> QED
    BY <1>1, PagesInductive, PTL

\* No control of a page waits for another's request, none is stranded, and a
\* form is never shown for a row it was not seeded for.
THEOREM KeepsToItsOwnHolds == Spec => []KeepsToItsOwn
  <1>1. PagesInv => KeepsToItsOwn
    BY DEF PagesInv
  <1> QED
    BY <1>1, PagesInductive, PTL

\* A page that came to rest shows what the API holds, unless a load crossed a
\* write, two writes of a row crossed or an answer was lost since its last load.
THEOREM SettledRowsHolds == Spec => []SettledRows
  <1>1. ASSUME PagesInv, Mounted, Quiet, ~doubt, ~loadError
        PROVE  rows = server
    <2>1. \A i \in DOMAIN flight : flight[i].op = "idle"
      BY <1>1 DEF Quiet
    <2>2. Loads = {} /\ \A i \in DOMAIN flight : ~Outdated(i) /\ \A r : ~AheadOf(i, r)
      BY <2>1 DEF Loads, InFlight, Outdated, AheadOf, Writes
    <2>3. Agree
      BY <1>1, <2>2 DEF PagesInv, Accounted, UpToDate
    <2>4. DOMAIN rows = DOMAIN server /\ \A r \in DOMAIN server : rows[r] = server[r]
      BY <2>2, <2>3 DEF Agree, AgreeAt
    <2>5. rows \in [DOMAIN rows -> SUBSET FlagNames] /\ server \in [DOMAIN server -> SUBSET FlagNames]
      BY <1>1, ListHas DEF PagesInv, PageTypes, PageLists
    <2> QED
      BY <2>4, <2>5
  <1>2. PagesInv => SettledRows
    BY <1>1 DEF SettledRows
  <1> QED
    BY <1>2, PagesInductive, PTL

=============================================================================
