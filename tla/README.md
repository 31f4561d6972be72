# MegooPM: TLA+ models, checks and proofs

MegooPM is a management plane for nginx (OpenResty): a FastAPI backend keeps
hosts, upstream pools, streams, certificates and access lists in Postgres;
Celery workers render them to nginx files, validate and reload; several nodes
may share one database, one broker and one file mount (HA). A console written
in React drives it over the REST API. This directory holds TLA+ models of the
parts where several actors meet, the TLC runs that check them, and TLAPS
proofs. Paths of Python files are relative to `src/backend/app`, those of
TypeScript files to `src/frontend/src`.

## 1. The system

| component | state | operations | meets whom |
|---|---|---|---|
| config-write seam (`api/routes/_config_writes.py`, `api/routes/nginx.py`) | rows in Postgres | commit a change, then enqueue a reload; manual reload | nginx tasks, through the broker |
| nginx tasks (`tasks/nginx.py`) | task locals | `reload_nginx_config`, `reconcile_local_nginx`, push to peers, render at worker start | engine, lock, version, markers, registry |
| apply engine (`services/nginx/engine.py`, `controller.py`) | managed files in two or three directories, the running nginx | write file by file, `nginx -t`, reload, roll back | shared mount, nginx |
| cluster coordination (`services/cluster/*`, `core/celery_app.py`) | `cluster_state`, `cluster_node`, `cluster_sweep`, advisory locks, one marker file per node | apply lock, leader lock, bump, heartbeat, claim of a sweep, beat | every node |
| certificates (`api/routes/certificates.py`, `services/certs/*`, `tasks/certs.py`) | certificate rows, PEM files and their temporaries | request, upload, renew, delete, issue, daily sweep | ACME, loader, nginx tasks |
| loader and renderer (`services/nginx/loader.py`, `renderer.py`, `default_tls.py`) | none | database to file set | nginx tasks |
| proxy inventory (`services/proxy_host.py`, `upstream.py`, `stream.py`, ...) | rows | CRUD with reference checks | config-write seam |
| backup and restore (`tasks/backup.py`, `services/backup/*`) | archives, a Redis lock, the restore gate | create, restore, retention, tick | database, files, nginx tasks |
| CrowdSec (`tasks/crowdsec.py`, `services/crowdsec/*`) | whitelist files, job runs, CAPI state | apply whitelists, hub update, register, WAF settings | one container, two locks |
| authentication (`services/auth_tokens.py`, `totp.py`, `passkeys.py`, `rate_limit.py`, ...) | tokens, codes, counters | log in, refresh, reset, invite | Redis, Postgres |
| live logs, metrics, analytics, events | Redis streams and counters | scrape, flush, relay | Redis |
| list pages (`components/*/*-view.tsx`, `hosts/enabled-toggle.tsx`) | rows, open dialog, switches that wait, tracked tasks | load, flip a switch, open and save a dialog, delete, renew, poll | API |
| paged tables (`components/security/security-view.tsx`, `audit-log/audit-log-view.tsx`) | search, page, rows, requests in flight | type, turn the page, ban and unban | API |
| dialogs and forms (`components/**/*-dialog.tsx`, `components/auth/*`, `*/lib.ts`) | form, open tab, error line | edit a control, check, send | API |
| upstream dialog (`components/upstreams/upstream-dialog.tsx`) | form, pool as it was opened | save as a row of requests | API |
| settings page (`components/settings/*`) | six forms, the row of the last answer | load, save, test, each card for itself | API |
| session (`lib/auth/*`, `lib/api/client.ts`, `proxy.ts`, `components/login-form.tsx`) | cookies, user, remembered accounts | sign in, second factor, refresh, sign out | every request of the console |
| live logs page (`components/live-logs/*`) | socket, buffers, rendered lines, timers | connect, watch, pause, clear, select, leave | server socket |
| profile cards (`components/profile/*-card.tsx`) | modes, key rows, secrets shown | create, switch and delete keys, turn the second factor on and off | API, session |
| page editor (`components/custom-pages/*`) | document, saved document, model request | edit, save, ask the model, cancel, revert | API, language model |
| dashboard, metrics, charts, UI kit, API types | none | reads | API |

What is hard here: a reload is asked for after the commit and runs later, in a
pool of processes on several nodes; the files, the running nginx, the marker
and the version live in four places that no transaction spans; Celery
acknowledges a task when it is taken, so a task that dies is gone; pushes are
best effort; every node's beat emits every periodic task; issuance takes
minutes during which the row may be renewed, refused or deleted by others.
In the console every answer is late: requests overlap with each other, with
the operator's next click, with timers and with leaving the page, an answer
may be lost after its request was applied, and the screen keeps copies (rows,
baselines, cookies, buffers) of what the API holds. `PROJECT.json` lists these
hazards at their lines.

What makes the parts correct:
- apply: what nginx loads is what `nginx -t` accepted; a failed apply leaves
  the files as it found them; a version stands for exactly one file set;
- propagation: no node claims a version it does not have; every node gets there;
- database to nginx: in the end nginx serves what the database says, or the
  rejection is reported;
- certificates: an active row has its two files and they match; due
  certificates are renewed, once per period; renewals are loaded by nginx;
- pages and tables: at rest the screen shows what the API holds for what was
  asked, and no control waits for a request that is gone;
- forms: what is sent is what was entered, nothing else is changed, secrets
  are kept, replaced or removed as asked, and errors are shown where they are;
- session: the user shown owns the tokens, and signed out means no tokens;
- live logs: what is watched is what is picked, no line is lost unseen or
  counted twice, and only a revoked access ends the stream.

## 2. Modules

| module | models |
|---|---|
| `NginxCluster` | the API seam, `reload_nginx_config`, `apply_config`, `reconcile_local_nginx`, lock, version, markers, registry, beat and failures |
| `PublishedConfig` | the abstract specification: a register of accepted file sets with a version that counts its changes |
| `MCNginxCluster` | the small file sets and node assignments of the runs |
| `NginxClusterProofs` | theorems about `NginxCluster` |
| `CertLifecycle` | certificate routes, issuance with its file operations, delete, renewal sweep, and an apply as one step |
| `MCCertLifecycle` | the symmetry set of its runs |
| `CertLifecycleProofs` | its types, the files of an active certificate, one task per certificate and what it leaves behind |
| `ListPages`, `MCListPages` | the twelve list pages, one mounted per behaviour |
| `ListPagesProofs` | theorems about `ListPages` |
| `PagedTables` | decisions, alerts and the audit log |
| `PoolDialog` | the upstream dialog and the API's pool |
| `Session` | auth provider, request helper, route guards, login form |
| `LiveLogs` | the live logs hook and view |
| `ProfileCards` | API keys, authenticator app, passkeys |
| `PageEditor` | the custom page editor |
| `Console` | composes the six modules above |
| `PageEditorProofs`, `LiveLogsProofs` | theorems about the page editor and the live logs inside `Console` |
| `AccountProofs` | theorems about the profile cards and the session inside `Console` |
| `ConsoleProofs` | the paged tables, the pool dialog and the types of the whole `Console` |
| `FormBasics` | what forms share: a row, a field, a check |
| `AccountForms` | controls, seeds, checks and payloads of eight forms about people and secrets |
| `HostForms` | the same for seven dialogs, and the life of any form: open, edit, check, send, answer |
| `SettingsCards` | the settings page |
| `Inventory`, `ConsoleForms` | the rows the forms are opened on; composes forms and settings page |
| `FormsProofs` | theorems about `ConsoleForms` |

### NginxCluster

`desired` is the file set the database renders to; a file set is a function
from file names to contents. Two files of the instances stand for an upstream
pool and a host that refers to it: the host without the pool is what nginx
rejects. `disk` is the shared mount, `running[n]` what node n's nginx holds,
`marker[n]` its marker file, `version`, `lastOk` and `registry` are columns,
`lock` the advisory lock under HA and the `flock` otherwise. A worker slot is
a Celery pool process with the program counter `pc` and the task's locals.
`pub`, `loadedAt`, `snaps`, `newest` and `cut` are history variables: no guard
reads them. `loadedAt[n]` is the version committed when node n last loaded.

An apply is `StartApply` (load the desired state), `AcquireLock` (and compare),
`WriteFile` once per file in the order `_sync_to` allows, `TestConfig`,
`ReloadNginx`, `RollbackFile`, `ReloadAgain`, `CommitApply` (bump and release
in one commit), `WriteMarker`, `RecordState`, `Finish`, `Push`. A reconcile is
`StartReconcile`, `CheckMarker`, `ReconcileTest`, `ReconcileReload`,
`ReconcileMark`, `ReconcileRecord`. `TestCommand` and `ReloadCommand` return
nginx's verdict, or "not ok" for a command that failed or timed out, in which
case the signal may have been taken all the same. `TaskDies`, `RestartWorker`
and `EnqueueLost` are the crashes; a restarted worker finds its marker or, if
its container was recreated, none.

Choices: `last_apply_ok` starts as NULL in the code and as TRUE here, where
"no apply yet" and "the last was healthy" need not be told apart; a queue of
reconciles for a node is a set, as identical reconciles have the effect of one;
a reconcile expires only while all slots of its node are busy; nginx loads a
file set in one step; restarts of nginx itself are not modelled.

### CertLifecycle

A row is four columns (`provider`, `status`, `expiry`, `fp` for the
fingerprint); `mat` and `tmp` are the final and the temporary files of each
certificate, known by the number of the issuance whose bytes they hold, with 0
for no file and -1 for a partial one. `_atomic_write` is four steps: open with
truncation, write, rename, unlink in `finally`. Temporary names are fixed, so
two tasks can share one: `fd` says where the bytes a task writes go, and
follows the file through renames and unlinks (`Follow`). `seen` is the status
the session loaded: SQLAlchemy writes a column only when it differs from it
(`StatusToSave`). A delete is three steps inside one transaction (row, files,
commit), and updates of the row wait for it. The sweep is `Beat`, `StartSweep`
(leader lock, tried once), `ClaimSweep`, `EnqueueDue`; `NewPeriod` is the next
day.

Choices: an upload writes a fresh directory of a row no one can see, and is one
step (with the failed commit as its other outcome); removing a directory is one
step; ids are not reused; certificates come near expiry only when no task is at
work on them, and a day is longer than the tasks of the day before (renewal
starts 30 days ahead, and a claim is refused for 12 hours); a certificate has
names that no other certificate or host claims, so that `plan_default_tls`
renders it once it is active; the apply is one
step here, with its interleavings in `NginxCluster`; an apply that fails leaves
nginx as it was.

### The console

All console modules have the same build. A request is sent, then served or
refused by the API, then answered or its answer lost, each a step of its own;
between them the operator and the timers act. A React handler runs to its next
`await` in one step, and what it read before is part of the request's record
(`flight`, `asks`, `calls`, `todo`, `assists`, `cardSaves`), so that a stale
closure is stale in the model too. Unmounting a component drops its state and
keeps its requests. Variables marked "history" in the modules record what
happened (two requests overlapped, an answer was lost); no guard reads them.

`ListPages`: `view` is the mounted page; a table of features says which
switches, dialogs and buttons it has. A row is the set of its flags that are
on. `setEnabled` flips, sends and rolls back; `forms` holds the state of each
dialog component with its `key`; certificates track tasks with `pollTask`, the
backups page polls and shows the restore screen.

`PagedTables`: an effect run is a request with its `active` flag; the cleanup
of the next run clears it. `total` may change under the page, so `clampPage`
has to step back.

`PoolDialog`: `todo` is the row of requests `handleSubmit` still has to make,
worked out against `original`, and `attached` the contexts in which hosts and
streams use the pool, which an update may not drop; a round of its loops that would ask for nothing
is passed over (`Due`); a failure stops it, the form stays open.

`Session`: `calls` are requests with the token they carry; a rejected one
refreshes once and is repeated. `attempt` is the sign-in under way, with the
second factor as a second step.

`LiveLogs`: `link` follows the ticket, the socket and the retry timer;
`buffers` is the ref lines arrive in, `lines` what is rendered, `flushTimer`
the flush in between.

`ProfileCards`: each card is a small dialogue of modes; the switches of keys
run beside it. `PageEditor`: `doc` and `savedDoc` decide `dirty`; `assists`
are the requests to the model with the document they were sent.

`HostForms` and `AccountForms`: a field holds a representative of each class
of text the checks tell apart (`""`, `" "`, valid, invalid, with a fraction,
and `"loose"` for what the form lets through and the API's parser refuses, such
as any text with a colon in a list of addresses). A form kind is its controls,
its seed, its checks in the code's order with the tab each opens, and its
payload; `ApiRefuses` and `CardRefused` are what the backend's schemas and
services refuse, `UsersAfter`, `KeptAfter` and `Apply` what they do. `SettingsCards` holds six forms over one row with a number, so that an
older row can be told from a newer one.

A dialog is opened on a new row or on one of `Stored[k]`, which `DialogConstants`
keeps inside `RowsOf(k)`: what the columns, the check constraints and the schemas
of the backend leave (`host_target_exactly_one`, `location_target_exactly_one`,
`stream_target_exactly_one`, `access_list_auth_username`, the two kinds of
whitelist), with the texts the console itself writes. Ids, user names, addresses
and hashes are any set `Texts`; tables have any length.

`Console` and `ConsoleForms` start in one part and stay there: the router
shows one page at a time and its state is gone when another is shown, so the
parts add up instead of multiplying. Requests that outlive their page are in
the modules (`"left"`, unmounted), as far as they act on anything.

## 3. Runs

All runs use small instances with model values. Bounds are named in the
modules (`MaxEdits`, `MaxRequests`, `MaxFaults`, `MaxCrashes`, `MaxRenewals`,
`MaxExpiries`, `MaxDeletes`, `MaxAttaches`; in the console those of clicks,
edits, saves, requests and faults, as the cfgs list them) and spent in guards.

| run | instance | holds |
|---|---|---|
| `HaFaults` | 2 nodes with a slot each, 2 edits, 1 fault | TypeOK, AppliedAsValidated, VersionFaithful, UnchangedMeansPublished, ImplementsRegister |
| `HaCrash` | 2 nodes, 1 edit, 1 manual reload, 1 crash | NeverAhead, LoadedIsServed, ReconcileClaimsWhatItLoaded |
| `HaConverge` | 2 nodes, 1 edit, 1 manual reload, 1 fault, fair | MarkersConverge, NodesConverge |
| `OneHost` | 1 node, 2 slots, 3 edits, 1 manual reload, 1 fault, fair | NeverHalfApplied, EditsReachNginx |
| `CertFaults` | 1 certificate, 2 slots, 2 renewals, 1 refusal, 1 delete, 1 crash | ActiveHasMaterial, SettledAsIssued |
| `CertLive` | 1 certificate, 2 HA nodes, 2 expiries, 1 refusal, 1 crash, fair | TypeOK, OneIssuanceAtATime, DueIsRenewed, IssuancesComplete |
| `Pages` | each of 12 pages, 2 rows, 2 clicks in flight at a time, 1 fault, fair | TypeOK, SettledRows, KeepsToItsOwn, ComesToRest |
| `Forms` | 15 forms on new and stored rows, 3 edits, 2 saves; settings page with 4 choices of cards worked in, 3 edits, 2 requests, 1 fault; fair | FormsTypeOK, FitForApi, SentAsEntered, SecretsAsEntered, CleanCardIsStored, ErrorIsShown, FormsSettle |
| `Console`, fair: | all parts | ConsoleTypeOK, ConsoleSettles |
| | tables: 2 queries, pages of 2, at most 3 rows, 2 inputs, 1 error | ShownIsAsked |
| | pool: 3 rows, 3 edits, 1 fault | PoolReconciles |
| | session: 2 accounts, one with a second factor, 2 calls, 1 sign-in, 1 rejected token, 1 failure, 1 reload | SessionIsWhatItSays |
| | live logs: 2 hosts, tabs that keep 1 line, 2 lines, 2 picks, 2 presses, 1 drop | WatchReachesServer, LinesAccountedFor, NothingAfterTheEnd |
| | profile: 2 keys, 4 uses, 2 faults | CardsMatchServer |
| | editor: 3 documents, one too large, 1 stroke, 2 prompts, 2 saves, 1 fault | CleanIsStored, CancelledNeverLands |

Several of these are conjunctions of named parts, each with its own comment in
its module: `IssuancesComplete` of `PendingResolves` and `RenewalsAreServed`;
`KeepsToItsOwn` of `WaitsForItsOwn` and `FormShowsItsRow`; `FitForApi` of
`AcceptedByApi` and `CardsFitApi`; `SentAsEntered` of `OnlyEditsAreSent`
(what was left alone is sent as stored) and `EditsAreSent` (every field with the
meaning of what it shows, every row of a table cell by cell); `SecretsAsEntered` of `PasswordsAsEntered` and
`SecretAsAsked`; `PoolReconciles`, `SessionIsWhatItSays`, `LinesAccountedFor`,
`CardsMatchServer` and `ConsoleSettles` of the parts `Console` lists.

Two nodes are enough for every pairwise race on the lock, the files, the
version and the markers; two edits let one snapshot overtake another; one
fault or crash meets every step. A second crash or fault adds nothing that a
single one followed by the remaining steps does not show, except for the
proved properties, whose theorems have no bound on either. Runs on one host
without HA stop when their edits are used up, hence `CHECK_DEADLOCK FALSE` in those cfgs.

In the console two requests in flight give every order of their answers; three
edits let a mode be left, changed and come back; two saves let a failure be
retried; a tab that keeps one line overflows with the second; a list of three
rows in pages of two has a last page that can disappear. An operator who has
used up the bounds stops, hence `CHECK_DEADLOCK FALSE`.

Fairness: weak fairness of enqueueing, of taking a queued task, of the steps of
a task that was taken, of beat and of the passing days. Redis keeps the queue
and the workers keep consuming it; a task runs to its end unless it dies, which
is an action of its own; beat runs on every node. Nothing is assumed of users,
ACME, faults or crashes. Lock acquisition is only weakly fair: a bounded number
of applies compete for it. In the console: requests are served and answered
(or fail, which `fetch` reports), timers fire (debounce, flush, retry, poll),
effects run after a render and a navigation that was started completes.
Nothing is assumed of the operator.

### What the code does otherwise than its text says

Each of these runs is expected to be violated; `PROJECT.json` quotes the line
that says otherwise.

| run | property | behaviour |
|---|---|---|
| `StaleSnapshot` | DrainedIsDesired | the desired state is loaded before the lock: the older of two snapshots may be written last, and stays |
| `PoolAsEntered` | PoolAsEntered | after a save that failed half way, an edit taken back is not sent: the dialog reports success and the pool keeps the first change |
| `OffMeansOff` | OffMeansOff | two clicks on a key's switch and two refused writes: the second rollback shows the key off while it works |

More behaviours of the same kind follow from the models and have no run of
their own. TLC shows each when the property is added as an `INVARIANT` to the
cfg named:

| property, cfg | behaviour |
|---|---|
| LastOutcomeIsNewest, `OneHost` | `_finish` runs after the lock is released: the outcome of the older of two applies may be recorded last (`tasks/nginx.py:159`), though `models/cluster_state.py:45` calls it "the outcome of the most recent apply, whatever it was" |
| ServesWhatItReports, `HaConverge` | an apply that finds nothing to change marks the shared version although this nginx never loaded the files (`tasks/nginx.py:157`); `models/cluster_state.py:75` says "the config version this node has actually reloaded nginx for" |
| NoneLeftHalfApplied, `HaFaults` | a reconcile loads, without the lock, half of a set that another node then rolls back; the version does not move, so it stays loaded (`tasks/nginx.py:273`, against `services/nginx/engine.py:131`) |
| UnchangedMeansPublished, `HaCrash` | a task that dies between the last file and the commit leaves files no version stands for, and the next apply finds nothing to change (`tasks/nginx.py:148`, against `:132`) |
| NeverPartial, `CertFaults` | two issuances of one certificate share a temporary name, and one renames what the other has just truncated (`services/certs/storage.py:56`, against `:11`) |
| StatusIsLastOutcome, `CertFaults` | a success that loaded an `active` row writes no status, so it does not undo a `failed` that another task committed meanwhile (`tasks/certs.py:65`, against `services/certs/issuance.py:92`) |

Two more are plain in the code and stated as no property: what is typed while
the model is at work is in neither the answer nor the document that Revert AI
edit brings back (`custom-page-editor-view.tsx:246`, `BeforeAi`), and a host may
reference a pending certificate, whose missing files fail every apply
(`services/nginx/loader.py:169`).

Some properties hold only under a condition, which is stated in the property or
in the bounds of its run, and TLC finds a counterexample without it:

- `VersionFaithful` and `UnchangedMeansPublished` without crashes inside the
  lock;
- `NeverHalfApplied` on one host: reconciles load without the lock
  (`NoneLeftHalfApplied` above);
- `EditsReachNginx` if no command fails, no apply with an old snapshot is left to
  write it last (`NoStaleApply`; run `StaleSnapshot` shows one that does) and
  outcomes are recorded in the order of the applies (`LastOutcomeIsNewest`);
- `LoadedIsServed` and `NodesConverge` if no apply is rolled back: a reconcile may
  load the files before the rollback, and the version does not move afterwards;
  `NodesConverge` moreover for nodes whose marker does not name a version they
  never loaded (`ServesWhatItReports` above);
- `SettledAsIssued` for certificates outside `disturbed`: a certificate is
  disturbed from the moment a second task meets one under way, a delete removes
  its files or a task of it dies, until an issuance begins that has it to itself
  (`NeverPartial` and `StatusIsLastOutcome` above are about the overlaps);
- `RenewalsAreServed` and `PendingResolves` if nothing dies: a task that dies
  before its enqueue is not repeated, and the sweep skips pending rows
  (`services/certs/renewal.py:52`);
- `ActiveHasMaterial` outside the window of a delete that removed the files and
  has not committed. A deleted certificate may also leave files behind: an
  issuance under way writes them again (`services/certs/service.py:133`);
- `SettledRows` when no answer was lost and no load or write crossed a write of
  the same row: a switch guards its own instance only
  (`components/hosts/enabled-toggle.tsx:15`);
- `ShownIsAsked` for the audit log when its requests do not overlap: it has no
  `active` flag (`components/audit-log/audit-log-view.tsx:109`);
- `FirstSaveReconciles` is `PoolAsEntered` for a dialog no save of which failed;
- `UserIsSessionOwner`, `SignedOutHoldsNothing` and `SessionSettles` when no
  session begins or ends under a request that sets the user or the cookies, and
  the first two without a sign-in whose user could not be fetched: `setUser` and
  `persistSession` are not guarded (`lib/auth/context.tsx:106`, `:145`, `:197`);
- `PendingCoversUnseen` except for lines that waited for a flush when Pause was
  pressed: they are neither shown nor counted
  (`components/live-logs/use-live-logs.ts:117`);
- `RowsMatchServer` when no two requests about the rows overlapped and no answer
  was lost (`components/profile/api-keys-card.tsx:134`);
- `CleanIsStored` except after a save whose answer was lost;
- `ErrorIsShown` except for the addresses exempt from maintenance, which are
  checked while their field is hidden (`components/proxy-hosts/lib.ts:279`);
- `AcceptedByApi` but for the texts `LeftToApi` lists, which no form checks:
  loose spellings of addresses in whitelists and maintenance lists
  (`components/security/whitelist-dialog.tsx:46`), names of redirect targets and
  whitelists, texts that are no email or no client address, a colon in a user's
  name, a stored user renamed without a password. `CardsFitApi` but for the
  target of a redirect and the public URL of the mail card, which
  `validateSmtpForm` does not read (`components/settings/lib.ts:195`). The
  longest texts of columns (`max_length`) are not modelled;
- `CleanCardIsStored` for the ban and maintenance cards when answers arrive in
  the order of the saves: every answer replaces the whole row
  (`components/settings/settings-view.tsx:241`); and unless an answer was lost;
- `SecretAsAsked` except for text typed after Remove and erased again, which
  keeps a secret the card reports gone (`components/settings/llm-card.tsx:131`),
  and a password of blanks (`components/settings/lib.ts:222`).

## 4. Proofs

`NginxClusterProofs` proves, for every set of nodes, slots, files and contents
and every bound, from the assumptions `NodesAssumption`, `ConfigAssumption` and
`BoundsAssumption`:

- `TypeCorrect`: `Spec => []TypeOK`;
- `Inductive`: `Spec => []IInv`, where `IInv` is `TypeOK` with
  - `FileInv` = `LockHeld` (a task is inside the locked section exactly while
    it is the holder), `AppliedAsValidated`, `Phases` (what the holder knows:
    it writes only a set that differs, it rolls back only after a failure, a
    changed set is one nginx accepts) and `Settled` (what the holder found, or
    the free disk, is the published set, unless a task died inside);
  - `NeverAhead` with `VersionBound` (no task carries a version that is not
    committed, and a reconcile about to mark loaded at that version or later);
- `AppliedAsValidatedHolds`, `VersionFaithfulHolds`, `NeverAheadHolds`,
  `ReconcileClaimsHolds`: the properties of the runs, crashes included;
- `UnchangedMeansPublishedHolds`: the same as long as no task died in the lock;
- `RegisterRefinement`: with HA and no crashes the apply path implements
  `PublishedConfig`. `SettledConfig` is the mapping: the files, or what the
  lock holder found while it is at work, so only `CommitApply` of a changed
  set is a step of the register.

`AppliedAsValidated` is not inductive alone: without `LockHeld` another slot
could write, without `Phases` a rollback could end in a commit as "changed".
The step proof goes action by action; actions outside the lock change nothing
the invariant reads (`FileFrame`, `VersionFrame`).

Two theorems need more than the constants' types, and say so:

- `NeverHalfAppliedHolds` assumes `NoOverlap` (HA is off, or the cluster has one
  slot): until a task dies inside the lock, every nginx serves a set that was
  rendered as a whole. A reconcile reads the files without the lock, so with HA
  and a second slot it can load a set that is half written.
- `LoadedIsServedHolds` assumes `HaEnabled` (a single host has no versions).

They add to `IInv` what it does not say: `OffMeansNoReconcile` and `Rendered`
(what a task or nginx holds was rendered as a whole) for the first; for the
second `Serving`: while nothing was rolled back, an apply only goes `Forward`, and
unless some task has files written that it has not published, a node that loaded
at the current version serves the files (`Current`).

`CertLifecycleProofs` proves `CertTypeCorrect` and `ActiveHasMaterialHolds`
from `CertAssumption` and `CertBounds`. The invariant `MaterialInv` adds
`Placed`: the files a task has already renamed into place at its current step
are there, or a delete excuses them. Its core is that between the rename of a
file and the commit nothing but a delete removes a final name, however many
tasks share the temporary one (`MaterialFrame`, `MaterialGrows`).

It also proves `OneIssuanceAtATimeHolds` under `MaxRenewals = 0`: an
administrator's renewal is the one operation that enqueues a task without
keeping a second one away. Its invariant is `SoloInv` (`Solo`: at most one task
of a certificate, queued or running; `SweepOnce`: one sweep a period is let
through, and until it has enqueued, nothing due has a task; `NotYetIssued`).

`SettledAsIssuedHolds` has no such condition: renewals, deletions and crashes may
overlap without bound. `LoneInv` says of every certificate that is not disturbed
that its task is alone (`Alone`), that the status it loaded is the row's until
it saves (`StatusLoaded`) and how far it has come with chain and key
(`PairUnderWay` with `Progress`); `Beginnings` is what an issuance that starts
alone can rely on after whatever went before.

`ListPagesProofs` proves, from `ListPagesAssumption`, for any rows and any of
the twelve pages, `PagesTypeCorrect`, `KeepsToItsOwnHolds` and
`SettledRowsHolds`. `PagesInv` is

- `PageTypes`, with `Sound` (the slot, row and list each kind of request has),
  `PageOpen` (what can be open on which page) and `Tracking` (a tracked task was
  paid for by a click, which bounds them);
- `KeepsToItsOwn`, inductive given the types;
- `Accounted`: while nothing is in `doubt`, loads and writes are never under way
  together (`Apart`), no two writes are about one row (`OnePerRow`), and a page
  that is not loading agrees with the API row by row, up to one optimistic flip
  per row that the API has not applied, or a write was applied whose answer will
  reload it (`UpToDate`). `SettledRows` is what is left of it at rest.

The theorems about the console are about the `Spec` of `Console`, from the assumptions
`TableConstants`, `PoolConstants`, `EditorConstants`, `LogConstants`,
`CardConstants` and `SessionConstants`; steps of the other parts are one case of
each step proof. `ConsoleTypeCorrect` follows from all six invariants.

| theorems | inductive invariant |
|---|---|
| `CancelledNeverLandsHolds`, `CleanIsStoredHolds` | `EditorInv`: pages are numbered and the editor's number is one of them (`PagesHeld`), a cancelled request carries its mark (`CancelMarks`), what counts as saved is what the API holds except between its acceptance and the answer (`SavedIsHeld`) |
| `NothingAfterTheEndHolds`, `WatchReachesServerHolds`, `LinesAccountedForHolds` | `LogInv`: the last frame sent tells what is picked (`LastWatch`), an id is the number of its event (`IdsAreEvents`), waiting lines are counted as they come in and the count is shown unless a flush is due (`WaitingCounted`) |
| `CardsMatchServerHolds` | `CardInv`: one dialogue at a time, and rows, second factor and secrets are the API's up to one request that explains the difference (`RowsFollow`, `FactorFollows`, `SecretsFollow`) |
| `SessionIsWhatItSaysHolds` | `SessionInv`: a request that will set user or cookies carries the tokens of the cookies (`StaleBearsCookies`), signed out means no cookies even with requests in flight (`SignedOut`), whoever is named anywhere passed every factor (`Proven`) |
| `ShownIsAskedHolds` | `PagedInv`: at most one active request, the one for what the controls show (`OneActive`), otherwise the answer to it is shown (`ShownOrAsked`), and the audit log's single request (`AuditAnswered`) |
| `PoolReconcilesHolds` | `PoolInv`: what is left to do is a tail of the plan, and the rounds before it, and nothing else, have been applied to the pool as it was opened (`EditProgress` with `DoneTo`) |

`FormsProofs` proves, about the `ConsoleSpec` of `ConsoleForms`, `FormsTypeOKHolds`,
`FitForApiHolds`, `SentAsEnteredHolds`, `SecretsAsEnteredHolds`,
`CleanCardIsStoredHolds` and the action property `ErrorIsShownHolds`, for any
number of edits, saves and faults, any rows `RowsOf` admits and tables of any
length, from `DialogConstants` and the `CardConstants` of `ConsoleForms`.
The invariant `FormsInv` is

- `DialogInv`: the type of each field of each kind of form (`DialogTypes` with
  `Typed`), `Untouched` (a field outside `touched` still holds what the row
  seeded it with, so that the payload can be compared with the row),
  `TokenOfProvider` (a token was entered for the provider shown, which a stored
  credential never changes), `SentIsPayload` (what is under way is still what
  the form holds, since nothing can be edited meanwhile), and the four parts of
  the properties about the dialogs;
- `SettingsInv`: `CardTypes` (forms, bodies and rows of each card; the number of
  the page's row and of each answer never passes the API's) and `Follows`: the
  default site and the error pages hold what the API stores until a save is
  stored (`SiteFollows`, `ErrorsFollow`); of the snapshots of the row that are
  around, the page's and those of answers under way, none as new as the last one
  the card depends on is out of date for it (`RowFollows`); form, request and
  stored secret say what the operator last asked for (`SecretFollows`).

No property is inductive alone: `SentAsEntered` reads fields that were seeded
many edits ago, and `CleanCardIsStored` depends on answers to other cards' saves
that are still under way. The step proof has one lemma per kind of form for the
payload (`ProxyLeaves`, `StreamLeaves` and so on: a click that passes the checks
sends what the properties ask for) and one per action for the rest. The filter
of blank rows in an access list is `RowsAt` over the places of the filled ones,
so that what it returns for any length follows from cardinalities
(`FilledAre`) without induction over sequences. `ErrorIsShownHolds` needs the
list of checks of each form, the tab each opens and the controls of that tab
(`ProxyChecksAre`, `PanelsHold` and their like).

The assumption on `Stored` is about rows the console wrote. Another client of
the API may store a full name with blanks around it or an empty filter, which a
dialog sends back trimmed or as `null` though nobody touched it; for such rows
`SentAsEntered` is not claimed.

Only model-checked:

- all liveness (`MarkersConverge`, `NodesConverge`, `EditsReachNginx`,
  `DueIsRenewed`, `IssuancesComplete`, `ComesToRest`, `FormsSettle`,
  `ConsoleSettles`): fairness and `ENABLED` are out of the prover's reach;
- the three runs that show a disagreement, which are counterexamples.

Every invariant and every action property of a passing run is a theorem.

## 5. Not modelled

The text of templates, PEM validation, the ACME protocol and DNS propagation,
audit rows, events and logging; time, except as the order of days; Postgres,
Redis, Celery and nginx are external and appear as what the code relies on.
Of the console: wording, layout, sorting, charts and badges; the dashboard and
metrics pages, which only read; the UI kit and the generated API types; the
cards for WAF settings, hub updates, blocklists and the backup schedule, which
are built like those of the settings page; a second operator at work at the
same time. Of the backend: the tasks behind backup, CrowdSec and mail, the
transactions of the inventory, tokens and rate limits on the server's side.
Migrations and deployment scripts keep no state of this kind.

## 6. Plan

1. Done: `NginxCluster` with `PublishedConfig`; `CertLifecycle`; the console; the
   proofs of section 4.
2. Done: the proofs about the forms (`FormsProofs`).
3. `BackupRestore`: the Redis lock with its timeout, the restore gate with its
   time to live, the order database, certificates, CrowdSec files, a crash in
   between; composed with markers, since a restore puts back an older
   `config_version` while markers stay.
4. `ProxyInventory`: pools, hosts and streams with their reference checks as
   concurrent transactions. `CrowdSecApply`: whitelist apply, hub update, CAPI
   registration, their two locks and the one container.
