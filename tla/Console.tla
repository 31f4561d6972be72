------------------------------- MODULE Console -------------------------------
(***************************************************************************)
(* The console beyond its list pages: the session, and the pages and       *)
(* dialogs that talk to the API in ways of their own.  The router shows    *)
(* one of them at a time and none keeps state while another is shown, so a *)
(* behaviour opens one part and stays in it: the parts add up instead of   *)
(* multiplying.  Every part keeps its own module and its own properties.   *)
(***************************************************************************)
EXTENDS Naturals

CONSTANTS
    Queries, NoQuery, PageSize, MaxTotal, MaxMoves, MaxErrors,
    Addresses, MaxRows, MaxRowEdits, MaxPoolFaults,
    Accounts, WithMfa, NoOne, MaxRecent, MaxCalls, MaxLogins, MaxRejects, MaxFails, MaxReloads,
    LineCap, MaxPicks, MaxPresses, MaxLines, MaxDrops,
    Keys, FirstKey, MaxUses, MaxCardFaults,
    Docs, Starter, Oversize, MaxStrokes, MaxPrompts, MaxEdSaves, MaxEdFaults

\* Bounds are numbers, and a new page starts from one of the texts.
ASSUME TableConstants ==
    /\ NoQuery \in Queries /\ PageSize \in Nat \ {0}
    /\ MaxTotal \in Nat /\ MaxMoves \in Nat /\ MaxErrors \in Nat
ASSUME PoolConstants ==
    /\ {"", "a", "b"} \subseteq Addresses /\ MaxRows \in Nat /\ MaxRows >= 2
    /\ MaxRowEdits \in Nat /\ MaxPoolFaults \in Nat
ASSUME EditorConstants == Starter \in Docs /\ MaxPrompts \in Nat /\ MaxEdSaves \in Nat
ASSUME LogConstants == LineCap \in Nat
ASSUME CardConstants == FirstKey \in Keys
ASSUME SessionConstants == MaxRecent \in Nat \ {0}

VARIABLES
    table, phone, typed, search, pg, listed, fetching, failed, asks, lift, total, moves, errors,
    crossed,
    poolMode, poolOpen, original, upRows, method, upContext, todo, reply, poolError, backends,
    settings, attached, nextId, rowEdits, poolFaults, dirtyBase,
    page, status, user, cookies, calls, recent, screen, mfaFor, email, code, submitting,
    loginError, attempt, made, logins, rejects, fails, reloads, proven, crossing, halfIn,
    logPage, logTab, picked, linkStatus, link, lastWas401, toServer, serverWatch, buffers, lines,
    paused, pendingRef, pending, flushTimer, nextLine, selectedId, written, picks, presses, drops,
    early, choice,
    card, mode, target, op, opReply, acknowledged, cardError, enabled, shownKeys, writes,
    listAsks, heldKeys, totpOn, refreshAsk, codesSeen, handedOut, uses, cardFaults, serial,
    tangled,
    editor, pageId, doc, savedDoc, opening, openFailed, saveAsk, routed, llm, promptOpen, before,
    lastEdit, pane, assisting, abortRef, assists, reading, held, strokes, prompts, edSaves,
    edFaults, unheard, cancelled, landed

Tables == INSTANCE PagedTables
Pool == INSTANCE PoolDialog
Auth == INSTANCE Session
Logs == INSTANCE LiveLogs
Cards == INSTANCE ProfileCards
Editor == INSTANCE PageEditor

\* The variables of each part.
T == <<table, phone, typed, search, pg, listed, fetching, failed, asks, lift, total, moves,
       errors, crossed>>
P == <<poolMode, poolOpen, original, upRows, method, upContext, todo, reply, poolError,
       backends, settings, attached, nextId, rowEdits, poolFaults, dirtyBase>>
S == <<page, status, user, cookies, calls, recent, screen, mfaFor, email, code, submitting,
       loginError, attempt, made, logins, rejects, fails, reloads, proven, crossing, halfIn>>
L == <<logPage, logTab, picked, linkStatus, link, lastWas401, toServer, serverWatch, buffers,
       lines, paused, pendingRef, pending, flushTimer, nextLine, selectedId, written, picks,
       presses, drops, early, choice>>
C == <<card, mode, target, op, opReply, acknowledged, cardError, enabled, shownKeys, writes,
       listAsks, heldKeys, totpOn, refreshAsk, codesSeen, handedOut, uses, cardFaults, serial,
       tangled>>
E == <<editor, pageId, doc, savedDoc, opening, openFailed, saveAsk, routed, llm, promptOpen,
       before, lastEdit, pane, assisting, abortRef, assists, reading, held, strokes, prompts,
       edSaves, edFaults, unheard, cancelled, landed>>

vars == <<T, P, S, L, C, E>>

Init ==
    \/ /\ Tables!PagedInit({"decisions", "alerts", "audit"})
       /\ Pool!PoolOff /\ Auth!SessionOff /\ Logs!LogOff /\ Cards!CardOff /\ Editor!EditorOff
    \/ /\ Pool!PoolInit({"new", "edit"})
       /\ Tables!PagedOff /\ Auth!SessionOff /\ Logs!LogOff /\ Cards!CardOff /\ Editor!EditorOff
    \/ /\ Auth!SessionInit
       /\ Tables!PagedOff /\ Pool!PoolOff /\ Logs!LogOff /\ Cards!CardOff /\ Editor!EditorOff
    \/ /\ Logs!LogInit
       /\ Tables!PagedOff /\ Pool!PoolOff /\ Auth!SessionOff /\ Cards!CardOff /\ Editor!EditorOff
    \/ /\ Cards!CardInit
       /\ Tables!PagedOff /\ Pool!PoolOff /\ Auth!SessionOff /\ Logs!LogOff /\ Editor!EditorOff
    \/ /\ Editor!EditorInit
       /\ Tables!PagedOff /\ Pool!PoolOff /\ Auth!SessionOff /\ Logs!LogOff /\ Cards!CardOff

Next ==
    \/ Tables!PagedNext /\ UNCHANGED <<P, S, L, C, E>>
    \/ Pool!PoolNext /\ UNCHANGED <<T, S, L, C, E>>
    \/ Auth!SessionNext /\ UNCHANGED <<T, P, L, C, E>>
    \/ Logs!LogNext /\ UNCHANGED <<T, P, S, C, E>>
    \/ Cards!CardNext /\ UNCHANGED <<T, P, S, L, E>>
    \/ Editor!EditorNext /\ UNCHANGED <<T, P, S, L, C>>

Spec ==
    /\ Init /\ [][Next]_vars
    /\ Tables!PagedFairness /\ Pool!PoolFairness /\ Auth!SessionFairness
    /\ Logs!LogFairness /\ Cards!CardFairness /\ Editor!EditorFairness

-----------------------------------------------------------------------------
(* The properties of the parts; each is explained where it is defined.     *)

\* Every part keeps its types and its bounds: the page numbers and the rows of
\* the tables, at most MAX_RECENT_ACCOUNTS distinct
\* accounts, at most LINE_CAP lines.
ConsoleTypeOK ==
    /\ Tables!PagedTypeOK /\ Pool!PoolTypeOK
    /\ Auth!SessionTypeOK /\ Logs!LogTypeOK /\ Cards!CardTypeOK
    /\ Editor!EditorTypeOK

\* security-view.tsx, audit-log-view.tsx: the rows shown are those the search
\* and the page ask for, and the loading flag stands for the latest request.
ShownIsAsked == Tables!ShownIsAsked /\ Tables!LoadingIsLatest

\* upstream-dialog.tsx: a first save leaves the pool as the form shows it, one
\* that is half done has done only what was asked for, and none puts ip_hash
\* into the stream context.
PoolReconciles == Pool!FirstSaveReconciles /\ Pool!HalfSavedIsHarmless /\ Pool!MethodFitsContext

\* lib/auth: the user shown owns the tokens the requests carry; signed out,
\* nothing is left to sign in with; only who signed in is remembered.
SessionIsWhatItSays ==
    Auth!UserIsSessionOwner /\ Auth!SignedOutHoldsNothing /\ Auth!OnlySignedInRemembered

\* use-live-logs.ts: the server streams what the page shows as picked.
WatchReachesServer == Logs!WatchReachesServer

\* use-live-logs.ts, live-logs-view.tsx: a line is taken in once, every line
\* kept is shown, about to be shown or counted as pending, and the detail panel
\* stays on the line that was tapped.
LinesAccountedFor ==
    /\ Logs!EachLineOnce /\ Logs!NothingWaitsUnseen /\ Logs!PendingCoversUnseen
    /\ Logs!DetailIsWhatWasTapped

\* use-live-logs.ts: a page that was left, or whose access was revoked, holds
\* no socket and no timer to open one.
NothingAfterTheEnd == Logs!NothingAfterTheEnd

\* Profile cards: at rest, rows, switches and the second factor are the API's,
\* and a secret the API handed out has reached the screen.
CardsMatchServer == Cards!RowsMatchServer /\ Cards!SecretIsShown

\* custom-page-editor-view.tsx: a page that is not dirty is stored as it is shown.
CleanIsStored == Editor!CleanIsStored

\* custom-page-editor-view.tsx: a cancelled AI edit never lands.
CancelledNeverLands == Editor!CancelledNeverLands

\* Whatever failed, every part comes to rest: tables show what was last typed,
\* saves, loads and sign-ins end, the live connection is back or revoked.
ConsoleSettles ==
    /\ Tables!TableSettles /\ Pool!PoolSaveEnds /\ Auth!SessionSettles
    /\ Logs!ComesBackLive /\ Cards!CardComesToRest /\ Editor!EditorSettles

=============================================================================
