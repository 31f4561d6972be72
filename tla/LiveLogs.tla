------------------------------- MODULE LiveLogs -------------------------------
(***************************************************************************)
(* The live logs page (components/live-logs): a hook that holds a socket   *)
(* opened with a short-lived ticket, tells the server what to watch, keeps *)
(* the last lines of each tab and shows them in batches, and the view that *)
(* picks hosts, pauses, clears and selects.  Connections drop with the     *)
(* server's close codes, and the page may be left at any moment.           *)
(***************************************************************************)
EXTENDS Naturals, Sequences, FiniteSets, Functions

CONSTANTS
    LineCap,    \* lines a tab keeps
    MaxPicks,   \* changes of the selection and of the tab
    MaxPresses, \* uses of pause, clear and of a row
    MaxLines,   \* lines nginx writes
    MaxDrops    \* tickets refused and sockets closed by the server

VARIABLES
    logPage,    \* "on", "left" after the page was left, "off" when never opened
    logTab, picked,
    linkStatus, \* status of the hook
    link,       \* "ticket", "opening", "open", "waiting" (retryTimer) or "none"
    lastWas401,
    toServer,   \* watch frames the server has not read yet
    serverWatch,\* what the server streams to the socket
    buffers,    \* the ref the lines arrive in
    lines,      \* the lines rendered, before the filters
    paused, pendingRef, pending,
    flushTimer, \* a flush is scheduled
    nextLine,   \* nextId of the hook
    selectedId,
    written, picks, presses, drops,
    early,      \* history: paused with a flush already scheduled
    choice      \* history: the line that was tapped

logVars == <<logPage, logTab, picked, linkStatus, link, lastWas401, toServer, serverWatch,
             buffers, lines, paused, pendingRef, pending, flushTimer, nextLine, selectedId,
             written, picks, presses, drops, early, choice>>

Tabs == {"requests", "security", "streams"}

ALL == "all"
Hosts == {"p1", "s1"}
Options == Hosts \cup {ALL}

\* TAB_OF.  The errors tab differs from the requests tab only in its columns.
TAB_OF == [request |-> "requests", decision |-> "security", stream |-> "streams"]

emptyBuffers == [t \in Tabs |-> <<>>]

\* appendCapped: the newest LINE_CAP entries.
appendCapped(s, x) ==
    LET all == Append(s, x) IN
    IF Len(all) > LineCap THEN SubSeq(all, Len(all) - LineCap + 1, Len(all)) ELSE all

NoWatch == [hosts |-> {}, decisions |-> FALSE]
Watch(t, p) == [hosts |-> p, decisions |-> (t = "security")]
watchRef == Watch(logTab, picked)

theCounts == <<written, picks, presses, drops>>
theBuffers == <<buffers, lines, paused, pendingRef, pending, flushTimer, nextLine, early>>
theView == <<logTab, picked, selectedId, choice>>
theLink == <<linkStatus, link, lastWas401, toServer, serverWatch>>

LogClean(page, l) ==
    /\ logPage = page /\ logTab = "requests" /\ picked = {}
    /\ linkStatus = "connecting" /\ link = l /\ lastWas401 = FALSE
    /\ toServer = <<>> /\ serverWatch = NoWatch
    /\ buffers = emptyBuffers /\ lines = emptyBuffers
    /\ paused = FALSE /\ pendingRef = 0 /\ pending = 0 /\ flushTimer = FALSE
    /\ nextLine = 1 /\ selectedId = 0
    /\ written = 0 /\ picks = 0 /\ presses = 0 /\ drops = 0
    /\ early = FALSE /\ choice = 0

LogInit == LogClean("on", "ticket")
LogOff == LogClean("off", "none")

Init == LogInit

-----------------------------------------------------------------------------
(* useLiveLogs: the connection.                                            *)

\* Mutant of SendWatch: a changed selection is not sent.
SendWatchNever(w) == toServer

\* A watch frame is sent on a socket that is open.
SendWatch(w) == IF link = "open" THEN Append(toServer, w) ELSE toServer

\* The watch effect, after the selection or the tab changed.
Rewatch(t, p) == toServer' = IF Watch(t, p) # watchRef THEN SendWatch(Watch(t, p)) ELSE toServer

\* Mutant of retryIn: no timer is set.
retryInNever == linkStatus' = "reconnecting" /\ link' = "none"

\* retryIn and backoff: the delay grows, which no step depends on.
retryIn == linkStatus' = "reconnecting" /\ link' = "waiting"

\* Mutant of GrantTicket: connect does not look whether the page is there.
GrantTicketAnyway ==
    /\ link = "ticket"
    /\ link' = "opening"
    /\ UNCHANGED <<logPage, theView, theBuffers, theCounts, linkStatus, lastWas401, toServer,
                   serverWatch>>

\* The ticket arrives; connect goes on only when the page is still there.
GrantTicket ==
    /\ link = "ticket"
    /\ link' = IF logPage = "on" THEN "opening" ELSE "none"
    /\ UNCHANGED <<logPage, theView, theBuffers, theCounts, linkStatus, lastWas401, toServer,
                   serverWatch>>

\* The ticket request fails: 401 and 403 end it, the rest is tried again.
RefuseTicket ==
    /\ link = "ticket" /\ drops < MaxDrops /\ drops' = drops + 1
    /\ \/ logPage # "on" /\ link' = "none" /\ UNCHANGED linkStatus
       \/ logPage = "on" /\ linkStatus' = "revoked" /\ link' = "none"
       \/ logPage = "on" /\ retryIn
    /\ UNCHANGED <<logPage, theView, theBuffers, written, picks, presses, lastWas401, toServer,
                   serverWatch>>

Reconnect ==
    /\ link = "waiting"
    /\ link' = "ticket"
    /\ UNCHANGED <<logPage, theView, theBuffers, theCounts, linkStatus, lastWas401, toServer,
                   serverWatch>>

\* onopen: the server starts with no watch and is told the current one.
onopen ==
    /\ link = "opening"
    /\ link' = "open" /\ linkStatus' = "live"
    /\ toServer' = << watchRef >> /\ serverWatch' = NoWatch
    /\ UNCHANGED <<logPage, theView, theBuffers, theCounts, lastWas401>>

\* The close codes after which the hook does not come back.
FinalCodes == {4400, 4403}

\* onclose: by the close code.  The first 4401 is retried at once, one that
\* follows it (lastWas401) after the delay.
onclose(code) ==
    /\ link \in {"opening", "open"} /\ drops < MaxDrops /\ drops' = drops + 1
    /\ toServer' = <<>> /\ serverWatch' = NoWatch
    /\ linkStatus' = CASE code = 4403 -> "revoked" [] code = 4400 -> "error"
                        [] OTHER -> "reconnecting"
    /\ link' = IF code \in FinalCodes THEN "none" ELSE "waiting"
    /\ lastWas401' = (lastWas401 \/ code = 4401)
    /\ UNCHANGED <<logPage, theView, theBuffers, written, picks, presses>>

\* The effect's cleanup: the socket is closed and the retry timer cleared; a
\* ticket that was asked for is still on its way.
Leave ==
    /\ logPage = "on"
    /\ logPage' = "left"
    /\ link' = IF link = "ticket" THEN "ticket" ELSE "none"
    /\ toServer' = <<>> /\ serverWatch' = NoWatch
    /\ flushTimer' = FALSE
    /\ UNCHANGED <<theView, theCounts, linkStatus, lastWas401, buffers, lines, paused,
                   pendingRef, pending, nextLine, early>>

-----------------------------------------------------------------------------
(* The server, as the page sees it: api/routes/live_logs.py.               *)

\* A watch frame replaces the one before it.
ReadWatch ==
    /\ toServer # <<>>
    /\ serverWatch' = toServer[1] /\ toServer' = Tail(toServer)
    /\ UNCHANGED <<logPage, theView, theBuffers, theCounts, linkStatus, link, lastWas401>>

\* Mutant of Counted: the count is set instead of raised.
CountedOnce(copies) == IF paused THEN copies ELSE pendingRef

\* While paused, arriving lines are counted.
Counted(copies) == IF paused THEN pendingRef + copies ELSE pendingRef

\* toLine and handleFrame: a frame becomes a line of its tab, and a line that
\* comes twice, because two watched channels carry it, becomes two.
handleFrame(host, log, copies) ==
    LET line(i) == [id |-> nextLine + i, host |-> host, log |-> log, event |-> written + 1]
        once == appendCapped(buffers[TAB_OF[log]], line(0))
    IN  /\ nextLine' = nextLine + copies
        /\ buffers' = [buffers EXCEPT ![TAB_OF[log]] =
                         IF copies = 1 THEN once ELSE appendCapped(once, line(1))]
        /\ pendingRef' = Counted(copies)
        /\ flushTimer' = TRUE
        /\ lastWas401' = FALSE

\* A line of a host goes out on its own channel and on the one of all logs.
Line(host, log) ==
    LET channels == serverWatch.hosts \cap {host, ALL} IN
    /\ link = "open" /\ channels # {} /\ written < MaxLines
    /\ handleFrame(host, log, Cardinality(channels))
    /\ written' = written + 1
    /\ UNCHANGED <<logPage, theView, lines, paused, pending, early, picks, presses, drops,
                   linkStatus, link, toServer, serverWatch>>

Decision ==
    /\ link = "open" /\ serverWatch.decisions /\ written < MaxLines
    /\ handleFrame("", "decision", 1)
    /\ written' = written + 1
    /\ UNCHANGED <<logPage, theView, lines, paused, pending, early, picks, presses, drops,
                   linkStatus, link, toServer, serverWatch>>

-----------------------------------------------------------------------------
(* useLiveLogs: what is rendered.                                          *)

flush ==
    /\ flushTimer
    /\ flushTimer' = FALSE
    /\ IF paused
       THEN pending' = pendingRef /\ UNCHANGED <<pendingRef, lines, early>>
       ELSE pendingRef' = 0 /\ lines' = buffers /\ pending' = 0 /\ early' = FALSE
    /\ UNCHANGED <<logPage, theView, theLink, theCounts, buffers, paused, nextLine>>

Press == logPage = "on" /\ presses < MaxPresses /\ presses' = presses + 1

setPaused(next) ==
    /\ Press /\ next # paused
    /\ paused' = next
    /\ flushTimer' = (flushTimer \/ ~next)
    /\ early' = IF next THEN flushTimer ELSE early
    /\ UNCHANGED <<logPage, theView, theLink, written, picks, drops, buffers, lines,
                   pendingRef, pending, nextLine>>

clear ==
    /\ Press
    /\ buffers' = emptyBuffers /\ lines' = emptyBuffers
    /\ pendingRef' = 0 /\ pending' = 0 /\ early' = FALSE
    /\ UNCHANGED <<logPage, theView, theLink, written, picks, drops, paused, flushTimer,
                   nextLine>>

-----------------------------------------------------------------------------
(* LiveLogsView.                                                           *)

isStream(k) == k = "s1"
onTab(k, t) == k = ALL \/ (isStream(k) = (t = "streams"))
addable == {k \in Options \ picked : onTab(k, logTab)}

\* All logs is exclusive.
pick(k) == IF k = ALL THEN {ALL} ELSE (picked \ {ALL}) \cup {k}
clearShown == {k \in picked : ~onTab(k, logTab)}

\* What the picker, a chip's cross and "Clear all" may leave selected: the
\* chips of a phone and of a wider screen are the same.
Selections ==
    {pick(k) : k \in addable} \cup {picked \ {k} : k \in {h \in picked : onTab(h, logTab)}}
        \cup {clearShown}

Pick ==
    /\ logPage = "on" /\ picks < MaxPicks /\ picks' = picks + 1
    /\ picked' \in Selections \ {picked}
    /\ Rewatch(logTab, picked')
    /\ UNCHANGED <<logPage, logTab, selectedId, choice, theBuffers, written, presses, drops,
                   linkStatus, link, lastWas401, serverWatch>>

SwitchTab(t) ==
    /\ logPage = "on" /\ t # logTab /\ picks < MaxPicks /\ picks' = picks + 1
    /\ logTab' = t /\ selectedId' = 0 /\ choice' = 0
    /\ Rewatch(t, picked)
    /\ UNCHANGED <<logPage, picked, theBuffers, written, presses, drops, linkStatus, link,
                   lastWas401, serverWatch>>

\* The rows of the tab: what the picks let through, before the text filters.
rows ==
    {lines[logTab][i] : i \in {j \in DOMAIN lines[logTab] :
        \/ ALL \in picked \/ lines[logTab][j].log = "decision"
        \/ lines[logTab][j].host \in picked}}

\* A row of the table and a card of a phone: select, or deselect.
LogRow(l) == [id |-> l.id, event |-> l.event]
LogCard(l) == [id |-> l.id, event |-> l.event]

select ==
    /\ Press
    /\ \E l \in rows, r \in {"row", "card"} :
         LET tapped == IF r = "row" THEN LogRow(l) ELSE LogCard(l) IN
         /\ selectedId' = IF selectedId = tapped.id THEN 0 ELSE tapped.id
         /\ choice' = IF selectedId = tapped.id THEN 0 ELSE tapped.event
    /\ UNCHANGED <<logPage, logTab, picked, theLink, theBuffers, written, picks, drops>>

\* LineDetail and LineSheet: the rows that are shown in full.
Detail == {l \in rows : l.id = selectedId}

LogNext ==
    \/ GrantTicket \/ RefuseTicket \/ Reconnect \/ onopen \/ Leave \/ ReadWatch
    \/ \E code \in {1006, 4400, 4401, 4403} : onclose(code)
    \/ Line("p1", "request") \/ Line("s1", "stream") \/ Decision
    \/ flush \/ clear \/ Pick \/ select
    \/ \E b \in BOOLEAN : setPaused(b)
    \/ \E t \in Tabs : SwitchTab(t)

Next == LogNext

\* Requests are answered, timers fire, sockets open and the server reads them.
LogFairness ==
    /\ WF_logVars(GrantTicket) /\ WF_logVars(Reconnect) /\ WF_logVars(onopen)
    /\ WF_logVars(ReadWatch) /\ WF_logVars(flush)

Spec == Init /\ [][Next]_logVars /\ LogFairness

-----------------------------------------------------------------------------
\* Type invariant of the page; a tab never keeps more than its cap.
LogTypeOK ==
    /\ logPage \in {"on", "left", "off"} /\ logTab \in Tabs /\ picked \subseteq Options
    /\ linkStatus \in {"connecting", "live", "reconnecting", "revoked", "error"}
    /\ link \in {"ticket", "opening", "open", "waiting", "none"}
    /\ {lastWas401, paused, flushTimer, early} \subseteq BOOLEAN
    /\ \A t \in Tabs : Len(buffers[t]) <= LineCap /\ Len(lines[t]) <= LineCap
    /\ {pendingRef, pending, selectedId, choice} \subseteq Nat

\* What the server streams is what the page shows as picked, once it has read
\* the frames sent to it: a selection changed before the socket opened, while
\* it reconnected or right after is not lost (watchRef, onopen).
WatchReachesServer ==
    (link = "open" /\ toServer = <<>>) => serverWatch = watchRef

\* No line is taken in twice, because All logs is never watched beside a host
\* (pick), whatever the order of picks and reconnects: the page has given out
\* at most as many ids as lines were written.
EachLineOnce == nextLine - 1 <= written

\* Nothing is kept that is not on the screen unless it is paused or about to
\* be shown (scheduleFlush, setPaused(false), clear).
NothingWaitsUnseen ==
    (logPage = "on" /\ ~paused /\ ~flushTimer) => lines = buffers

Unseen == {b \in UNION {Range(buffers[t]) : t \in Tabs} : b \notin UNION {Range(lines[t]) : t \in Tabs}}

\* While paused, the count of new lines covers every line that waits, except
\* lines that were already waiting for a flush when Pause was pressed.
PendingCoversUnseen ==
    (logPage = "on" /\ paused /\ ~flushTimer /\ ~early) => pending >= Cardinality(Unseen)

\* The detail panel never turns to another line than the one tapped, also
\* across Clear: local ids are not used again.
DetailIsWhatWasTapped == \A l \in Detail : l.event = choice

\* A page that was left holds no socket and no timer, also when its ticket
\* arrives afterwards ("if (stopped) return" after the await), and one whose
\* access was revoked or refused never tries again, whatever is picked since.
NothingAfterTheEnd ==
    /\ logPage = "left" => link \in {"ticket", "none"} /\ ~flushTimer
    /\ (logPage = "on" /\ linkStatus \in {"revoked", "error"}) => link = "none"

\* Every other failure is recovered from.
ComesBackLive ==
    <>[](logPage = "on" => linkStatus \in {"live", "revoked", "error"})

=============================================================================
