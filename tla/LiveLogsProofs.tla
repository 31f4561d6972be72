--------------------------- MODULE LiveLogsProofs ---------------------------
(***************************************************************************)
(* Proofs about the live logs page as it runs in the console, for every    *)
(* cap and every bound.                                                    *)
(***************************************************************************)
EXTENDS Console, Sequences, FiniteSets, FiniteSetTheorems, SequenceTheorems, TLAPS

-----------------------------------------------------------------------------
(* The inductive invariant.                                                *)

\* What may be watched together: all logs, or any hosts.
Pickable == {h \in SUBSET Logs!Options : Logs!ALL \in h => h = {Logs!ALL}}
Frame == [hosts : Pickable, decisions : BOOLEAN]

\* A line, with the number of its event for an id.
LogLine == {l \in [id : Nat, host : {"", "p1", "s1"}, log : {"request", "decision", "stream"},
                   event : Nat] : l.id = l.event}
Kept == {s \in Seq(LogLine) : Len(s) <= LineCap}

LogTypes ==
    /\ logPage \in {"on", "left", "off"} /\ logTab \in Logs!Tabs /\ picked \in Pickable
    /\ linkStatus \in {"connecting", "live", "reconnecting", "revoked", "error"}
    /\ link \in {"ticket", "opening", "open", "waiting", "none"}
    /\ lastWas401 \in BOOLEAN /\ paused \in BOOLEAN /\ flushTimer \in BOOLEAN
    /\ early \in BOOLEAN
    /\ toServer \in Seq(Frame) /\ serverWatch \in Frame
    /\ buffers \in [Logs!Tabs -> Kept] /\ lines \in [Logs!Tabs -> Kept]
    /\ pendingRef \in Nat /\ pending \in Nat /\ written \in Nat /\ selectedId \in Nat

\* The last frame sent on an open socket tells what the page shows as picked.
LastWatch ==
    link = "open" =>
        IF toServer = <<>> THEN serverWatch = Logs!watchRef
        ELSE toServer[Len(toServer)] = Logs!watchRef

\* One id for each line written, and the line in the panel is the one tapped.
IdsAreEvents == nextLine = written + 1 /\ choice = selectedId

\* The lines that wait are counted as they come in; with no flush scheduled
\* the count is shown.
WaitingCounted ==
    /\ (logPage = "on" /\ ~flushTimer) => pending = pendingRef
    /\ paused \/ flushTimer \/ logPage # "on" \/ lines = buffers
    /\ (logPage = "on" /\ paused /\ ~early) =>
         IsFiniteSet(Logs!Unseen) /\ Cardinality(Logs!Unseen) <= pendingRef

LogInv ==
    /\ LogTypes /\ LastWatch /\ IdsAreEvents /\ WaitingCounted /\ NothingAfterTheEnd

-----------------------------------------------------------------------------
(* Lines and frames.                                                       *)

\* The page counts channels as FiniteSets does.
LEMMA LogCardinality == \A q : Logs!Cardinality(q) = Cardinality(q)
  BY DEF Logs!Cardinality, Cardinality

\* appendCapped keeps a tab within its cap, and nothing enters but the new line.
LEMMA Capped ==
    ASSUME NEW s \in Kept, NEW x \in LogLine
    PROVE  /\ Logs!appendCapped(s, x) \in Kept
           /\ \A b : b \in Range(Logs!appendCapped(s, x)) => b \in Range(s) \cup {x}
  <1> DEFINE all == Append(s, x)
             n == Len(all)
  <1>1. /\ s \in Seq(LogLine) /\ Len(s) <= LineCap /\ Len(s) \in Nat /\ LineCap \in Nat
        /\ all \in Seq(LogLine) /\ n = Len(s) + 1
    BY LogConstants DEF Kept
  <1>2. \A i \in 1..n : all[i] \in Range(s) \cup {x}
    BY <1>1 DEF Range
  <1>3. CASE n > LineCap
    <2>1. n = LineCap + 1
      BY <1>1, <1>3
    <2> DEFINE cut == SubSeq(all, n - LineCap + 1, n)
    <2>2. /\ cut \in Seq(LogLine) /\ Len(cut) = LineCap
          /\ \A i \in 1..LineCap : cut[i] = all[i + 1]
      BY <1>1, <2>1, SubSeqProperties
    <2>3. Logs!appendCapped(s, x) = cut
      BY <1>3 DEF Logs!appendCapped
    <2>4. \A b : b \in Range(cut) => b \in Range(s) \cup {x}
      BY <1>1, <1>2, <2>1, <2>2 DEF Range
    <2> HIDE DEF cut
    <2> QED
      BY <1>1, <2>2, <2>3, <2>4 DEF Kept
  <1>4. CASE ~(n > LineCap)
    <2>1. Logs!appendCapped(s, x) = all
      BY <1>4 DEF Logs!appendCapped
    <2>2. \A b : b \in Range(all) => b \in Range(s) \cup {x}
      BY <1>1, <1>2 DEF Range
    <2> QED
      BY <1>1, <1>4, <2>1, <2>2 DEF Kept
  <1> QED
    BY <1>3, <1>4

\* All logs is never watched beside a host, so a line comes on one channel.
LEMMA OneChannel ==
    ASSUME NEW w \in Frame, NEW host \in Logs!Hosts, w.hosts \cap {host, Logs!ALL} # {}
    PROVE  Logs!Cardinality(w.hosts \cap {host, Logs!ALL}) = 1
  <1>1. w.hosts \cap {host, Logs!ALL} = {host} \/ w.hosts \cap {host, Logs!ALL} = {Logs!ALL}
    BY DEF Frame, Pickable, Logs!ALL, Logs!Hosts, Logs!Options
  <1> QED
    BY <1>1, LogCardinality, FS_Singleton

\* What a frame does: one line x enters one tab t.
Taken(t, x) ==
    /\ link = "open"
    /\ t \in Logs!Tabs /\ x \in LogLine
    /\ buffers' = [buffers EXCEPT ![t] = Logs!appendCapped(@, x)]
    /\ nextLine' = nextLine + 1 /\ written' = written + 1
    /\ pendingRef' = IF paused THEN pendingRef + 1 ELSE pendingRef
    /\ flushTimer' = TRUE /\ lastWas401' = FALSE
    /\ UNCHANGED <<logPage, logTab, picked, selectedId, choice, lines, paused, pending, early,
                   linkStatus, link, toServer, serverWatch>>

\* Every line and every decision is taken in that way.
LEMMA LineTaken ==
    ASSUME LogTypes, IdsAreEvents,
           Logs!Line("p1", "request") \/ Logs!Line("s1", "stream") \/ Logs!Decision
    PROVE  \E t \in Logs!Tabs, x \in LogLine : Taken(t, x)
  <1> DEFINE new(host, log) == [id |-> nextLine + 0, host |-> host, log |-> log,
                                event |-> written + 1]
  <1>1. \A host \in {"", "p1", "s1"}, log \in {"request", "decision", "stream"} :
           new(host, log) \in LogLine
    <2>1. nextLine + 0 = written + 1 /\ written + 1 \in Nat
      BY DEF LogTypes, IdsAreEvents
    <2> QED
      BY <2>1 DEF LogLine
  <1>2. ASSUME NEW host \in Logs!Hosts, NEW log \in {"request", "stream"}, Logs!Line(host, log)
        PROVE  Taken(Logs!TAB_OF[log], new(host, log))
    <2>1. Logs!Cardinality(serverWatch.hosts \cap {host, Logs!ALL}) = 1
      BY <1>2, OneChannel DEF Logs!Line, LogTypes
    <2>2. Logs!TAB_OF[log] \in Logs!Tabs
      BY DEF Logs!TAB_OF, Logs!Tabs
    <2>3. host \in {"", "p1", "s1"}
      BY DEF Logs!Hosts
    <2>4. Logs!handleFrame(host, log, 1)
      BY <1>2, <2>1 DEF Logs!Line
    <2> QED
      BY <1>1, <1>2, <2>2, <2>3, <2>4
         DEF Taken, Logs!Line, Logs!handleFrame, Logs!Counted, Logs!theView
  <1>3. ASSUME Logs!Decision
        PROVE  Taken("security", new("", "decision"))
    <2>1. Logs!TAB_OF["decision"] = "security" /\ "security" \in Logs!Tabs
      BY DEF Logs!TAB_OF, Logs!Tabs
    <2>2. new("", "decision") \in LogLine
      BY <1>1
    <2> QED
      BY <1>3, <2>1, <2>2
         DEF Taken, Logs!Decision, Logs!handleFrame, Logs!Counted, Logs!theView
  <1>4. "p1" \in Logs!Hosts /\ "s1" \in Logs!Hosts
    BY DEF Logs!Hosts
  <1> QED
    BY <1>2, <1>3, <1>4 DEF Taken

-----------------------------------------------------------------------------
(* The steps.                                                              *)

\* Reading a frame leaves the last one in place.
LEMMA LastOfTail ==
    ASSUME NEW F, NEW q \in Seq(F), q # <<>>, Len(q) # 1
    PROVE  Tail(q) # <<>> /\ Tail(q)[Len(Tail(q))] = q[Len(q)]
  <1>1. Len(q) \in Nat /\ Len(q) # 0
    OBVIOUS
  <1>2. Len(q) > 1
    BY SMTT(30), <1>1
  <1>3. Tail(q) \in Seq(F) /\ Len(Tail(q)) = Len(q) - 1
    BY <1>1, HeadTailProperties
  <1>4. Tail(q)[Len(q) - 1] = q[Len(q)]
    BY <1>1, <1>2, <1>3
  <1>5. Len(Tail(q)) # 0
    BY <1>1, <1>2, <1>3
  <1>6. Tail(q) # <<>>
    <2>1. Len(<<>>) = 0
      OBVIOUS
    <2> QED
      BY <1>5, <2>1, Zenon
  <1> QED
    BY <1>3, <1>4, <1>6

\* Whatever the tab and the selection, the watch frame is well formed.
LEMMA WatchIsFrame ==
    /\ Logs!NoWatch \in Frame
    /\ \A t \in Logs!Tabs, p \in Pickable : Logs!Watch(t, p) \in Frame
  <1>1. {} \in Pickable
    BY DEF Pickable, Logs!ALL
  <1>2. \A t : (t = "security") \in BOOLEAN
    OBVIOUS
  <1> QED
    BY <1>1, <1>2, Zenon DEF Frame, Logs!NoWatch, Logs!Watch

\* The picker, the chips and "Clear all" never leave all logs beside a host.
LEMMA SelectionsPickable ==
    ASSUME picked \in Pickable
    PROVE  Logs!Selections \subseteq Pickable
  <1>1. \A h \in SUBSET picked : h \in Pickable
    BY DEF Pickable
  <1>2. \A k \in Logs!Options : Logs!pick(k) \in Pickable
    BY DEF Pickable, Logs!pick, Logs!Options, Logs!ALL, Logs!Hosts
  <1>3. Logs!addable \subseteq Logs!Options
    BY DEF Logs!addable
  <1>4. Logs!clearShown \in SUBSET picked
    BY DEF Logs!clearShown
  <1> QED
    BY <1>1, <1>2, <1>3, <1>4 DEF Logs!Selections

\* The rows are lines that were kept.
LEMMA RowsAreLines == LogTypes => Logs!rows \subseteq LogLine
  <1> SUFFICES ASSUME LogTypes PROVE \A i \in DOMAIN lines[logTab] : lines[logTab][i] \in LogLine
    BY DEF Logs!rows
  <1>1. lines[logTab] \in Seq(LogLine)
    BY DEF LogTypes, Kept
  <1> QED
    BY <1>1

\* Adding at most one element adds at most one to the count.
LEMMA OneMore ==
    ASSUME NEW Q, IsFiniteSet(Q), NEW x, NEW R, R \subseteq Q \cup {x}
    PROVE  /\ IsFiniteSet(R) /\ Cardinality(R) \in Nat
           /\ Cardinality(R) <= Cardinality(Q) + 1
  <1>1. /\ IsFiniteSet(Q \cup {x})
        /\ \/ Cardinality(Q \cup {x}) = Cardinality(Q)
           \/ Cardinality(Q \cup {x}) = Cardinality(Q) + 1
    BY FS_AddElement
  <1>2. IsFiniteSet(R) /\ Cardinality(R) <= Cardinality(Q \cup {x})
    BY <1>1, FS_Subset
  <1>3. Cardinality(Q) \in Nat /\ Cardinality(R) \in Nat
    BY <1>2, FS_CardinalityType
  <1> QED
    BY <1>1, <1>2, <1>3

\* A line taken in adds at most itself to the unseen ones.
LEMMA TakenUnseen ==
    ASSUME LogTypes, NEW t \in Logs!Tabs, NEW x \in LogLine, Taken(t, x)
    PROVE  Logs!Unseen' \subseteq Logs!Unseen \cup {x}
  <1>1. buffers[t] \in Kept
    BY DEF LogTypes
  <1>2. \A b : b \in Range(Logs!appendCapped(buffers[t], x)) => b \in Range(buffers[t]) \cup {x}
    BY <1>1, Capped
  <1>3. \A q : Logs!Range(q) = Range(q)
    BY DEF Logs!Range, Range
  <1>4. /\ buffers' = [buffers EXCEPT ![t] = Logs!appendCapped(@, x)]
        /\ buffers \in [Logs!Tabs -> Kept] /\ lines' = lines
    BY DEF Taken, LogTypes
  <1>5. \A u \in Logs!Tabs : buffers'[u] = IF u = t THEN Logs!appendCapped(buffers[t], x)
                                          ELSE buffers[u]
    BY <1>4
  <1>6. \A u \in Logs!Tabs : \A b : b \in Range(buffers'[u]) => b \in Range(buffers[u]) \cup {x}
    BY <1>2, <1>5
  <1> QED
    BY <1>3, <1>4, <1>6 DEF Logs!Unseen

\* The waiting lines depend on nothing but the buffers and the switches.
LEMMA WaitingSame ==
    ASSUME WaitingCounted,
           UNCHANGED <<logPage, flushTimer, pending, pendingRef, paused, lines, buffers, early>>
    PROVE  WaitingCounted'
  BY DEF WaitingCounted, Logs!Unseen

\* What was ended stays ended.
LEMMA EndStep ==
    ASSUME LogTypes, IdsAreEvents, NothingAfterTheEnd, Logs!LogNext
    PROVE  NothingAfterTheEnd'
  <1> USE DEF Logs!theCounts, Logs!theBuffers, Logs!theView, Logs!theLink,
              LogTypes, NothingAfterTheEnd, Logs!NothingAfterTheEnd
  <1>1. CASE Logs!GrantTicket
    BY <1>1 DEF Logs!GrantTicket
  <1>2. CASE Logs!RefuseTicket
    BY <1>2 DEF Logs!RefuseTicket, Logs!retryIn
  <1>3. CASE Logs!Reconnect
    BY <1>3 DEF Logs!Reconnect
  <1>4. CASE Logs!onopen
    BY <1>4 DEF Logs!onopen
  <1>5. CASE Logs!Leave
    BY <1>5 DEF Logs!Leave
  <1>6. CASE Logs!ReadWatch
    BY <1>6 DEF Logs!ReadWatch
  <1>7. ASSUME NEW reason \in {1006, 4400, 4401, 4403}, Logs!onclose(reason) PROVE NothingAfterTheEnd'
    BY <1>7 DEF Logs!onclose, Logs!FinalCodes
  <1>8. CASE Logs!Line("p1", "request")
    <2>1. PICK t \in Logs!Tabs, x \in LogLine : Taken(t, x)
      BY <1>8, LineTaken
    <2> QED
      BY <2>1 DEF Taken
  <1>9. CASE Logs!Line("s1", "stream")
    <2>1. PICK t \in Logs!Tabs, x \in LogLine : Taken(t, x)
      BY <1>9, LineTaken
    <2> QED
      BY <2>1 DEF Taken
  <1>10. CASE Logs!Decision
    <2>1. PICK t \in Logs!Tabs, x \in LogLine : Taken(t, x)
      BY <1>10, LineTaken
    <2> QED
      BY <2>1 DEF Taken
  <1>11. CASE Logs!flush
    BY <1>11 DEF Logs!flush
  <1>12. CASE Logs!clear
    BY <1>12 DEF Logs!clear, Logs!Press
  <1>13. CASE Logs!Pick
    BY <1>13 DEF Logs!Pick
  <1>14. CASE Logs!select
    BY <1>14 DEF Logs!select, Logs!Press
  <1>15. ASSUME NEW b \in BOOLEAN, Logs!setPaused(b) PROVE NothingAfterTheEnd'
    BY <1>15 DEF Logs!setPaused, Logs!Press
  <1>16. ASSUME NEW t \in Logs!Tabs, Logs!SwitchTab(t) PROVE NothingAfterTheEnd'
    BY <1>16 DEF Logs!SwitchTab
  <1> QED
    BY <1>1, <1>2, <1>3, <1>4, <1>5, <1>6, <1>7, <1>8, <1>9, <1>10, <1>11, <1>12, <1>13,
       <1>14, <1>15, <1>16 DEF Logs!LogNext

\* Every change of the selection follows on an open socket.
LEMMA WatchStep ==
    ASSUME LogTypes, IdsAreEvents, LastWatch, Logs!LogNext
    PROVE  LastWatch'
  <1> USE DEF Logs!theCounts, Logs!theBuffers, Logs!theView, Logs!theLink,
              LogTypes, LastWatch, Logs!watchRef
  <1>1. CASE Logs!GrantTicket
    BY <1>1 DEF Logs!GrantTicket
  <1>2. CASE Logs!RefuseTicket
    BY <1>2 DEF Logs!RefuseTicket, Logs!retryIn
  <1>3. CASE Logs!Reconnect
    BY <1>3 DEF Logs!Reconnect
  <1>4. CASE Logs!onopen
    BY <1>4 DEF Logs!onopen
  <1>5. CASE Logs!Leave
    BY <1>5 DEF Logs!Leave
  <1>6. CASE Logs!ReadWatch
    <2>1. CASE Len(toServer) = 1
      BY <1>6, <2>1 DEF Logs!ReadWatch
    <2>2. CASE Len(toServer) # 1
      <3>1. toServer \in Seq(Frame) /\ toServer # <<>>
        BY <1>6 DEF Logs!ReadWatch
      <3>2. Tail(toServer) # <<>> /\ Tail(toServer)[Len(Tail(toServer))] = toServer[Len(toServer)]
        BY <2>2, <3>1, LastOfTail
      <3> QED
        BY <1>6, <3>2 DEF Logs!ReadWatch
    <2> QED
      BY <2>1, <2>2
  <1>7. ASSUME NEW reason \in {1006, 4400, 4401, 4403}, Logs!onclose(reason) PROVE LastWatch'
    BY <1>7 DEF Logs!onclose, Logs!FinalCodes
  <1>8. CASE Logs!Line("p1", "request")
    <2>1. PICK t \in Logs!Tabs, x \in LogLine : Taken(t, x)
      BY <1>8, LineTaken
    <2> QED
      BY <2>1 DEF Taken
  <1>9. CASE Logs!Line("s1", "stream")
    <2>1. PICK t \in Logs!Tabs, x \in LogLine : Taken(t, x)
      BY <1>9, LineTaken
    <2> QED
      BY <2>1 DEF Taken
  <1>10. CASE Logs!Decision
    <2>1. PICK t \in Logs!Tabs, x \in LogLine : Taken(t, x)
      BY <1>10, LineTaken
    <2> QED
      BY <2>1 DEF Taken
  <1>11. CASE Logs!flush
    BY <1>11 DEF Logs!flush
  <1>12. CASE Logs!clear
    BY <1>12 DEF Logs!clear
  <1>13. CASE Logs!Pick
    BY <1>13 DEF Logs!Pick, Logs!Rewatch, Logs!SendWatch, Logs!watchRef
  <1>14. CASE Logs!select
    BY <1>14 DEF Logs!select
  <1>15. ASSUME NEW b \in BOOLEAN, Logs!setPaused(b) PROVE LastWatch'
    BY <1>15 DEF Logs!setPaused
  <1>16. ASSUME NEW t \in Logs!Tabs, Logs!SwitchTab(t) PROVE LastWatch'
    BY <1>16 DEF Logs!SwitchTab, Logs!Rewatch, Logs!SendWatch
  <1> QED
    BY <1>1, <1>2, <1>3, <1>4, <1>5, <1>6, <1>7, <1>8, <1>9, <1>10, <1>11, <1>12, <1>13,
       <1>14, <1>15, <1>16 DEF Logs!LogNext

\* Ids are given out as lines are written.
LEMMA IdsStep ==
    ASSUME LogTypes, IdsAreEvents, Logs!LogNext
    PROVE  IdsAreEvents'
  <1> USE DEF Logs!theCounts, Logs!theBuffers, Logs!theView, Logs!theLink,
              LogTypes, IdsAreEvents
  <1>1. CASE Logs!GrantTicket
    BY <1>1 DEF Logs!GrantTicket
  <1>2. CASE Logs!RefuseTicket
    BY <1>2 DEF Logs!RefuseTicket, Logs!retryIn
  <1>3. CASE Logs!Reconnect
    BY <1>3 DEF Logs!Reconnect
  <1>4. CASE Logs!onopen
    BY <1>4 DEF Logs!onopen
  <1>5. CASE Logs!Leave
    BY <1>5 DEF Logs!Leave
  <1>6. CASE Logs!ReadWatch
    BY <1>6 DEF Logs!ReadWatch
  <1>7. ASSUME NEW reason \in {1006, 4400, 4401, 4403}, Logs!onclose(reason) PROVE IdsAreEvents'
    BY <1>7 DEF Logs!onclose
  <1>8. CASE Logs!Line("p1", "request")
    <2>1. PICK t \in Logs!Tabs, x \in LogLine : Taken(t, x)
      BY <1>8, LineTaken
    <2> QED
      BY <2>1 DEF Taken
  <1>9. CASE Logs!Line("s1", "stream")
    <2>1. PICK t \in Logs!Tabs, x \in LogLine : Taken(t, x)
      BY <1>9, LineTaken
    <2> QED
      BY <2>1 DEF Taken
  <1>10. CASE Logs!Decision
    <2>1. PICK t \in Logs!Tabs, x \in LogLine : Taken(t, x)
      BY <1>10, LineTaken
    <2> QED
      BY <2>1 DEF Taken
  <1>11. CASE Logs!flush
    BY <1>11 DEF Logs!flush
  <1>12. CASE Logs!clear
    BY <1>12 DEF Logs!clear, Logs!Press
  <1>13. CASE Logs!Pick
    BY <1>13 DEF Logs!Pick
  <1>14. CASE Logs!select
    <2>1. PICK l \in Logs!rows : /\ selectedId' = IF selectedId = l.id THEN 0 ELSE l.id
                                 /\ choice' = IF selectedId = l.id THEN 0 ELSE l.event
      BY <1>14 DEF Logs!select, Logs!LogRow, Logs!LogCard
    <2>2. l \in LogLine
      BY <2>1, RowsAreLines
    <2>3. l.id \in Nat /\ l.id = l.event
      BY <2>2 DEF LogLine
    <2> QED
      BY <1>14, <2>1, <2>3 DEF Logs!select
  <1>15. ASSUME NEW b \in BOOLEAN, Logs!setPaused(b) PROVE IdsAreEvents'
    BY <1>15 DEF Logs!setPaused
  <1>16. ASSUME NEW t \in Logs!Tabs, Logs!SwitchTab(t) PROVE IdsAreEvents'
    BY <1>16 DEF Logs!SwitchTab
  <1> QED
    BY <1>1, <1>2, <1>3, <1>4, <1>5, <1>6, <1>7, <1>8, <1>9, <1>10, <1>11, <1>12, <1>13,
       <1>14, <1>15, <1>16 DEF Logs!LogNext

\* Every step keeps the types and the caps.
LEMMA LogTypesStep ==
    ASSUME LogTypes, IdsAreEvents, Logs!LogNext
    PROVE  LogTypes'
  <1> USE DEF Logs!theCounts, Logs!theBuffers, Logs!theView, Logs!theLink,
              LogTypes
  <1>1. CASE Logs!GrantTicket
    BY <1>1 DEF Logs!GrantTicket
  <1>2. CASE Logs!RefuseTicket
    BY <1>2 DEF Logs!RefuseTicket, Logs!retryIn
  <1>3. CASE Logs!Reconnect
    BY <1>3 DEF Logs!Reconnect
  <1>4. CASE Logs!onopen
    <2>1. toServer' \in Seq(Frame) /\ serverWatch' \in Frame
      BY <1>4, WatchIsFrame DEF Logs!onopen, Logs!watchRef
    <2> QED
      BY <1>4, <2>1 DEF Logs!onopen
  <1>5. CASE Logs!Leave
    <2>1. toServer' \in Seq(Frame) /\ serverWatch' \in Frame
      BY <1>5, WatchIsFrame DEF Logs!Leave
    <2>2. flushTimer' \in BOOLEAN
      BY <1>5, Zenon DEF Logs!Leave
    <2> QED
      BY <1>5, <2>1, <2>2 DEF Logs!Leave
  <1>6. CASE Logs!ReadWatch
    BY <1>6 DEF Logs!ReadWatch
  <1>7. ASSUME NEW reason \in {1006, 4400, 4401, 4403}, Logs!onclose(reason) PROVE LogTypes'
    <2>1. toServer' \in Seq(Frame) /\ serverWatch' \in Frame
      BY <1>7, WatchIsFrame DEF Logs!onclose
    <2>2. lastWas401' = (lastWas401 \/ reason = 4401)
      BY <1>7 DEF Logs!onclose
    <2>3. lastWas401' \in BOOLEAN
      BY <2>2
    <2> QED
      BY <1>7, <2>1, <2>3 DEF Logs!onclose
  <1>8. CASE Logs!Line("p1", "request")
    <2>1. PICK t \in Logs!Tabs, x \in LogLine : Taken(t, x)
      BY <1>8, LineTaken
    <2>2. Logs!appendCapped(buffers[t], x) \in Kept
      BY Capped
    <2>3. buffers' \in [Logs!Tabs -> Kept]
      BY <2>1, <2>2 DEF Taken
    <2>4. flushTimer' \in BOOLEAN /\ lastWas401' \in BOOLEAN
      BY <2>1, Zenon DEF Taken
    <2>5. pendingRef' \in Nat /\ written' \in Nat
      BY <2>1 DEF Taken
    <2> QED
      BY <2>1, <2>3, <2>4, <2>5 DEF Taken
  <1>9. CASE Logs!Line("s1", "stream")
    <2>1. PICK t \in Logs!Tabs, x \in LogLine : Taken(t, x)
      BY <1>9, LineTaken
    <2>2. Logs!appendCapped(buffers[t], x) \in Kept
      BY Capped
    <2>3. buffers' \in [Logs!Tabs -> Kept]
      BY <2>1, <2>2 DEF Taken
    <2>4. flushTimer' \in BOOLEAN /\ lastWas401' \in BOOLEAN
      BY <2>1, Zenon DEF Taken
    <2>5. pendingRef' \in Nat /\ written' \in Nat
      BY <2>1 DEF Taken
    <2> QED
      BY <2>1, <2>3, <2>4, <2>5 DEF Taken
  <1>10. CASE Logs!Decision
    <2>1. PICK t \in Logs!Tabs, x \in LogLine : Taken(t, x)
      BY <1>10, LineTaken
    <2>2. Logs!appendCapped(buffers[t], x) \in Kept
      BY Capped
    <2>3. buffers' \in [Logs!Tabs -> Kept]
      BY <2>1, <2>2 DEF Taken
    <2>4. flushTimer' \in BOOLEAN /\ lastWas401' \in BOOLEAN
      BY <2>1, Zenon DEF Taken
    <2>5. pendingRef' \in Nat /\ written' \in Nat
      BY <2>1 DEF Taken
    <2> QED
      BY <2>1, <2>3, <2>4, <2>5 DEF Taken
  <1>11. CASE Logs!flush
    <2>1. flushTimer' \in BOOLEAN /\ early' \in BOOLEAN
      BY <1>11, Zenon DEF Logs!flush
    <2>2. pendingRef' \in Nat /\ pending' \in Nat
      BY <1>11 DEF Logs!flush
    <2> QED
      BY <1>11, <2>1, <2>2 DEF Logs!flush
  <1>12. CASE Logs!clear
    <2>1. early' \in BOOLEAN
      BY <1>12, Zenon DEF Logs!clear
    <2>2. Logs!emptyBuffers \in [Logs!Tabs -> Kept]
      <3>1. <<>> \in Kept
        BY LogConstants DEF Kept
      <3> QED
        BY <3>1 DEF Logs!emptyBuffers
    <2> QED
      BY <1>12, <2>1, <2>2 DEF Logs!clear
  <1>13. CASE Logs!Pick
    <2>1. picked' \in Pickable
      BY <1>13, SelectionsPickable DEF Logs!Pick
    <2>2. Logs!Watch(logTab, picked') \in Frame
      BY <2>1, WatchIsFrame
    <2>3. toServer' \in Seq(Frame)
      BY <1>13, <2>2 DEF Logs!Pick, Logs!Rewatch, Logs!SendWatch
    <2> QED
      BY <1>13, <2>1, <2>3 DEF Logs!Pick
  <1>14. CASE Logs!select
    <2>1. PICK l \in Logs!rows : /\ selectedId' = IF selectedId = l.id THEN 0 ELSE l.id
                                 /\ choice' = IF selectedId = l.id THEN 0 ELSE l.event
      BY <1>14 DEF Logs!select, Logs!LogRow, Logs!LogCard
    <2>2. l \in LogLine
      BY <2>1, RowsAreLines
    <2>3. l.id \in Nat /\ l.id = l.event
      BY <2>2 DEF LogLine
    <2>4. selectedId' \in Nat
      BY <2>1, <2>3
    <2> QED
      BY <1>14, <2>4 DEF Logs!select
  <1>15. ASSUME NEW b \in BOOLEAN, Logs!setPaused(b) PROVE LogTypes'
    BY <1>15 DEF Logs!setPaused, Logs!Press
  <1>16. ASSUME NEW t \in Logs!Tabs, Logs!SwitchTab(t) PROVE LogTypes'
    <2>1. Logs!Watch(t, picked) \in Frame
      BY WatchIsFrame
    <2>2. toServer' \in Seq(Frame)
      BY <1>16, <2>1 DEF Logs!SwitchTab, Logs!Rewatch, Logs!SendWatch
    <2> QED
      BY <1>16, <2>2 DEF Logs!SwitchTab
  <1> QED
    BY <1>1, <1>2, <1>3, <1>4, <1>5, <1>6, <1>7, <1>8, <1>9, <1>10, <1>11, <1>12, <1>13,
       <1>14, <1>15, <1>16 DEF Logs!LogNext

\* The count grows with the lines that wait.
LEMMA WaitingStep ==
    ASSUME LogTypes, IdsAreEvents, WaitingCounted, Logs!LogNext
    PROVE  WaitingCounted'
  <1> USE DEF Logs!theCounts, Logs!theBuffers, Logs!theView, Logs!theLink,
              LogTypes, WaitingCounted
  <1>1. CASE Logs!GrantTicket
    BY <1>1, WaitingSame DEF Logs!GrantTicket
  <1>2. CASE Logs!RefuseTicket
    BY <1>2, WaitingSame DEF Logs!RefuseTicket
  <1>3. CASE Logs!Reconnect
    BY <1>3, WaitingSame DEF Logs!Reconnect
  <1>4. CASE Logs!onopen
    BY <1>4, WaitingSame DEF Logs!onopen
  <1>5. CASE Logs!Leave
    <2>1. logPage' # "on"
      BY <1>5 DEF Logs!Leave
    <2> QED
      BY <2>1
  <1>6. CASE Logs!ReadWatch
    BY <1>6, WaitingSame DEF Logs!ReadWatch
  <1>7. ASSUME NEW reason \in {1006, 4400, 4401, 4403}, Logs!onclose(reason) PROVE WaitingCounted'
    BY <1>7, WaitingSame DEF Logs!onclose
  <1>8. CASE Logs!Line("p1", "request")
    <2>1. PICK t \in Logs!Tabs, x \in LogLine : Taken(t, x)
      BY <1>8, LineTaken
    <2>2. (logPage = "on" /\ paused /\ ~early) =>
             (IsFiniteSet(Logs!Unseen) /\ Cardinality(Logs!Unseen) <= pendingRef)'
      <3> SUFFICES ASSUME logPage = "on", paused, ~early
                   PROVE  IsFiniteSet(Logs!Unseen') /\ Cardinality(Logs!Unseen') <= pendingRef'
        OBVIOUS
      <3>1. IsFiniteSet(Logs!Unseen) /\ Cardinality(Logs!Unseen) <= pendingRef
        OBVIOUS
      <3>2. Logs!Unseen' \subseteq Logs!Unseen \cup {x}
        BY <2>1, TakenUnseen
      <3>3. /\ IsFiniteSet(Logs!Unseen') /\ Cardinality(Logs!Unseen') \in Nat
            /\ Cardinality(Logs!Unseen') <= Cardinality(Logs!Unseen) + 1
        BY <3>1, <3>2, OneMore
      <3>4. Cardinality(Logs!Unseen) \in Nat
        BY <3>1, FS_CardinalityType
      <3>5. pendingRef' = pendingRef + 1
        BY <2>1 DEF Taken
      <3> QED
        BY <3>1, <3>3, <3>4, <3>5
    <2> QED
      BY <2>1, <2>2 DEF Taken
  <1>9. CASE Logs!Line("s1", "stream")
    <2>1. PICK t \in Logs!Tabs, x \in LogLine : Taken(t, x)
      BY <1>9, LineTaken
    <2>2. (logPage = "on" /\ paused /\ ~early) =>
             (IsFiniteSet(Logs!Unseen) /\ Cardinality(Logs!Unseen) <= pendingRef)'
      <3> SUFFICES ASSUME logPage = "on", paused, ~early
                   PROVE  IsFiniteSet(Logs!Unseen') /\ Cardinality(Logs!Unseen') <= pendingRef'
        OBVIOUS
      <3>1. IsFiniteSet(Logs!Unseen) /\ Cardinality(Logs!Unseen) <= pendingRef
        OBVIOUS
      <3>2. Logs!Unseen' \subseteq Logs!Unseen \cup {x}
        BY <2>1, TakenUnseen
      <3>3. /\ IsFiniteSet(Logs!Unseen') /\ Cardinality(Logs!Unseen') \in Nat
            /\ Cardinality(Logs!Unseen') <= Cardinality(Logs!Unseen) + 1
        BY <3>1, <3>2, OneMore
      <3>4. Cardinality(Logs!Unseen) \in Nat
        BY <3>1, FS_CardinalityType
      <3>5. pendingRef' = pendingRef + 1
        BY <2>1 DEF Taken
      <3> QED
        BY <3>1, <3>3, <3>4, <3>5
    <2> QED
      BY <2>1, <2>2 DEF Taken
  <1>10. CASE Logs!Decision
    <2>1. PICK t \in Logs!Tabs, x \in LogLine : Taken(t, x)
      BY <1>10, LineTaken
    <2>2. (logPage = "on" /\ paused /\ ~early) =>
             (IsFiniteSet(Logs!Unseen) /\ Cardinality(Logs!Unseen) <= pendingRef)'
      <3> SUFFICES ASSUME logPage = "on", paused, ~early
                   PROVE  IsFiniteSet(Logs!Unseen') /\ Cardinality(Logs!Unseen') <= pendingRef'
        OBVIOUS
      <3>1. IsFiniteSet(Logs!Unseen) /\ Cardinality(Logs!Unseen) <= pendingRef
        OBVIOUS
      <3>2. Logs!Unseen' \subseteq Logs!Unseen \cup {x}
        BY <2>1, TakenUnseen
      <3>3. /\ IsFiniteSet(Logs!Unseen') /\ Cardinality(Logs!Unseen') \in Nat
            /\ Cardinality(Logs!Unseen') <= Cardinality(Logs!Unseen) + 1
        BY <3>1, <3>2, OneMore
      <3>4. Cardinality(Logs!Unseen) \in Nat
        BY <3>1, FS_CardinalityType
      <3>5. pendingRef' = pendingRef + 1
        BY <2>1 DEF Taken
      <3> QED
        BY <3>1, <3>3, <3>4, <3>5
    <2> QED
      BY <2>1, <2>2 DEF Taken
  <1>11. CASE Logs!flush
    <2>1. CASE paused
      BY <1>11, <2>1 DEF Logs!flush, Logs!Unseen
    <2>2. CASE ~paused
      BY <1>11, <2>2 DEF Logs!flush
    <2> QED
      BY <2>1, <2>2
  <1>12. CASE Logs!clear
    <2>1. /\ buffers' = lines' /\ pendingRef' = 0 /\ pending' = 0
      BY <1>12 DEF Logs!clear
    <2>2. Logs!Unseen' = {}
      BY <2>1 DEF Logs!Unseen
    <2> QED
      BY <2>1, <2>2, FS_EmptySet
  <1>13. CASE Logs!Pick
    BY <1>13, WaitingSame DEF Logs!Pick
  <1>14. CASE Logs!select
    BY <1>14, WaitingSame DEF Logs!select
  <1>15. ASSUME NEW b \in BOOLEAN, Logs!setPaused(b) PROVE WaitingCounted'
    <2>1. /\ UNCHANGED <<logPage, buffers, lines, pendingRef, pending>>
          /\ logPage = "on" /\ paused' = b /\ b # paused
          /\ flushTimer' = (flushTimer \/ ~b)
          /\ early' = IF b THEN flushTimer ELSE early
      BY <1>15 DEF Logs!setPaused, Logs!Press
    <2>2. CASE b = FALSE
      BY <2>1, <2>2
    <2>3. CASE b = TRUE /\ ~flushTimer
      <3>1. lines = buffers /\ pending = pendingRef
        BY <2>1, <2>3
      <3>2. Logs!Unseen' = {}
        BY <2>1, <3>1 DEF Logs!Unseen
      <3> QED
        BY <2>1, <2>3, <3>1, <3>2, FS_EmptySet
    <2>4. CASE b = TRUE /\ flushTimer
      BY <2>1, <2>4
    <2> QED
      BY <2>2, <2>3, <2>4
  <1>16. ASSUME NEW t \in Logs!Tabs, Logs!SwitchTab(t) PROVE WaitingCounted'
    BY <1>16, WaitingSame DEF Logs!SwitchTab
  <1> QED
    BY <1>1, <1>2, <1>3, <1>4, <1>5, <1>6, <1>7, <1>8, <1>9, <1>10, <1>11, <1>12, <1>13,
       <1>14, <1>15, <1>16 DEF Logs!LogNext

-----------------------------------------------------------------------------
(* The results.                                                            *)

\* Whatever part the console opens with, the page starts within the invariant.
LEMMA LogInitially == Init => LogInv
  <1> SUFFICES ASSUME Init PROVE LogInv
    OBVIOUS
  <1>1. PICK p \in {"on", "off"}, k \in {"ticket", "none"} : Logs!LogClean(p, k)
    BY DEF Init, Logs!LogInit, Logs!LogOff
  <1>2. /\ logPage = p /\ link = k /\ logTab = "requests" /\ picked = {}
        /\ linkStatus = "connecting" /\ lastWas401 = FALSE
        /\ toServer = <<>> /\ serverWatch = Logs!NoWatch
        /\ buffers = Logs!emptyBuffers /\ lines = Logs!emptyBuffers
        /\ paused = FALSE /\ pendingRef = 0 /\ pending = 0 /\ flushTimer = FALSE
        /\ nextLine = 1 /\ selectedId = 0 /\ written = 0 /\ early = FALSE /\ choice = 0
    BY <1>1 DEF Logs!LogClean
  <1>3. LogTypes
    <2>1. {} \in Pickable
      BY DEF Pickable, Logs!ALL
    <2>2. /\ lastWas401 \in BOOLEAN /\ paused \in BOOLEAN /\ flushTimer \in BOOLEAN
          /\ early \in BOOLEAN
      BY <1>2, Zenon
    <2>3. Logs!emptyBuffers \in [Logs!Tabs -> Kept]
      <3>1. <<>> \in Kept
        BY LogConstants DEF Kept
      <3> QED
        BY <3>1 DEF Logs!emptyBuffers
    <2>4. "requests" \in Logs!Tabs
      BY DEF Logs!Tabs
    <2>5. toServer \in Seq(Frame)
      BY <1>2
    <2> QED
      BY <1>2, <2>1, <2>2, <2>3, <2>4, <2>5, WatchIsFrame DEF LogTypes
  <1>4. LastWatch /\ IdsAreEvents /\ NothingAfterTheEnd
    BY <1>2 DEF LastWatch, IdsAreEvents, NothingAfterTheEnd, Logs!NothingAfterTheEnd
  <1>5. WaitingCounted
    BY <1>2 DEF WaitingCounted
  <1> QED
    BY <1>3, <1>4, <1>5 DEF LogInv

\* A step of the page keeps it, and the other parts leave the page alone.
LEMMA LogStep ==
    ASSUME LogInv, [Next]_vars
    PROVE  LogInv'
  <1>1. CASE Logs!LogNext
    BY <1>1, LogTypesStep, WatchStep, IdsStep, WaitingStep, EndStep DEF LogInv
  <1>2. CASE UNCHANGED L
    <2>1. WaitingCounted'
      BY <1>2, WaitingSame DEF L, LogInv
    <2> QED
      BY <1>2, <2>1 DEF L, LogInv, LogTypes, LastWatch, IdsAreEvents, NothingAfterTheEnd,
                        Logs!NothingAfterTheEnd, Logs!watchRef
  <1> QED
    BY <1>1, <1>2 DEF Next, vars

\* The inductive invariant of the live logs page holds in the whole console.
THEOREM LogInductive == Spec => []LogInv
  <1>1. Init => LogInv
    BY LogInitially
  <1>2. LogInv /\ [Next]_vars => LogInv'
    BY LogStep
  <1> QED
    BY <1>1, <1>2, PTL DEF Spec

\* onclose, connect and the effect's cleanup: a page that was left holds no
\* socket and no timer, and one that was refused for good never tries again.
THEOREM NothingAfterTheEndHolds == Spec => []NothingAfterTheEnd
  <1>1. LogInv => NothingAfterTheEnd
    BY DEF LogInv
  <1> QED
    BY <1>1, LogInductive, PTL

\* The watch effect and onopen: once the server has read what was sent to it,
\* it streams what the page shows as picked.
THEOREM WatchReachesServerHolds == Spec => []WatchReachesServer
  <1>1. LogInv => WatchReachesServer
    BY DEF LogInv, LastWatch, WatchReachesServer, Logs!WatchReachesServer
  <1> QED
    BY <1>1, LogInductive, PTL

\* handleFrame, flush, setPaused, clear and the rows: no line is taken in
\* twice, none waits uncounted, and the panel stays on the line tapped.
THEOREM LinesAccountedForHolds == Spec => []LinesAccountedFor
  <1>1. ASSUME LogInv PROVE LinesAccountedFor
    <2>1. Logs!EachLineOnce
      BY <1>1 DEF LogInv, LogTypes, IdsAreEvents, Logs!EachLineOnce
    <2>2. Logs!NothingWaitsUnseen
      BY <1>1 DEF LogInv, WaitingCounted, Logs!NothingWaitsUnseen
    <2>3. Logs!PendingCoversUnseen
      <3> SUFFICES ASSUME logPage = "on", paused, ~flushTimer, ~early
                   PROVE  pending >= Logs!Cardinality(Logs!Unseen)
        BY DEF Logs!PendingCoversUnseen
      <3>1. /\ pending = pendingRef /\ IsFiniteSet(Logs!Unseen)
            /\ Cardinality(Logs!Unseen) <= pendingRef
        BY <1>1 DEF LogInv, WaitingCounted
      <3>2. Cardinality(Logs!Unseen) \in Nat
        BY <3>1, FS_CardinalityType
      <3>3. pending \in Nat
        BY <1>1 DEF LogInv, LogTypes
      <3> QED
        BY <3>1, <3>2, <3>3, LogCardinality
    <2>4. Logs!DetailIsWhatWasTapped
      BY <1>1, RowsAreLines
         DEF LogInv, IdsAreEvents, LogLine, Logs!DetailIsWhatWasTapped, Logs!Detail
    <2> QED
      BY <2>1, <2>2, <2>3, <2>4 DEF LinesAccountedFor
  <1> QED
    BY <1>1, LogInductive, PTL

\* The types of the page, and the cap of each tab.
LEMMA LogTyped == LogInv => Logs!LogTypeOK
  <1> SUFFICES ASSUME LogInv PROVE Logs!LogTypeOK
    OBVIOUS
  <1>1. {lastWas401, paused, flushTimer, early} \subseteq BOOLEAN
    BY Zenon DEF LogInv, LogTypes
  <1>2. \A t \in Logs!Tabs : Len(buffers[t]) <= LineCap /\ Len(lines[t]) <= LineCap
    BY DEF LogInv, LogTypes, Kept
  <1>3. {pendingRef, pending, selectedId, choice} \subseteq Nat
    BY DEF LogInv, LogTypes, IdsAreEvents
  <1>4. picked \subseteq Logs!Options
    BY DEF LogInv, LogTypes, Pickable
  <1> QED
    BY <1>1, <1>2, <1>3, <1>4 DEF LogInv, LogTypes, Logs!LogTypeOK

=============================================================================
