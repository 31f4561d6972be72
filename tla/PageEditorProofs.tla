-------------------------- MODULE PageEditorProofs --------------------------
(***************************************************************************)
(* Proofs about the page editor as it runs in the console, for every set   *)
(* of documents and every bound.                                           *)
(***************************************************************************)
EXTENDS Console, FiniteSets, FiniteSetTheorems, TLAPS

-----------------------------------------------------------------------------
(* The inductive invariant.                                                *)

Form == [name : Editor!Names, html : Docs]
Request == [id : Nat, given : Docs, st : {"sent", "repair", "ok", "err"}, html : Docs,
            aborted : BOOLEAN]

EditorTypes ==
    /\ editor \in {"off", "open"} /\ pageId \in Nat /\ routed \in Nat
    /\ prompts \in Nat /\ edSaves \in Nat
    /\ prompts <= MaxPrompts /\ edSaves <= MaxEdSaves
    /\ doc \in Form /\ savedDoc \in Form
    /\ opening \in {"no", "sent", "ok", "err"} /\ openFailed \in BOOLEAN
    /\ saveAsk \in [st : {"no", "sent", "ok", "err"}, body : Form]
    /\ before \in Docs \cup {"none"} /\ pane \in {"html", "changes"}
    /\ assists \subseteq Request
    /\ abortRef \in 0..prompts

\* The pages the API holds are numbered from 1, and every number the editor
\* goes by is one of them; a page is loaded only when there is one.
PagesHeld ==
    /\ \E n \in Nat :
        /\ held \in [1..n -> Form]
        /\ pageId <= n /\ routed <= n
        /\ n <= edSaves + 1
        /\ saveAsk.st = "sent" => n <= edSaves
    /\ (openFailed \/ opening # "no") => pageId # 0

\* An instruction leaves at most one request behind.
RequestsCounted == IsFiniteSet(assists) /\ Cardinality(assists) <= prompts

\* The requests Cancel was pressed for carry its mark; the one the ref holds has
\* not landed.
CancelMarks ==
    /\ landed \subseteq 1..prompts /\ cancelled \subseteq 1..prompts
    /\ abortRef \notin landed
    /\ \A a \in assists : a.id \in 1..prompts /\ (a.id \in cancelled => a.aborted)
    /\ landed \cap cancelled = {}

\* A save and a load exclude each other; what the view takes for saved is what
\* the API holds, except between the API's acceptance and its answer.
SavedIsHeld ==
    /\ (openFailed \/ opening # "no") => saveAsk.st = "no"
    /\ (pageId # 0 /\ ~openFailed /\ opening = "no" /\ ~unheard) =>
         held[pageId] = IF saveAsk.st = "ok" THEN saveAsk.body ELSE savedDoc

EditorInv ==
    /\ EditorTypes /\ PagesHeld /\ RequestsCounted /\ CancelMarks /\ SavedIsHeld

-----------------------------------------------------------------------------
(* Finite sets under the two ways requests are updated.                    *)

\* Replacing one member leaves a set no larger.
LEMMA Replaced ==
    ASSUME NEW Q, IsFiniteSet(Q), NEW a \in Q, NEW b
    PROVE  /\ IsFiniteSet((Q \ {a}) \cup {b})
           /\ Cardinality((Q \ {a}) \cup {b}) <= Cardinality(Q)
  <1>1. IsFiniteSet(Q \ {a}) /\ Cardinality(Q \ {a}) = Cardinality(Q) - 1
    BY FS_RemoveElement
  <1>2. Cardinality(Q) \in Nat /\ Cardinality(Q \ {a}) \in Nat
    BY <1>1, FS_CardinalityType
  <1>3. /\ IsFiniteSet((Q \ {a}) \cup {b})
        /\ \/ Cardinality((Q \ {a}) \cup {b}) = Cardinality(Q \ {a})
           \/ Cardinality((Q \ {a}) \cup {b}) = Cardinality(Q \ {a}) + 1
    BY <1>1, FS_AddElement
  <1> QED
    BY <1>1, <1>2, <1>3

\* So does updating every member.
LEMMA Mapped ==
    ASSUME NEW Q, IsFiniteSet(Q), NEW f, f = [a \in Q |-> f[a]]
    PROVE  /\ IsFiniteSet({f[a] : a \in Q})
           /\ Cardinality({f[a] : a \in Q}) <= Cardinality(Q)
  <1>1. f \in Surjection(Q, {f[a] : a \in Q})
    BY DEF Surjection
  <1> QED
    BY <1>1, FS_Surjection

\* The editor counts as FiniteSets does.
LEMMA SameCardinality == \A q : Editor!Cardinality(q) = Cardinality(q)
  BY DEF Editor!Cardinality, Cardinality

\* Pages numbered from 1 to n are n pages.
LEMMA HeldCount == \A n \in Nat : Editor!Cardinality(1..n) = n
  <1>1. \A q : Editor!Cardinality(q) = Cardinality(q)
    BY SameCardinality
  <1>2. \A n \in Nat : Cardinality(1..n) = n
    BY FS_Interval
  <1> QED
    BY <1>1, <1>2

-----------------------------------------------------------------------------
(* The steps.                                                              *)

\* A save sends a form, trimmed, or is refused on the spot.
LEMMA SaveSent ==
    ASSUME EditorTypes, Editor!handleSave
    PROVE  /\ Editor!Shown /\ ~Editor!loading /\ ~Editor!isSaving
           /\ edSaves < MaxEdSaves /\ edSaves' = edSaves + 1
           /\ saveAsk' = saveAsk \/ \E f \in Form : saveAsk' = [st |-> "sent", body |-> f]
           /\ UNCHANGED <<editor, pageId, doc, savedDoc, routed, held, Editor!theAi,
                          Editor!theHistory, Editor!theLoad, promptOpen, reading, strokes,
                          edFaults>>
  <1>1. [doc EXCEPT !.name = Editor!trim(@)] \in Form
    BY DEF EditorTypes, Form, Editor!trim, Editor!Names
  <1> QED
    BY <1>1, Zenon DEF Editor!handleSave

\* Every step keeps the types.
LEMMA EditorTypesStep ==
    ASSUME EditorTypes, PagesHeld, Editor!EditorNext
    PROVE  EditorTypes'
  <1> USE EditorConstants DEF Editor!theForm, Editor!theSave, Editor!theAi, Editor!theHistory,
              Editor!theLoad,
              EditorTypes, Form, Request
  <1>1. ASSUME NEW n \in Editor!Names, Editor!EditName(n) PROVE EditorTypes'
    BY <1>1 DEF Editor!EditName
  <1>2. ASSUME NEW h \in Docs, Editor!TypeHtml(h) PROVE EditorTypes'
    BY <1>2 DEF Editor!TypeHtml, Editor!Rewritten
  <1>3. ASSUME NEW h \in Docs, Editor!ImageRead(h) PROVE EditorTypes'
    BY <1>3 DEF Editor!ImageRead, Editor!Rewritten
  <1>4. ASSUME NEW h \in Docs, NEW a \in assists, Editor!ServeAssist(a, h) PROVE EditorTypes'
    BY ZenonT(60), <1>4 DEF Editor!ServeAssist, Editor!MayFail
  <1>5. ASSUME NEW p \in {"html", "changes"}, Editor!ChoosePane(p) PROVE EditorTypes'
    BY <1>5 DEF Editor!ChoosePane
  <1>6. ASSUME NEW a \in assists, Editor!AnswerAssist(a) PROVE EditorTypes'
    BY <1>6 DEF Editor!AnswerAssist, Editor!Rewritten, Editor!AssistOver, Editor!BeforeAi
  <1>7. CASE Editor!PickImage
    BY <1>7 DEF Editor!PickImage
  <1>8. CASE Editor!handleSave
    <2> HIDE DEF Form, Request
    <2>1. edSaves' \in Nat /\ edSaves' <= MaxEdSaves
      BY <1>8, SaveSent
    <2>2. saveAsk' \in [st : {"no", "sent", "ok", "err"}, body : Form]
      BY <1>8, SaveSent
    <2> QED
      BY <1>8, SaveSent, <2>1, <2>2
  <1>9. CASE Editor!TogglePrompt
    BY <1>9 DEF Editor!TogglePrompt
  <1>10. CASE Editor!Generate
    <2>1. prompts' \in Nat /\ prompts' <= MaxPrompts /\ prompts <= prompts'
      BY <1>10 DEF Editor!Generate
    <2>2. abortRef' \in 0..prompts'
      BY <1>10, <2>1 DEF Editor!Generate
    <2>3. assists' \subseteq Request
      <3> DEFINE r == [id |-> prompts', given |-> doc.html, st |-> "sent",
                       html |-> doc.html, aborted |-> FALSE]
      <3>1. r \in Request
        BY <2>1
      <3>2. assists' = assists \/ assists' = assists \cup {r}
        BY <1>10 DEF Editor!Generate
      <3> HIDE DEF r, Request
      <3> QED
        BY <3>1, <3>2
    <2> HIDE DEF Request, Form
    <2> QED
      BY <1>10, <2>1, <2>2, <2>3 DEF Editor!Generate
  <1>11. CASE Editor!handleCancelAssist
    <2>1. ASSUME NEW a \in assists
          PROVE  [a EXCEPT !.aborted = @ \/ a.id = abortRef] \in Request
      <3> DEFINE b == a.aborted \/ a.id = abortRef
      <3>1. b \in BOOLEAN /\ a \in Request
        OBVIOUS
      <3> HIDE DEF b
      <3>2. [a EXCEPT !.aborted = b] \in Request
        BY <3>1
      <3> QED
        BY <3>2 DEF b
    <2>2. assists' \subseteq Request
      BY <1>11, <2>1 DEF Editor!handleCancelAssist, Editor!Aborted
    <2> QED
      BY <1>11, <2>2 DEF Editor!handleCancelAssist
  <1>12. CASE Editor!handleRevertAi
    BY <1>12 DEF Editor!handleRevertAi, Editor!Rewritten
  <1>13. CASE Editor!RetryOpen
    BY <1>13 DEF Editor!RetryOpen
  <1>14. CASE Editor!ServeOpen
    BY <1>14 DEF Editor!ServeOpen, Editor!MayFail
  <1>15. CASE Editor!ServeSave
    BY <1>15 DEF Editor!ServeSave, Editor!StorePage, Editor!PageOf, Editor!MayFail
  <1>16. CASE Editor!AnswerOpen
    BY <1>16 DEF Editor!AnswerOpen, PagesHeld
  <1>17. CASE Editor!LearnLlm
    BY <1>17 DEF Editor!LearnLlm
  <1>18. CASE Editor!AnswerSaved
    <2>1. routed' \in Nat
      <3>1. PICK n \in Nat : DOMAIN held = 1..n
        BY DEF PagesHeld
      <3> QED
        BY <1>18, <3>1, HeldCount DEF Editor!AnswerSaved
    <2> QED
      BY <1>18, <2>1 DEF Editor!AnswerSaved, Editor!SavedAfter, Editor!NoSave, Editor!NEW_FORM,
                     Editor!Names
  <1>19. CASE Editor!Navigate
    <2>1. doc' \in Form /\ savedDoc' \in Form
      BY <1>19 DEF Editor!Navigate, Editor!Mounted, Editor!NEW_FORM, Editor!Names
    <2>2. saveAsk' \in [st : {"no", "sent", "ok", "err"}, body : Form]
      <3>1. Editor!NEW_FORM \in Form
        BY DEF Editor!NEW_FORM, Editor!Names
      <3> HIDE DEF Form
      <3> QED
        BY <1>19, <3>1 DEF Editor!Navigate, Editor!Mounted, Editor!NoSave
    <2>3. /\ pageId' = routed /\ routed' = 0 /\ abortRef' = 0 /\ assists' = {}
          /\ opening' \in {"no", "sent"} /\ openFailed' \in BOOLEAN
          /\ before' = "none" /\ pane' = "html" /\ UNCHANGED <<editor, edSaves, prompts>>
      BY <1>19, Zenon DEF Editor!Navigate, Editor!Mounted
    <2> HIDE DEF Form, Request
    <2> QED
      BY <2>1, <2>2, <2>3
  <1> QED
    BY <1>1, <1>2, <1>3, <1>4, <1>5, <1>6, <1>7, <1>8, <1>9, <1>10, <1>11, <1>12, <1>13,
       <1>14, <1>15, <1>16, <1>17, <1>18, <1>19 DEF Editor!EditorNext

\* Pages keep their numbers: a new one gets the next.
LEMMA PagesStep ==
    ASSUME EditorTypes, PagesHeld, SavedIsHeld, Editor!EditorNext
    PROVE  PagesHeld'
  <1> USE DEF Editor!theForm, Editor!theSave, Editor!theAi, Editor!theHistory,
              Editor!theLoad,
              EditorTypes, Form, PagesHeld
  <1>1. ASSUME NEW n \in Editor!Names, Editor!EditName(n) PROVE PagesHeld'
    BY <1>1 DEF Editor!EditName
  <1>2. ASSUME NEW h \in Docs, Editor!TypeHtml(h) PROVE PagesHeld'
    BY <1>2 DEF Editor!TypeHtml, Editor!Rewritten
  <1>3. ASSUME NEW h \in Docs, Editor!ImageRead(h) PROVE PagesHeld'
    BY <1>3 DEF Editor!ImageRead, Editor!Rewritten
  <1>4. ASSUME NEW h \in Docs, NEW a \in assists, Editor!ServeAssist(a, h) PROVE PagesHeld'
    BY <1>4 DEF Editor!ServeAssist, Editor!MayFail
  <1>5. ASSUME NEW p \in {"html", "changes"}, Editor!ChoosePane(p) PROVE PagesHeld'
    BY <1>5 DEF Editor!ChoosePane
  <1>6. ASSUME NEW a \in assists, Editor!AnswerAssist(a) PROVE PagesHeld'
    BY <1>6 DEF Editor!AnswerAssist, Editor!Rewritten, Editor!AssistOver, Editor!BeforeAi
  <1>7. CASE Editor!PickImage
    BY <1>7 DEF Editor!PickImage
  <1>8. CASE Editor!handleSave
    <2>1. PICK n \in Nat : /\ held \in [1..n -> Form]
                           /\ pageId <= n /\ routed <= n
                           /\ n <= edSaves + 1
      BY DEF PagesHeld
    <2>2. /\ UNCHANGED <<pageId, held, routed, opening, openFailed>>
          /\ edSaves' = edSaves + 1
      BY <1>8, SaveSent
    <2>3. n <= edSaves' + 1 /\ n <= edSaves'
      BY <2>1, <2>2
    <2> QED
      BY <2>1, <2>2, <2>3
  <1>9. CASE Editor!TogglePrompt
    BY <1>9 DEF Editor!TogglePrompt
  <1>10. CASE Editor!Generate
    BY <1>10 DEF Editor!Generate
  <1>11. CASE Editor!handleCancelAssist
    BY <1>11 DEF Editor!handleCancelAssist, Editor!Aborted
  <1>12. CASE Editor!handleRevertAi
    BY <1>12 DEF Editor!handleRevertAi, Editor!Rewritten
  <1>13. CASE Editor!RetryOpen
    BY <1>13 DEF Editor!RetryOpen
  <1>14. CASE Editor!ServeOpen
    BY <1>14 DEF Editor!ServeOpen, Editor!MayFail
  <1>15. CASE Editor!ServeSave
    <2>1. PICK n \in Nat : /\ held \in [1..n -> Form]
                           /\ pageId <= n /\ routed <= n
                           /\ n <= edSaves + 1
                           /\ saveAsk.st = "sent" => n <= edSaves
      BY DEF PagesHeld
    <2>2. /\ UNCHANGED <<pageId, routed, edSaves, opening, openFailed>>
          /\ saveAsk.st = "sent" /\ saveAsk'.st # "sent"
      BY <1>15 DEF Editor!ServeSave
    <2>3. CASE held' = held
      BY <2>1, <2>2, <2>3
    <2>4. CASE Editor!StorePage
      <3> DEFINE q == Editor!PageOf
      <3>1. q \in 1..n \/ q = n + 1
        BY <2>1, HeldCount DEF Editor!PageOf
      <3>2. saveAsk.body \in Form
        OBVIOUS
      <3> DEFINE m == IF q = n + 1 THEN n + 1 ELSE n
      <3>3. DOMAIN held \cup {q} = 1..m
        BY <2>1, <3>1
      <3>4. held' \in [1..m -> Form]
        BY <2>1, <2>4, <3>2, <3>3 DEF Editor!StorePage
      <3>5. m \in Nat /\ n <= m /\ m <= edSaves + 1
        BY <2>1, <2>2
      <3> HIDE DEF m
      <3> QED
        BY SMTT(30), <2>1, <2>2, <3>4, <3>5
    <2> QED
      BY <1>15, <2>3, <2>4 DEF Editor!ServeSave
  <1>16. CASE Editor!AnswerOpen
    BY <1>16 DEF Editor!AnswerOpen
  <1>17. CASE Editor!LearnLlm
    BY <1>17 DEF Editor!LearnLlm
  <1>18. CASE Editor!AnswerSaved
    <2>1. PICK n \in Nat : /\ held \in [1..n -> Form]
                           /\ pageId <= n /\ routed <= n
                           /\ n <= edSaves + 1
      BY DEF PagesHeld
    <2>2. routed' \in Nat /\ routed' <= n
      BY <1>18, <2>1, HeldCount DEF Editor!AnswerSaved
    <2>3. /\ UNCHANGED <<pageId, held, edSaves, opening, openFailed>>
          /\ saveAsk'.st = "no"
      BY <1>18 DEF Editor!AnswerSaved, Editor!NoSave
    <2> QED
      BY <2>1, <2>2, <2>3
  <1>19. CASE Editor!Navigate
    <2>1. PICK n \in Nat : /\ held \in [1..n -> Form]
                           /\ pageId <= n /\ routed <= n
                           /\ n <= edSaves + 1
      BY DEF PagesHeld
    <2>2. /\ pageId' = routed /\ routed # 0 /\ routed' = 0 /\ saveAsk'.st = "no"
          /\ UNCHANGED <<held, edSaves>>
      BY <1>19 DEF Editor!Navigate, Editor!Mounted, Editor!NoSave
    <2> QED
      BY <2>1, <2>2
  <1> QED
    BY <1>1, <1>2, <1>3, <1>4, <1>5, <1>6, <1>7, <1>8, <1>9, <1>10, <1>11, <1>12, <1>13,
       <1>14, <1>15, <1>16, <1>17, <1>18, <1>19 DEF Editor!EditorNext

\* Requests never outnumber the instructions.
LEMMA CountStep ==
    ASSUME EditorTypes, RequestsCounted, Editor!EditorNext
    PROVE  RequestsCounted'
  <1> USE DEF Editor!theForm, Editor!theSave, Editor!theAi, Editor!theHistory,
              Editor!theLoad,
              RequestsCounted
  <1>0. prompts \in Nat /\ Cardinality(assists) \in Nat
    BY FS_CardinalityType DEF EditorTypes
  <1>1. ASSUME NEW n \in Editor!Names, Editor!EditName(n) PROVE RequestsCounted'
    BY <1>1 DEF Editor!EditName
  <1>2. ASSUME NEW h \in Docs, Editor!TypeHtml(h) PROVE RequestsCounted'
    BY <1>2 DEF Editor!TypeHtml, Editor!Rewritten
  <1>3. ASSUME NEW h \in Docs, Editor!ImageRead(h) PROVE RequestsCounted'
    BY <1>3 DEF Editor!ImageRead, Editor!Rewritten
  <1>4. ASSUME NEW h \in Docs, NEW a \in assists, Editor!ServeAssist(a, h) PROVE RequestsCounted'
    <2>1. PICK b : assists' = (assists \ {a}) \cup {b}
      BY <1>4 DEF Editor!ServeAssist
    <2>2. prompts' = prompts
      BY <1>4 DEF Editor!ServeAssist
    <2>3. IsFiniteSet(assists') /\ Cardinality(assists') <= Cardinality(assists)
      BY <2>1, Replaced
    <2>4. Cardinality(assists') \in Nat
      BY <2>3, FS_CardinalityType
    <2> QED
      BY <2>2, <2>3, <2>4, <1>0
  <1>5. ASSUME NEW p \in {"html", "changes"}, Editor!ChoosePane(p) PROVE RequestsCounted'
    BY <1>5 DEF Editor!ChoosePane
  <1>6. ASSUME NEW a \in assists, Editor!AnswerAssist(a) PROVE RequestsCounted'
    <2>1. assists' = assists \ {a} /\ prompts' = prompts
      BY <1>6 DEF Editor!AnswerAssist
    <2>2. IsFiniteSet(assists') /\ Cardinality(assists') = Cardinality(assists) - 1
      BY <2>1, FS_RemoveElement
    <2> QED
      BY <2>1, <2>2, <1>0
  <1>7. CASE Editor!PickImage
    BY <1>7 DEF Editor!PickImage
  <1>8. CASE Editor!handleSave
    BY <1>8 DEF Editor!handleSave, Editor!trim, Editor!Names
  <1>9. CASE Editor!TogglePrompt
    BY <1>9 DEF Editor!TogglePrompt
  <1>10. CASE Editor!Generate
    <2>0. prompts' = prompts + 1
      BY <1>10 DEF Editor!Generate
    <2>1. CASE assists' = assists
      BY <2>0, <2>1, <1>0
    <2>2. CASE assists' # assists
      <3>1. PICK b : assists' = assists \cup {b}
        BY <1>10, <2>2 DEF Editor!Generate
      <3>2. /\ IsFiniteSet(assists')
            /\ \/ Cardinality(assists') = Cardinality(assists)
               \/ Cardinality(assists') = Cardinality(assists) + 1
        BY <3>1, FS_AddElement
      <3> QED
        BY <3>2, <2>0, <1>0
    <2> QED
      BY <2>1, <2>2
  <1>11. CASE Editor!handleCancelAssist
    <2> DEFINE f == [a \in assists |-> [a EXCEPT !.aborted = @ \/ a.id = abortRef]]
    <2>1. assists' = {f[a] : a \in assists} /\ prompts' = prompts
      BY <1>11 DEF Editor!handleCancelAssist, Editor!Aborted
    <2>2. f = [a \in assists |-> f[a]]
      OBVIOUS
    <2> HIDE DEF f
    <2>3. IsFiniteSet(assists') /\ Cardinality(assists') <= Cardinality(assists)
      BY <2>1, <2>2, Mapped
    <2>4. Cardinality(assists') \in Nat
      BY <2>3, FS_CardinalityType
    <2> QED
      BY <2>1, <2>3, <2>4, <1>0
  <1>12. CASE Editor!handleRevertAi
    BY <1>12 DEF Editor!handleRevertAi, Editor!Rewritten
  <1>13. CASE Editor!RetryOpen
    BY <1>13 DEF Editor!RetryOpen
  <1>14. CASE Editor!ServeOpen
    BY <1>14 DEF Editor!ServeOpen, Editor!MayFail
  <1>15. CASE Editor!ServeSave
    BY <1>15 DEF Editor!ServeSave, Editor!StorePage, Editor!PageOf, Editor!MayFail
  <1>16. CASE Editor!AnswerOpen
    BY <1>16 DEF Editor!AnswerOpen
  <1>17. CASE Editor!LearnLlm
    BY <1>17 DEF Editor!LearnLlm
  <1>18. CASE Editor!AnswerSaved
    BY <1>18 DEF Editor!AnswerSaved, Editor!SavedAfter, Editor!NoSave, Editor!NEW_FORM, Editor!Names
  <1>19. CASE Editor!Navigate
    BY <1>19, <1>0, FS_EmptySet DEF Editor!Navigate, Editor!Mounted
  <1> QED
    BY <1>1, <1>2, <1>3, <1>4, <1>5, <1>6, <1>7, <1>8, <1>9, <1>10, <1>11, <1>12, <1>13,
       <1>14, <1>15, <1>16, <1>17, <1>18, <1>19 DEF Editor!EditorNext

\* The marks of Cancel survive every step.
LEMMA CancelStep ==
    ASSUME EditorTypes, CancelMarks, Editor!EditorNext
    PROVE  CancelMarks'
  <1> USE DEF Editor!theForm, Editor!theSave, Editor!theAi, Editor!theHistory,
              Editor!theLoad,
              EditorTypes, Form, Request, CancelMarks
  <1>1. ASSUME NEW n \in Editor!Names, Editor!EditName(n) PROVE CancelMarks'
    BY <1>1 DEF Editor!EditName
  <1>2. ASSUME NEW h \in Docs, Editor!TypeHtml(h) PROVE CancelMarks'
    BY <1>2 DEF Editor!TypeHtml, Editor!Rewritten
  <1>3. ASSUME NEW h \in Docs, Editor!ImageRead(h) PROVE CancelMarks'
    BY <1>3 DEF Editor!ImageRead, Editor!Rewritten
  <1>4. ASSUME NEW h \in Docs, NEW a \in assists, Editor!ServeAssist(a, h) PROVE CancelMarks'
    BY <1>4 DEF Editor!ServeAssist, Editor!MayFail
  <1>5. ASSUME NEW p \in {"html", "changes"}, Editor!ChoosePane(p) PROVE CancelMarks'
    BY <1>5 DEF Editor!ChoosePane
  <1>6. ASSUME NEW a \in assists, Editor!AnswerAssist(a) PROVE CancelMarks'
    BY <1>6 DEF Editor!AnswerAssist, Editor!Rewritten, Editor!AssistOver, Editor!BeforeAi
  <1>7. CASE Editor!PickImage
    BY <1>7 DEF Editor!PickImage
  <1>8. CASE Editor!handleSave
    BY <1>8 DEF Editor!handleSave, Editor!trim, Editor!Names
  <1>9. CASE Editor!TogglePrompt
    BY <1>9 DEF Editor!TogglePrompt
  <1>10. CASE Editor!Generate
    BY <1>10 DEF Editor!Generate
  <1>11. CASE Editor!handleCancelAssist
    <2>1. assists' = {[a EXCEPT !.aborted = @ \/ a.id = abortRef] : a \in assists}
      BY <1>11 DEF Editor!handleCancelAssist, Editor!Aborted
    <2>2. cancelled' = cancelled \cup ({abortRef} \ {0}) /\ abortRef' = 0
      BY <1>11 DEF Editor!handleCancelAssist
    <2>3. prompts' = prompts /\ landed' = landed
      BY <1>11 DEF Editor!handleCancelAssist
    <2>4. ASSUME NEW b \in assists'
          PROVE  b.id \in 1..prompts' /\ (b.id \in cancelled' => b.aborted)
      <3>1. PICK a \in assists : b = [a EXCEPT !.aborted = @ \/ a.id = abortRef]
        BY <2>1
      <3>2. a \in Request /\ a.id \in 1..prompts /\ (a.id \in cancelled => a.aborted)
        OBVIOUS
      <3>3. b.id = a.id /\ b.aborted = (a.aborted \/ a.id = abortRef)
        BY <3>1, <3>2
      <3> QED
        BY <3>2, <3>3, <2>2, <2>3
    <2>5. landed' \cap cancelled' = {} /\ 0 \notin landed'
      BY <2>2, <2>3
    <2> QED
      BY <2>2, <2>3, <2>4, <2>5
  <1>12. CASE Editor!handleRevertAi
    BY <1>12 DEF Editor!handleRevertAi, Editor!Rewritten
  <1>13. CASE Editor!RetryOpen
    BY <1>13 DEF Editor!RetryOpen
  <1>14. CASE Editor!ServeOpen
    BY <1>14 DEF Editor!ServeOpen, Editor!MayFail
  <1>15. CASE Editor!ServeSave
    BY <1>15 DEF Editor!ServeSave, Editor!StorePage, Editor!PageOf, Editor!MayFail
  <1>16. CASE Editor!AnswerOpen
    BY <1>16 DEF Editor!AnswerOpen
  <1>17. CASE Editor!LearnLlm
    BY <1>17 DEF Editor!LearnLlm
  <1>18. CASE Editor!AnswerSaved
    BY <1>18 DEF Editor!AnswerSaved, Editor!SavedAfter, Editor!NoSave, Editor!NEW_FORM, Editor!Names
  <1>19. CASE Editor!Navigate
    BY <1>19 DEF Editor!Navigate, Editor!Mounted, Editor!NoSave, Editor!NEW_FORM, Editor!Names
  <1> QED
    BY <1>1, <1>2, <1>3, <1>4, <1>5, <1>6, <1>7, <1>8, <1>9, <1>10, <1>11, <1>12, <1>13,
       <1>14, <1>15, <1>16, <1>17, <1>18, <1>19 DEF Editor!EditorNext

\* What counts as saved follows what the API holds.
LEMMA SavedStep ==
    ASSUME EditorTypes, PagesHeld, SavedIsHeld, Editor!EditorNext
    PROVE  SavedIsHeld'
  <1> USE DEF Editor!theForm, Editor!theSave, Editor!theAi, Editor!theHistory,
              Editor!theLoad,
              EditorTypes, Form, PagesHeld, SavedIsHeld,
              Editor!Shown, Editor!loading, Editor!isSaving
  <1>1. ASSUME NEW n \in Editor!Names, Editor!EditName(n) PROVE SavedIsHeld'
    BY <1>1 DEF Editor!EditName
  <1>2. ASSUME NEW h \in Docs, Editor!TypeHtml(h) PROVE SavedIsHeld'
    BY <1>2 DEF Editor!TypeHtml, Editor!Rewritten
  <1>3. ASSUME NEW h \in Docs, Editor!ImageRead(h) PROVE SavedIsHeld'
    BY <1>3 DEF Editor!ImageRead, Editor!Rewritten
  <1>4. ASSUME NEW h \in Docs, NEW a \in assists, Editor!ServeAssist(a, h) PROVE SavedIsHeld'
    BY <1>4 DEF Editor!ServeAssist, Editor!MayFail
  <1>5. ASSUME NEW p \in {"html", "changes"}, Editor!ChoosePane(p) PROVE SavedIsHeld'
    BY <1>5 DEF Editor!ChoosePane
  <1>6. ASSUME NEW a \in assists, Editor!AnswerAssist(a) PROVE SavedIsHeld'
    BY <1>6 DEF Editor!AnswerAssist, Editor!Rewritten, Editor!AssistOver, Editor!BeforeAi
  <1>7. CASE Editor!PickImage
    BY <1>7 DEF Editor!PickImage
  <1>8. CASE Editor!handleSave
    BY <1>8, SaveSent
  <1>9. CASE Editor!TogglePrompt
    BY <1>9 DEF Editor!TogglePrompt
  <1>10. CASE Editor!Generate
    BY <1>10 DEF Editor!Generate
  <1>11. CASE Editor!handleCancelAssist
    BY <1>11 DEF Editor!handleCancelAssist, Editor!Aborted
  <1>12. CASE Editor!handleRevertAi
    BY <1>12 DEF Editor!handleRevertAi, Editor!Rewritten
  <1>13. CASE Editor!RetryOpen
    BY <1>13 DEF Editor!RetryOpen
  <1>14. CASE Editor!ServeOpen
    BY <1>14 DEF Editor!ServeOpen, Editor!MayFail
  <1>15. CASE Editor!ServeSave
    BY <1>15 DEF Editor!ServeSave, Editor!StorePage, Editor!PageOf, Editor!MayFail
  <1>16. CASE Editor!AnswerOpen
    BY <1>16 DEF Editor!AnswerOpen
  <1>17. CASE Editor!LearnLlm
    BY <1>17 DEF Editor!LearnLlm
  <1>18. CASE Editor!AnswerSaved
    BY <1>18 DEF Editor!AnswerSaved, Editor!SavedAfter, Editor!NoSave, Editor!NEW_FORM, Editor!Names
  <1>19. CASE Editor!Navigate
    BY <1>19 DEF Editor!Navigate, Editor!Mounted, Editor!NoSave
  <1> QED
    BY <1>1, <1>2, <1>3, <1>4, <1>5, <1>6, <1>7, <1>8, <1>9, <1>10, <1>11, <1>12, <1>13,
       <1>14, <1>15, <1>16, <1>17, <1>18, <1>19 DEF Editor!EditorNext

-----------------------------------------------------------------------------
(* The results.                                                            *)

\* Whatever part the console opens with, the editor starts within the invariant.
LEMMA EditorInitially == Init => EditorInv
  <1> SUFFICES ASSUME Init PROVE EditorInv
    OBVIOUS
  <1>1. Editor!EditorInit \/ Editor!EditorOff
    BY DEF Init
  <1>2. Editor!EditorBlank
    BY <1>1 DEF Editor!EditorInit, Editor!EditorOff
  <1>3. Editor!NEW_FORM \in Form /\ [name |-> "n", html |-> Starter] \in Form
    BY EditorConstants DEF Form, Editor!NEW_FORM, Editor!Names
  <1>4. /\ doc = Editor!NEW_FORM /\ savedDoc = Editor!NEW_FORM
        /\ saveAsk = [st |-> "no", body |-> Editor!NEW_FORM] /\ routed = 0
        /\ before = "none" /\ pane = "html" /\ abortRef = 0 /\ assists = {}
        /\ cancelled = {} /\ landed = {} /\ prompts = 0 /\ edSaves = 0
        /\ openFailed = FALSE
    BY <1>2 DEF Editor!EditorBlank, Editor!NoSave
  <1>5. /\ editor \in {"off", "open"}
        /\ \/ pageId = 0 /\ held = <<>> /\ opening = "no"
           \/ /\ pageId = 1 /\ opening = "sent"
              /\ held = [p \in {1} |-> [name |-> "n", html |-> Starter]]
    BY <1>1 DEF Editor!EditorInit, Editor!EditorOff
  <1>6. EditorTypes
    <2>1. saveAsk \in [st : {"no", "sent", "ok", "err"}, body : Form]
      BY <1>3, <1>4
    <2>2. openFailed \in BOOLEAN
      BY <1>4, Zenon
    <2> QED
      BY <1>3, <1>4, <1>5, <2>1, <2>2, EditorConstants DEF EditorTypes
  <1>7. PagesHeld
    <2>1. CASE pageId = 0 /\ held = <<>> /\ opening = "no"
      <3>1. held \in [1..0 -> Form]
        BY <2>1
      <3> QED
        BY <1>4, <2>1, <3>1 DEF PagesHeld
    <2>2. CASE /\ pageId = 1 /\ opening = "sent"
               /\ held = [p \in {1} |-> [name |-> "n", html |-> Starter]]
      <3>1. held \in [1..1 -> Form]
        BY <1>3, <2>2
      <3> QED
        BY <1>4, <2>2, <3>1 DEF PagesHeld
    <2> QED
      BY <1>5, <2>1, <2>2
  <1>8. RequestsCounted
    BY <1>4, FS_EmptySet DEF RequestsCounted
  <1>9. CancelMarks
    BY <1>4 DEF CancelMarks
  <1>10. SavedIsHeld
    BY <1>4, <1>5 DEF SavedIsHeld
  <1> QED
    BY <1>6, <1>7, <1>8, <1>9, <1>10 DEF EditorInv

\* A step of the editor keeps it, and the other parts leave the editor alone.
LEMMA EditorStep ==
    ASSUME EditorInv, [Next]_vars
    PROVE  EditorInv'
  <1>1. CASE Editor!EditorNext
    BY <1>1, EditorTypesStep, PagesStep, CountStep, CancelStep, SavedStep DEF EditorInv
  <1>2. CASE UNCHANGED E
    BY <1>2 DEF E, EditorInv, EditorTypes, PagesHeld, RequestsCounted, CancelMarks, SavedIsHeld
  <1> QED
    BY <1>1, <1>2 DEF Next, vars

\* The inductive invariant of the page editor holds in the whole console.
THEOREM EditorInductive == Spec => []EditorInv
  <1>1. Init => EditorInv
    BY EditorInitially
  <1>2. EditorInv /\ [Next]_vars => EditorInv'
    BY EditorStep
  <1> QED
    BY <1>1, <1>2, PTL DEF Spec

\* handleCancelAssist: an AI edit that was cancelled never lands, however many
\* instructions are sent and however late their answers come.
THEOREM CancelledNeverLandsHolds == Spec => []CancelledNeverLands
  <1>1. EditorInv => CancelledNeverLands
    BY DEF EditorInv, CancelMarks, CancelledNeverLands, Editor!CancelledNeverLands
  <1> QED
    BY <1>1, EditorInductive, PTL

\* handleSave, load: a page whose Save button is off is stored as it is shown,
\* but for a save whose answer was lost.
THEOREM CleanIsStoredHolds == Spec => []CleanIsStored
  <1>1. EditorInv => CleanIsStored
    BY DEF EditorInv, SavedIsHeld, CleanIsStored, Editor!CleanIsStored, Editor!Shown,
           Editor!loading, Editor!isSaving, Editor!dirty
  <1> QED
    BY <1>1, EditorInductive, PTL

\* The types and the bounds of the editor: page numbers, and requests in flight.
LEMMA EditorTyped == EditorInv => Editor!EditorTypeOK
  <1> SUFFICES ASSUME EditorInv PROVE Editor!EditorTypeOK
    OBVIOUS
  <1>1. pageId \in 0..MaxEdSaves + 1
    <2>1. PICK n \in Nat : pageId <= n /\ n <= edSaves + 1
      BY DEF EditorInv, PagesHeld
    <2> QED
      BY <2>1, EditorConstants DEF EditorInv, EditorTypes
  <1>2. abortRef \in 0..MaxPrompts
    BY EditorConstants DEF EditorInv, EditorTypes
  <1>3. Editor!Cardinality(assists) <= MaxPrompts
    <2>1. Editor!Cardinality(assists) = Cardinality(assists)
      BY SameCardinality
    <2>2. Cardinality(assists) \in Nat /\ Cardinality(assists) <= prompts
      BY FS_CardinalityType DEF EditorInv, RequestsCounted
    <2>3. prompts \in Nat /\ prompts <= MaxPrompts
      BY DEF EditorInv, EditorTypes
    <2> QED
      BY <2>1, <2>2, <2>3, EditorConstants
  <1> QED
    BY <1>1, <1>2, <1>3 DEF EditorInv, EditorTypes, Form, Editor!EditorTypeOK

=============================================================================
