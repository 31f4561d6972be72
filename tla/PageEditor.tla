----------------------------- MODULE PageEditor -----------------------------
(***************************************************************************)
(* The editor of a custom page (components/custom-pages): a name and an    *)
(* HTML document, saved to the API on demand, rewritten on demand by a     *)
(* language model, and open to typing while the model is at work.  A page  *)
(* that was created is edited on a route of its own.                       *)
(*                                                                         *)
(* A document is one of a few texts; the description goes the way of the   *)
(* name and is left out, as are the wording of an instruction or an error *)
(* and the preview.                                                        *)
(***************************************************************************)
EXTENDS Naturals, FiniteSets

CONSTANTS
    Docs,        \* the texts a document may have
    Starter,     \* STARTER_HTML
    Oversize,    \* the texts above MAX_PAGE_BYTES and MAX_ASSIST_BYTES
    MaxStrokes,  \* edits by hand, images included
    MaxPrompts,  \* instructions sent
    MaxEdSaves,  \* saves
    MaxEdFaults  \* requests that fail

VARIABLES
    editor,     \* "off", or "open"
    pageId,     \* the page, 0 in create mode
    doc,        \* form: [name, html]
    savedDoc,   \* saved
    opening,    \* load: "no", "sent", "ok" or "err"; loading while not "no"
    openFailed, \* loadError
    saveAsk,    \* the save in flight: [st, body]; saving while st is not "no"
    routed,     \* the page router.push leads to, 0 if none
    llm, promptOpen,
    before,     \* htmlBeforeAi, "none" if null
    lastEdit,   \* an AI edit to read
    pane, assisting,
    abortRef,   \* the request assistAbort can cancel, 0 if null
    assists,    \* assist requests in flight
    reading,    \* a picked image is being read
    held,       \* the API: page id -> [name, html]
    strokes, prompts, edSaves, edFaults,
    unheard,    \* history: a save went through and its answer was lost
    cancelled,  \* history: the requests Cancel was pressed for
    landed      \* history: the requests whose edit was applied

theForm == <<doc, savedDoc>>
theSave == <<saveAsk, routed, held, edSaves>>
theAi == <<before, lastEdit, pane, assisting, abortRef, assists, prompts>>
theHistory == <<unheard, cancelled, landed>>
theLoad == <<opening, openFailed, llm>>

editorVars == <<editor, pageId, theForm, theSave, theAi, theHistory, theLoad, promptOpen,
                reading, strokes, edFaults>>

Names == {"", "n", " n"}
trim(n) == IF n = " n" THEN "n" ELSE n

NEW_FORM == [name |-> "", html |-> Starter]
NoSave == [st |-> "no", body |-> NEW_FORM]

loading == opening # "no"
isSaving == saveAsk.st # "no"
dirty == doc # savedDoc
Shown == editor = "open" /\ ~openFailed

\* A freshly mounted editor of page p.
Mounted(p) ==
    /\ pageId' = p
    /\ doc' = NEW_FORM /\ savedDoc' = NEW_FORM
    /\ opening' = IF p = 0 THEN "no" ELSE "sent"
    /\ openFailed' = FALSE /\ llm' = FALSE /\ promptOpen' = FALSE
    /\ saveAsk' = NoSave /\ routed' = 0
    /\ before' = "none" /\ lastEdit' = FALSE /\ pane' = "html"
    /\ assisting' = FALSE /\ abortRef' = 0 /\ assists' = {} /\ reading' = FALSE
    /\ cancelled' = {} /\ landed' = {}

EditorBlank ==
    /\ doc = NEW_FORM /\ savedDoc = NEW_FORM
    /\ openFailed = FALSE /\ llm = FALSE /\ promptOpen = FALSE
    /\ saveAsk = NoSave /\ routed = 0
    /\ before = "none" /\ lastEdit = FALSE /\ pane = "html"
    /\ assisting = FALSE /\ abortRef = 0 /\ assists = {} /\ reading = FALSE
    /\ unheard = FALSE /\ cancelled = {} /\ landed = {}
    /\ strokes = 0 /\ prompts = 0 /\ edSaves = 0 /\ edFaults = 0

EditorInit ==
    /\ editor = "open"
    /\ \/ pageId = 0 /\ held = <<>> /\ opening = "no"
       \/ pageId = 1 /\ held = [p \in {1} |-> [name |-> "n", html |-> Starter]] /\ opening = "sent"
    /\ EditorBlank

EditorOff == editor = "off" /\ pageId = 0 /\ held = <<>> /\ opening = "no" /\ EditorBlank

Init == EditorInit

-----------------------------------------------------------------------------
(* The operator.                                                           *)

\* patch({ html })
Rewritten(h) == doc' = [doc EXCEPT !.html = h]

\* The name; the input is disabled while loading and saving.
EditName(n) ==
    /\ Shown /\ ~loading /\ ~isSaving /\ strokes < MaxStrokes /\ n # doc.name
    /\ strokes' = strokes + 1
    /\ doc' = [doc EXCEPT !.name = n]
    /\ UNCHANGED <<editor, pageId, savedDoc, theSave, theAi, theHistory, theLoad,
                   promptOpen, reading, edFaults>>

\* HtmlEditor: read-only while saving, not while the model is at work.
TypeHtml(h) ==
    /\ Shown /\ ~loading /\ ~isSaving /\ pane = "html" /\ strokes < MaxStrokes /\ h # doc.html
    /\ strokes' = strokes + 1
    /\ Rewritten(h)
    /\ UNCHANGED <<editor, pageId, savedDoc, theSave, theAi, theHistory, theLoad,
                   promptOpen, reading, edFaults>>

\* handlePickImage: the file is read in the background...
PickImage ==
    /\ Shown /\ ~loading /\ ~isSaving /\ ~reading /\ strokes < MaxStrokes
    /\ strokes' = strokes + 1
    /\ reading' = TRUE
    /\ UNCHANGED <<editor, pageId, theForm, theSave, theAi, theHistory, theLoad, promptOpen,
                   edFaults>>

\* ...and goes into the document whenever that is done, a save under way or not.
ImageRead(h) ==
    /\ reading /\ reading' = FALSE
    /\ IF Shown /\ ~loading THEN h # doc.html /\ Rewritten(h) ELSE h = doc.html /\ doc' = doc
    /\ UNCHANGED <<editor, pageId, savedDoc, theSave, theAi, theHistory, theLoad,
                   promptOpen, strokes, edFaults>>

\* handleSave
handleSave ==
    /\ Shown /\ ~loading /\ ~isSaving /\ (pageId # 0 => dirty)
    /\ edSaves < MaxEdSaves /\ edSaves' = edSaves + 1
    /\ IF trim(doc.name) = "" \/ doc.html \in Oversize
       THEN saveAsk' = saveAsk
       ELSE saveAsk' = [st |-> "sent", body |-> [doc EXCEPT !.name = trim(@)]]
    /\ UNCHANGED <<editor, pageId, doc, savedDoc, routed, held, theAi, theHistory, theLoad,
                   promptOpen, reading, strokes, edFaults>>

TogglePrompt ==
    /\ Shown /\ ~loading /\ ~isSaving /\ prompts < MaxPrompts
    /\ promptOpen' = ~promptOpen
    /\ UNCHANGED <<editor, pageId, theForm, theSave, theAi, theHistory, theLoad, reading,
                   strokes, edFaults>>

\* AiPromptBar.submit and the first half of handleAssist.  The request keeps the
\* document of this moment.
Generate ==
    /\ Shown /\ promptOpen /\ llm /\ ~assisting
    /\ prompts < MaxPrompts /\ prompts' = prompts + 1
    /\ IF doc.html \in Oversize
       THEN UNCHANGED <<assisting, abortRef, assists>>
       ELSE /\ assisting' = TRUE /\ abortRef' = prompts'
            /\ assists' = assists \cup {[id |-> prompts', given |-> doc.html, st |-> "sent",
                                         html |-> doc.html, aborted |-> FALSE]}
    /\ UNCHANGED <<editor, pageId, doc, savedDoc, theSave, before, lastEdit, pane, theHistory,
                   theLoad, promptOpen, reading, strokes, edFaults>>

\* Mutant of Aborted: the spinner goes and the request stays.
AbortedNot == assists

\* abort() on the request the ref holds.
Aborted == {[a EXCEPT !.aborted = @ \/ a.id = abortRef] : a \in assists}

handleCancelAssist ==
    /\ Shown /\ promptOpen /\ assisting
    /\ assists' = Aborted
    /\ cancelled' = cancelled \cup ({abortRef} \ {0})
    /\ abortRef' = 0 /\ assisting' = FALSE
    /\ UNCHANGED <<editor, pageId, theForm, theSave, before, lastEdit, pane, prompts,
                   unheard, landed, theLoad, promptOpen, reading, strokes, edFaults>>

handleRevertAi ==
    /\ Shown /\ before # "none" /\ ~isSaving /\ ~assisting
    /\ Rewritten(before)
    /\ before' = "none" /\ lastEdit' = FALSE /\ pane' = "html"
    /\ UNCHANGED <<editor, pageId, savedDoc, theSave, assisting, abortRef, assists,
                   prompts, theHistory, theLoad, promptOpen, reading, strokes, edFaults>>

\* The tabs of the left pane, and "Dismiss changes".
ChoosePane(p) ==
    /\ Shown /\ p # pane /\ (p = "changes" => lastEdit)
    /\ pane' = p
    /\ \/ lastEdit' = lastEdit
       \/ p = "html" /\ lastEdit' = FALSE
    /\ UNCHANGED <<editor, pageId, theForm, theSave, before, assisting, abortRef, assists,
                   prompts, theHistory, theLoad, promptOpen, reading, strokes, edFaults>>

RetryOpen ==
    /\ editor = "open" /\ openFailed /\ opening = "no"
    /\ opening' = "sent"
    /\ UNCHANGED <<editor, pageId, theForm, theSave, theAi, theHistory, openFailed, llm,
                   promptOpen, reading, strokes, edFaults>>

-----------------------------------------------------------------------------
(* The API and the model.                                                  *)

MayFail == edFaults < MaxEdFaults /\ edFaults' = edFaults + 1

ServeOpen ==
    /\ opening = "sent"
    /\ \/ opening' = "ok" /\ edFaults' = edFaults
       \/ opening' = "err" /\ MayFail
    /\ UNCHANGED <<editor, pageId, theForm, theSave, theAi, theHistory, openFailed, llm,
                   promptOpen, reading, strokes>>

\* Page names are unique.
Acceptable(b) == \A p \in DOMAIN held \ {pageId} : held[p].name # b.name

PageOf == IF pageId # 0 THEN pageId ELSE Cardinality(DOMAIN held) + 1

StorePage ==
    held' = [p \in DOMAIN held \cup {PageOf} |-> IF p = PageOf THEN saveAsk.body ELSE held[p]]

\* The save is accepted, refused, or accepted with its answer lost.
ServeSave ==
    /\ saveAsk.st = "sent"
    /\ \/ /\ Acceptable(saveAsk.body) /\ StorePage
          /\ saveAsk' = [saveAsk EXCEPT !.st = "ok"]
          /\ UNCHANGED <<unheard, edFaults>>
       \/ /\ ~Acceptable(saveAsk.body) /\ saveAsk' = [saveAsk EXCEPT !.st = "err"]
          /\ UNCHANGED <<held, unheard, edFaults>>
       \/ /\ MayFail /\ saveAsk' = [saveAsk EXCEPT !.st = "err"]
          /\ UNCHANGED <<held, unheard>>
       \/ /\ Acceptable(saveAsk.body) /\ MayFail /\ StorePage
          /\ saveAsk' = [saveAsk EXCEPT !.st = "err"] /\ unheard' = TRUE
    /\ UNCHANGED <<editor, pageId, theForm, routed, edSaves, theAi, cancelled,
                   landed, theLoad, promptOpen, reading, strokes>>

\* The model answers with a document; if one of its scripts does not parse it is
\* asked once more, and a repair that parses takes the place of the first answer.
ServeAssist(a, h) ==
    /\ a \in assists /\ ~a.aborted /\ a.st \in {"sent", "repair"} /\ h \in Docs
    /\ \/ /\ edFaults' = edFaults
          /\ \/ assists' = (assists \ {a}) \cup {[a EXCEPT !.st = "ok", !.html = h]}
             \/ /\ a.st = "sent"
                /\ assists' = (assists \ {a}) \cup {[a EXCEPT !.st = "repair", !.html = h]}
             \/ a.st = "repair" /\ assists' = (assists \ {a}) \cup {[a EXCEPT !.st = "ok"]}
       \/ MayFail /\ assists' = (assists \ {a}) \cup {[a EXCEPT !.st = "err"]}
    /\ UNCHANGED <<editor, pageId, theForm, theSave, before, lastEdit, pane, assisting, abortRef,
                   prompts, theHistory, theLoad, promptOpen, reading, strokes>>

-----------------------------------------------------------------------------
(* The answers.                                                            *)

\* The end of load: the page replaces whatever the form held.
AnswerOpen ==
    /\ opening \in {"ok", "err"}
    /\ opening' = "no"
    /\ openFailed' = (opening = "err")
    /\ IF opening = "ok" THEN doc' = held[pageId] /\ savedDoc' = held[pageId] /\ llm' \in BOOLEAN
       ELSE UNCHANGED <<doc, savedDoc, llm>>
    /\ UNCHANGED <<editor, pageId, theSave, theAi, theHistory, promptOpen, reading,
                   strokes, edFaults>>

\* In create mode the settings are read on their own.
LearnLlm ==
    /\ editor = "open" /\ pageId = 0 /\ ~llm
    /\ llm' = TRUE
    /\ UNCHANGED <<editor, pageId, theForm, theSave, theAi, theHistory, opening, openFailed,
                   promptOpen, reading, strokes, edFaults>>

\* Mutant of SavedAfter: what was sent is taken for saved, whatever the answer.
SavedAfterAny == saveAsk.body

\* What the view takes the API to hold once a save is answered.
SavedAfter == IF saveAsk.st = "ok" /\ pageId # 0 THEN saveAsk.body ELSE savedDoc

\* The end of handleSave.
AnswerSaved ==
    /\ saveAsk.st \in {"ok", "err"}
    /\ savedDoc' = SavedAfter
    /\ routed' = IF saveAsk.st = "ok" /\ pageId = 0 THEN Cardinality(DOMAIN held) ELSE routed
    /\ saveAsk' = NoSave
    /\ UNCHANGED <<editor, pageId, doc, held, edSaves, theAi, theHistory, theLoad, promptOpen,
                   reading, strokes, edFaults>>

\* router.push takes effect: the page's own editor is mounted.
Navigate ==
    /\ routed # 0
    /\ Mounted(routed)
    /\ UNCHANGED <<editor, held, edSaves, prompts, unheard, strokes, edFaults>>

\* setHtmlBeforeAi(form.html), form being that of the render that asked.
BeforeAi(a) == a.given

\* `finally`: whichever request ends, the bar is free and the ref is empty.
AssistOver(a) == abortRef' = 0 /\ assisting' = FALSE

\* The end of handleAssist.  An aborted request ends at once, or, when it was
\* waiting for a new access token, later; it changes nothing else.
AnswerAssist(a) ==
    /\ a \in assists
    /\ a.aborted \/ a.st \in {"ok", "err"}
    /\ assists' = assists \ {a}
    /\ AssistOver(a)
    /\ IF ~a.aborted /\ a.st = "ok"
       THEN /\ before' = BeforeAi(a) /\ Rewritten(a.html)
            /\ lastEdit' = TRUE /\ pane' = "changes"
            /\ landed' = landed \cup {a.id}
       ELSE UNCHANGED <<doc, before, lastEdit, pane, landed>>
    /\ UNCHANGED <<editor, pageId, savedDoc, theSave, prompts, unheard, cancelled, theLoad,
                   promptOpen, reading, strokes, edFaults>>

EditorNext ==
    \/ \E n \in Names : EditName(n)
    \/ \E h \in Docs : TypeHtml(h) \/ ImageRead(h) \/ \E a \in assists : ServeAssist(a, h)
    \/ \E p \in {"html", "changes"} : ChoosePane(p)
    \/ \E a \in assists : AnswerAssist(a)
    \/ PickImage \/ handleSave \/ TogglePrompt \/ Generate \/ handleCancelAssist
    \/ handleRevertAi \/ RetryOpen \/ ServeOpen \/ ServeSave \/ AnswerOpen \/ LearnLlm
    \/ AnswerSaved \/ Navigate

Next == EditorNext

\* Requests are served and answered, and a navigation takes place.
EditorFairness ==
    /\ WF_editorVars(ServeOpen) /\ WF_editorVars(AnswerOpen)
    /\ WF_editorVars(ServeSave) /\ WF_editorVars(AnswerSaved) /\ WF_editorVars(Navigate)
    /\ WF_editorVars(\E a \in assists, h \in Docs : ServeAssist(a, h))
    /\ WF_editorVars(\E a \in assists : AnswerAssist(a))

Spec == Init /\ [][Next]_editorVars /\ EditorFairness

-----------------------------------------------------------------------------
\* Type invariant of the page editor.
EditorTypeOK ==
    /\ editor \in {"off", "open"} /\ pageId \in 0..MaxEdSaves + 1
    /\ {doc, savedDoc} \subseteq [name : Names, html : Docs]
    /\ opening \in {"no", "sent", "ok", "err"} /\ saveAsk.st \in {"no", "sent", "ok", "err"}
    /\ before \in Docs \cup {"none"} /\ pane \in {"html", "changes"}
    /\ abortRef \in 0..MaxPrompts /\ Cardinality(assists) <= MaxPrompts

\* A page whose Save button is off because nothing changed is stored as it is
\* shown ("`dirty` is a comparison rather than a flag that can drift out of
\* sync with what the server actually holds"), whatever was typed, inserted or
\* rewritten while a save was under way; only a save whose answer was lost can
\* part the two.
CleanIsStored ==
    (pageId # 0 /\ Shown /\ ~loading /\ ~isSaving /\ ~dirty /\ ~unheard) => held[pageId] = doc

\* An edit that was cancelled never lands, however late its answer.
CancelledNeverLands == landed \cap cancelled = {}

\* Loading, saving and the work of the model come to an end.
EditorSettles == <>[](~loading /\ ~isSaving /\ ~assisting /\ routed = 0)

=============================================================================
