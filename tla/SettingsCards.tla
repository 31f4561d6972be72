---------------------------- MODULE SettingsCards ----------------------------
(***************************************************************************)
(* The settings page (components/settings): six cards, each with its own   *)
(* form, its own Save and its own request, over one row of the API.  Every *)
(* answer carries the whole row; the page keeps the last one that arrived, *)
(* and the ban and the maintenance card compare themselves with it.  The   *)
(* error pages are a set of their own, which their card loads for itself.  *)
(*                                                                         *)
(* A field holds a representative of each class of value the checks tell   *)
(* apart.  The sender goes the way of the mail server's host; the texts    *)
(* nobody checks (API base, user name, name of the sender, security) and   *)
(* the error lines and toasts are left out.                                *)
(***************************************************************************)
EXTENDS FormBasics

CONSTANTS
    WorkedIn,        \* the sets of cards an instance lets the operator work in
    MaxCardEdits,    \* controls the operator changes
    MaxCardRequests, \* saves and tests
    MaxSetFaults     \* requests that fail, or whose answer is lost

VARIABLES
    settingsPage, \* "off", "loading", "failed" or "ready"
    loadAsk,      \* load: "no", "sent", "ok" or "err"
    errorsAsk,    \* the load of the error pages: the same, or "failed"
    worked,       \* the cards the operator works in
    hasPages,     \* whether there is a custom page to pick
    cardForm,     \* the forms, by card
    row,          \* the row of the last answer, and its number
    savedSite,    \* saved, of the default site
    storedErrors, \* stored, of the error pages
    cardSaves,    \* the save in flight, by card
    testing,      \* the cards whose test is under way
    kept,         \* the API: the settings and the error pages
    seq,          \* the API: saves so far
    cardEdits, cardRequests, setFaults,
    wish,         \* history: what the operator last did about a secret
    overtaken,    \* history: an older row replaced a newer one
    unanswered    \* history: cards that saved and never got the answer

settingsVars ==
    <<settingsPage, loadAsk, errorsAsk, worked, hasPages, cardForm, row, savedSite, storedErrors,
      cardSaves, testing, kept, seq, cardEdits, cardRequests, setFaults, wish, overtaken,
      unanswered>>

SecretCards == {"llm", "smtp"}
RowCards == {"site", "ban", "maintenance"} \cup SecretCards
Cards == RowCards \cup {"errors"}
Codes == {"404", "502"}

-----------------------------------------------------------------------------
(* The forms.                                                              *)

\* What the controls of a card offer.  "not_found" stands for the modes that
\* take no field, "megoopm" on the ban card for "none" too; an "odd" address
\* passes the form and not the API.
SiteControls ==
    [mode |-> {"not_found", "redirect", "custom_page"}, url |-> {"", "junk", "odd", "ok"},
     page |-> {"p"}]
BanControls == [mode |-> {"megoopm", "custom_page"}, page |-> {"p"}]
MaintenanceControls == Merge([minutes |-> {"", "0", "10", "20"}], BanControls)
LlmControls == [enabled |-> Toggle, model |-> {"", "m"}, secret |-> {"", " ", "s"}]
SmtpControls ==
    [enabled |-> Toggle, host |-> {"", "h"}, port |-> {"0", "587"}, secret |-> {"", " ", "s"},
     app_url |-> {"", "odd", "ok"}]

Controls ==
    [site |-> SiteControls, ban |-> BanControls, maintenance |-> MaintenanceControls,
     llm |-> LlmControls, smtp |-> SmtpControls]

Rendered(c, f) ==
    /\ f = "url" => cardForm[c].mode = "redirect"
    /\ f = "page" => cardForm[c].mode = "custom_page" /\ hasPages

\* A mode that takes no page forgets the one picked, but on the default site.
WithMode(f, m) == [f EXCEPT !.mode = m, !.page = IF m = "custom_page" THEN @ ELSE "null"]

\* Typing takes back a removal.
Patched(c, f, v) ==
    CASE f = "mode" /\ c # "site" -> WithMode(cardForm[c], v)
      [] f = "secret" -> [cardForm[c] EXCEPT !.secret = v, !.cleared = FALSE]
      [] OTHER -> [cardForm[c] EXCEPT ![f] = v]

\* The forms are seeded from the row; a secret is never returned.
stateFromSettings(r) == [r.site EXCEPT !.url = OrBlank(@)]
llmStateFromSettings(r) ==
    Merge([model |-> OrBlank(r.llm.model), secret |-> "", cleared |-> FALSE], r.llm)
smtpStateFromSettings(r) ==
    Merge([host |-> OrBlank(r.smtp.host), app_url |-> OrBlank(r.smtp.app_url), secret |-> "",
           cleared |-> FALSE], r.smtp)

CardSeed(c, r) ==
    CASE c = "site" -> stateFromSettings(r)
      [] c = "llm" -> llmStateFromSettings(r)
      [] c = "smtp" -> smtpStateFromSettings(r)
      [] OTHER -> r[c]

\* Mutant of differsFromRow: the page is not compared.
differsInMode(c) == cardForm[c].mode # row.settings[c].mode

\* dirty, of the ban and the maintenance card.
differsFromRow(c) == cardForm[c] # row.settings[c]

\* Save is off while nothing differs from what is stored; the cards with a
\* secret have no such flag.
dirty(c) ==
    CASE c = "site" -> cardForm.site # savedSite
      [] c \in {"ban", "maintenance"} -> differsFromRow(c)
      [] c = "errors" -> cardForm.errors # storedErrors
      [] OTHER -> TRUE

PageMissing(f) == f.mode = "custom_page" /\ f.page = "null"

\* The checks before a save, in the button or in handleSave.
validateSettingsForm(f) == ~PageMissing(f) /\ (f.mode = "redirect" => f.url \in {"odd", "ok"})
minutesUsable(f) == f.minutes \in {"10", "20"}
validateLlmForm(f) == f.enabled = "on" => f.model # ""
validateSmtpForm(f) == f.port # "0" /\ (f.enabled = "on" => f.host # "")

\* A row of the error pages that lacks its page.
incomplete(f) == \E e \in Codes : PageMissing(f[e])

Complete(c) ==
    LET f == cardForm[c] IN
    CASE c = "site" -> validateSettingsForm(f)
      [] c = "ban" -> ~PageMissing(f)
      [] c = "maintenance" -> ~PageMissing(f) /\ minutesUsable(f)
      [] c = "errors" -> ~incomplete(f)
      [] c = "llm" -> validateLlmForm(f)
      [] c = "smtp" -> validateSmtpForm(f)

\* Three states: left out, replaced, removed.  A key is trimmed, a password is
\* sent as typed.
SecretToSend(c, f) ==
    IF f.secret # "" /\ ~(c = "llm" /\ f.secret = " ") THEN f.secret
    ELSE IF f.cleared THEN "null" ELSE "absent"

\* Never a page that the mode does not use.
PageOfMode(f) == IF f.mode = "custom_page" THEN f.page ELSE "null"

buildDefaultSitePayload(f) ==
    [mode |-> f.mode, url |-> IF f.mode = "redirect" THEN f.url ELSE "null",
     page |-> PageOfMode(f)]
buildLlmPayload(f) ==
    [enabled |-> f.enabled, model |-> OrNull(f.model), secret |-> SecretToSend("llm", f)]
buildSmtpPayload(f) ==
    [enabled |-> f.enabled, host |-> OrNull(f.host), port |-> f.port,
     app_url |-> OrNull(f.app_url), secret |-> SecretToSend("smtp", f)]

CardPayload(c) ==
    LET f == cardForm[c] IN
    CASE c = "site" -> buildDefaultSitePayload(f)
      [] c \in {"ban", "maintenance"} -> [f EXCEPT !.page = PageOfMode(f)]
      [] c = "errors" -> [e \in Codes |-> [f[e] EXCEPT !.page = PageOfMode(f[e])]]
      [] c = "llm" -> buildLlmPayload(f)
      [] c = "smtp" -> buildSmtpPayload(f)

-----------------------------------------------------------------------------
(* The API: app/schemas and services/instance_settings.py.                 *)

CardRefused(c, b) ==
    CASE c = "site" -> PageMissing(b) \/ (b.mode = "redirect" /\ b.url # "ok")
      [] c = "ban" -> PageMissing(b)
      [] c = "maintenance" ->
            (b.mode = "custom_page") # (b.page # "null") \/ b.minutes \notin {"10", "20"}
      [] c = "errors" -> \E e \in Codes : (b[e].mode = "custom_page") # (b[e].page # "null")
      [] c = "llm" -> b.enabled = "on" /\ b.model = "null"
      [] c = "smtp" -> b.port = "0" \/ (b.enabled = "on" /\ b.host = "null") \/ b.app_url = "odd"

\* A secret that is left out stays; one of blanks is none.
KeptAfter(c, b) ==
    IF c \notin SecretCards THEN b
    ELSE [b EXCEPT !.secret = CASE b.secret = "absent" -> kept[c].secret
                                [] b.secret \in {"null", " "} -> "none"
                                [] OTHER -> b.secret]

\* What the API returns: whether there is a secret, and not the secret.
Public(h) ==
    [c \in RowCards |->
        IF c \in SecretCards
        THEN [f \in (DOMAIN h[c] \ {"secret"}) \cup {"isSet"} |->
                IF f = "isSet" THEN h[c].secret # "none" ELSE h[c][f]]
        ELSE h[c]]

-----------------------------------------------------------------------------
(* Actions.                                                                *)

\* No form, row or body.
NoForm == <<>>
saving(c) == c \in DOMAIN cardSaves
SavingIs(c, sts) == saving(c) /\ cardSaves[c].st \in sts

\* The operator waits for the page to load before turning to the error pages,
\* which have their own load.
HasForm(c) == settingsPage = "ready" /\ c \in DOMAIN cardForm

SettingsBlank ==
    /\ cardForm = NoForm /\ row = [settings |-> NoForm, at |-> 0]
    /\ savedSite = NoForm /\ storedErrors = NoForm
    /\ cardSaves = NoForm /\ testing = {}
    /\ seq = 0 /\ cardEdits = 0 /\ cardRequests = 0 /\ setFaults = 0
    /\ wish = [c \in SecretCards |-> "keep"] /\ overtaken = FALSE /\ unanswered = {}

SettingsOff ==
    /\ settingsPage = "off" /\ loadAsk = "no" /\ errorsAsk = "no"
    /\ worked = {} /\ hasPages = FALSE
    /\ kept = NoForm /\ SettingsBlank

SettingsInit ==
    /\ settingsPage = "loading" /\ loadAsk = "sent" /\ errorsAsk = "sent"
    /\ worked \in WorkedIn /\ hasPages \in BOOLEAN
    /\ kept = [site |-> [mode |-> "redirect", url |-> "ok", page |-> "null"],
               ban |-> IF hasPages THEN [mode |-> "custom_page", page |-> "p"]
                       ELSE [mode |-> "megoopm", page |-> "null"],
               maintenance |-> [mode |-> "megoopm", page |-> "null", minutes |-> "10"],
               errors |-> [e \in Codes |-> [mode |-> "default", page |-> "null"]],
               llm |-> [enabled |-> "on", model |-> "m", secret |-> "old"],
               smtp |-> [enabled |-> "off", host |-> "null", port |-> "587", app_url |-> "null",
                         secret |-> "old"]]
    /\ SettingsBlank

Init == SettingsInit

theData == <<cardForm, row, savedSite, storedErrors>>
theRequests == <<cardSaves, testing, kept, seq, cardRequests>>
theWishes == <<wish, overtaken,
      unanswered>>

\* A read is answered, or fails.
ServeLoad(ok) ==
    /\ loadAsk = "sent" /\ (~ok => setFaults < MaxSetFaults)
    /\ loadAsk' = IF ok THEN "ok" ELSE "err"
    /\ setFaults' = IF ok THEN setFaults ELSE setFaults + 1
    /\ UNCHANGED <<settingsPage, errorsAsk, worked, hasPages, theData, theRequests, cardEdits,
                   theWishes>>

ServeErrors(ok) ==
    /\ errorsAsk = "sent" /\ (~ok => setFaults < MaxSetFaults)
    /\ errorsAsk' = IF ok THEN "ok" ELSE "err"
    /\ setFaults' = IF ok THEN setFaults ELSE setFaults + 1
    /\ UNCHANGED <<settingsPage, loadAsk, worked, hasPages, theData, theRequests, cardEdits,
                   theWishes>>

\* load: the cards mount on the first answer.  A failure takes the card of the
\* error pages down, and it loads anew when the page comes back.
AnswerLoad ==
    /\ loadAsk \in {"ok", "err"} /\ loadAsk' = "no"
    /\ IF loadAsk = "ok"
       THEN /\ settingsPage' = "ready"
            /\ row' = [settings |-> Public(kept), at |-> seq]
            /\ cardForm' = Merge([c \in RowCards |-> CardSeed(c, Public(kept))], cardForm)
            /\ savedSite' = CardSeed("site", Public(kept))
            /\ errorsAsk' = IF settingsPage = "failed" THEN "sent" ELSE errorsAsk
            /\ UNCHANGED storedErrors
       ELSE /\ settingsPage' = "failed"
            /\ cardForm' = NoForm /\ storedErrors' = NoForm /\ errorsAsk' = "no"
            /\ UNCHANGED <<row, savedSite>>
    /\ UNCHANGED <<worked, hasPages, theRequests, cardEdits, setFaults, theWishes>>

RetryLoad ==
    /\ settingsPage = "failed" /\ loadAsk = "no"
    /\ loadAsk' = "sent"
    /\ UNCHANGED <<settingsPage, errorsAsk, worked, hasPages, theData, theRequests, cardEdits,
                   setFaults, theWishes>>

\* The load of the error pages; a failure leaves its message for good.
AnswerErrors ==
    /\ errorsAsk \in {"ok", "err"}
    /\ errorsAsk' = IF errorsAsk = "ok" THEN "no" ELSE "failed"
    /\ IF errorsAsk = "ok"
       THEN cardForm' = Merge([errors |-> kept.errors], cardForm) /\ storedErrors' = kept.errors
       ELSE UNCHANGED <<cardForm, storedErrors>>
    /\ UNCHANGED <<settingsPage, loadAsk, worked, hasPages, row, savedSite, theRequests,
                   cardEdits, setFaults, theWishes>>

Changed(c, f) ==
    /\ c \in worked /\ HasForm(c) /\ ~saving(c)
    /\ cardEdits < MaxCardEdits /\ cardEdits' = cardEdits + 1
    /\ cardForm' = [cardForm EXCEPT ![c] = f]
    /\ UNCHANGED <<settingsPage, loadAsk, errorsAsk, worked, hasPages, row, savedSite,
                   storedErrors, theRequests, setFaults, overtaken, unanswered>>

EditCard(c, f, v) ==
    /\ HasForm(c) /\ f \in DOMAIN Controls[c] /\ v \in Controls[c][f] /\ v # cardForm[c][f]
    /\ Rendered(c, f)
    /\ Changed(c, Patched(c, f, v))
    /\ wish' = IF f # "secret" THEN wish
               ELSE [wish EXCEPT ![c] =
                       IF v = "s" THEN "s"
                       ELSE IF @ \in {"remove", "unclear"} \/ (v = " " /\ c = "smtp") THEN "unclear"
                       ELSE "keep"]

\* "Remove": offered while a secret is stored.
RemoveSecret(c) ==
    /\ HasForm(c) /\ cardForm[c].isSet
    /\ Changed(c, [cardForm[c] EXCEPT !.secret = "", !.isSet = FALSE, !.cleared = TRUE])
    /\ wish' = [wish EXCEPT ![c] = "remove"]

\* patch, of the error pages.
EditErrorPage(e, f, v) ==
    /\ HasForm("errors") /\ v # cardForm.errors[e][f]
    /\ f = "page" => cardForm.errors[e].mode = "custom_page" /\ hasPages
    /\ Changed("errors",
               [cardForm.errors EXCEPT ![e] = IF f = "mode" THEN WithMode(@, v)
                                              ELSE [@ EXCEPT !.page = v]])
    /\ UNCHANGED wish

SaveCard(c) ==
    /\ c \in worked /\ HasForm(c) /\ ~saving(c) /\ c \notin testing
    /\ cardRequests < MaxCardRequests
    /\ dirty(c) /\ Complete(c)
    /\ cardSaves' = Merge([x \in {c} |-> [st |-> "sent", body |-> CardPayload(c), at |-> 0,
                                          answer |-> NoForm, was |-> "none"]], cardSaves)
    /\ cardRequests' = cardRequests + 1
    /\ UNCHANGED <<settingsPage, loadAsk, errorsAsk, worked, hasPages, theData, testing, kept,
                   seq, cardEdits, setFaults, theWishes>>

\* A save is stored and answered, stored and its answer lost, or not stored.
ServeCard(c, stored, answered) ==
    /\ SavingIs(c, {"sent"})
    /\ stored => ~CardRefused(c, cardSaves[c].body)
    /\ answered => stored
    /\ setFaults' = IF answered \/ CardRefused(c, cardSaves[c].body) THEN setFaults
                    ELSE setFaults + 1
    /\ setFaults' <= MaxSetFaults
    /\ kept' = IF stored THEN [kept EXCEPT ![c] = KeptAfter(c, cardSaves[c].body)] ELSE kept
    /\ seq' = IF stored THEN seq + 1 ELSE seq
    /\ unanswered' = IF stored /\ ~answered THEN unanswered \cup {c} ELSE unanswered
    /\ cardSaves' = [cardSaves EXCEPT ![c].st = IF answered THEN "ok" ELSE "err",
                                      ![c].answer = IF answered THEN kept' ELSE NoForm,
                                      ![c].at = seq',
                                      ![c].was = IF c \in SecretCards THEN kept[c].secret
                                                 ELSE "none"]
    /\ UNCHANGED <<settingsPage, loadAsk, errorsAsk, worked, hasPages, theData, testing,
                   cardEdits, cardRequests, wish, overtaken>>

\* Mutant of SavingOver: a failure leaves the card saving.
SavingOverOk(c) ==
    cardSaves' = [x \in {y \in DOMAIN cardSaves : y # c \/ cardSaves[c].st = "err"} |->
                    cardSaves[x]]

\* The finally block of every save.
SavingOver(c) == cardSaves' = [x \in DOMAIN cardSaves \ {c} |-> cardSaves[x]]

\* The form of card c once its save is answered: the stored values, but where
\* the card leaves its form alone.
FormAfter(c, answer) ==
    CASE c = "errors" -> answer.errors
      [] c \in {"ban", "maintenance"} -> cardForm[c]
      [] OTHER -> CardSeed(c, Public(answer))

\* The row of the answer replaces the page's.
AnswerCard(c) ==
    /\ SavingIs(c, {"ok", "err"})
    /\ SavingOver(c)
    /\ IF cardSaves[c].st = "err" THEN UNCHANGED <<theData, wish, overtaken>>
       ELSE LET answer == cardSaves[c].answer IN
            /\ row' = IF c = "errors" THEN row
                      ELSE [settings |-> Public(answer), at |-> cardSaves[c].at]
            /\ overtaken' = (overtaken \/ (c # "errors" /\ cardSaves[c].at < row.at))
            /\ savedSite' = IF c = "site" THEN stateFromSettings(Public(answer)) ELSE savedSite
            /\ storedErrors' = IF c = "errors" THEN answer.errors ELSE storedErrors
            /\ cardForm' = [cardForm EXCEPT ![c] = FormAfter(c, answer)]
            /\ wish' = IF c \in SecretCards THEN [wish EXCEPT ![c] = "keep"] ELSE wish
    /\ UNCHANGED <<settingsPage, loadAsk, errorsAsk, worked, hasPages, testing, kept, seq,
                   cardEdits, cardRequests, setFaults, unanswered>>

\* handleTest: what the form holds is tried out; nothing is stored.
TestCard(c) ==
    /\ c \in worked /\ HasForm(c) /\ ~saving(c) /\ c \notin testing
    /\ cardRequests < MaxCardRequests
    /\ testing' = testing \cup {c} /\ cardRequests' = cardRequests + 1
    /\ UNCHANGED <<settingsPage, loadAsk, errorsAsk, worked, hasPages, theData, cardSaves, kept,
                   seq, cardEdits, setFaults, theWishes>>

AnswerTest(c) ==
    /\ c \in testing /\ testing' = testing \ {c}
    /\ UNCHANGED <<settingsPage, loadAsk, errorsAsk, worked, hasPages, theData, cardSaves, kept,
                   seq, cardEdits, cardRequests, setFaults, theWishes>>

SettingsNext ==
    \/ \E ok \in BOOLEAN : ServeLoad(ok) \/ ServeErrors(ok)
    \/ AnswerLoad \/ AnswerErrors \/ RetryLoad
    \/ \E c \in RowCards : \E f \in DOMAIN Controls[c] : \E v \in Controls[c][f] : EditCard(c, f, v)
    \/ \E e \in Codes : \/ \E v \in {"default", "custom_page"} : EditErrorPage(e, "mode", v)
                        \/ EditErrorPage(e, "page", "p")
    \/ \E c \in SecretCards : RemoveSecret(c) \/ TestCard(c) \/ AnswerTest(c)
    \/ \E c \in Cards : \/ SaveCard(c) \/ AnswerCard(c)
                        \/ \E stored, answered \in BOOLEAN : ServeCard(c, stored, answered)

Next == SettingsNext

\* Requests are served and answered: no one of them need be favoured, the
\* operator's budget runs out.
Answers ==
    \/ \E ok \in BOOLEAN : ServeLoad(ok) \/ ServeErrors(ok)
    \/ AnswerLoad \/ AnswerErrors
    \/ \E c \in Cards : \/ AnswerCard(c)
                        \/ \E stored, answered \in BOOLEAN : ServeCard(c, stored, answered)
    \/ \E c \in SecretCards : AnswerTest(c)

SettingsFairness == WF_settingsVars(Answers)

Spec == Init /\ [][Next]_settingsVars /\ SettingsFairness

-----------------------------------------------------------------------------
\* Type invariant of the settings page.
SettingsTypeOK ==
    /\ settingsPage \in {"off", "loading", "failed", "ready"}
    /\ loadAsk \in {"no", "sent", "ok", "err"}
    /\ errorsAsk \in {"no", "sent", "ok", "err", "failed"}
    /\ DOMAIN cardSaves \subseteq Cards
    /\ \A c \in DOMAIN cardSaves : SavingIs(c, {"sent", "ok", "err"})
    /\ row.at \in 0..seq /\ seq <= cardRequests
    /\ cardEdits <= MaxCardEdits /\ cardRequests <= MaxCardRequests /\ setFaults <= MaxSetFaults

\* A card whose Save is off because nothing differs holds what the API stores
\* ("Nothing to save until something differs from what is stored"), whatever
\* the other cards save in the meantime.  Two things can part them: a save
\* whose answer was lost and, for the two cards that compare with the row of
\* the page, answers that arrive in the other order than the saves were stored.
CleanCardIsStored ==
    \A c \in Cards \ SecretCards :
        (/\ HasForm(c) /\ ~saving(c) /\ ~dirty(c) /\ c \notin unanswered
         /\ c \in {"ban", "maintenance"} => ~overtaken)
        => CardPayload(c) = kept[c]

\* The key of the model and the password of the mail server: typed, it is
\* stored; removed, it is gone; left alone, it stays, whatever else was edited
\* or failed before ("Sending "" on every save would wipe a working key the
\* operator never touched").  Nothing is said of two cases: text typed after
\* Remove and erased again, which keeps the secret that the card reports gone,
\* and a password of blanks, which the API takes for none.
SecretAsAsked ==
    \A c \in SecretCards :
        (SavingIs(c, {"ok"}) /\ wish[c] # "unclear") =>
            kept[c].secret = CASE wish[c] = "keep" -> cardSaves[c].was
                               [] wish[c] = "remove" -> "none"
                               [] OTHER -> wish[c]

\* No card sends what the API is bound to refuse: a mode without its page, a
\* switch without what it needs, a number out of range, through any change of
\* modes back and forth.  Two addresses are the API's to judge: that of a
\* redirect ("its redirect-URL rules are deliberately stricter") and the public
\* URL, which the mail card sends as typed and does not check at all.
CardsFitApi ==
    \A c \in Cards : SavingIs(c, {"sent"}) =>
        \/ ~CardRefused(c, cardSaves[c].body)
        \/ c = "site" /\ cardSaves[c].body.url = "odd"
        \/ c = "smtp" /\ cardSaves[c].body.app_url = "odd"

\* Loads, saves and tests come to an end.
SettingsSettle ==
    <>[](/\ settingsPage # "loading" /\ loadAsk = "no" /\ errorsAsk \in {"no", "failed"}
         /\ testing = {} /\ DOMAIN cardSaves = {})

=============================================================================
