---------------------------- MODULE FormsProofs ----------------------------
(***************************************************************************)
(* Proofs about ConsoleForms: the type invariant of the dialogs and the    *)
(* settings page; that no form sends what the API is bound to refuse; that *)
(* what is sent is the stored row with the operator's edits, all of them   *)
(* and no others; that secrets are kept, replaced or removed as asked;     *)
(* that a settings card with nothing to save holds what is stored; and     *)
(* that a check that fails brings its field on the screen.                 *)
(***************************************************************************)
EXTENDS ConsoleForms, FiniteSetTheorems, TLAPS

-----------------------------------------------------------------------------
(* The settings page: the inductive invariant.                             *)

Pages == {"null", "p"}
SiteForm == [mode : {"not_found", "redirect", "custom_page"}, url : {"", "junk", "odd", "ok"},
             page : Pages]
BanForm == [mode : {"megoopm", "custom_page"}, page : Pages]
MaintenanceForm ==
    [mode : {"megoopm", "custom_page"}, page : Pages, minutes : {"", "0", "10", "20"}]
ErrorForm == [mode : {"default", "custom_page"}, page : Pages]
ErrorForms == [Settings!Codes -> ErrorForm]
LlmForm ==
    [enabled : Toggle, model : {"", "m"}, secret : {"", " ", "s"}, cleared : BOOLEAN,
     isSet : BOOLEAN]
SmtpForm ==
    [enabled : Toggle, host : {"", "h"}, port : {"0", "587"}, app_url : {"", "odd", "ok"},
     secret : {"", " ", "s"}, cleared : BOOLEAN, isSet : BOOLEAN]
FormOf(c) ==
    CASE c = "site" -> SiteForm [] c = "ban" -> BanForm [] c = "maintenance" -> MaintenanceForm
      [] c = "errors" -> ErrorForms [] c = "llm" -> LlmForm [] c = "smtp" -> SmtpForm

\* What the API stores of a mode: its page and no other, its address and no other.
Coherent(b) == b.mode = "custom_page" <=> b.page = "p"
SiteKept ==
    {b \in [mode : {"not_found", "redirect", "custom_page"}, url : {"null", "ok"}, page : Pages] :
        Coherent(b) /\ (b.mode = "redirect" <=> b.url = "ok")}
BanKept == {b \in BanForm : Coherent(b)}
MaintenanceKept == {b \in MaintenanceForm : Coherent(b)}
ErrorsKept == {b \in ErrorForms : \A e \in Settings!Codes : Coherent(b[e])}
LlmKept == [enabled : Toggle, model : {"null", "m"}, secret : {"old", "s", "none"}]
SmtpKept ==
    [enabled : Toggle, host : {"null", "h"}, port : {"0", "587"}, app_url : {"null", "odd", "ok"},
     secret : {"old", "s", "none"}]
KeptRow ==
    [site : SiteKept, ban : BanKept, maintenance : MaintenanceKept, errors : ErrorsKept,
     llm : LlmKept, smtp : SmtpKept]

\* What a card sends.
SiteBody ==
    {b \in [mode : {"not_found", "redirect", "custom_page"}, url : {"null", "odd", "ok"},
            page : Pages] : Coherent(b) /\ (b.mode = "redirect" <=> b.url # "null")}
SecretBodies == {"absent", "null", " ", "s"}
LlmBody == [enabled : Toggle, model : {"null", "m"}, secret : SecretBodies]
SmtpBody ==
    [enabled : Toggle, host : {"null", "h"}, port : {"0", "587"}, app_url : {"null", "odd", "ok"},
     secret : SecretBodies]
\* The addresses a card leaves to the API.
OddAddress(c, b) == (c = "site" /\ b.url = "odd") \/ (c = "smtp" /\ b.app_url = "odd")
Body(c) ==
    CASE c = "site" -> SiteBody [] c = "ban" -> BanKept [] c = "maintenance" -> MaintenanceKept
      [] c = "errors" -> ErrorsKept [] c = "llm" -> LlmBody [] c = "smtp" -> SmtpBody

Sent(c) == Settings!SavingIs(c, {"sent"})
Ok(c) == Settings!SavingIs(c, {"ok"})

\* The page loads once; what a card works on is there from then on.
CardStage ==
    /\ settingsPage \in {"off", "loading", "failed", "ready"}
    /\ loadAsk \in {"no", "sent", "ok", "err"}
    /\ errorsAsk \in {"no", "sent", "ok", "err", "failed"}
    /\ settingsPage = "off" => loadAsk = "no" /\ errorsAsk = "no"
    /\ settingsPage = "failed" => errorsAsk = "no"
    /\ settingsPage = "ready" =>
          /\ loadAsk = "no" /\ Settings!RowCards \subseteq DOMAIN cardForm
    /\ settingsPage # "ready" =>
          /\ DOMAIN cardForm \subseteq {"errors"} /\ DOMAIN cardSaves = {} /\ testing = {}
          /\ unanswered = {} /\ overtaken = FALSE
          /\ \A c \in Settings!SecretCards : wish[c] = "keep"
    /\ "errors" \in DOMAIN cardForm => errorsAsk = "no" /\ settingsPage \in {"loading", "ready"}

\* The forms, the stored rows, and the saves under way.
CardForms ==
    /\ DOMAIN cardForm \subseteq Settings!Cards
    /\ cardForm = [c \in DOMAIN cardForm |-> cardForm[c]]
    /\ \A c \in DOMAIN cardForm : cardForm[c] \in FormOf(c)
CardKept == settingsPage # "off" => kept \in KeptRow
CardSaves ==
    /\ DOMAIN cardSaves \subseteq Settings!Cards
    /\ cardSaves = [c \in DOMAIN cardSaves |-> cardSaves[c]]
    /\ \A c \in DOMAIN cardSaves :
          /\ DOMAIN cardSaves[c] = {"st", "body", "at", "answer", "was"}
          /\ cardSaves[c] = [x \in DOMAIN cardSaves[c] |-> cardSaves[c][x]]
          /\ cardSaves[c].st \in {"sent", "ok", "err"} /\ c \in DOMAIN cardForm
          /\ cardSaves[c].st = "sent" =>
                /\ cardSaves[c].body \in Body(c)
                /\ Settings!CardRefused(c, cardSaves[c].body) => OddAddress(c, cardSaves[c].body)
          /\ cardSaves[c].st = "ok" =>
                /\ cardSaves[c].at \in 0..seq /\ cardSaves[c].answer \in KeptRow
                /\ cardSaves[c].answer[c] = kept[c]
Unserved == {c \in Settings!Cards : Sent(c)}
CardCounts ==
    /\ seq \in Nat /\ row.at \in 0..seq
    /\ seq + Cardinality(Unserved) <= cardRequests
    /\ cardEdits \in 0..MaxCardEdits /\ cardRequests \in 0..MaxCardRequests
    /\ setFaults \in 0..MaxSetFaults
CardHistory ==
    /\ unanswered \subseteq Settings!Cards /\ overtaken \in BOOLEAN
    /\ wish \in [Settings!SecretCards -> {"keep", "remove", "unclear", "s"}]

\* savedSite and stored are what the API holds, until a save is stored.
SiteFollows ==
    (settingsPage = "ready" /\ "site" \notin unanswered /\ ~Ok("site")) =>
        savedSite = [kept.site EXCEPT !.url = OrBlank(@)]
ErrorsFollow ==
    ("errors" \in DOMAIN cardForm /\ "errors" \notin unanswered /\ ~Ok("errors")) =>
        storedErrors = kept.errors

\* Of the snapshots of the API's row that are around (the page's, and those of
\* the answers under way), none that is as new as the page's, or as the card's
\* own answer, holds an older version of the card.
Since(c) == IF Ok(c) THEN cardSaves[c].at ELSE row.at
RowFollows(c) ==
    (settingsPage = "ready" /\ c \notin unanswered /\ ~overtaken) =>
        /\ ~Ok(c) \/ row.at >= Since(c) => row.settings[c] = kept[c]
        /\ \A d \in DOMAIN cardSaves :
              Ok(d) /\ cardSaves[d].at >= Since(c) => cardSaves[d].answer[c] = kept[c]

\* What the form and the request say about the secret is what the operator
\* last asked for.
SecretSays(c) ==
    /\ wish[c] = "keep" => Settings!SecretToSend(c, cardForm[c]) = "absent"
    /\ wish[c] = "remove" => cardForm[c].cleared /\ cardForm[c].secret = ""
    /\ wish[c] = "s" => cardForm[c].secret = "s"
SecretFollows(c) ==
    settingsPage = "ready" =>
        /\ SecretSays(c)
        /\ Sent(c) => cardSaves[c].body.secret = Settings!SecretToSend(c, cardForm[c])
        /\ Ok(c) /\ wish[c] # "unclear" =>
              kept[c].secret = CASE wish[c] = "keep" -> cardSaves[c].was
                                 [] wish[c] = "remove" -> "none"
                                 [] OTHER -> wish[c]

CardTypes == CardStage /\ CardForms /\ CardKept /\ CardSaves /\ CardCounts /\ CardHistory
Follows ==
    /\ SiteFollows /\ ErrorsFollow /\ RowFollows("ban") /\ RowFollows("maintenance")
    /\ \A c \in Settings!SecretCards : SecretFollows(c)
SettingsInv == CardTypes /\ Follows

-----------------------------------------------------------------------------
(* Rows, forms and bodies.                                                 *)

LEMMA CardNames ==
    /\ Settings!SecretCards = {"llm", "smtp"}
    /\ Settings!RowCards = {"site", "ban", "maintenance", "llm", "smtp"}
    /\ Settings!Cards = {"site", "ban", "maintenance", "llm", "smtp", "errors"}
    /\ Settings!Codes = {"404", "502"}
  BY DEF Settings!SecretCards, Settings!RowCards, Settings!Cards, Settings!Codes

\* What the API returns of a row: all but the secrets.
LEMMA PublicIs ==
    ASSUME NEW h \in KeptRow
    PROVE  LET r == Settings!Public(h) IN
           /\ r.site = h.site /\ r.ban = h.ban /\ r.maintenance = h.maintenance
           /\ r.llm \in [enabled : Toggle, model : {"null", "m"}, isSet : BOOLEAN]
           /\ r.smtp \in [enabled : Toggle, host : {"null", "h"}, port : {"0", "587"},
                          app_url : {"null", "odd", "ok"}, isSet : BOOLEAN]
  <1> DEFINE r == Settings!Public(h)
  <1>1. /\ h.llm \in LlmKept /\ h.smtp \in SmtpKept
    BY DEF KeptRow
  <1>2. r.site = h.site /\ r.ban = h.ban /\ r.maintenance = h.maintenance
    BY CardNames DEF Settings!Public
  <1>3. r.llm = [f \in (DOMAIN h.llm \ {"secret"}) \cup {"isSet"} |->
                    IF f = "isSet" THEN h.llm.secret # "none" ELSE h.llm[f]]
    BY CardNames DEF Settings!Public
  <1>4. r.smtp = [f \in (DOMAIN h.smtp \ {"secret"}) \cup {"isSet"} |->
                    IF f = "isSet" THEN h.smtp.secret # "none" ELSE h.smtp[f]]
    BY CardNames DEF Settings!Public
  <1>5. /\ DOMAIN h.llm = {"enabled", "model", "secret"}
        /\ DOMAIN h.smtp = {"enabled", "host", "port", "app_url", "secret"}
    BY <1>1 DEF LlmKept, SmtpKept
  <1>6. r.llm \in [enabled : Toggle, model : {"null", "m"}, isSet : BOOLEAN]
    BY <1>1, <1>3, <1>5 DEF LlmKept
  <1>7. r.smtp \in [enabled : Toggle, host : {"null", "h"}, port : {"0", "587"},
                   app_url : {"null", "odd", "ok"}, isSet : BOOLEAN]
    BY <1>1, <1>4, <1>5 DEF SmtpKept
  <1> QED
    BY <1>2, <1>6, <1>7

\* What the cards are seeded with.
LEMMA SeedIs ==
    ASSUME NEW h \in KeptRow
    PROVE  LET S(c) == Settings!CardSeed(c, Settings!Public(h)) IN
           /\ S("site") = [h.site EXCEPT !.url = OrBlank(@)] /\ S("site") \in SiteForm
           /\ S("ban") = h.ban /\ S("ban") \in BanForm
           /\ S("maintenance") = h.maintenance /\ S("maintenance") \in MaintenanceForm
           /\ S("llm") \in LlmForm /\ S("llm").secret = "" /\ S("llm").cleared = FALSE
           /\ S("smtp") \in SmtpForm /\ S("smtp").secret = "" /\ S("smtp").cleared = FALSE
  <1> DEFINE r == Settings!Public(h)
             S(c) == Settings!CardSeed(c, r)
  <1>1. /\ h.site \in SiteKept /\ h.ban \in BanKept /\ h.maintenance \in MaintenanceKept
        /\ h.llm \in LlmKept /\ h.smtp \in SmtpKept
    BY DEF KeptRow
  <1>2. S("site") = [h.site EXCEPT !.url = OrBlank(@)]
    BY PublicIs DEF Settings!CardSeed, Settings!stateFromSettings, Settings!OrBlank, OrBlank
  <1>3. S("site") \in SiteForm
    BY <1>1, <1>2 DEF SiteKept, SiteForm, OrBlank, Pages
  <1>4. S("ban") = h.ban /\ S("maintenance") = h.maintenance
    BY PublicIs DEF Settings!CardSeed
  <1>5. h.ban \in BanForm /\ h.maintenance \in MaintenanceForm
    BY <1>1 DEF BanKept, MaintenanceKept
  <1>6. /\ r.llm \in [enabled : Toggle, model : {"null", "m"}, isSet : BOOLEAN]
        /\ r.smtp \in [enabled : Toggle, host : {"null", "h"}, port : {"0", "587"},
                       app_url : {"null", "odd", "ok"}, isSet : BOOLEAN]
    BY PublicIs
  <1>7. /\ S("llm") = Settings!llmStateFromSettings(r)
        /\ S("smtp") = Settings!smtpStateFromSettings(r)
    BY DEF Settings!CardSeed
  <1>8. S("llm") \in LlmForm /\ S("llm").secret = "" /\ S("llm").cleared = FALSE
    BY <1>6, <1>7 DEF Settings!llmStateFromSettings, Settings!Merge, Settings!OrBlank, LlmForm
  <1>11. S("smtp") \in SmtpForm /\ S("smtp").secret = "" /\ S("smtp").cleared = FALSE
    BY <1>6, <1>7 DEF Settings!smtpStateFromSettings, Settings!Merge, Settings!OrBlank, SmtpForm
  <1> QED
    BY <1>2, <1>3, <1>4, <1>5, <1>8, <1>11

\* A card that is complete sends a body of its kind, which the API takes, but
\* for an address the form does not judge.
LEMMA PayloadIs ==
    ASSUME CardForms, settingsPage = "ready", NEW c \in Settings!Cards, c \in DOMAIN cardForm,
           Settings!Complete(c)
    PROVE  /\ Settings!CardPayload(c) \in Body(c)
           /\ Settings!CardRefused(c, Settings!CardPayload(c)) =>
                 OddAddress(c, Settings!CardPayload(c))
  <1> USE DEF Settings!CardPayload, Settings!CardRefused, Settings!Complete, Body,
              Settings!PageMissing, Settings!PageOfMode, Coherent, Pages, OddAddress
  <1>1. CASE c = "site"
    <2>1. cardForm.site \in SiteForm
      BY <1>1 DEF CardForms, FormOf
    <2> QED
      BY <1>1, <2>1 DEF Settings!validateSettingsForm, Settings!buildDefaultSitePayload, SiteForm, SiteBody
  <1>2. CASE c = "ban"
    <2>1. cardForm.ban \in BanForm
      BY <1>2 DEF CardForms, FormOf
    <2> QED
      BY <1>2, <2>1 DEF BanForm, BanKept
  <1>3. CASE c = "maintenance"
    <2>1. cardForm.maintenance \in MaintenanceForm
      BY <1>3 DEF CardForms, FormOf
    <2> QED
      BY <1>3, <2>1 DEF MaintenanceForm, MaintenanceKept, Settings!minutesUsable
  <1>4. CASE c = "errors"
    <2>1. cardForm.errors \in ErrorForms
      BY <1>4 DEF CardForms, FormOf
    <2> DEFINE f == cardForm.errors
               p == [e \in Settings!Codes |-> [f[e] EXCEPT !.page = Settings!PageOfMode(f[e])]]
    <2>2. Settings!CardPayload(c) = p
      BY <1>4
    <2>3. \A e \in Settings!Codes :
             /\ f[e] \in ErrorForm /\ ~Settings!PageMissing(f[e])
      BY <1>4, <2>1 DEF ErrorForms, Settings!incomplete
    <2>4. \A e \in Settings!Codes :
             /\ p[e] \in ErrorForm /\ Coherent(p[e])
             /\ ~((p[e].mode = "custom_page") # (p[e].page # "null"))
      BY <2>3 DEF ErrorForm
    <2>5. p \in ErrorsKept
      BY <2>4 DEF ErrorsKept, ErrorForms
    <2> HIDE DEF p
    <2>6. Settings!CardPayload(c) \in Body(c)
      BY <1>4, <2>2, <2>5
    <2>7. ~Settings!CardRefused(c, p)
      BY <1>4, <2>4
    <2> QED
      BY <2>2, <2>6, <2>7
  <1>5. CASE c = "llm"
    <2>1. cardForm.llm \in LlmForm
      BY <1>5 DEF CardForms, FormOf
    <2> QED
      BY <1>5, <2>1 DEF Settings!validateLlmForm, Settings!buildLlmPayload, LlmForm, LlmBody,
                        SecretBodies, Settings!SecretToSend, Settings!OrNull
  <1>6. CASE c = "smtp"
    <2>1. cardForm.smtp \in SmtpForm
      BY <1>6 DEF CardForms, FormOf
    <2> QED
      BY <1>6, <2>1 DEF Settings!validateSmtpForm, Settings!buildSmtpPayload, SmtpForm, SmtpBody,
                        SecretBodies, Settings!SecretToSend, Settings!OrNull
  <1> QED
    BY <1>1, <1>2, <1>3, <1>4, <1>5, <1>6, CardNames

\* What the API stores of it is a row again; the secret is kept, removed or replaced.
LEMMA StoredIs ==
    ASSUME NEW c \in Settings!Cards, kept \in KeptRow, NEW b \in Body(c),
           ~Settings!CardRefused(c, b)
    PROVE  /\ [kept EXCEPT ![c] = Settings!KeptAfter(c, b)] \in KeptRow
           /\ c \in Settings!SecretCards =>
                 Settings!KeptAfter(c, b).secret =
                     IF b.secret = "absent" THEN kept[c].secret
                     ELSE IF b.secret = "s" THEN "s" ELSE "none"
  <1> DEFINE k == Settings!KeptAfter(c, b)
  <1> USE DEF Settings!KeptAfter, Settings!CardRefused, Body, KeptRow, Settings!PageMissing
  <1>1. CASE c = "site"
    <2>1. k \in SiteKept
      BY <1>1, CardNames DEF SiteBody, SiteKept, Coherent, Pages
    <2> QED
      BY <1>1, <2>1, CardNames
  <1>2. CASE c = "ban"
    BY <1>2, CardNames
  <1>3. CASE c = "maintenance"
    BY <1>3, CardNames
  <1>4. CASE c = "errors"
    BY <1>4, CardNames
  <1>5. CASE c = "llm"
    <2>1. k \in LlmKept /\ k.secret = IF b.secret = "absent" THEN kept[c].secret
                                      ELSE IF b.secret = "s" THEN "s" ELSE "none"
      BY <1>5, CardNames DEF LlmBody, LlmKept, SecretBodies
    <2> QED
      BY <1>5, <2>1, CardNames
  <1>6. CASE c = "smtp"
    <2>1. k \in SmtpKept /\ k.secret = IF b.secret = "absent" THEN kept[c].secret
                                       ELSE IF b.secret = "s" THEN "s" ELSE "none"
      BY <1>6, CardNames DEF SmtpBody, SmtpKept, SecretBodies
    <2> QED
      BY <1>6, <2>1, CardNames
  <1> QED
    BY <1>1, <1>2, <1>3, <1>4, <1>5, <1>6, CardNames

-----------------------------------------------------------------------------
(* Steps of the settings page.                                             *)

LEMMA SettingsInitially == Settings!SettingsInit \/ Settings!SettingsOff => SettingsInv
  <1> SUFFICES ASSUME Settings!SettingsInit \/ Settings!SettingsOff PROVE SettingsInv
    OBVIOUS
  <1>1. /\ Settings!SettingsBlank /\ settingsPage \in {"off", "loading"}
        /\ settingsPage = "off" => loadAsk = "no" /\ errorsAsk = "no"
        /\ loadAsk \in {"no", "sent"} /\ errorsAsk \in {"no", "sent"}
    BY DEF Settings!SettingsInit, Settings!SettingsOff
  <1>2. /\ cardForm = <<>> /\ row.at = 0 /\ cardSaves = <<>> /\ testing = {} /\ seq = 0
        /\ cardEdits = 0 /\ cardRequests = 0 /\ setFaults = 0 /\ overtaken = FALSE
        /\ wish = [c \in Settings!SecretCards |-> "keep"] /\ unanswered = {}
    BY <1>1 DEF Settings!SettingsBlank, Settings!NoForm
  <1>3. /\ DOMAIN cardForm = {} /\ DOMAIN cardSaves = {}
        /\ cardForm = [c \in DOMAIN cardForm |-> cardForm[c]]
        /\ cardSaves = [c \in DOMAIN cardSaves |-> cardSaves[c]]
    BY <1>2
  <1>4. CardStage
    BY <1>1, <1>2, <1>3 DEF CardStage
  <1>5. CardForms
    BY <1>1, <1>3 DEF CardForms
  <1>6. CardKept
    <2> SUFFICES ASSUME settingsPage = "loading", Settings!SettingsInit PROVE kept \in KeptRow
      BY <1>1 DEF CardKept, Settings!SettingsInit, Settings!SettingsOff
    <2> DEFINE ban == IF hasPages THEN [mode |-> "custom_page", page |-> "p"]
                      ELSE [mode |-> "megoopm", page |-> "null"]
               maint == [mode |-> "megoopm", page |-> "null", minutes |-> "10"]
               errs == [e \in Settings!Codes |-> [mode |-> "default", page |-> "null"]]
               site == [mode |-> "redirect", url |-> "ok", page |-> "null"]
               llm == [enabled |-> "on", model |-> "m", secret |-> "old"]
               smtp == [enabled |-> "off", host |-> "null", port |-> "587",
                        app_url |-> "null", secret |-> "old"]
    <2>1. site \in SiteKept /\ ban \in BanKept /\ maint \in MaintenanceKept
      BY DEF SiteKept, BanKept, BanForm, MaintenanceKept, MaintenanceForm, Coherent, Pages
    <2>2. errs \in ErrorsKept
      <3>1. \A e \in Settings!Codes : errs[e] \in ErrorForm /\ Coherent(errs[e])
        BY DEF ErrorForm, Coherent, Pages
      <3> QED
        BY <3>1 DEF ErrorsKept, ErrorForms
    <2>3. llm \in LlmKept /\ smtp \in SmtpKept
      BY DEF LlmKept, SmtpKept, Toggle
    <2>4. kept = [site |-> site, ban |-> ban, maintenance |-> maint, errors |-> errs,
                  llm |-> llm, smtp |-> smtp]
      BY DEF Settings!SettingsInit
    <2> HIDE DEF site, ban, maint, errs, llm, smtp
    <2> QED
      BY <2>1, <2>2, <2>3, <2>4 DEF KeptRow
  <1>7. CardSaves
    BY <1>3 DEF CardSaves
  <1>8. CardCounts
    <2>1. Unserved = {}
      BY <1>3 DEF Unserved, Sent, Settings!SavingIs, Settings!saving
    <2>2. Cardinality(Unserved) = 0
      BY <2>1, FS_EmptySet
    <2> QED
      BY <1>2, <2>1, <2>2, CardConstants DEF CardCounts
  <1>9. CardHistory
    BY <1>2 DEF CardHistory
  <1>10. Follows
    BY <1>1, <1>3, CardNames DEF Follows, SiteFollows, ErrorsFollow, RowFollows, SecretFollows
  <1> QED
    BY <1>4, <1>5, <1>6, <1>7, <1>8, <1>9, <1>10 DEF SettingsInv, CardTypes

\* Saves that do not change.
LEMMA SameSaves ==
    ASSUME cardSaves' = cardSaves
    PROVE  /\ \A c : Sent(c)' <=> Sent(c)
           /\ \A c : Ok(c)' <=> Ok(c)
           /\ Unserved' = Unserved
  BY DEF Unserved, Sent, Ok, Settings!SavingIs, Settings!saving

LEMMA UnservedFinite == IsFiniteSet(Unserved) /\ Cardinality(Unserved) \in Nat
  <1>1. IsFiniteSet({})
    BY FS_EmptySet
  <1>2. IsFiniteSet({} \cup {"site"})
    BY <1>1, FS_AddElement
  <1>3. IsFiniteSet(({} \cup {"site"}) \cup {"ban"})
    BY <1>2, FS_AddElement
  <1>4. IsFiniteSet((({} \cup {"site"}) \cup {"ban"}) \cup {"maintenance"})
    BY <1>3, FS_AddElement
  <1>5. IsFiniteSet(((({} \cup {"site"}) \cup {"ban"}) \cup {"maintenance"}) \cup {"llm"})
    BY <1>4, FS_AddElement
  <1>6. IsFiniteSet((((({} \cup {"site"}) \cup {"ban"}) \cup {"maintenance"}) \cup {"llm"})
                      \cup {"smtp"})
    BY <1>5, FS_AddElement
  <1>7. IsFiniteSet(((((({} \cup {"site"}) \cup {"ban"}) \cup {"maintenance"}) \cup {"llm"})
                      \cup {"smtp"}) \cup {"errors"})
    BY <1>6, FS_AddElement
  <1>8. Settings!Cards = (((((({} \cup {"site"}) \cup {"ban"}) \cup {"maintenance"})
                              \cup {"llm"}) \cup {"smtp"}) \cup {"errors"})
    BY CardNames
  <1>9. IsFiniteSet(Settings!Cards)
    BY <1>7, <1>8
  <1>10. Unserved \subseteq Settings!Cards
    BY DEF Unserved
  <1>11. IsFiniteSet(Unserved)
    BY <1>9, <1>10, FS_Subset
  <1> QED
    BY <1>11, FS_CardinalityType

\* Loads and tests that are sent or answered.
LEMMA RequestsOnly ==
    ASSUME SettingsInv, CardStage',
           UNCHANGED <<settingsPage, cardForm, row, savedSite, storedErrors, cardSaves, kept, seq,
                       cardEdits, wish, overtaken, unanswered>>,
           cardRequests' \in 0..MaxCardRequests, cardRequests' >= cardRequests,
           setFaults' \in 0..MaxSetFaults
    PROVE  SettingsInv'
  <1> USE SameSaves DEF SettingsInv, CardTypes
  <1>1. CardForms' /\ CardKept'
    BY DEF CardForms, CardKept
  <1>2. CardSaves'
    BY DEF CardSaves
  <1>3. CardCounts'
    <2>1. Unserved' = Unserved /\ Cardinality(Unserved) \in Nat
      BY SameSaves, UnservedFinite
    <2>2. CardCounts
      OBVIOUS
    <2> QED
      BY <2>1, <2>2 DEF CardCounts
  <1>4. CardHistory'
    BY DEF CardHistory
  <1>5. SiteFollows' /\ ErrorsFollow'
    BY DEF Follows, SiteFollows, ErrorsFollow
  <1>6. \A c : RowFollows(c) => RowFollows(c)'
    BY DEF RowFollows, Since
  <1>7. \A c : SecretFollows(c) => SecretFollows(c)'
    BY DEF SecretFollows, SecretSays
  <1>8. Follows'
    BY <1>5, <1>6, <1>7 DEF Follows
  <1> QED
    BY <1>1, <1>2, <1>3, <1>4, <1>8

LEMMA LoadsKeep ==
    ASSUME SettingsInv,
           \/ \E ok \in BOOLEAN : Settings!ServeLoad(ok) \/ Settings!ServeErrors(ok)
           \/ Settings!RetryLoad
           \/ \E c \in Settings!SecretCards : Settings!TestCard(c) \/ Settings!AnswerTest(c)
           \/ UNCHANGED cardVars
    PROVE  SettingsInv'
  <1> USE CardConstants DEF Settings!theData, Settings!theRequests, Settings!theWishes
  <1>1. /\ CardStage /\ CardCounts
    BY DEF SettingsInv, CardTypes
  <1>2. /\ UNCHANGED <<settingsPage, cardForm, row, savedSite, storedErrors, cardSaves, kept, seq,
                       cardEdits, wish, overtaken, unanswered>>
        /\ cardRequests' \in 0..MaxCardRequests /\ cardRequests' >= cardRequests
        /\ setFaults' \in 0..MaxSetFaults
    BY <1>1 DEF Settings!ServeLoad, Settings!ServeErrors, Settings!RetryLoad, Settings!TestCard,
           Settings!AnswerTest, cardVars, CardCounts
  <1>3. CardStage'
    <2>1. ASSUME NEW ok \in BOOLEAN, Settings!ServeLoad(ok) PROVE CardStage'
      BY <1>1, <2>1 DEF CardStage, Settings!ServeLoad
    <2>2. ASSUME NEW ok \in BOOLEAN, Settings!ServeErrors(ok) PROVE CardStage'
      BY <1>1, <2>2 DEF CardStage, Settings!ServeErrors
    <2>3. CASE Settings!RetryLoad
      BY <1>1, <2>3 DEF CardStage, Settings!RetryLoad
    <2>4. ASSUME NEW c \in Settings!SecretCards, Settings!TestCard(c) PROVE CardStage'
      BY <1>1, <2>4 DEF CardStage, Settings!TestCard, Settings!HasForm
    <2>5. ASSUME NEW c \in Settings!SecretCards, Settings!AnswerTest(c) PROVE CardStage'
      BY <1>1, <2>5 DEF CardStage, Settings!AnswerTest
    <2>6. CASE UNCHANGED cardVars
      BY <1>1, <2>6 DEF CardStage, cardVars
    <2> QED
      BY <2>1, <2>2, <2>3, <2>4, <2>5, <2>6
  <1> QED
    BY <1>2, <1>3, RequestsOnly

\* A control changes the form of a card that is not saving.
LEMMA ChangedKeeps ==
    ASSUME SettingsInv, NEW c \in Settings!Cards, NEW f \in FormOf(c), Settings!Changed(c, f),
           CardHistory',
           \A d \in Settings!SecretCards \ {c} : wish'[d] = wish[d],
           c \in Settings!SecretCards => SecretSays(c)'
    PROVE  SettingsInv'
  <1> USE DEF Settings!theRequests
  <1>1. /\ settingsPage = "ready" /\ c \in DOMAIN cardForm /\ c \notin DOMAIN cardSaves
        /\ cardForm' = [cardForm EXCEPT ![c] = f]
        /\ UNCHANGED <<settingsPage, loadAsk, errorsAsk, row, savedSite, storedErrors, cardSaves,
                       testing, kept, seq, cardRequests, setFaults, overtaken, unanswered>>
        /\ cardEdits < MaxCardEdits /\ cardEdits' = cardEdits + 1
    BY DEF Settings!Changed, Settings!HasForm, Settings!saving
  <1>2. DOMAIN cardForm' = DOMAIN cardForm /\ \A d \in DOMAIN cardForm \ {c} : cardForm'[d] = cardForm[d]
    BY <1>1
  <1>3. CardStage'
    BY <1>1, <1>2 DEF CardStage, SettingsInv, CardTypes
  <1>4. CardForms'
    BY <1>1, <1>2 DEF CardForms, SettingsInv, CardTypes
  <1>5. CardKept' /\ CardSaves'
    BY <1>1, <1>2 DEF CardKept, CardSaves, SettingsInv, CardTypes
  <1>6. CardCounts'
    BY <1>1, SameSaves, UnservedFinite, CardConstants DEF CardCounts, SettingsInv, CardTypes
  <1>7. SiteFollows' /\ ErrorsFollow'
    BY <1>1, <1>2, SameSaves DEF SiteFollows, ErrorsFollow, SettingsInv, Follows
  <1>8. RowFollows("ban")' /\ RowFollows("maintenance")'
    BY <1>1, SameSaves DEF RowFollows, Since, SettingsInv, Follows
  <1>9. ASSUME NEW d \in Settings!SecretCards PROVE SecretFollows(d)'
    <2>1. CASE d = c
      BY <1>1, <2>1, SameSaves DEF SecretFollows, Sent, Ok, Settings!SavingIs, Settings!saving
    <2>2. CASE d # c
      <3>1. d \in DOMAIN cardForm /\ cardForm'[d] = cardForm[d] /\ wish'[d] = wish[d]
        BY <1>1, <1>2, <2>2, CardNames DEF SettingsInv, CardTypes, CardStage
      <3>2. SecretFollows(d)
        BY DEF SettingsInv, Follows
      <3> QED
        BY <1>1, <3>1, <3>2, SameSaves DEF SecretFollows, SecretSays
    <2> QED
      BY <2>1, <2>2
  <1> QED
    BY <1>3, <1>4, <1>5, <1>6, <1>7, <1>8, <1>9 DEF SettingsInv, CardTypes, Follows

LEMMA EditCardKeeps ==
    ASSUME SettingsInv, NEW c \in Settings!RowCards, NEW x \in DOMAIN Settings!Controls[c],
           NEW v \in Settings!Controls[c][x], Settings!EditCard(c, x, v)
    PROVE  SettingsInv'
  <1> DEFINE f == Settings!Patched(c, x, v)
  <1>1. /\ settingsPage = "ready" /\ c \in DOMAIN cardForm /\ cardForm[c] \in FormOf(c)
        /\ Settings!Changed(c, f) /\ cardForm'[c] = f
    BY DEF Settings!EditCard, Settings!HasForm, Settings!Changed, SettingsInv, CardTypes, CardForms
  <1>9. wish' = wish => CardHistory'
    BY <1>1 DEF SettingsInv, CardTypes, CardHistory, Settings!Changed
  <1>2. CASE c = "site"
    <2>1. f \in FormOf(c) /\ wish' = wish
      <3>1. x \in {"mode", "url", "page"} /\ v \in Settings!SiteControls[x]
        BY <1>2 DEF Settings!Controls, Settings!SiteControls
      <3>2. f = [cardForm[c] EXCEPT ![x] = v] /\ wish' = wish
        BY <1>2, <3>1 DEF Settings!Patched, Settings!EditCard
      <3>3. CASE x = "mode"
        BY <1>1, <1>2, <3>1, <3>2, <3>3 DEF FormOf, SiteForm, Settings!SiteControls, Pages
      <3>4. CASE x = "url"
        BY <1>1, <1>2, <3>1, <3>2, <3>4 DEF FormOf, SiteForm, Settings!SiteControls, Pages
      <3>5. CASE x = "page"
        BY <1>1, <1>2, <3>1, <3>2, <3>5 DEF FormOf, SiteForm, Settings!SiteControls, Pages
      <3> QED
        BY <3>1, <3>2, <3>3, <3>4, <3>5
    <2> HIDE DEF f
    <2> QED
      BY <1>1, <1>2, <1>9, <2>1, ChangedKeeps, CardNames
  <1>3. CASE c = "ban"
    <2>1. f \in FormOf(c) /\ wish' = wish
      <3>1. x \in {"mode", "page"} /\ v \in Settings!BanControls[x]
        BY <1>3 DEF Settings!Controls, Settings!BanControls
      <3>2. f = (IF x = "mode" THEN Settings!WithMode(cardForm[c], v) ELSE [cardForm[c] EXCEPT ![x] = v])
            /\ wish' = wish
        BY <1>3, <3>1 DEF Settings!Patched, Settings!EditCard
      <3>3. CASE x = "mode"
        BY <1>1, <1>3, <3>1, <3>2, <3>3 DEF FormOf, BanForm, Settings!BanControls, Pages, Settings!WithMode
      <3>4. CASE x = "page"
        BY <1>1, <1>3, <3>1, <3>2, <3>4 DEF FormOf, BanForm, Settings!BanControls, Pages, Settings!WithMode
      <3> QED
        BY <3>1, <3>2, <3>3, <3>4
    <2> HIDE DEF f
    <2> QED
      BY <1>1, <1>3, <1>9, <2>1, ChangedKeeps, CardNames
  <1>4. CASE c = "maintenance"
    <2>1. f \in FormOf(c) /\ wish' = wish
      <3>1. /\ x \in {"mode", "page", "minutes"}
            /\ x = "mode" => v \in {"megoopm", "custom_page"}
            /\ x = "page" => v = "p"
            /\ x = "minutes" => v \in {"", "0", "10", "20"}
        <4>1. Settings!Controls[c] = Settings!MaintenanceControls
          BY <1>4 DEF Settings!Controls
        <4> DEFINE m == Settings!MaintenanceControls
        <4>2. /\ DOMAIN m = {"minutes", "mode", "page"} /\ m.minutes = {"", "0", "10", "20"}
              /\ m.mode = {"megoopm", "custom_page"} /\ m.page = {"p"}
          BY DEF Settings!MaintenanceControls, Settings!BanControls, Settings!Merge
        <4> HIDE DEF m
        <4>3. x \in DOMAIN m /\ v \in m[x]
          BY <4>1 DEF m
        <4> QED
          BY <4>2, <4>3
      <3>2. f = (IF x = "mode" THEN Settings!WithMode(cardForm[c], v) ELSE [cardForm[c] EXCEPT ![x] = v])
            /\ wish' = wish
        BY <1>4, <3>1 DEF Settings!Patched, Settings!EditCard
      <3>3. CASE x = "mode"
        BY <1>1, <1>4, <3>1, <3>2, <3>3 DEF FormOf, MaintenanceForm, Pages, Settings!WithMode
      <3>4. CASE x = "page"
        BY <1>1, <1>4, <3>1, <3>2, <3>4 DEF FormOf, MaintenanceForm, Pages, Settings!WithMode
      <3>5. CASE x = "minutes"
        BY <1>1, <1>4, <3>1, <3>2, <3>5 DEF FormOf, MaintenanceForm, Pages, Settings!WithMode
      <3> QED
        BY <3>1, <3>2, <3>3, <3>4, <3>5
    <2> HIDE DEF f
    <2> QED
      BY <1>1, <1>4, <1>9, <2>1, ChangedKeeps, CardNames
  <1>5. CASE c \in Settings!SecretCards
    <2>1. /\ c = "llm" => /\ x \in {"enabled", "model", "secret"}
                          /\ x = "enabled" => v \in Toggle
                          /\ x = "model" => v \in {"", "m"}
          /\ c = "smtp" => /\ x \in {"enabled", "host", "port", "app_url", "secret"}
                           /\ x = "enabled" => v \in Toggle
                           /\ x = "host" => v \in {"", "h"}
                           /\ x = "port" => v \in {"0", "587"}
                           /\ x = "app_url" => v \in {"", "odd", "ok"}
          /\ x = "secret" => v \in {"", " ", "s"}
      <3>1. CASE c = "llm"
        <4>1. Settings!Controls[c] = Settings!LlmControls
          BY <3>1 DEF Settings!Controls
        <4> DEFINE m == Settings!LlmControls
        <4>2. /\ DOMAIN m = {"enabled", "model", "secret"} /\ m.enabled = Toggle
              /\ m.model = {"", "m"} /\ m.secret = {"", " ", "s"}
          BY DEF Settings!LlmControls, Settings!Toggle, Toggle
        <4> HIDE DEF m
        <4>3. x \in DOMAIN m /\ v \in m[x]
          BY <4>1 DEF m
        <4> QED
          BY <3>1, <4>2, <4>3
      <3>2. CASE c = "smtp"
        <4>1. Settings!Controls[c] = Settings!SmtpControls
          BY <3>2 DEF Settings!Controls
        <4> DEFINE m == Settings!SmtpControls
        <4>2. /\ DOMAIN m = {"enabled", "host", "port", "app_url", "secret"} /\ m.enabled = Toggle
              /\ m.host = {"", "h"} /\ m.port = {"0", "587"}
              /\ m.app_url = {"", "odd", "ok"} /\ m.secret = {"", " ", "s"}
          BY DEF Settings!SmtpControls, Settings!Toggle, Toggle
        <4> HIDE DEF m
        <4>3. x \in DOMAIN m /\ v \in m[x]
          BY <4>1 DEF m
        <4> QED
          BY <3>2, <4>2, <4>3
      <3> QED
        BY <1>5, <3>1, <3>2, CardNames
    <2>2. f = IF x = "secret" THEN [cardForm[c] EXCEPT !.secret = v, !.cleared = FALSE]
              ELSE [cardForm[c] EXCEPT ![x] = v]
      BY <1>5, <2>1, CardNames DEF Settings!Patched
    <2>3. f \in FormOf(c)
      BY <1>1, <1>5, <2>1, <2>2, CardNames DEF FormOf, LlmForm, SmtpForm, Toggle
    <2>4. x # "secret" => /\ wish' = wish /\ f.secret = cardForm[c].secret
                          /\ f.cleared = cardForm[c].cleared
      BY <1>1, <1>5, <2>1, <2>2, CardNames DEF Settings!EditCard, FormOf, LlmForm, SmtpForm
    <2>5. x = "secret" =>
             /\ f.secret = v /\ f.cleared = FALSE
             /\ wish' = [wish EXCEPT ![c] =
                    IF v = "s" THEN "s"
                    ELSE IF @ \in {"remove", "unclear"} \/ (v = " " /\ c = "smtp") THEN "unclear"
                    ELSE "keep"]
      BY <1>1, <1>5, <2>1, <2>2, CardNames DEF Settings!EditCard, FormOf, LlmForm, SmtpForm
    <2>6. SecretSays(c) /\ CardHistory
      BY <1>1, <1>5 DEF SettingsInv, Follows, SecretFollows, CardTypes
    <2> HIDE DEF f
    <2>7. SecretSays(c)'
      <3>1. CASE x = "secret"
        <4>1. /\ wish'[c] \in {"s", "unclear", "keep"}
              /\ wish'[c] = "s" => v = "s"
              /\ wish'[c] = "keep" => v = "" \/ (v = " " /\ c = "llm")
          BY <2>1, <2>5, <2>6, <3>1, <1>5, CardNames DEF CardHistory
        <4> QED
          BY <1>1, <2>5, <3>1, <4>1 DEF SecretSays, Settings!SecretToSend
      <3>2. CASE x # "secret"
        BY <1>1, <2>4, <2>6, <3>2 DEF SecretSays, Settings!SecretToSend
      <3> QED
        BY <3>1, <3>2
    <2>8. CardHistory' /\ \A d \in Settings!SecretCards \ {c} : wish'[d] = wish[d]
      <3>1. unanswered' = unanswered /\ overtaken' = overtaken
        BY <1>1 DEF Settings!Changed
      <3> QED
        BY <1>5, <2>4, <2>5, <2>6, <3>1, CardNames DEF CardHistory
    <2> QED
      BY <1>1, <1>5, <2>3, <2>7, <2>8, ChangedKeeps, CardNames
  <1> QED
    BY <1>2, <1>3, <1>4, <1>5, CardNames

LEMMA RemoveSecretKeeps ==
    ASSUME SettingsInv, NEW c \in Settings!SecretCards, Settings!RemoveSecret(c)
    PROVE  SettingsInv'
  <1> DEFINE f == [cardForm[c] EXCEPT !.secret = "", !.isSet = FALSE, !.cleared = TRUE]
  <1>1. /\ Settings!Changed(c, f) /\ c \in DOMAIN cardForm /\ cardForm[c] \in FormOf(c)
        /\ wish' = [wish EXCEPT ![c] = "remove"] /\ cardForm'[c] = f
    BY DEF Settings!RemoveSecret, Settings!HasForm, SettingsInv, CardTypes, CardForms, Settings!Changed
  <1>2. f \in FormOf(c) /\ f.secret = "" /\ f.cleared
    BY <1>1, CardNames DEF FormOf, LlmForm, SmtpForm
  <1> HIDE DEF f
  <1>3. CardHistory' /\ wish'[c] = "remove" /\ \A d \in Settings!SecretCards \ {c} : wish'[d] = wish[d]
    BY <1>1 DEF SettingsInv, CardTypes, CardHistory, Settings!Changed
  <1>4. SecretSays(c)'
    BY <1>1, <1>2, <1>3 DEF SecretSays
  <1> QED
    BY <1>1, <1>2, <1>3, <1>4, CardNames, ChangedKeeps

LEMMA EditErrorPageKeeps ==
    ASSUME SettingsInv, NEW e \in Settings!Codes, NEW x, NEW v, Settings!EditErrorPage(e, x, v),
           \/ x = "mode" /\ v \in {"default", "custom_page"}
           \/ x = "page" /\ v = "p"
    PROVE  SettingsInv'
  <1> DEFINE f == [cardForm.errors EXCEPT ![e] = IF x = "mode" THEN Settings!WithMode(@, v)
                                                 ELSE [@ EXCEPT !.page = v]]
  <1>1. /\ Settings!Changed("errors", f) /\ cardForm.errors \in ErrorForms /\ wish' = wish
    BY DEF Settings!EditErrorPage, Settings!HasForm, SettingsInv, CardTypes, CardForms, FormOf
  <1>2. cardForm.errors[e] \in ErrorForm
    BY <1>1 DEF ErrorForms
  <1>3. f[e] \in ErrorForm
    BY <1>1, <1>2 DEF ErrorForms, ErrorForm, Settings!WithMode, Pages
  <1>4. f \in FormOf("errors")
    BY <1>1, <1>3 DEF ErrorForms, FormOf
  <1> HIDE DEF f
  <1> QED
    BY <1>1, <1>4, CardNames, ChangedKeeps DEF SettingsInv, CardTypes, CardHistory, Settings!Changed

LEMMA AnswerLoadKeeps ==
    ASSUME SettingsInv, Settings!AnswerLoad
    PROVE  SettingsInv'
  <1> USE DEF Settings!theRequests, Settings!theWishes
  <1>1. /\ settingsPage \in {"loading", "failed"} /\ DOMAIN cardForm \subseteq {"errors"}
        /\ DOMAIN cardSaves = {} /\ kept \in KeptRow /\ unanswered = {} /\ overtaken = FALSE
        /\ testing = {} /\ \A c \in Settings!SecretCards : wish[c] = "keep"
    BY DEF SettingsInv, CardTypes, CardStage, CardKept, Settings!AnswerLoad
  <1>2. /\ UNCHANGED <<cardSaves, testing, kept, seq, cardRequests, cardEdits, setFaults, wish,
                       overtaken, unanswered>>
        /\ \A c : ~Sent(c)' /\ ~Ok(c)'
    BY <1>1 DEF Settings!AnswerLoad, Sent, Ok, Settings!SavingIs, Settings!saving
  <1>3. CardSaves' /\ CardHistory' /\ CardCounts
    BY <1>1, <1>2 DEF CardSaves, CardHistory, SettingsInv, CardTypes
  <1>4. CASE loadAsk = "err"
    <2>1. /\ settingsPage' = "failed" /\ cardForm' = <<>> /\ errorsAsk' = "no" /\ row' = row
          /\ loadAsk' = "no" /\ DOMAIN cardForm' = {}
      BY <1>4 DEF Settings!AnswerLoad, Settings!NoForm
    <2>2. CardStage' /\ CardForms' /\ CardKept'
      BY <1>1, <1>2, <2>1 DEF CardStage, CardForms, CardKept
    <2>3. CardCounts'
      BY <1>2, <1>3, <2>1, SameSaves DEF CardCounts
    <2>4. Follows'
      BY <2>1, CardNames DEF Follows, SiteFollows, ErrorsFollow, RowFollows, SecretFollows
    <2> QED
      BY <1>3, <2>2, <2>3, <2>4 DEF SettingsInv, CardTypes
  <1>5. CASE loadAsk = "ok"
    <2> DEFINE P == Settings!Public(kept)
               S(c) == Settings!CardSeed(c, P)
    <2>1. /\ settingsPage' = "ready" /\ loadAsk' = "no" /\ row' = [settings |-> P, at |-> seq]
          /\ cardForm' = Settings!Merge([c \in Settings!RowCards |-> S(c)], cardForm)
          /\ savedSite' = S("site") /\ storedErrors' = storedErrors
          /\ errorsAsk' = IF settingsPage = "failed" THEN "sent" ELSE errorsAsk
      BY <1>5 DEF Settings!AnswerLoad
    <2> HIDE DEF P
    <2>2. /\ DOMAIN cardForm' = Settings!RowCards \cup DOMAIN cardForm
          /\ cardForm' = [c \in DOMAIN cardForm' |-> cardForm'[c]]
          /\ \A c \in Settings!RowCards : cardForm'[c] = S(c)
          /\ "errors" \in DOMAIN cardForm => cardForm'["errors"] = cardForm["errors"]
      BY <2>1, CardNames DEF Settings!Merge
    <2>3. /\ S("site") = [kept.site EXCEPT !.url = OrBlank(@)] /\ S("site") \in SiteForm
          /\ S("ban") = kept.ban /\ S("ban") \in BanForm
          /\ S("maintenance") = kept.maintenance /\ S("maintenance") \in MaintenanceForm
          /\ S("llm") \in LlmForm /\ S("llm").secret = "" /\ S("llm").cleared = FALSE
          /\ S("smtp") \in SmtpForm /\ S("smtp").secret = "" /\ S("smtp").cleared = FALSE
      BY <1>1, SeedIs DEF P
    <2>4. P.ban = kept.ban /\ P.maintenance = kept.maintenance
      BY <1>1, PublicIs DEF P
    <2> HIDE DEF S
    <2>5. CardStage'
      BY <1>1, <1>2, <2>1, <2>2, CardNames DEF CardStage, SettingsInv, CardTypes
    <2>6. CardForms'
      <3>1. \A c \in Settings!RowCards : S(c) \in FormOf(c)
        BY <2>3, CardNames DEF FormOf
      <3>2. "errors" \in DOMAIN cardForm => cardForm.errors \in FormOf("errors")
        BY DEF SettingsInv, CardTypes, CardForms
      <3> QED
        BY <1>1, <2>2, <3>1, <3>2, CardNames DEF CardForms
    <2>7. CardKept' /\ CardCounts'
      BY <1>1, <1>2, <1>3, <2>1, SameSaves DEF CardCounts, CardKept
    <2>8. SiteFollows' /\ ErrorsFollow'
      BY <1>1, <1>2, <2>1, <2>2, <2>3, CardNames
         DEF SiteFollows, ErrorsFollow, SettingsInv, Follows, Ok, Settings!SavingIs, Settings!saving
    <2>9. RowFollows("ban")' /\ RowFollows("maintenance")'
      BY <1>1, <1>2, <2>1, <2>4 DEF RowFollows
    <2>10. \A c \in Settings!SecretCards : SecretFollows(c)'
      <3> SUFFICES ASSUME NEW c \in Settings!SecretCards PROVE SecretFollows(c)'
        OBVIOUS
      <3>1. cardForm'[c].secret = "" /\ ~cardForm'[c].cleared /\ wish'[c] = "keep"
        BY <1>1, <1>2, <2>2, <2>3, CardNames
      <3>2. Settings!SecretToSend(c, cardForm'[c]) = "absent"
        BY <3>1 DEF Settings!SecretToSend
      <3> QED
        BY <1>2, <3>1, <3>2 DEF SecretFollows, SecretSays
    <2> QED
      BY <1>3, <2>5, <2>6, <2>7, <2>8, <2>9, <2>10 DEF SettingsInv, CardTypes, Follows
  <1> QED
    BY <1>4, <1>5 DEF Settings!AnswerLoad

LEMMA AnswerErrorsKeeps ==
    ASSUME SettingsInv, Settings!AnswerErrors
    PROVE  SettingsInv'
  <1> USE DEF Settings!theRequests, Settings!theWishes
  <1>1. /\ "errors" \notin DOMAIN cardForm /\ settingsPage # "off" /\ kept \in KeptRow
        /\ errorsAsk \in {"ok", "err"}
        /\ UNCHANGED <<settingsPage, loadAsk, row, savedSite, cardSaves, testing, kept, seq,
                       cardRequests, cardEdits, setFaults, wish, overtaken, unanswered>>
    BY DEF SettingsInv, CardTypes, CardStage, CardKept, Settings!AnswerErrors
  <1>2. CASE errorsAsk = "err"
    <2>1. cardForm' = cardForm /\ storedErrors' = storedErrors /\ errorsAsk' = "failed"
      BY <1>2 DEF Settings!AnswerErrors
    <2>2. CardStage'
      BY <1>1, <2>1 DEF CardStage, SettingsInv, CardTypes
    <2> QED
      BY <1>1, <2>1, <2>2, RequestsOnly DEF SettingsInv, CardTypes, CardCounts
  <1>3. CASE errorsAsk = "ok"
    <2>1. /\ cardForm' = Settings!Merge([errors |-> kept.errors], cardForm)
          /\ storedErrors' = kept.errors /\ errorsAsk' = "no"
      BY <1>3 DEF Settings!AnswerErrors
    <2>2. /\ DOMAIN cardForm' = DOMAIN cardForm \cup {"errors"}
          /\ cardForm' = [c \in DOMAIN cardForm' |-> cardForm'[c]]
          /\ cardForm'["errors"] = kept.errors
          /\ \A c \in DOMAIN cardForm : cardForm'[c] = cardForm[c]
      BY <1>1, <2>1 DEF Settings!Merge
    <2>3. settingsPage \in {"loading", "ready"}
      BY <1>1, <1>3 DEF SettingsInv, CardTypes, CardStage
    <2>4. CardStage'
      BY <1>1, <2>1, <2>2, <2>3, CardNames DEF CardStage, SettingsInv, CardTypes
    <2>5. CardForms'
      <3>1. kept.errors \in ErrorForms
        BY <1>1 DEF KeptRow, ErrorsKept
      <3> QED
        BY <2>2, <3>1, CardNames DEF CardForms, SettingsInv, CardTypes, FormOf
    <2>6. CardKept' /\ CardSaves' /\ CardHistory'
      BY <1>1, <2>2 DEF CardKept, CardSaves, CardHistory, SettingsInv, CardTypes
    <2>7. CardCounts'
      BY <1>1, SameSaves DEF CardCounts, SettingsInv, CardTypes
    <2>8. SiteFollows' /\ ErrorsFollow' /\ RowFollows("ban")' /\ RowFollows("maintenance")'
      BY <1>1, <2>1, SameSaves DEF SiteFollows, ErrorsFollow, RowFollows, Since, SettingsInv, Follows
    <2>9. ASSUME NEW c \in Settings!SecretCards PROVE SecretFollows(c)'
      <3>1. settingsPage = "ready" => cardForm'[c] = cardForm[c]
        BY <2>2, CardNames DEF SettingsInv, CardTypes, CardStage
      <3>2. SecretFollows(c)
        BY DEF SettingsInv, Follows
      <3> QED
        BY <1>1, <3>1, <3>2, SameSaves DEF SecretFollows, SecretSays
    <2> QED
      BY <2>4, <2>5, <2>6, <2>7, <2>8, <2>9 DEF SettingsInv, CardTypes, Follows
  <1> QED
    BY <1>1, <1>2, <1>3

LEMMA SaveCardKeeps ==
    ASSUME SettingsInv, NEW c \in Settings!Cards, Settings!SaveCard(c)
    PROVE  SettingsInv'
  <1> USE DEF Settings!theData, Settings!theWishes
  <1> DEFINE q == [st |-> "sent", body |-> Settings!CardPayload(c), at |-> 0, answer |-> Settings!NoForm,
                   was |-> "none"]
  <1>1. /\ settingsPage = "ready" /\ c \in DOMAIN cardForm /\ c \notin DOMAIN cardSaves
        /\ cardRequests < MaxCardRequests /\ cardRequests' = cardRequests + 1
        /\ Settings!Complete(c)
        /\ cardSaves' = Settings!Merge([x \in {c} |-> q], cardSaves)
        /\ UNCHANGED <<settingsPage, loadAsk, errorsAsk, cardForm, row, savedSite, storedErrors,
                       testing, kept, seq, cardEdits, setFaults, wish, overtaken, unanswered>>
    BY DEF Settings!SaveCard, Settings!HasForm, Settings!saving
  <1>2. /\ q.body \in Body(c)
        /\ Settings!CardRefused(c, q.body) => OddAddress(c, q.body)
    BY <1>1, PayloadIs DEF SettingsInv, CardTypes
  <1>3. /\ DOMAIN q = {"st", "body", "at", "answer", "was"} /\ q = [x \in DOMAIN q |-> q[x]]
        /\ q.st = "sent" /\ q.body = Settings!CardPayload(c)
    OBVIOUS
  <1> HIDE DEF q
  <1>4. /\ DOMAIN cardSaves' = DOMAIN cardSaves \cup {c} /\ cardSaves'[c] = q
        /\ cardSaves' = [d \in DOMAIN cardSaves' |-> cardSaves'[d]]
        /\ \A d \in DOMAIN cardSaves : cardSaves'[d] = cardSaves[d]
    BY <1>1 DEF Settings!Merge
  <1>5. /\ \A d : Sent(d)' <=> (Sent(d) \/ d = c)
        /\ \A d : Ok(d)' <=> Ok(d)
        /\ ~Sent(c) /\ ~Ok(c)
    BY <1>1, <1>3, <1>4 DEF Sent, Ok, Settings!SavingIs, Settings!saving
  <1>6. CardStage' /\ CardForms' /\ CardKept' /\ CardHistory'
    BY <1>1 DEF CardStage, CardForms, CardKept, CardHistory, SettingsInv, CardTypes
  <1>7. CardSaves'
    <2> SUFFICES ASSUME NEW d \in DOMAIN cardSaves'
                 PROVE  /\ DOMAIN cardSaves'[d] = {"st", "body", "at", "answer", "was"}
                        /\ cardSaves'[d] = [x \in DOMAIN cardSaves'[d] |-> cardSaves'[d][x]]
                        /\ cardSaves'[d].st \in {"sent", "ok", "err"} /\ d \in DOMAIN cardForm
                        /\ cardSaves'[d].st = "sent" =>
                              /\ cardSaves'[d].body \in Body(d)
                              /\ Settings!CardRefused(d, cardSaves'[d].body) =>
                                    OddAddress(d, cardSaves'[d].body)
                        /\ cardSaves'[d].st = "ok" =>
                              /\ cardSaves'[d].at \in 0..seq /\ cardSaves'[d].answer \in KeptRow
                              /\ cardSaves'[d].answer[d] = kept[d]
      <3>1. DOMAIN cardSaves' \subseteq Settings!Cards
        BY <1>4 DEF CardSaves, SettingsInv, CardTypes
      <3> QED
        BY <1>1, <1>4, <3>1 DEF CardSaves
    <2>1. CASE d = c
      BY <1>1, <1>2, <1>3, <1>4, <2>1
    <2>2. CASE d # c
      BY <1>4, <2>2 DEF CardSaves, SettingsInv, CardTypes
    <2> QED
      BY <2>1, <2>2
  <1>8. CardCounts'
    <2>1. Unserved' = Unserved \cup {c} /\ c \notin Unserved
      BY <1>5 DEF Unserved
    <2>2. Cardinality(Unserved') = Cardinality(Unserved) + 1
      BY <2>1, UnservedFinite, FS_AddElement
    <2> QED
      BY <1>1, <2>2, UnservedFinite, CardConstants DEF CardCounts, SettingsInv, CardTypes
  <1>9. SiteFollows' /\ ErrorsFollow'
    BY <1>1, <1>5 DEF SiteFollows, ErrorsFollow, SettingsInv, Follows
  <1>10. RowFollows("ban")' /\ RowFollows("maintenance")'
    <2> SUFFICES ASSUME NEW d, RowFollows(d) PROVE RowFollows(d)'
      BY DEF SettingsInv, Follows
    <2>1. Since(d)' = Since(d)
      BY <1>1, <1>4, <1>5 DEF Since, Ok, Settings!SavingIs, Settings!saving
    <2> QED
      BY <1>1, <1>4, <1>5, <2>1 DEF RowFollows
  <1>11. ASSUME NEW d \in Settings!SecretCards PROVE SecretFollows(d)'
    <2>1. SecretFollows(d)
      BY DEF SettingsInv, Follows
    <2>2. CASE d = c
      <3>1. q.body.secret = Settings!SecretToSend(c, cardForm[c])
        BY <1>3, <2>2, CardNames DEF Settings!CardPayload, Settings!buildLlmPayload, Settings!buildSmtpPayload
      <3> QED
        BY <1>1, <1>4, <1>5, <2>1, <2>2, <3>1 DEF SecretFollows, SecretSays
    <2>3. CASE d # c
      <3>1. Sent(d) \/ Ok(d) => cardSaves'[d] = cardSaves[d]
        BY <1>4 DEF Sent, Ok, Settings!SavingIs, Settings!saving
      <3> QED
        BY <1>1, <1>5, <2>1, <2>3, <3>1 DEF SecretFollows, SecretSays
    <2> QED
      BY <2>2, <2>3
  <1> QED
    BY <1>6, <1>7, <1>8, <1>9, <1>10, <1>11 DEF SettingsInv, CardTypes, Follows

\* A save is stored and answered, stored and its answer lost, or not stored.
LEMMA ServeCardKeeps ==
    ASSUME SettingsInv, NEW c \in Settings!Cards, NEW stored_ \in BOOLEAN, NEW answered \in BOOLEAN,
           Settings!ServeCard(c, stored_, answered)
    PROVE  SettingsInv'
  <1> USE DEF Settings!theData
  <1> DEFINE q == cardSaves[c]
             r == cardSaves'[c]
             b == q.body
  <1>1. /\ c \in DOMAIN cardSaves /\ q.st = "sent" /\ settingsPage = "ready" /\ b \in Body(c)
        /\ DOMAIN q = {"st", "body", "at", "answer", "was"} /\ q = [x \in DOMAIN q |-> q[x]]
        /\ kept \in KeptRow /\ c \in DOMAIN cardForm
        /\ cardSaves = [d \in DOMAIN cardSaves |-> cardSaves[d]]
    BY DEF Settings!ServeCard, Settings!SavingIs, Settings!saving, SettingsInv, CardTypes, CardStage,
           CardSaves, CardKept
  <1>2. /\ stored_ => ~Settings!CardRefused(c, b)
        /\ answered => stored_
        /\ setFaults' \in {setFaults, setFaults + 1} /\ setFaults' <= MaxSetFaults
        /\ kept' = IF stored_ THEN [kept EXCEPT ![c] = Settings!KeptAfter(c, b)] ELSE kept
        /\ seq' = IF stored_ THEN seq + 1 ELSE seq
        /\ unanswered' = IF stored_ /\ ~answered THEN unanswered \cup {c} ELSE unanswered
        /\ UNCHANGED <<settingsPage, loadAsk, errorsAsk, cardForm, row, savedSite, storedErrors,
                       testing, cardEdits, cardRequests, wish, overtaken>>
    BY DEF Settings!ServeCard
  <1>3. cardSaves' = [cardSaves EXCEPT ![c].st = IF answered THEN "ok" ELSE "err",
                                      ![c].answer = IF answered THEN kept' ELSE Settings!NoForm,
                                      ![c].at = seq',
                                      ![c].was = IF c \in Settings!SecretCards THEN kept[c].secret
                                                 ELSE "none"]
    BY DEF Settings!ServeCard
  <1>4. /\ DOMAIN cardSaves' = DOMAIN cardSaves /\ \A d \in DOMAIN cardSaves \ {c} : cardSaves'[d] = cardSaves[d]
        /\ cardSaves' = [d \in DOMAIN cardSaves' |-> cardSaves'[d]]
    BY <1>1, <1>3
  <1>5. /\ DOMAIN r = {"st", "body", "at", "answer", "was"} /\ r = [x \in DOMAIN r |-> r[x]]
        /\ r.st = (IF answered THEN "ok" ELSE "err") /\ r.at = seq'
        /\ answered => r.answer = kept'
        /\ c \in Settings!SecretCards => r.was = kept[c].secret
    BY <1>1, <1>3
  <1> HIDE DEF q, r
  <1>6. kept' \in KeptRow /\ DOMAIN kept = Settings!Cards
    BY <1>1, <1>2, StoredIs, CardNames DEF KeptRow, q
  <1>7. \A d \in Settings!Cards \ {c} : kept'[d] = kept[d]
    BY <1>2, <1>6
  <1>8. /\ \A d : d # c => (Sent(d)' <=> Sent(d)) /\ (Ok(d)' <=> Ok(d))
        /\ Sent(c) /\ ~Ok(c) /\ ~Sent(c)' /\ (Ok(c)' <=> answered)
    BY <1>1, <1>4, <1>5 DEF Sent, Ok, Settings!SavingIs, Settings!saving, q, r
  <1>9. CardStage' /\ CardForms' /\ CardKept' /\ CardHistory'
    BY <1>1, <1>2, <1>4, <1>6 DEF CardStage, CardForms, CardKept, CardHistory, SettingsInv, CardTypes
  <1>10. seq \in Nat /\ seq' \in Nat /\ seq' >= seq /\ row.at \in 0..seq
    BY <1>2 DEF CardCounts, SettingsInv, CardTypes
  <1>11. ASSUME NEW d \in DOMAIN cardSaves, d # c, cardSaves[d].st = "ok"
         PROVE  /\ cardSaves[d].at \in 0..seq /\ cardSaves[d].answer \in KeptRow
                /\ cardSaves[d].answer[d] = kept[d] /\ kept'[d] = kept[d]
    BY <1>7, <1>11 DEF CardSaves, SettingsInv, CardTypes
  <1>12. CardSaves'
    <2> SUFFICES ASSUME NEW d \in DOMAIN cardSaves'
                 PROVE  /\ DOMAIN cardSaves'[d] = {"st", "body", "at", "answer", "was"}
                        /\ cardSaves'[d] = [x \in DOMAIN cardSaves'[d] |-> cardSaves'[d][x]]
                        /\ cardSaves'[d].st \in {"sent", "ok", "err"} /\ d \in DOMAIN cardForm
                        /\ cardSaves'[d].st = "sent" =>
                              /\ cardSaves'[d].body \in Body(d)
                              /\ Settings!CardRefused(d, cardSaves'[d].body) =>
                                    OddAddress(d, cardSaves'[d].body)
                        /\ cardSaves'[d].st = "ok" =>
                              /\ cardSaves'[d].at \in 0..seq' /\ cardSaves'[d].answer \in KeptRow
                              /\ cardSaves'[d].answer[d] = kept'[d]
      <3>1. DOMAIN cardSaves' \subseteq Settings!Cards
        BY <1>4 DEF CardSaves, SettingsInv, CardTypes
      <3> QED
        BY <1>2, <1>4, <3>1 DEF CardSaves
    <2>1. CASE d = c
      BY <1>1, <1>5, <1>6, <1>10, <2>1 DEF r
    <2>2. CASE d # c
      BY <1>4, <1>10, <1>11, <2>2 DEF CardSaves, SettingsInv, CardTypes
    <2> QED
      BY <2>1, <2>2
  <1>13. CardCounts'
    <2>1. Unserved' = Unserved \ {c} /\ c \in Unserved
      BY <1>8 DEF Unserved
    <2>2. Cardinality(Unserved') = Cardinality(Unserved) - 1
      BY <2>1, UnservedFinite, FS_RemoveElement
    <2> QED
      BY <1>2, <2>2, UnservedFinite, CardConstants DEF CardCounts, SettingsInv, CardTypes
  <1>14. SiteFollows' /\ ErrorsFollow'
    <2>1. SiteFollows'
      <3>1. CASE c = "site"
        BY <1>2, <1>8, <3>1 DEF SiteFollows, SettingsInv, Follows
      <3>2. CASE c # "site"
        BY <1>2, <1>7, <1>8, <3>2, CardNames DEF SiteFollows, SettingsInv, Follows
      <3> QED
        BY <3>1, <3>2
    <2>2. ErrorsFollow'
      <3>1. CASE c = "errors"
        BY <1>2, <1>8, <3>1 DEF ErrorsFollow, SettingsInv, Follows
      <3>2. CASE c # "errors"
        BY <1>2, <1>7, <1>8, <3>2, CardNames DEF ErrorsFollow, SettingsInv, Follows
      <3> QED
        BY <3>1, <3>2
    <2> QED
      BY <2>1, <2>2
  <1>15. ASSUME NEW d \in Settings!Cards, RowFollows(d) PROVE RowFollows(d)'
    <2> SUFFICES ASSUME d \notin unanswered', ~overtaken'
                 PROVE  /\ ~Ok(d)' \/ row'.at >= Since(d)' => row'.settings[d] = kept'[d]
                        /\ \A e \in DOMAIN cardSaves' :
                              Ok(e)' /\ cardSaves'[e].at >= Since(d)' => cardSaves'[e].answer[d] = kept'[d]
      BY DEF RowFollows
    <2>1. /\ d \notin unanswered /\ ~overtaken
          /\ ~Ok(d) \/ row.at >= Since(d) => row.settings[d] = kept[d]
          /\ \A e \in DOMAIN cardSaves :
                 Ok(e) /\ cardSaves[e].at >= Since(d) => cardSaves[e].answer[d] = kept[d]
      BY <1>1, <1>2, <1>15 DEF RowFollows
    <2>2. \A e \in DOMAIN cardSaves \ {c} : Ok(e) => cardSaves[e].at \in 0..seq
      BY <1>11 DEF Ok, Settings!SavingIs
    <2>3. CASE d = c /\ answered
      <3>1. Since(d)' = seq + 1 /\ Ok(d)'
        BY <1>2, <1>5, <1>8, <2>3 DEF Since, r
      <3>2. ~(row'.at >= Since(d)')
        BY <1>2, <1>10, <3>1
      <3>3. ASSUME NEW e \in DOMAIN cardSaves', Ok(e)', cardSaves'[e].at >= Since(d)'
            PROVE  cardSaves'[e].answer[d] = kept'[d]
        <4>1. CASE e = c
          BY <1>5, <2>3, <4>1 DEF r
        <4>2. CASE e # c
          <5>1. e \in DOMAIN cardSaves \ {c} /\ Ok(e) /\ cardSaves'[e] = cardSaves[e]
            BY <1>4, <1>8, <3>3, <4>2
          <5>2. cardSaves[e].at \in 0..seq
            BY <2>2, <5>1
          <5> QED
            BY <1>10, <3>1, <3>3, <5>1, <5>2
        <4> QED
          BY <4>1, <4>2
      <3> QED
        BY <3>1, <3>2, <3>3
    <2>4. CASE d = c /\ ~answered
      <3>1. kept' = kept /\ ~Ok(d) /\ ~Ok(d)' /\ Since(d)' = Since(d)
        BY <1>2, <1>8, <2>4 DEF Since
      <3> QED
        BY <1>2, <1>4, <1>8, <2>1, <2>4, <3>1
    <2>5. CASE d # c
      <3>1. /\ kept'[d] = kept[d] /\ (Ok(d)' <=> Ok(d)) /\ Since(d)' = Since(d)
        BY <1>2, <1>4, <1>7, <1>8, <2>5 DEF Since, Ok, Settings!SavingIs, Settings!saving
      <3>2. ASSUME NEW e \in DOMAIN cardSaves', Ok(e)', cardSaves'[e].at >= Since(d)'
            PROVE  cardSaves'[e].answer[d] = kept'[d]
        <4>1. CASE e = c
          BY <1>5, <1>8, <3>2, <4>1 DEF r
        <4>2. CASE e # c
          BY <1>4, <1>8, <2>1, <3>1, <3>2, <4>2
        <4> QED
          BY <4>1, <4>2
      <3> QED
        BY <1>2, <2>1, <3>1, <3>2
    <2> QED
      BY <2>3, <2>4, <2>5
  <1>16. ASSUME NEW d \in Settings!SecretCards PROVE SecretFollows(d)'
    <2>1. SecretFollows(d)
      BY DEF SettingsInv, Follows
    <2>2. CASE d = c
      <3>1. SecretSays(c) /\ b.secret = Settings!SecretToSend(c, cardForm[c])
        BY <1>1, <1>8, <2>1, <2>2 DEF SecretFollows, q
      <3>2. ASSUME answered
            PROVE  /\ kept'[c].secret = IF b.secret = "absent" THEN kept[c].secret
                                        ELSE IF b.secret = "s" THEN "s" ELSE "none"
                   /\ r.was = kept[c].secret
        BY <1>1, <1>2, <1>5, <1>6, <2>2, <3>2, StoredIs
      <3>3. wish[c] \in {"keep", "remove", "unclear", "s"}
        BY <2>2 DEF SettingsInv, CardTypes, CardHistory
      <3>4. ASSUME answered, wish[c] # "unclear"
            PROVE  kept'[c].secret = CASE wish[c] = "keep" -> r.was
                                       [] wish[c] = "remove" -> "none"
                                       [] OTHER -> wish[c]
        <4>1. CASE wish[c] = "keep"
          BY <3>1, <3>2, <3>4, <4>1 DEF SecretSays
        <4>2. CASE wish[c] = "remove"
          BY <3>1, <3>2, <3>4, <4>2 DEF SecretSays, Settings!SecretToSend
        <4>3. CASE wish[c] = "s"
          BY <3>1, <3>2, <3>4, <4>3 DEF SecretSays, Settings!SecretToSend
        <4> QED
          BY <3>3, <3>4, <4>1, <4>2, <4>3
      <3> QED
        BY <1>2, <1>8, <2>2, <3>1, <3>4 DEF SecretFollows, SecretSays, r
    <2>3. CASE d # c
      <3>1. /\ Sent(d) \/ Ok(d) => cardSaves'[d] = cardSaves[d]
            /\ kept'[d] = kept[d]
        BY <1>4, <1>7, <2>3, CardNames DEF Sent, Ok, Settings!SavingIs, Settings!saving
      <3> QED
        BY <1>2, <1>8, <2>1, <2>3, <3>1 DEF SecretFollows, SecretSays
    <2> QED
      BY <2>2, <2>3
  <1> QED
    BY <1>9, <1>12, <1>13, <1>14, <1>15, <1>16, CardNames DEF SettingsInv, CardTypes, Follows

\* A save that failed leaves all as it was; the row of an answer replaces the
\* page's.
LEMMA AnswerCardKeeps ==
    ASSUME SettingsInv, NEW c \in Settings!Cards, Settings!AnswerCard(c)
    PROVE  SettingsInv'
  <1> USE DEF Settings!theData
  <1> DEFINE q == cardSaves[c]
             a == q.answer
  <1>1. /\ c \in DOMAIN cardSaves /\ q.st \in {"ok", "err"} /\ settingsPage = "ready"
        /\ kept \in KeptRow /\ c \in DOMAIN cardForm
        /\ cardSaves = [d \in DOMAIN cardSaves |-> cardSaves[d]]
    BY DEF Settings!AnswerCard, Settings!SavingIs, Settings!saving, SettingsInv, CardTypes, CardStage,
           CardSaves, CardKept
  <1>2. UNCHANGED <<settingsPage, loadAsk, errorsAsk, testing, kept, seq, cardEdits, cardRequests,
                    setFaults, unanswered>>
    BY DEF Settings!AnswerCard
  <1>3. cardSaves' = [x \in DOMAIN cardSaves \ {c} |-> cardSaves[x]]
    BY DEF Settings!AnswerCard, Settings!SavingOver
  <1>4. /\ DOMAIN cardSaves' = DOMAIN cardSaves \ {c}
        /\ \A d \in DOMAIN cardSaves' : cardSaves'[d] = cardSaves[d]
        /\ cardSaves' = [d \in DOMAIN cardSaves' |-> cardSaves'[d]]
    BY <1>3
  <1>5. /\ \A d : d # c => (Sent(d)' <=> Sent(d)) /\ (Ok(d)' <=> Ok(d))
        /\ ~Sent(c) /\ ~Ok(c)' /\ ~Sent(c)' /\ (Ok(c) <=> q.st = "ok")
    BY <1>1, <1>4 DEF Sent, Ok, Settings!SavingIs, Settings!saving
  <1>6. /\ q.st = "err" => UNCHANGED <<cardForm, row, savedSite, storedErrors, wish, overtaken>>
        /\ q.st = "ok" =>
             /\ row' = IF c = "errors" THEN row
                       ELSE [settings |-> Settings!Public(a), at |-> q.at]
             /\ overtaken' = (overtaken \/ (c # "errors" /\ q.at < row.at))
             /\ savedSite' = IF c = "site" THEN Settings!stateFromSettings(Settings!Public(a))
                             ELSE savedSite
             /\ storedErrors' = IF c = "errors" THEN a.errors ELSE storedErrors
             /\ cardForm' = [cardForm EXCEPT ![c] = Settings!FormAfter(c, a)]
             /\ wish' = IF c \in Settings!SecretCards THEN [wish EXCEPT ![c] = "keep"] ELSE wish
    BY <1>1 DEF Settings!AnswerCard
  <1>7. q.st = "ok" => q.at \in 0..seq /\ a \in KeptRow /\ a[c] = kept[c]
    BY <1>1 DEF CardSaves, SettingsInv, CardTypes
  <1>8. q.st = "ok" => Settings!FormAfter(c, a) \in FormOf(c)
    <2> SUFFICES ASSUME q.st = "ok" PROVE Settings!FormAfter(c, a) \in FormOf(c)
      OBVIOUS
    <2>1. CASE c \in {"ban", "maintenance"}
      BY <1>1, <2>1 DEF Settings!FormAfter, CardForms, SettingsInv, CardTypes
    <2>2. CASE c = "errors"
      BY <1>7, <2>2 DEF Settings!FormAfter, KeptRow, ErrorsKept, FormOf
    <2>3. CASE c \in {"site", "llm", "smtp"}
      <3>1. Settings!FormAfter(c, a) = Settings!CardSeed(c, Settings!Public(a))
        BY <2>3 DEF Settings!FormAfter
      <3> QED
        BY <1>7, <2>3, <3>1, SeedIs DEF FormOf
    <2> QED
      BY <2>1, <2>2, <2>3, CardNames
  <1> HIDE DEF q, a
  <1>9. /\ DOMAIN cardForm' = DOMAIN cardForm
        /\ \A d \in DOMAIN cardForm \ {c} : cardForm'[d] = cardForm[d]
        /\ cardForm' = [d \in DOMAIN cardForm' |-> cardForm'[d]]
        /\ q.st = "ok" => cardForm'[c] = Settings!FormAfter(c, a)
    BY <1>1, <1>6 DEF CardForms, SettingsInv, CardTypes
  <1>10. CardForms'
    BY <1>1, <1>6, <1>8, <1>9 DEF CardForms, SettingsInv, CardTypes
  <1>11. CardStage' /\ CardKept' /\ CardHistory'
    <2>1. CardStage'
      BY <1>1, <1>2, <1>9 DEF CardStage, SettingsInv, CardTypes
    <2>2. wish' \in [Settings!SecretCards -> {"keep", "remove", "unclear", "s"}] /\ overtaken' \in BOOLEAN
      BY <1>1, <1>6 DEF CardHistory, SettingsInv, CardTypes
    <2> QED
      BY <1>1, <1>2, <2>1, <2>2 DEF CardKept, CardHistory, SettingsInv, CardTypes
  <1>12. CardSaves'
    BY <1>2, <1>4, <1>9 DEF CardSaves, SettingsInv, CardTypes
  <1>13. CardCounts'
    <2>1. Unserved' = Unserved
      BY <1>5 DEF Unserved
    <2>2. row'.at \in 0..seq
      BY <1>1, <1>6, <1>7 DEF CardCounts, SettingsInv, CardTypes
    <2> QED
      BY <1>2, <2>1, <2>2 DEF CardCounts, SettingsInv, CardTypes
  <1>14. SiteFollows'
    <2>1. CASE c = "site" /\ q.st = "ok"
      <3>1. savedSite' = Settings!CardSeed("site", Settings!Public(a))
        BY <1>6, <2>1 DEF Settings!CardSeed
      <3>2. savedSite' = [a.site EXCEPT !.url = OrBlank(@)]
        BY <1>7, <2>1, <3>1, SeedIs
      <3> QED
        BY <1>2, <1>7, <2>1, <3>2 DEF SiteFollows
    <2>2. CASE ~(c = "site" /\ q.st = "ok")
      BY <1>1, <1>2, <1>5, <1>6, <2>2 DEF SiteFollows, SettingsInv, Follows
    <2> QED
      BY <2>1, <2>2
  <1>15. ErrorsFollow'
    <2>1. CASE c = "errors" /\ q.st = "ok"
      BY <1>2, <1>6, <1>7, <2>1 DEF ErrorsFollow
    <2>2. CASE ~(c = "errors" /\ q.st = "ok")
      BY <1>1, <1>2, <1>5, <1>6, <1>9, <2>2 DEF ErrorsFollow, SettingsInv, Follows
    <2> QED
      BY <2>1, <2>2
  <1>16. ASSUME NEW d \in {"ban", "maintenance"}, RowFollows(d) PROVE RowFollows(d)'
    <2> SUFFICES ASSUME d \notin unanswered', ~overtaken'
                 PROVE  /\ ~Ok(d)' \/ row'.at >= Since(d)' => row'.settings[d] = kept'[d]
                        /\ \A e \in DOMAIN cardSaves' :
                              Ok(e)' /\ cardSaves'[e].at >= Since(d)' => cardSaves'[e].answer[d] = kept'[d]
      BY DEF RowFollows
    <2>1. /\ d \notin unanswered /\ ~overtaken
          /\ ~Ok(d) \/ row.at >= Since(d) => row.settings[d] = kept[d]
          /\ \A e \in DOMAIN cardSaves :
                 Ok(e) /\ cardSaves[e].at >= Since(d) => cardSaves[e].answer[d] = kept[d]
      <3>1. ~overtaken
        BY <1>1, <1>6 DEF CardHistory, SettingsInv, CardTypes
      <3> QED
        BY <1>1, <1>2, <1>16, <3>1 DEF RowFollows
    <2>2. /\ row.at \in Nat /\ \A e \in DOMAIN cardSaves : Ok(e) => cardSaves[e].at \in Nat
      BY DEF Ok, Settings!SavingIs, CardCounts, CardSaves, SettingsInv, CardTypes
    <2>3. CASE q.st = "err" \/ c = "errors"
      <3>1. (row' = row /\ d # c) \/ (q.st = "err" /\ row' = row)
        BY <1>1, <1>6, <2>3
      <3>2. (Ok(d)' <=> Ok(d)) /\ Since(d)' = Since(d)
        BY <1>4, <1>5, <3>1 DEF Since, Ok, Settings!SavingIs, Settings!saving
      <3> QED
        BY <1>2, <1>4, <1>5, <2>1, <3>1, <3>2
    <2>4. CASE q.st = "ok" /\ c # "errors"
      <3>1. /\ row'.at = q.at /\ row'.settings[d] = a[d] /\ q.at >= row.at /\ q.at \in Nat
        <4>1. row' = [settings |-> Settings!Public(a), at |-> q.at] /\ ~(q.at < row.at)
          BY <1>6, <2>4
        <4>2. Settings!Public(a)[d] = a[d]
          BY <1>7, <2>4, PublicIs
        <4> QED
          BY <1>7, <2>2, <2>4, <4>1, <4>2 DEF CardCounts, SettingsInv, CardTypes
      <3>2. CASE d = c
        <4>1. Since(d)' = q.at /\ Since(d) = q.at
          BY <1>5, <2>4, <3>1, <3>2 DEF Since, q
        <4>2. ASSUME NEW e \in DOMAIN cardSaves', Ok(e)', cardSaves'[e].at >= Since(d)'
              PROVE  cardSaves'[e].answer[d] = kept'[d]
          BY <1>2, <1>4, <1>5, <2>1, <4>1, <4>2
        <4> QED
          BY <1>2, <1>7, <2>4, <3>1, <3>2, <4>2
      <3>3. CASE d # c /\ Ok(d)
        <4>1. Since(d)' = Since(d) /\ Ok(d)'
          BY <1>4, <1>5, <3>3 DEF Since, Ok, Settings!SavingIs, Settings!saving
        <4>2. ASSUME NEW e \in DOMAIN cardSaves', Ok(e)', cardSaves'[e].at >= Since(d)'
              PROVE  cardSaves'[e].answer[d] = kept'[d]
          BY <1>2, <1>4, <1>5, <2>1, <4>1, <4>2
        <4>3. q.at >= Since(d) => a[d] = kept[d]
          BY <1>1, <1>5, <2>1, <2>4 DEF q, a
        <4> QED
          BY <1>2, <3>1, <4>1, <4>2, <4>3
      <3>4. CASE d # c /\ ~Ok(d)
        <4>1. Since(d)' = q.at /\ Since(d) = row.at /\ ~Ok(d)'
          BY <1>5, <3>1, <3>4 DEF Since
        <4>2. a[d] = kept[d]
          BY <1>1, <1>5, <2>1, <2>4, <3>1, <4>1 DEF q, a
        <4>3. ASSUME NEW e \in DOMAIN cardSaves', Ok(e)', cardSaves'[e].at >= Since(d)'
              PROVE  cardSaves'[e].answer[d] = kept'[d]
          <5>1. e \in DOMAIN cardSaves /\ Ok(e) /\ cardSaves'[e] = cardSaves[e]
            BY <1>4, <1>5, <4>3
          <5>2. cardSaves[e].at >= Since(d)
            BY <2>2, <3>1, <4>1, <4>3, <5>1
          <5> QED
            BY <1>2, <2>1, <5>1, <5>2
        <4> QED
          BY <1>2, <3>1, <4>1, <4>2, <4>3
      <3> QED
        BY <3>2, <3>3, <3>4
    <2> QED
      BY <1>1, <2>3, <2>4
  <1>17. ASSUME NEW d \in Settings!SecretCards PROVE SecretFollows(d)'
    <2>1. SecretFollows(d)
      BY DEF SettingsInv, Follows
    <2>2. CASE d = c /\ q.st = "ok"
      <3>1. cardForm'[c] = Settings!CardSeed(c, Settings!Public(a))
        BY <1>9, <2>2, CardNames DEF Settings!FormAfter
      <3>2. cardForm'[c].secret = "" /\ cardForm'[c].cleared = FALSE
        BY <1>7, <2>2, <3>1, SeedIs, CardNames
      <3>3. wish'[c] = "keep"
        BY <1>6, <2>2 DEF CardHistory, SettingsInv, CardTypes
      <3> QED
        BY <1>5, <2>2, <3>2, <3>3 DEF SecretFollows, SecretSays, Settings!SecretToSend
    <2>3. CASE d = c /\ q.st = "err"
      BY <1>2, <1>5, <1>6, <2>1, <2>3 DEF SecretFollows, SecretSays
    <2>4. CASE d # c
      <3>1. /\ Sent(d) \/ Ok(d) => cardSaves'[d] = cardSaves[d]
            /\ cardForm'[d] = cardForm[d] /\ wish'[d] = wish[d]
        <4>1. d \in DOMAIN cardForm
          BY <1>1, CardNames DEF CardStage, SettingsInv, CardTypes
        <4>2. cardForm'[d] = cardForm[d]
          BY <1>9, <2>4, <4>1
        <4>3. wish'[d] = wish[d]
          BY <1>1, <1>6, <2>4 DEF CardHistory, SettingsInv, CardTypes
        <4> QED
          BY <1>4, <2>4, <4>2, <4>3 DEF Sent, Ok, Settings!SavingIs, Settings!saving
      <3> QED
        BY <1>2, <1>5, <2>1, <2>4, <3>1 DEF SecretFollows, SecretSays
    <2> QED
      BY <1>1, <2>2, <2>3, <2>4
  <1> QED
    BY <1>10, <1>11, <1>12, <1>13, <1>14, <1>15, <1>16, <1>17, CardNames DEF SettingsInv, CardTypes, Follows

-----------------------------------------------------------------------------
(* What the invariant of the settings page gives.                          *)

\* Every step of the page preserves it.
LEMMA SettingsStep ==
    ASSUME SettingsInv, Settings!SettingsNext
    PROVE  SettingsInv'
  <1>1. CASE \E ok \in BOOLEAN : Settings!ServeLoad(ok) \/ Settings!ServeErrors(ok)
    BY <1>1, LoadsKeep
  <1>2. CASE Settings!AnswerLoad
    BY <1>2, AnswerLoadKeeps
  <1>3. CASE Settings!AnswerErrors
    BY <1>3, AnswerErrorsKeeps
  <1>4. CASE Settings!RetryLoad
    BY <1>4, LoadsKeep
  <1>5. CASE \E c \in Settings!RowCards : \E f \in DOMAIN Settings!Controls[c] :
                 \E v \in Settings!Controls[c][f] : Settings!EditCard(c, f, v)
    BY <1>5, EditCardKeeps
  <1>6. CASE \E e \in Settings!Codes :
                 \/ \E v \in {"default", "custom_page"} : Settings!EditErrorPage(e, "mode", v)
                 \/ Settings!EditErrorPage(e, "page", "p")
    BY <1>6, EditErrorPageKeeps
  <1>7. CASE \E c \in Settings!SecretCards :
                 Settings!RemoveSecret(c) \/ Settings!TestCard(c) \/ Settings!AnswerTest(c)
    BY <1>7, RemoveSecretKeeps, LoadsKeep
  <1>8. CASE \E c \in Settings!Cards :
                 \/ Settings!SaveCard(c) \/ Settings!AnswerCard(c)
                 \/ \E stored_, answered \in BOOLEAN : Settings!ServeCard(c, stored_, answered)
    BY <1>8, SaveCardKeeps, AnswerCardKeeps, ServeCardKeeps
  <1> QED
    BY <1>1, <1>2, <1>3, <1>4, <1>5, <1>6, <1>7, <1>8 DEF Settings!SettingsNext

\* A card with nothing to save holds what the API stores.
LEMMA CleanWhenInv == SettingsInv => CleanCardIsStored
  <1> SUFFICES ASSUME SettingsInv, NEW c \in Settings!Cards \ Settings!SecretCards,
                      Settings!HasForm(c), ~Settings!saving(c), ~Settings!dirty(c),
                      c \notin unanswered, c \in {"ban", "maintenance"} => ~overtaken
               PROVE  Settings!CardPayload(c) = kept[c]
    BY DEF CleanCardIsStored, Settings!CleanCardIsStored
  <1>1. settingsPage = "ready" /\ kept \in KeptRow /\ ~Ok(c) /\ c \in DOMAIN cardForm
    BY DEF Settings!HasForm, Ok, Settings!SavingIs, SettingsInv, CardTypes, CardKept
  <1> USE DEF Settings!CardPayload, Settings!dirty, Settings!PageOfMode, Coherent, Pages, KeptRow
  <1>2. CASE c = "site"
    <2>1. cardForm.site = [kept.site EXCEPT !.url = OrBlank(@)] /\ kept.site \in SiteKept
      BY <1>1, <1>2 DEF SiteFollows, SettingsInv, Follows
    <2> QED
      BY <1>2, <2>1 DEF SiteKept, Settings!buildDefaultSitePayload, OrBlank
  <1>3. CASE c = "ban"
    <2>1. cardForm.ban = kept.ban /\ kept.ban \in BanKept
      BY <1>1, <1>3 DEF RowFollows, SettingsInv, Follows, Settings!differsFromRow
    <2> QED
      BY <1>3, <2>1 DEF BanKept, BanForm
  <1>4. CASE c = "maintenance"
    <2>1. cardForm.maintenance = kept.maintenance /\ kept.maintenance \in MaintenanceKept
      BY <1>1, <1>4 DEF RowFollows, SettingsInv, Follows, Settings!differsFromRow
    <2> QED
      BY <1>4, <2>1 DEF MaintenanceKept, MaintenanceForm
  <1>5. CASE c = "errors"
    <2>1. cardForm.errors = kept.errors /\ kept.errors \in ErrorsKept
      BY <1>1, <1>5 DEF ErrorsFollow, SettingsInv, Follows
    <2>2. \A e \in Settings!Codes : kept.errors[e] \in ErrorForm /\ Coherent(kept.errors[e])
      BY <2>1 DEF ErrorsKept, ErrorForms
    <2>3. \A e \in Settings!Codes :
             [kept.errors[e] EXCEPT !.page = Settings!PageOfMode(kept.errors[e])] = kept.errors[e]
      BY <2>2 DEF ErrorForm
    <2>4. kept.errors = [e \in Settings!Codes |-> kept.errors[e]]
      BY <2>1 DEF ErrorsKept, ErrorForms
    <2> QED
      BY <1>5, <2>1, <2>3, <2>4
  <1> QED
    BY <1>2, <1>3, <1>4, <1>5, CardNames

\* The cards' halves of the other properties.
LEMMA CardsWhenInv ==
    SettingsInv => Settings!SettingsTypeOK /\ Settings!CardsFitApi /\ Settings!SecretAsAsked
  <1> SUFFICES ASSUME SettingsInv
               PROVE  Settings!SettingsTypeOK /\ Settings!CardsFitApi /\ Settings!SecretAsAsked
    OBVIOUS
  <1>1. Settings!SettingsTypeOK
    BY UnservedFinite DEF Settings!SettingsTypeOK, Settings!SavingIs, Settings!saving, SettingsInv, CardTypes,
       CardStage, CardSaves, CardCounts
  <1>2. Settings!CardsFitApi
    BY DEF Settings!CardsFitApi, Settings!SavingIs, Settings!saving, SettingsInv, CardTypes, CardSaves,
           OddAddress
  <1>3. Settings!SecretAsAsked
    <2>1. \A c \in Settings!Cards : Ok(c) => settingsPage = "ready"
      BY DEF Ok, Settings!SavingIs, Settings!saving, SettingsInv, CardTypes, CardStage
    <2> QED
      BY <2>1, CardNames DEF Settings!SecretAsAsked, SettingsInv, Follows, SecretFollows, Ok
  <1> QED
    BY <1>1, <1>2, <1>3

-----------------------------------------------------------------------------
(* The dialogs: the inductive invariant.                                   *)

\* The rows of the tables, and what each field of a form may hold.
LocationForm ==
    [path : {"", "/", "/a", "/b", "/a b"},
     mode : {"pool", "host", "default_site", "custom_page", "error_page"},
     upstream_id : {"", "p"}, forward_host : {"", "h"}, forward_port : Ports,
     forward_scheme : {"http", "https"}, page : {"", "c"}, code : {"", "404"}]
UserForm ==
    [id : Texts \cup {"new"}, username : Texts \cup {"", "u", "v", "u:v"}, password : {"", "typed"}]
ClientForm ==
    [id : Texts \cup {"new"}, address : Texts \cup {"", "10.0.0.1", "junk"},
     directive : {"allow", "deny"}]

ProxyClass ==
    [domain_names |-> {"none", "ok"}, pending |-> {"none", "bad"}, access_list_id |-> {"none", "1"},
     enabled |-> Toggle, mode |-> {"pool", "host"}, upstream_id |-> {"", "p"},
     forward_host |-> {"", "h"}, forward_port |-> Ports, forward_scheme |-> {"http", "https"},
     locations |-> Seq(LocationForm), certificate_id |-> {"none", "active", "pending"},
     options |-> Toggle, tls |-> Toggle, security |-> Toggle, maintenance |-> Toggle,
     maintenance_allow |-> {"empty", "ok", "loose", "bad"}, advanced_config |-> {"", "text"}]
RedirectionClass ==
    [domain_names |-> {"none", "ok"}, pending |-> {"none", "bad"},
     forward_domain_name |-> {"", "d", "a b"}, forward_scheme |-> {"auto", "https"},
     forward_http_code |-> {"302", "301"}, preserve_path |-> Toggle,
     certificate_id |-> {"none", "active", "pending"}, enabled |-> Toggle, options |-> Toggle,
     tls |-> Toggle]
DeadClass ==
    [domain_names |-> {"none", "ok"}, pending |-> {"none", "bad"},
     certificate_id |-> {"none", "active", "pending"}, enabled |-> Toggle, options |-> Toggle,
     tls |-> Toggle]
StreamClass ==
    [mode |-> {"pool", "host"}, upstream_id |-> {"", "p"}, incoming_port |-> Ports,
     forward_host |-> {"", "h"}, forward_port |-> Ports, tcp_forwarding |-> Toggle,
     udp_forwarding |-> Toggle, certificate_id |-> {"none", "active", "pending"},
     enabled |-> Toggle]
ListClass ==
    [name |-> {"", "n"}, satisfy_any |-> Toggle, pass_auth |-> Toggle, users |-> Seq(UserForm),
     clients |-> Seq(ClientForm)]
CertificateClass ==
    [domain_names |-> {"none", "ok"}, pending |-> {"none", "bad"}, name |-> {"", "n"},
     challenge |-> {"http-01", "dns-01"}, dns_credential_id |-> {"", "d"},
     account_email |-> {"", "e"}, custom_name |-> {"", "n"}, cert_pem |-> {"", "c"},
     key_pem |-> {"", "k"}, chain_pem |-> {"", "x"}]
DnsClass ==
    [name |-> {"", " ", "n"}, provider |-> {"", "cf", "aws"}, token |-> {"", " ", "cf", "aws"},
     zone |-> {"", "z"}, region |-> {"", "r"}]
Class(k) ==
    CASE k = "proxy" -> ProxyClass
      [] k = "redirection" -> RedirectionClass
      [] k = "dead" -> DeadClass
      [] k = "stream" -> StreamClass
      [] k = "access_list" -> ListClass
      [] k = "certificate" -> CertificateClass
      [] k = "whitelist" -> WhitelistFields
      [] k = "user" -> UserFields
      [] k = "invite" -> InviteFields
      [] k \in {"reset_password", "change_password", "reset_link"} -> PasswordPair
      [] k = "accept_invite" ->
            [password |-> Passwords, confirm |-> Passwords, full_name |-> FullNames]
      [] k = "forgot_password" -> ForgotFields
      [] k = "dns_credential" -> DnsClass

Typed(k, f) ==
    /\ DOMAIN f = DOMAIN Class(k) /\ f = [x \in DOMAIN f |-> f[x]]
    /\ \A x \in DOMAIN f : f[x] \in Class(k)[x]

DialogTypes ==
    /\ kind \in Kinds /\ stored \in RowsOf(kind) \cup {NoHost} /\ hasOptions \in BOOLEAN
    /\ Typed(kind, form)
    /\ tab \in Tabs(kind) /\ step \in {"editing", "sent", "ok", "err", "closed"}
    /\ problem \in {"none", "api"} \cup DOMAIN form
    /\ touched \subseteq DOMAIN form
    /\ edits \in 0..MaxEdits /\ tries \in 0..MaxTries

\* A field the operator did not touch holds what it was seeded with.
Untouched ==
    isEdit => \A f \in DOMAIN form \ touched : form[f] = Seed(kind, stored)[f]

\* A token was entered for the provider that is shown; none is sent without
\* one, and the provider of a stored credential is fixed.
TokenOfProvider ==
    kind = "dns_credential" =>
        /\ form.token \in {"", " ", form.provider}
        /\ step = "sent" => form.provider # ""
        /\ isEdit => form.provider = stored.provider

\* What is under way is what the form holds, and the API still holds the
\* secrets the dialog was opened on, until it stores.
Secretive == {"access_list", "dns_credential"}
SentIsPayload ==
    kind \in Secretive =>
        /\ step = "sent" => sent = Payload
        /\ step \notin {"ok", "closed"} => users = StoredUsers(kind, stored)

DialogInv ==
    /\ DialogTypes /\ Untouched /\ TokenOfProvider /\ SentIsPayload
    /\ AcceptedByApi /\ OnlyEditsAreSent /\ EditsAreSent /\ PasswordsAsEntered
-----------------------------------------------------------------------------
(* Controls, tables and seeds.                                             *)

LEMMA KindNames ==
    /\ HostKinds = {"proxy", "redirection", "dead", "stream", "access_list", "certificate",
                    "whitelist"}
    /\ AccountKinds = {"user", "invite", "reset_password", "change_password", "reset_link",
                       "accept_invite", "forgot_password", "dns_credential"}
    /\ Kinds = HostKinds \cup AccountKinds
  BY DEF HostKinds, AccountKinds, Kinds

\* What a panel offers is in the class of its field.
Offers(panel, class) == \A f \in DOMAIN panel : f \in DOMAIN class /\ panel[f] \subseteq class[f]

LEMMA PanelsOffer ==
    ASSUME NEW k \in Kinds, NEW t \in DOMAIN Panels(k)
    PROVE  Offers(Panels(k)[t], Class(k))
  <1>1. CASE k = "proxy"
    <2>1. Offers(ProxyIdentity, ProxyClass)
      <3> DEFINE p == ProxyIdentity
      <3>1. /\ DOMAIN p = {"domain_names", "pending", "access_list_id", "enabled"}
            /\ {"domain_names", "pending", "access_list_id", "enabled"} \subseteq DOMAIN ProxyClass
        BY DEF ProxyIdentity, Merge, DomainTags, ProxyClass
      <3>2. /\ p.domain_names \subseteq ProxyClass.domain_names
            /\ p.pending \subseteq ProxyClass.pending
            /\ p.access_list_id \subseteq ProxyClass.access_list_id
            /\ p.enabled \subseteq ProxyClass.enabled
        BY DEF ProxyIdentity, Merge, DomainTags, ProxyClass
      <3> HIDE DEF p
      <3>3. Offers(p, ProxyClass)
        BY <3>1, <3>2 DEF Offers
      <3> QED
        BY <3>3 DEF p
    <2>2. Offers(Merge(ProxyOptions, RootTarget), ProxyClass)
      <3> DEFINE p == Merge(ProxyOptions, RootTarget)
      <3>1. /\ DOMAIN p = {"options", "mode", "upstream_id", "forward_host", "forward_port", "forward_scheme"}
            /\ {"options", "mode", "upstream_id", "forward_host", "forward_port", "forward_scheme"} \subseteq DOMAIN ProxyClass
        BY DEF ProxyOptions, RootTarget, Merge, ProxyClass
      <3>2. /\ p.options \subseteq ProxyClass.options
            /\ p.mode \subseteq ProxyClass.mode
            /\ p.upstream_id \subseteq ProxyClass.upstream_id
            /\ p.forward_host \subseteq ProxyClass.forward_host
            /\ p.forward_port \subseteq ProxyClass.forward_port
            /\ p.forward_scheme \subseteq ProxyClass.forward_scheme
        BY DEF ProxyOptions, RootTarget, Merge, ProxyClass
      <3> HIDE DEF p
      <3>3. Offers(p, ProxyClass)
        BY <3>1, <3>2 DEF Offers
      <3> QED
        BY <3>3 DEF p
    <2>3. Offers(ProxyCertificate, ProxyClass)
      <3> DEFINE p == ProxyCertificate
      <3>1. /\ DOMAIN p = {"certificate_id", "tls"}
            /\ {"certificate_id", "tls"} \subseteq DOMAIN ProxyClass
        BY DEF ProxyCertificate, ProxyClass
      <3>2. /\ p.certificate_id \subseteq ProxyClass.certificate_id
            /\ p.tls \subseteq ProxyClass.tls
        BY DEF ProxyCertificate, ProxyClass
      <3> HIDE DEF p
      <3>3. Offers(p, ProxyClass)
        BY <3>1, <3>2 DEF Offers
      <3> QED
        BY <3>3 DEF p
    <2>4. Offers(ProxyAdvanced, ProxyClass)
      <3> DEFINE p == ProxyAdvanced
      <3>1. /\ DOMAIN p = {"security", "maintenance", "maintenance_allow", "advanced_config"}
            /\ {"security", "maintenance", "maintenance_allow", "advanced_config"} \subseteq DOMAIN ProxyClass
        BY DEF ProxyAdvanced, ProxyClass
      <3>2. /\ p.security \subseteq ProxyClass.security
            /\ p.maintenance \subseteq ProxyClass.maintenance
            /\ p.maintenance_allow \subseteq ProxyClass.maintenance_allow
            /\ p.advanced_config \subseteq ProxyClass.advanced_config
        BY DEF ProxyAdvanced, ProxyClass
      <3> HIDE DEF p
      <3>3. Offers(p, ProxyClass)
        BY <3>1, <3>2 DEF Offers
      <3> QED
        BY <3>3 DEF p
    <2> QED
      BY <1>1, <2>1, <2>2, <2>3, <2>4 DEF Panels, Class
  <1>2. CASE k = "redirection"
    <2>1. Offers(RedirectionDetails, RedirectionClass)
      <3> DEFINE p == RedirectionDetails
      <3>1. /\ DOMAIN p = {"domain_names", "pending", "forward_domain_name", "forward_scheme", "forward_http_code", "preserve_path", "enabled", "options"}
            /\ {"domain_names", "pending", "forward_domain_name", "forward_scheme", "forward_http_code", "preserve_path", "enabled", "options"} \subseteq DOMAIN RedirectionClass
        BY DEF RedirectionDetails, Merge, DomainTags, RedirectionClass
      <3>2. /\ p.domain_names \subseteq RedirectionClass.domain_names
            /\ p.pending \subseteq RedirectionClass.pending
            /\ p.forward_domain_name \subseteq RedirectionClass.forward_domain_name
            /\ p.forward_scheme \subseteq RedirectionClass.forward_scheme
            /\ p.forward_http_code \subseteq RedirectionClass.forward_http_code
            /\ p.preserve_path \subseteq RedirectionClass.preserve_path
            /\ p.enabled \subseteq RedirectionClass.enabled
            /\ p.options \subseteq RedirectionClass.options
        BY DEF RedirectionDetails, Merge, DomainTags, RedirectionClass
      <3> HIDE DEF p
      <3>3. Offers(p, RedirectionClass)
        BY <3>1, <3>2 DEF Offers
      <3> QED
        BY <3>3 DEF p
    <2>2. Offers(RedirectionSsl, RedirectionClass)
      <3> DEFINE p == RedirectionSsl
      <3>1. /\ DOMAIN p = {"certificate_id", "tls"}
            /\ {"certificate_id", "tls"} \subseteq DOMAIN RedirectionClass
        BY DEF RedirectionSsl, CertificateSelect, Merge, RedirectionClass
      <3>2. /\ p.certificate_id \subseteq RedirectionClass.certificate_id
            /\ p.tls \subseteq RedirectionClass.tls
        BY DEF RedirectionSsl, CertificateSelect, Merge, RedirectionClass
      <3> HIDE DEF p
      <3>3. Offers(p, RedirectionClass)
        BY <3>1, <3>2 DEF Offers
      <3> QED
        BY <3>3 DEF p
    <2> QED
      BY <1>2, <2>1, <2>2 DEF Panels, Class
  <1>3. CASE k = "dead"
    <2>1. Offers(DeadDetails, DeadClass)
      <3> DEFINE p == DeadDetails
      <3>1. /\ DOMAIN p = {"domain_names", "pending", "enabled", "options"}
            /\ {"domain_names", "pending", "enabled", "options"} \subseteq DOMAIN DeadClass
        BY DEF DeadDetails, Merge, DomainTags, DeadClass
      <3>2. /\ p.domain_names \subseteq DeadClass.domain_names
            /\ p.pending \subseteq DeadClass.pending
            /\ p.enabled \subseteq DeadClass.enabled
            /\ p.options \subseteq DeadClass.options
        BY DEF DeadDetails, Merge, DomainTags, DeadClass
      <3> HIDE DEF p
      <3>3. Offers(p, DeadClass)
        BY <3>1, <3>2 DEF Offers
      <3> QED
        BY <3>3 DEF p
    <2>2. Offers(DeadSsl, DeadClass)
      <3> DEFINE p == DeadSsl
      <3>1. /\ DOMAIN p = {"certificate_id", "tls"}
            /\ {"certificate_id", "tls"} \subseteq DOMAIN DeadClass
        BY DEF DeadSsl, CertificateSelect, Merge, DeadClass
      <3>2. /\ p.certificate_id \subseteq DeadClass.certificate_id
            /\ p.tls \subseteq DeadClass.tls
        BY DEF DeadSsl, CertificateSelect, Merge, DeadClass
      <3> HIDE DEF p
      <3>3. Offers(p, DeadClass)
        BY <3>1, <3>2 DEF Offers
      <3> QED
        BY <3>3 DEF p
    <2> QED
      BY <1>3, <2>1, <2>2 DEF Panels, Class
  <1>4. CASE k = "stream"
    <2>1. Offers(StreamDetails, StreamClass)
      <3> DEFINE p == StreamDetails
      <3>1. /\ DOMAIN p = {"incoming_port", "mode", "upstream_id", "forward_host", "forward_port", "tcp_forwarding", "udp_forwarding", "enabled"}
            /\ {"incoming_port", "mode", "upstream_id", "forward_host", "forward_port", "tcp_forwarding", "udp_forwarding", "enabled"} \subseteq DOMAIN StreamClass
        BY DEF StreamDetails, StreamClass
      <3>2. /\ p.incoming_port \subseteq StreamClass.incoming_port
            /\ p.mode \subseteq StreamClass.mode
            /\ p.upstream_id \subseteq StreamClass.upstream_id
            /\ p.forward_host \subseteq StreamClass.forward_host
            /\ p.forward_port \subseteq StreamClass.forward_port
            /\ p.tcp_forwarding \subseteq StreamClass.tcp_forwarding
            /\ p.udp_forwarding \subseteq StreamClass.udp_forwarding
            /\ p.enabled \subseteq StreamClass.enabled
        BY DEF StreamDetails, StreamClass
      <3> HIDE DEF p
      <3>3. Offers(p, StreamClass)
        BY <3>1, <3>2 DEF Offers
      <3> QED
        BY <3>3 DEF p
    <2>2. Offers(StreamSsl, StreamClass)
      <3> DEFINE p == StreamSsl
      <3>1. /\ DOMAIN p = {"certificate_id"}
            /\ {"certificate_id"} \subseteq DOMAIN StreamClass
        BY DEF StreamSsl, CertificateSelect, StreamClass
      <3>2. /\ p.certificate_id \subseteq StreamClass.certificate_id
        BY DEF StreamSsl, CertificateSelect, StreamClass
      <3> HIDE DEF p
      <3>3. Offers(p, StreamClass)
        BY <3>1, <3>2 DEF Offers
      <3> QED
        BY <3>3 DEF p
    <2> QED
      BY <1>4, <2>1, <2>2 DEF Panels, Class
  <1>5. CASE k = "access_list"
    <2>1. Offers(ListDetails, ListClass)
      <3> DEFINE p == ListDetails
      <3>1. /\ DOMAIN p = {"name", "satisfy_any", "pass_auth"}
            /\ {"name", "satisfy_any", "pass_auth"} \subseteq DOMAIN ListClass
        BY DEF ListDetails, ListClass
      <3>2. /\ p.name \subseteq ListClass.name
            /\ p.satisfy_any \subseteq ListClass.satisfy_any
            /\ p.pass_auth \subseteq ListClass.pass_auth
        BY DEF ListDetails, ListClass
      <3> HIDE DEF p
      <3>3. Offers(p, ListClass)
        BY <3>1, <3>2 DEF Offers
      <3> QED
        BY <3>3 DEF p
    <2>2. Offers(<<>>, ListClass)
      BY DEF Offers
    <2> QED
      BY <1>5, <2>1, <2>2 DEF Panels, Class
  <1>6. CASE k = "certificate"
    <2>1. Offers(LetsEncryptFields, CertificateClass)
      <3> DEFINE p == LetsEncryptFields
      <3>1. /\ DOMAIN p = {"domain_names", "pending", "name", "challenge", "dns_credential_id", "account_email"}
            /\ {"domain_names", "pending", "name", "challenge", "dns_credential_id", "account_email"} \subseteq DOMAIN CertificateClass
        BY DEF LetsEncryptFields, Merge, DomainTags, CertificateClass
      <3>2. /\ p.domain_names \subseteq CertificateClass.domain_names
            /\ p.pending \subseteq CertificateClass.pending
            /\ p.name \subseteq CertificateClass.name
            /\ p.challenge \subseteq CertificateClass.challenge
            /\ p.dns_credential_id \subseteq CertificateClass.dns_credential_id
            /\ p.account_email \subseteq CertificateClass.account_email
        BY DEF LetsEncryptFields, Merge, DomainTags, CertificateClass
      <3> HIDE DEF p
      <3>3. Offers(p, CertificateClass)
        BY <3>1, <3>2 DEF Offers
      <3> QED
        BY <3>3 DEF p
    <2>2. Offers(CustomFields, CertificateClass)
      <3> DEFINE p == CustomFields
      <3>1. /\ DOMAIN p = {"custom_name", "cert_pem", "key_pem", "chain_pem"}
            /\ {"custom_name", "cert_pem", "key_pem", "chain_pem"} \subseteq DOMAIN CertificateClass
        BY DEF CustomFields, CertificateClass
      <3>2. /\ p.custom_name \subseteq CertificateClass.custom_name
            /\ p.cert_pem \subseteq CertificateClass.cert_pem
            /\ p.key_pem \subseteq CertificateClass.key_pem
            /\ p.chain_pem \subseteq CertificateClass.chain_pem
        BY DEF CustomFields, CertificateClass
      <3> HIDE DEF p
      <3>3. Offers(p, CertificateClass)
        BY <3>1, <3>2 DEF Offers
      <3> QED
        BY <3>3 DEF p
    <2> QED
      BY <1>6, <2>1, <2>2 DEF Panels, Class
  <1>7. CASE k = "whitelist"
    BY <1>7 DEF Panels, Class, Offers
  <1>8. CASE k \in AccountKinds
    <2>1. t = "always" /\ Panels(k)[t] = AccountFields(k)
      BY <1>8, KindNames DEF Panels
    <2>2. CASE k = "dns_credential"
      <3>1. Offers(DnsFields, DnsClass)
        <4>1. /\ DOMAIN DnsFields = {"name", "provider", "token", "zone", "region"}
              /\ DOMAIN DnsClass = {"name", "provider", "token", "zone", "region"}
          BY DEF DnsFields, DnsClass
        <4>2. DOMAIN Catalog = {"cf", "aws"}
          BY DEF Catalog
        <4>3. /\ DnsFields.name \subseteq DnsClass.name /\ DnsFields.provider \subseteq DnsClass.provider
              /\ DnsFields.token \subseteq DnsClass.token /\ DnsFields.zone \subseteq DnsClass.zone
              /\ DnsFields.region \subseteq DnsClass.region
          BY <4>2 DEF DnsFields, DnsClass
        <4> QED
          BY <4>1, <4>3 DEF Offers
      <3> QED
        BY <2>1, <2>2, <3>1 DEF AccountFields, Class
    <2>3. CASE k = "accept_invite"
      BY <2>1, <2>3 DEF AccountFields, AcceptFields, PasswordPair, Merge, Offers, Class
    <2>4. CASE k \notin {"dns_credential", "accept_invite"}
      BY <1>8, <2>1, <2>4, KindNames DEF AccountFields, Offers, Class
    <2> QED
      BY <2>2, <2>3, <2>4
  <1> QED
    BY <1>1, <1>2, <1>3, <1>4, <1>5, <1>6, <1>7, <1>8, KindNames

\* The rows of a table.
RowForm(f) ==
    CASE f = "locations" -> LocationForm [] f = "users" -> UserForm [] f = "clients" -> ClientForm

LEMMA TablesAre ==
    ASSUME NEW k \in Kinds, NEW f \in DOMAIN RowPanels(k)
    PROVE  /\ f \in {"locations", "users", "clients"}
           /\ f \in DOMAIN Class(k) /\ Class(k)[f] = Seq(RowForm(f))
           /\ (k = "proxy" /\ f = "locations") \/ (k = "access_list" /\ f \in {"users", "clients"})
  <1>1. CASE k = "proxy"
    <2>1. f = "locations"
      BY <1>1 DEF RowPanels
    <2>2. "locations" \in DOMAIN ProxyClass /\ ProxyClass.locations = Seq(LocationForm)
      BY DEF ProxyClass
    <2> QED
      BY <1>1, <2>1, <2>2 DEF Class, RowForm
  <1>2. CASE k = "access_list"
    <2>1. f \in {"users", "clients"}
      BY <1>2 DEF RowPanels
    <2>2. /\ {"users", "clients"} \subseteq DOMAIN ListClass
          /\ ListClass.users = Seq(UserForm) /\ ListClass.clients = Seq(ClientForm)
      BY DEF ListClass
    <2> QED
      BY <1>2, <2>1, <2>2 DEF Class, RowForm
  <1>3. CASE k \notin {"proxy", "access_list"}
    BY <1>3 DEF RowPanels
  <1> QED
    BY <1>1, <1>2, <1>3

LEMMA CellsFit ==
    ASSUME NEW f \in {"locations", "users", "clients"}, NEW r \in RowForm(f),
           NEW c \in DOMAIN Cells[f], NEW v \in Cells[f][c]
    PROVE  [r EXCEPT ![c] = v] \in RowForm(f)
  <1> USE DEF Cells, RowForm
  <1>1. CASE f = "locations"
    <2>1. c \in {"path", "mode", "upstream_id", "forward_host", "forward_port", "forward_scheme",
               "page", "code"}
      BY <1>1 DEF LocationCells
    <2>2. v \in LocationCells[c] /\ r \in LocationForm
      BY <1>1
    <2> USE DEF LocationCells, LocationForm
    <2>3. CASE c = "path"
      BY <1>1, <2>2, <2>3
    <2>4. CASE c = "mode"
      BY <1>1, <2>2, <2>4
    <2>5. CASE c = "upstream_id"
      BY <1>1, <2>2, <2>5
    <2>6. CASE c = "forward_host"
      BY <1>1, <2>2, <2>6
    <2>7. CASE c = "forward_port"
      BY <1>1, <2>2, <2>7
    <2>8. CASE c = "page"
      BY <1>1, <2>2, <2>8
    <2>9. CASE c = "code"
      BY <1>1, <2>2, <2>9
    <2>10. CASE c = "forward_scheme"
      BY <1>1, <2>2, <2>10
    <2> QED
      BY <2>1, <2>3, <2>4, <2>5, <2>6, <2>7, <2>8, <2>9, <2>10
  <1>2. CASE f = "users"
    <2>1. c = "username" \/ c = "password"
      BY <1>2 DEF UserCells
    <2>2. CASE c = "username"
      BY <1>2, <2>2 DEF UserCells, UserForm
    <2>3. CASE c = "password"
      BY <1>2, <2>3 DEF UserCells, UserForm
    <2> QED
      BY <2>1, <2>2, <2>3
  <1>3. CASE f = "clients"
    <2>1. c = "address" \/ c = "directive"
      BY <1>3 DEF ClientCells
    <2>2. CASE c = "address"
      BY <1>3, <2>2 DEF ClientCells, ClientForm
    <2>3. CASE c = "directive"
      BY <1>3, <2>3 DEF ClientCells, ClientForm
    <2> QED
      BY <2>1, <2>2, <2>3
  <1> QED
    BY <1>1, <1>2, <1>3

LEMMA BlankFits ==
    ASSUME NEW f \in {"locations", "users", "clients"}
    PROVE  BlankRow[f] \in RowForm(f)
  <1>1. newLocationRow \in LocationForm
    BY DEF newLocationRow, LocationForm, Ports
  <1>2. blankUserRow \in UserForm
    BY DEF blankUserRow, UserForm
  <1>3. blankClientRow \in ClientForm
    BY DEF blankClientRow, ClientForm
  <1> QED
    BY <1>1, <1>2, <1>3 DEF BlankRow, RowForm

-----------------------------------------------------------------------------
(* The seeds.                                                              *)

\* A sequence mapped row by row.
LEMMA MappedSeq ==
    ASSUME NEW S, NEW T, NEW s \in Seq(S), NEW t, DOMAIN t = DOMAIN s, t = [i \in DOMAIN t |-> t[i]],
           \A i \in DOMAIN s : t[i] \in T
    PROVE  t \in Seq(T) /\ Len(t) = Len(s)
  OBVIOUS

\* The fields of the forms.
LEMMA ClassFields ==
    /\ DOMAIN ProxyClass =
          {"domain_names", "pending", "access_list_id", "enabled", "mode", "upstream_id",
          "forward_host", "forward_port", "forward_scheme", "locations", "certificate_id",
          "options", "tls", "security", "maintenance", "maintenance_allow", "advanced_config"}
    /\ DOMAIN RedirectionClass =
          {"domain_names", "pending", "forward_domain_name", "forward_scheme",
          "forward_http_code", "preserve_path", "certificate_id", "enabled", "options", "tls"}
    /\ DOMAIN DeadClass =
          {"domain_names", "pending", "certificate_id", "enabled", "options", "tls"}
    /\ DOMAIN StreamClass =
          {"mode", "upstream_id", "incoming_port", "forward_host", "forward_port",
          "tcp_forwarding", "udp_forwarding", "certificate_id", "enabled"}
    /\ DOMAIN ListClass =
          {"name", "satisfy_any", "pass_auth", "users", "clients"}
    /\ DOMAIN CertificateClass =
          {"domain_names", "pending", "name", "challenge", "dns_credential_id",
          "account_email", "custom_name", "cert_pem", "key_pem", "chain_pem"}
    /\ DOMAIN WhitelistFields =
          {"wkind", "name", "ips", "cidrs", "filter", "expressions"}
    /\ DOMAIN UserFields =
          {"email", "full_name", "password", "role", "is_active"}
    /\ DOMAIN DnsClass =
          {"name", "provider", "token", "zone", "region"}
  BY DEF ProxyClass, RedirectionClass, DeadClass, StreamClass, ListClass, CertificateClass, WhitelistFields, UserFields, DnsClass

\* A stored row has an id.
LEMMA RowIsStored ==
    ASSUME NEW k \in Kinds, NEW h \in RowsOf(k)
    PROVE  h.id # "none" /\ h # NoHost /\ h.id \in Texts
  <1>1. h.id \in Texts
    BY KindNames DEF RowsOf, ProxyRows, RedirectionRows, DeadRows, StreamRows, ListRows, WhitelistRows,
       UserRows, CredentialRows
  <1> QED
    BY <1>1, DialogConstants DEF NoHost

\* What a proxy host fills in.
LEMMA ProxySeedIs ==
    ASSUME NEW h \in ProxyRows
    PROVE  LET s == ProxySeed(h) IN
           /\ DOMAIN s = DOMAIN ProxyClass /\ s = [x \in DOMAIN s |-> s[x]]
           /\ s.pending = "none" /\ s.mode = IF h.upstream_id # "null" THEN "pool" ELSE "host"
           /\ s.upstream_id = OrBlank(h.upstream_id) /\ s.forward_host = OrBlank(h.forward_host)
           /\ s.forward_port = OrBlank(h.forward_port)
           /\ s.certificate_id = valueFromCertificateId(h.certificate_id)
           /\ s.access_list_id = valueFromCertificateId(h.access_list_id)
           /\ s.locations = [i \in DOMAIN h.locations |-> LocationSeed(h.locations[i])]
           /\ s.domain_names = h.domain_names /\ s.forward_scheme = h.forward_scheme
           /\ s.enabled = h.enabled /\ s.options = h.options /\ s.tls = h.tls
           /\ s.security = h.security /\ s.maintenance = h.maintenance
           /\ s.maintenance_allow = h.maintenance_allow /\ s.advanced_config = h.advanced_config
  <1> DEFINE s == ProxySeed(h)
  <1>1. h # NoHost
    BY RowIsStored, KindNames DEF RowsOf
  <1>2. DOMAIN ProxyNew = DOMAIN ProxyClass
    BY DEF ProxyNew, ProxyClass
  <1>3. s = [f \in DOMAIN ProxyClass |->
           CASE f = "pending" -> "none"
             [] f = "mode" -> IF h.upstream_id # "null" THEN "pool" ELSE "host"
             [] f \in {"upstream_id", "forward_host", "forward_port"} -> OrBlank(h[f])
             [] f \in {"certificate_id", "access_list_id"} -> valueFromCertificateId(h[f])
             [] f = "locations" -> [i \in DOMAIN h.locations |-> LocationSeed(h.locations[i])]
             [] OTHER -> h[f]]
    BY <1>1, <1>2 DEF ProxySeed
  <1> HIDE DEF s
  <1> USE ClassFields
  <1>4. DOMAIN s = DOMAIN ProxyClass /\ s = [x \in DOMAIN s |-> s[x]]
    BY <1>3
  <1>5. /\ s.pending = "none" /\ s.mode = IF h.upstream_id # "null" THEN "pool" ELSE "host"
        /\ s.upstream_id = OrBlank(h.upstream_id) /\ s.forward_host = OrBlank(h.forward_host)
        /\ s.forward_port = OrBlank(h.forward_port)
    BY <1>3
  <1>6. /\ s.certificate_id = valueFromCertificateId(h.certificate_id)
        /\ s.access_list_id = valueFromCertificateId(h.access_list_id)
        /\ s.locations = [i \in DOMAIN h.locations |-> LocationSeed(h.locations[i])]
    BY <1>3
  <1>7. /\ s.domain_names = h.domain_names /\ s.forward_scheme = h.forward_scheme
        /\ s.enabled = h.enabled /\ s.options = h.options /\ s.tls = h.tls
    BY <1>3
  <1>8. /\ s.security = h.security /\ s.maintenance = h.maintenance
        /\ s.maintenance_allow = h.maintenance_allow /\ s.advanced_config = h.advanced_config
    BY <1>3
  <1> QED
    BY <1>4, <1>5, <1>6, <1>7, <1>8 DEF s

LEMMA LocationSeedFits == \A l \in LocationRows : LocationSeed(l) \in LocationForm
  <1> SUFFICES ASSUME NEW l \in LocationRows PROVE LocationSeed(l) \in LocationForm
    OBVIOUS
  <1>1. /\ l.path \in {"/a", "/b"} /\ l.target \in LocationCells.mode /\ l.upstream_id \in {"null", "p"}
        /\ l.forward_host \in {"null", "h"} /\ l.forward_port \in {"null", "80"}
        /\ l.page \in {"null", "c"} /\ l.code \in {"null", "404"}
        /\ l.forward_scheme \in {"http", "https"}
    BY DEF LocationRows
  <1>2. LocationCells.mode = {"pool", "host", "default_site", "custom_page", "error_page"}
    BY DEF LocationCells
  <1> QED
    BY <1>1, <1>2 DEF LocationSeed, LocationForm, OrBlank, Ports

LEMMA ProxySeedTyped ==
    ASSUME NEW h \in ProxyRows \cup {NoHost}, hasOptions \in BOOLEAN
    PROVE  Typed("proxy", ProxySeed(h))
  <1> DEFINE s == ProxySeed(h)
  <1> USE DEF OrBlank, valueFromCertificateId, CertificateIds, OneTargetStored, Ports, Toggle
  <1>1. Class("proxy") = ProxyClass
    BY DEF Class
  <1>2. DOMAIN s = DOMAIN ProxyClass /\ s = [x \in DOMAIN s |-> s[x]]
    <2>1. CASE h = NoHost
      <3>1. s = ProxyNew
        BY <2>1 DEF ProxySeed
      <3> QED
        BY <3>1 DEF ProxyNew, ProxyClass
    <2>2. CASE h # NoHost
      BY <2>2, ProxySeedIs
    <2> QED
      BY <2>1, <2>2
  <1>3. ASSUME h = NoHost
        PROVE  /\ s.domain_names \in ProxyClass.domain_names /\ s.pending \in ProxyClass.pending
               /\ s.access_list_id \in ProxyClass.access_list_id
               /\ s.enabled \in ProxyClass.enabled /\ s.mode \in ProxyClass.mode
               /\ s.upstream_id \in ProxyClass.upstream_id
               /\ s.forward_host \in ProxyClass.forward_host
               /\ s.forward_port \in ProxyClass.forward_port
               /\ s.forward_scheme \in ProxyClass.forward_scheme
               /\ s.certificate_id \in ProxyClass.certificate_id
               /\ s.options \in ProxyClass.options /\ s.tls \in ProxyClass.tls
               /\ s.security \in ProxyClass.security /\ s.maintenance \in ProxyClass.maintenance
               /\ s.maintenance_allow \in ProxyClass.maintenance_allow
               /\ s.advanced_config \in ProxyClass.advanced_config
    BY <1>3 DEF ProxySeed, ProxyNew, ProxyClass
  <1>4. ASSUME h # NoHost
        PROVE  /\ s.domain_names \in ProxyClass.domain_names /\ s.pending \in ProxyClass.pending
               /\ s.access_list_id \in ProxyClass.access_list_id
               /\ s.enabled \in ProxyClass.enabled /\ s.mode \in ProxyClass.mode
               /\ s.upstream_id \in ProxyClass.upstream_id
               /\ s.forward_host \in ProxyClass.forward_host
               /\ s.forward_port \in ProxyClass.forward_port
               /\ s.forward_scheme \in ProxyClass.forward_scheme
               /\ s.certificate_id \in ProxyClass.certificate_id
               /\ s.options \in ProxyClass.options /\ s.tls \in ProxyClass.tls
               /\ s.security \in ProxyClass.security /\ s.maintenance \in ProxyClass.maintenance
               /\ s.maintenance_allow \in ProxyClass.maintenance_allow
               /\ s.advanced_config \in ProxyClass.advanced_config
    <2>1. h \in ProxyRows
      BY <1>4
    <2>2. /\ h.domain_names = "ok" /\ h.upstream_id \in {"null", "p"} /\ h.forward_host \in {"null", "h"}
          /\ h.forward_port \in {"null", "80"} /\ h.forward_scheme \in {"http", "https"}
          /\ h.certificate_id \in CertificateIds /\ h.access_list_id \in {"null", "1"}
          /\ h.enabled \in Toggle /\ h.options \in Toggle /\ h.tls \in Toggle /\ h.security \in Toggle
          /\ h.maintenance \in Toggle /\ h.maintenance_allow \in {"empty", "ok"}
          /\ h.advanced_config \in {"", "text"}
      BY <2>1 DEF ProxyRows
    <2>3. /\ s.domain_names = h.domain_names /\ s.pending = "none" /\ s.forward_scheme = h.forward_scheme
          /\ s.mode \in {"pool", "host"} /\ s.upstream_id = OrBlank(h.upstream_id)
          /\ s.forward_host = OrBlank(h.forward_host) /\ s.forward_port = OrBlank(h.forward_port)
          /\ s.certificate_id = valueFromCertificateId(h.certificate_id)
          /\ s.access_list_id = valueFromCertificateId(h.access_list_id)
          /\ s.enabled = h.enabled /\ s.options = h.options /\ s.tls = h.tls
          /\ s.security = h.security /\ s.maintenance = h.maintenance
          /\ s.maintenance_allow = h.maintenance_allow /\ s.advanced_config = h.advanced_config
      BY <2>1, ProxySeedIs
    <2> HIDE DEF s
    <2>4. /\ s.domain_names \in ProxyClass.domain_names /\ s.pending \in ProxyClass.pending
          /\ s.mode \in ProxyClass.mode /\ s.forward_scheme \in ProxyClass.forward_scheme
          /\ s.enabled \in ProxyClass.enabled /\ s.options \in ProxyClass.options
          /\ s.tls \in ProxyClass.tls
      <3>1. /\ s.domain_names = "ok" /\ s.pending = "none" /\ s.mode \in {"pool", "host"}
            /\ s.forward_scheme \in {"http", "https"}
        BY <2>2, <2>3, Zenon
      <3>2. s.enabled \in Toggle /\ s.options \in Toggle /\ s.tls \in Toggle
        BY <2>2, <2>3, Zenon
      <3>3. /\ s.domain_names \in ProxyClass.domain_names /\ s.pending \in ProxyClass.pending
            /\ s.mode \in ProxyClass.mode /\ s.forward_scheme \in ProxyClass.forward_scheme
        BY <3>1, SMTT(60) DEF ProxyClass
      <3>4. /\ s.enabled \in ProxyClass.enabled /\ s.options \in ProxyClass.options
            /\ s.tls \in ProxyClass.tls
        BY <3>2, SMTT(60) DEF ProxyClass
      <3> QED
        BY <3>3, <3>4, Zenon
    <2>7. s.upstream_id \in {"", "p"} /\ s.forward_host \in {"", "h"} /\ s.forward_port \in {"", "80"}
      <3>1. s.upstream_id \in {"", "p"}
        BY <2>2, <2>3
      <3>2. s.forward_host \in {"", "h"}
        BY <2>2, <2>3
      <3>3. s.forward_port \in {"", "80"}
        BY <2>2, <2>3
      <3> QED
        BY <3>1, <3>2, <3>3, Zenon
    <2>8. s.certificate_id \in {"none", "active", "pending"} /\ s.access_list_id \in {"none", "1"}
      <3>1. /\ h.certificate_id \in CertificateIds /\ s.certificate_id = valueFromCertificateId(h.certificate_id)
            /\ h.access_list_id \in {"null", "1"} /\ s.access_list_id = valueFromCertificateId(h.access_list_id)
        BY ONLY <2>2, <2>3, Zenon
      <3>2. s.certificate_id \in {"none", "active", "pending"}
        BY ONLY <3>1 DEF CertificateIds, valueFromCertificateId
      <3>3. s.access_list_id \in {"none", "1"}
        BY ONLY <3>1 DEF valueFromCertificateId
      <3> QED
        BY <3>2, <3>3, Zenon
    <2>9. /\ s.security \in Toggle /\ s.maintenance \in Toggle /\ s.maintenance_allow \in {"empty", "ok"}
          /\ s.advanced_config \in {"", "text"}
      BY <2>2, <2>3
    <2>5. /\ s.upstream_id \in ProxyClass.upstream_id /\ s.forward_host \in ProxyClass.forward_host
          /\ s.forward_port \in ProxyClass.forward_port
          /\ s.certificate_id \in ProxyClass.certificate_id
          /\ s.access_list_id \in ProxyClass.access_list_id
      BY <2>7, <2>8, <2>9 DEF ProxyClass
    <2>6. /\ s.security \in ProxyClass.security /\ s.maintenance \in ProxyClass.maintenance
          /\ s.maintenance_allow \in ProxyClass.maintenance_allow
          /\ s.advanced_config \in ProxyClass.advanced_config
      BY <2>7, <2>8, <2>9 DEF ProxyClass
    <2> QED
      BY <2>4, <2>5, <2>6
  <1>5. s.locations \in Seq(LocationForm)
    <2>1. CASE h = NoHost
      BY <2>1 DEF ProxySeed, ProxyNew
    <2>2. CASE h # NoHost
      <3>1. h.locations \in Seq(LocationRows)
        BY <2>2 DEF ProxyRows
      <3>2. s.locations = [i \in DOMAIN h.locations |-> LocationSeed(h.locations[i])]
        BY <2>2, ProxySeedIs
      <3> QED
        BY <3>1, <3>2, LocationSeedFits
    <2> QED
      BY <2>1, <2>2
  <1>6. ProxyClass.locations = Seq(LocationForm)
    BY DEF ProxyClass
  <1> HIDE DEF s
  <1>7. Typed("proxy", s)
    BY <1>1, <1>2, <1>3, <1>4, <1>5, <1>6, ClassFields DEF Typed
  <1> QED
    BY <1>7 DEF s

LEMMA RedirectionSeedTyped ==
    ASSUME NEW h \in RedirectionRows \cup {NoHost}
    PROVE  Typed("redirection", RedirectionSeed(h))
  <1> DEFINE s == RedirectionSeed(h)
  <1> USE DEF valueFromCertificateId, CertificateIds, Toggle
  <1>1. Class("redirection") = RedirectionClass
    BY DEF Class
  <1>2. /\ DOMAIN s =
            {"domain_names", "pending", "forward_domain_name", "forward_scheme",
            "forward_http_code", "preserve_path", "certificate_id", "enabled", "options",
            "tls"}
        /\ s = [x \in DOMAIN s |-> s[x]]
    BY DEF RedirectionSeed, RedirectionNew
  <1>3. ASSUME h = NoHost
        PROVE  /\ s.domain_names \in RedirectionClass.domain_names
               /\ s.pending \in RedirectionClass.pending
               /\ s.forward_domain_name \in RedirectionClass.forward_domain_name
               /\ s.forward_scheme \in RedirectionClass.forward_scheme
               /\ s.forward_http_code \in RedirectionClass.forward_http_code
               /\ s.preserve_path \in RedirectionClass.preserve_path
               /\ s.certificate_id \in RedirectionClass.certificate_id
               /\ s.enabled \in RedirectionClass.enabled /\ s.options \in RedirectionClass.options
               /\ s.tls \in RedirectionClass.tls
    BY <1>3 DEF RedirectionSeed, RedirectionNew, RedirectionClass
  <1>4. ASSUME h # NoHost
        PROVE  /\ s.domain_names \in RedirectionClass.domain_names
               /\ s.pending \in RedirectionClass.pending
               /\ s.forward_domain_name \in RedirectionClass.forward_domain_name
               /\ s.forward_scheme \in RedirectionClass.forward_scheme
               /\ s.forward_http_code \in RedirectionClass.forward_http_code
               /\ s.preserve_path \in RedirectionClass.preserve_path
               /\ s.certificate_id \in RedirectionClass.certificate_id
               /\ s.enabled \in RedirectionClass.enabled /\ s.options \in RedirectionClass.options
               /\ s.tls \in RedirectionClass.tls
    <2>1. h \in RedirectionRows
      BY <1>4
    <2> QED
      BY <1>4, <2>1 DEF RedirectionSeed, RedirectionNew, RedirectionClass, RedirectionRows
  <1> HIDE DEF s
  <1>7. Typed("redirection", s)
    BY <1>1, <1>2, <1>3, <1>4, ClassFields DEF Typed
  <1> QED
    BY <1>7 DEF s

LEMMA DeadSeedTyped ==
    ASSUME NEW h \in DeadRows \cup {NoHost}
    PROVE  Typed("dead", DeadSeed(h))
  <1> DEFINE s == DeadSeed(h)
  <1> USE DEF valueFromCertificateId, CertificateIds, Toggle
  <1>1. Class("dead") = DeadClass
    BY DEF Class
  <1>2. /\ DOMAIN s =
            {"domain_names", "pending", "certificate_id", "enabled", "options", "tls"}
        /\ s = [x \in DOMAIN s |-> s[x]]
    BY DEF DeadSeed, DeadNew
  <1>3. ASSUME h = NoHost
        PROVE  /\ s.domain_names \in DeadClass.domain_names /\ s.pending \in DeadClass.pending
               /\ s.certificate_id \in DeadClass.certificate_id /\ s.enabled \in DeadClass.enabled
               /\ s.options \in DeadClass.options /\ s.tls \in DeadClass.tls
    BY <1>3 DEF DeadSeed, DeadNew, DeadClass
  <1>4. ASSUME h # NoHost
        PROVE  /\ s.domain_names \in DeadClass.domain_names /\ s.pending \in DeadClass.pending
               /\ s.certificate_id \in DeadClass.certificate_id /\ s.enabled \in DeadClass.enabled
               /\ s.options \in DeadClass.options /\ s.tls \in DeadClass.tls
    <2>1. h \in DeadRows
      BY <1>4
    <2> QED
      BY <1>4, <2>1 DEF DeadSeed, DeadNew, DeadClass, DeadRows
  <1> HIDE DEF s
  <1>7. Typed("dead", s)
    BY <1>1, <1>2, <1>3, <1>4, ClassFields DEF Typed
  <1> QED
    BY <1>7 DEF s

LEMMA StreamSeedTyped ==
    ASSUME NEW h \in StreamRows \cup {NoHost}
    PROVE  Typed("stream", StreamSeed(h))
  <1> DEFINE s == StreamSeed(h)
  <1> USE DEF OrBlank, valueFromCertificateId, CertificateIds, OneTargetStored, Ports, Toggle
  <1>1. Class("stream") = StreamClass
    BY DEF Class
  <1>2. /\ DOMAIN s =
            {"mode", "upstream_id", "incoming_port", "forward_host", "forward_port",
            "tcp_forwarding", "udp_forwarding", "certificate_id", "enabled"}
        /\ s = [x \in DOMAIN s |-> s[x]]
    BY DEF StreamSeed, StreamNew
  <1>3. ASSUME h = NoHost
        PROVE  /\ s.mode \in StreamClass.mode /\ s.upstream_id \in StreamClass.upstream_id
               /\ s.incoming_port \in StreamClass.incoming_port
               /\ s.forward_host \in StreamClass.forward_host
               /\ s.forward_port \in StreamClass.forward_port
               /\ s.tcp_forwarding \in StreamClass.tcp_forwarding
               /\ s.udp_forwarding \in StreamClass.udp_forwarding
               /\ s.certificate_id \in StreamClass.certificate_id
               /\ s.enabled \in StreamClass.enabled
    BY <1>3 DEF StreamSeed, StreamNew, StreamClass
  <1>4. ASSUME h # NoHost
        PROVE  /\ s.mode \in StreamClass.mode /\ s.upstream_id \in StreamClass.upstream_id
               /\ s.incoming_port \in StreamClass.incoming_port
               /\ s.forward_host \in StreamClass.forward_host
               /\ s.forward_port \in StreamClass.forward_port
               /\ s.tcp_forwarding \in StreamClass.tcp_forwarding
               /\ s.udp_forwarding \in StreamClass.udp_forwarding
               /\ s.certificate_id \in StreamClass.certificate_id
               /\ s.enabled \in StreamClass.enabled
    <2>1. h \in StreamRows
      BY <1>4
    <2> QED
      BY <1>4, <2>1 DEF StreamSeed, StreamNew, StreamClass, StreamRows
  <1> HIDE DEF s
  <1>7. Typed("stream", s)
    BY <1>1, <1>2, <1>3, <1>4, ClassFields DEF Typed
  <1> QED
    BY <1>7 DEF s

LEMMA WhitelistSeedTyped ==
    ASSUME NEW h \in WhitelistRows \cup {NoHost}
    PROVE  Typed("whitelist", WhitelistSeed(h))
  <1> DEFINE s == WhitelistSeed(h)
  <1> USE DEF OrBlank, Toggle
  <1>1. Class("whitelist") = WhitelistFields
    BY DEF Class
  <1>2. /\ DOMAIN s =
            {"wkind", "name", "ips", "cidrs", "filter", "expressions"}
        /\ s = [x \in DOMAIN s |-> s[x]]
    BY DEF WhitelistSeed, WhitelistNew
  <1>3. ASSUME h = NoHost
        PROVE  /\ s.wkind \in WhitelistFields.wkind /\ s.name \in WhitelistFields.name
               /\ s.ips \in WhitelistFields.ips /\ s.cidrs \in WhitelistFields.cidrs
               /\ s.filter \in WhitelistFields.filter
               /\ s.expressions \in WhitelistFields.expressions
    BY <1>3 DEF WhitelistSeed, WhitelistNew, WhitelistFields
  <1>4. ASSUME h # NoHost
        PROVE  /\ s.wkind \in WhitelistFields.wkind /\ s.name \in WhitelistFields.name
               /\ s.ips \in WhitelistFields.ips /\ s.cidrs \in WhitelistFields.cidrs
               /\ s.filter \in WhitelistFields.filter
               /\ s.expressions \in WhitelistFields.expressions
    <2>1. h \in WhitelistRows
      BY <1>4
    <2> QED
      BY <1>4, <2>1 DEF WhitelistSeed, WhitelistNew, WhitelistFields, WhitelistRows
  <1> HIDE DEF s
  <1>7. Typed("whitelist", s)
    BY <1>1, <1>2, <1>3, <1>4, ClassFields DEF Typed
  <1> QED
    BY <1>7 DEF s

LEMMA UserSeedTyped ==
    ASSUME NEW h \in UserRows \cup {NoHost}
    PROVE  Typed("user", UserSeed(h))
  <1> DEFINE s == UserSeed(h)
  <1> USE DEF Emails, FullNames, Passwords, Toggle
  <1>1. Class("user") = UserFields
    BY DEF Class
  <1>2. /\ DOMAIN s =
            {"email", "full_name", "password", "role", "is_active"}
        /\ s = [x \in DOMAIN s |-> s[x]]
    BY DEF UserSeed, UserFields
  <1>3. ASSUME h = NoHost
        PROVE  /\ s.email \in UserFields.email /\ s.full_name \in UserFields.full_name
               /\ s.password \in UserFields.password /\ s.role \in UserFields.role
               /\ s.is_active \in UserFields.is_active
    BY <1>3 DEF UserSeed, UserFields, UserNew
  <1>4. ASSUME h # NoHost
        PROVE  /\ s.email \in UserFields.email /\ s.full_name \in UserFields.full_name
               /\ s.password \in UserFields.password /\ s.role \in UserFields.role
               /\ s.is_active \in UserFields.is_active
    <2>1. h \in UserRows
      BY <1>4
    <2>2. /\ s.email = h.email /\ s.full_name = h.full_name /\ s.password = "" /\ s.role = h.role
          /\ s.is_active = h.is_active
      BY <1>4 DEF UserSeed, UserFields
    <2> QED
      BY <2>1, <2>2 DEF UserFields, UserRows
  <1> HIDE DEF s
  <1>7. Typed("user", s)
    BY <1>1, <1>2, <1>3, <1>4, ClassFields DEF Typed
  <1> QED
    BY <1>7 DEF s

LEMMA FilledUserFits ==
    \A a, b \in Texts : [id |-> a, username |-> b, password |-> ""] \in UserForm
  BY DEF UserForm

LEMMA ListSeedTyped ==
    ASSUME NEW h \in ListRows \cup {NoHost}
    PROVE  Typed("access_list", ListSeed(h))
  <1> DEFINE s == ListSeed(h)
  <1>1. Class("access_list") = ListClass
    BY DEF Class
  <1>2. DOMAIN s = DOMAIN ListClass /\ s = [x \in DOMAIN s |-> s[x]]
    BY DEF ListSeed, emptyFormState, ListClass
  <1>3. CASE h = NoHost
    <2>1. s.users \in Seq(UserForm) /\ s.clients \in Seq(ClientForm)
      BY <1>3 DEF ListSeed, emptyFormState, UserForm, ClientForm, blankUserRow, blankClientRow
    <2>2. s.name = "" /\ s.satisfy_any = "off" /\ s.pass_auth = "off"
      BY <1>3 DEF ListSeed, emptyFormState
    <2> HIDE DEF s
    <2>4. /\ s.name \in ListClass.name /\ s.satisfy_any \in ListClass.satisfy_any
          /\ s.pass_auth \in ListClass.pass_auth /\ s.users \in ListClass.users
          /\ s.clients \in ListClass.clients
      BY <2>1, <2>2 DEF ListClass, Toggle
    <2>3. Typed("access_list", s)
      BY <1>1, <1>2, <2>4, ClassFields DEF Typed
    <2> QED
      BY <2>3 DEF s
  <1>4. CASE h # NoHost
    <2>1. /\ h.users \in Seq(ListUsers)
          /\ h.clients \in Seq(ListClients)
          /\ h.name = "n" /\ h.satisfy_any \in Toggle /\ h.pass_auth \in Toggle
      BY <1>4 DEF ListRows
    <2>2. /\ s.name = h.name /\ s.satisfy_any = h.satisfy_any /\ s.pass_auth = h.pass_auth
          /\ s.users = [i \in DOMAIN h.users |->
                          [id |-> h.users[i].id, username |-> h.users[i].username, password |-> ""]]
          /\ s.clients = h.clients
      BY <1>4 DEF ListSeed
    <2> HIDE DEF s
    <2>3. s.users \in Seq(UserForm)
      <3>1. \A i \in DOMAIN h.users : h.users[i] \in ListUsers
        BY <2>1
      <3>2. ASSUME NEW i \in DOMAIN h.users PROVE s.users[i] \in UserForm
        <4>1. h.users[i].id \in Texts /\ h.users[i].username \in Texts
          BY <3>1 DEF ListUsers
        <4>2. s.users[i] = [id |-> h.users[i].id, username |-> h.users[i].username, password |-> ""]
          BY <2>2
        <4> QED
          BY <4>1, <4>2, FilledUserFits
      <3>3. DOMAIN s.users = DOMAIN h.users /\ s.users = [i \in DOMAIN s.users |-> s.users[i]]
        <4>1. s.users = [i \in DOMAIN h.users |->
                          [id |-> h.users[i].id, username |-> h.users[i].username, password |-> ""]]
          BY <2>2, Zenon
        <4>2. DOMAIN s.users = DOMAIN h.users
          BY ONLY <4>1
        <4> QED
          BY ONLY <4>1, <4>2
      <3>4. h.users \in Seq(ListUsers)
        BY <2>1
      <3> QED
        BY ONLY <3>2, <3>3, <3>4, MappedSeq, SMTT(60)
    <2>4. s.clients \in Seq(ClientForm)
      <3>1. \A i \in DOMAIN h.clients : h.clients[i] \in ListClients
        BY <2>1
      <3>2. \A i \in DOMAIN h.clients : h.clients[i] \in ClientForm
        BY <3>1 DEF ListClients, ClientForm
      <3>3. h.clients = [i \in DOMAIN h.clients |-> h.clients[i]]
        BY <2>1
      <3>4. h.clients \in Seq(ClientForm)
        BY <2>1, <3>2, <3>3, MappedSeq
      <3> QED
        BY <2>2, <3>4
    <2>6. /\ s.name \in ListClass.name /\ s.satisfy_any \in ListClass.satisfy_any
          /\ s.pass_auth \in ListClass.pass_auth /\ s.users \in ListClass.users
          /\ s.clients \in ListClass.clients
      BY <2>1, <2>2, <2>3, <2>4 DEF ListClass
    <2>5. Typed("access_list", s)
      BY <1>1, <1>2, <2>6, ClassFields DEF Typed
    <2> QED
      BY <2>5 DEF s
  <1> QED
    BY <1>3, <1>4

LEMMA DnsSeedTyped ==
    ASSUME NEW h \in CredentialRows \cup {NoHost}, NEW o \in BOOLEAN
    PROVE  Typed("dns_credential", DnsSeed(h, o)) /\ DnsSeed(h, o).token = ""
  <1> DEFINE s == DnsSeed(h, o)
  <1>1. Class("dns_credential") = DnsClass
    BY DEF Class
  <1>2. DOMAIN s = DOMAIN DnsClass /\ s = [x \in DOMAIN s |-> s[x]]
    <2>1. CASE h = NoHost
      BY <2>1 DEF DnsSeed, Merge, emptyValues, DnsClass
    <2>2. CASE h # NoHost
      BY <2>2 DEF DnsSeed, DnsFields, DnsClass
    <2> QED
      BY <2>1, <2>2
  <1>3. /\ s.name \in {"", "n"} /\ s.provider \in {"", "cf", "aws"} /\ s.token = ""
        /\ s.zone \in {"", "z"} /\ s.region \in {"", "r"}
    <2>1. CASE h = NoHost
      BY <2>1 DEF DnsSeed, Merge, emptyValues
    <2>2. CASE h # NoHost
      <3>1. /\ s.name = OrBlank(h.name) /\ s.provider = OrBlank(h.provider)
            /\ s.token = OrBlank(h.token)
            /\ s.zone = IF "zone" \in DOMAIN h THEN OrBlank(h.zone) ELSE ""
            /\ s.region = IF "region" \in DOMAIN h THEN OrBlank(h.region) ELSE ""
        BY <2>2 DEF DnsSeed, DnsFields, CredentialRows
      <3> HIDE DEF s
      <3> QED
        BY <2>2, <3>1 DEF CredentialRows, OrBlank
    <2> QED
      BY <2>1, <2>2
  <1> HIDE DEF s
  <1>5. /\ s.name \in DnsClass.name /\ s.provider \in DnsClass.provider /\ s.token \in DnsClass.token
        /\ s.zone \in DnsClass.zone /\ s.region \in DnsClass.region
    BY <1>3 DEF DnsClass
  <1>4. Typed("dns_credential", s)
    BY <1>1, <1>2, <1>5, ClassFields DEF Typed
  <1> QED
    BY <1>3, <1>4 DEF s

LEMMA CertificateSeedTyped == Typed("certificate", CertificateNew)
  <1>1. DOMAIN CertificateNew = DOMAIN CertificateClass
    BY DEF CertificateNew, CertificateClass
  <1>2. CertificateNew = [x \in DOMAIN CertificateNew |-> CertificateNew[x]]
    BY DEF CertificateNew
  <1>3. /\ CertificateNew.domain_names \in CertificateClass.domain_names
        /\ CertificateNew.pending \in CertificateClass.pending
        /\ CertificateNew.name \in CertificateClass.name
        /\ CertificateNew.challenge \in CertificateClass.challenge
        /\ CertificateNew.dns_credential_id \in CertificateClass.dns_credential_id
        /\ CertificateNew.account_email \in CertificateClass.account_email
        /\ CertificateNew.custom_name \in CertificateClass.custom_name
        /\ CertificateNew.cert_pem \in CertificateClass.cert_pem
        /\ CertificateNew.key_pem \in CertificateClass.key_pem
        /\ CertificateNew.chain_pem \in CertificateClass.chain_pem
    BY DEF CertificateNew, CertificateClass
  <1> QED
    BY <1>1, <1>2, <1>3, ClassFields DEF Typed, Class

LEMMA SmallSeedsTyped ==
    /\ Typed("invite", InviteNew)
    /\ \A k \in {"reset_password", "change_password", "reset_link"} : Typed(k, NoPasswords)
    /\ Typed("accept_invite", AcceptNew) /\ Typed("forgot_password", [email |-> ""])
  <1>1. Typed("invite", InviteNew)
    <2>1. /\ DOMAIN InviteNew = {"email", "full_name", "role"}
          /\ DOMAIN InviteFields = {"email", "full_name", "role"}
          /\ InviteNew = [x \in DOMAIN InviteNew |-> InviteNew[x]]
      BY DEF InviteNew, InviteFields
    <2>2. /\ InviteNew.email \in InviteFields.email /\ InviteNew.full_name \in InviteFields.full_name
          /\ InviteNew.role \in InviteFields.role
      BY DEF InviteNew, InviteFields, Emails, FullNames
    <2> QED
      BY <2>1, <2>2 DEF Typed, Class
  <1>2. ASSUME NEW k \in {"reset_password", "change_password", "reset_link"}
        PROVE  Typed(k, NoPasswords)
    <2>1. /\ DOMAIN NoPasswords = {"password", "confirm"} /\ DOMAIN PasswordPair = {"password", "confirm"}
          /\ NoPasswords = [x \in DOMAIN NoPasswords |-> NoPasswords[x]]
      BY DEF NoPasswords, PasswordPair
    <2>2. /\ NoPasswords.password \in PasswordPair.password
          /\ NoPasswords.confirm \in PasswordPair.confirm
      BY DEF NoPasswords, PasswordPair, Passwords
    <2>3. Class(k) = PasswordPair
      BY DEF Class
    <2> QED
      BY <2>1, <2>2, <2>3 DEF Typed
  <1>3. Typed("accept_invite", AcceptNew)
    <2> DEFINE C == Class("accept_invite")
    <2>1. /\ DOMAIN AcceptNew = {"password", "confirm", "full_name"}
          /\ DOMAIN C = {"password", "confirm", "full_name"}
          /\ AcceptNew = [x \in DOMAIN AcceptNew |-> AcceptNew[x]]
      BY DEF AcceptNew, NoPasswords, Merge, Class
    <2>2. /\ AcceptNew.password \in C.password /\ AcceptNew.confirm \in C.confirm
          /\ AcceptNew.full_name \in C.full_name
      BY DEF AcceptNew, NoPasswords, Merge, Class, Passwords, FullNames
    <2> HIDE DEF C
    <2> QED
      BY <2>1, <2>2 DEF Typed, C
  <1>4. Typed("forgot_password", [email |-> ""])
    <2>1. Class("forgot_password") = ForgotFields
      BY DEF Class
    <2>2. DOMAIN ForgotFields = {"email"} /\ "" \in ForgotFields.email
      BY DEF ForgotFields, Emails
    <2> DEFINE s == [email |-> ""]
    <2>3. DOMAIN s = {"email"} /\ s = [x \in DOMAIN s |-> s[x]] /\ s.email = ""
      OBVIOUS
    <2> HIDE DEF s
    <2>4. Typed("forgot_password", s)
      BY <2>1, <2>2, <2>3 DEF Typed
    <2> QED
      BY <2>4 DEF s
  <1> QED
    BY <1>1, <1>2, <1>3, <1>4

\* Every form starts out well-typed.
LEMMA SeedTyped ==
    ASSUME NEW k \in Kinds, NEW h \in RowsOf(k) \cup {NoHost}, hasOptions \in BOOLEAN
    PROVE  /\ Typed(k, Seed(k, h))
           /\ k = "dns_credential" => Seed(k, h).token = ""
  <1>1. CASE k \in HostKinds
    BY <1>1, KindNames, ProxySeedTyped, RedirectionSeedTyped, DeadSeedTyped, StreamSeedTyped, ListSeedTyped,
       CertificateSeedTyped, WhitelistSeedTyped DEF Seed, RowsOf
  <1>2. CASE k = "user"
    BY <1>2, UserSeedTyped DEF Seed, AccountSeed, RowsOf
  <1>3. CASE k = "dns_credential"
    BY <1>3, DnsSeedTyped DEF Seed, AccountSeed, RowsOf
  <1>4. CASE k \in AccountKinds \ {"user", "dns_credential"}
    BY <1>4, KindNames, SmallSeedsTyped DEF Seed, AccountSeed
  <1> QED
    BY <1>1, <1>2, <1>3, <1>4, KindNames

-----------------------------------------------------------------------------
(* Edits.                                                                  *)

LEMMA OneProvider ==
    ASSUME NEW k \in Kinds, "provider" \in DOMAIN Class(k)
    PROVE  k = "dns_credential"
  <1>1. CASE k \in HostKinds \cup {"user"}
    BY <1>1, ClassFields, KindNames DEF Class
  <1>2. CASE k \in {"invite", "reset_password", "change_password", "reset_link", "accept_invite",
                    "forgot_password"}
    BY <1>2 DEF Class, InviteFields, PasswordPair, ForgotFields
  <1> QED
    BY <1>1, <1>2, KindNames

LEMMA ProviderSeed == \A h \in CredentialRows : \A o : DnsSeed(h, o).provider = h.provider
  <1> SUFFICES ASSUME NEW h \in CredentialRows, NEW o PROVE DnsSeed(h, o).provider = h.provider
    OBVIOUS
  <1>1. h # NoHost /\ "provider" \in DOMAIN h /\ h.provider \in {"cf", "aws"}
    BY DEF CredentialRows, NoHost
  <1> QED
    BY <1>1 DEF DnsSeed, DnsFields, OrBlank

\* Initially, and with no dialog open.
LEMMA DialogInitially == Init \/ Closed => DialogInv
  <1> SUFFICES ASSUME Init \/ Closed PROVE DialogInv
    OBVIOUS
  <1>1. kind \in Kinds /\ stored \in RowsOf(kind) \cup {NoHost} /\ hasOptions \in BOOLEAN
    BY DialogConstants, KindNames DEF Init, Closed
  <1>2. /\ form = Seed(kind, stored) /\ sent = NoHost /\ touched = {} /\ problem = "none"
        /\ step \in {"editing", "closed"} /\ edits = 0 /\ tries = 0
        /\ step = "editing" => users = StoredUsers(kind, stored)
    BY DEF Init, Closed
  <1>3. Typed(kind, form) /\ (kind = "dns_credential" => form.token = "")
    BY <1>1, <1>2, SeedTyped
  <1>4. tab \in Tabs(kind)
    <2>1. CASE Closed
      BY <2>1 DEF Closed, Tabs, Untabbed, AccountKinds
    <2>2. CASE Init
      <3>1. tab = FirstTab(kind)
        BY <2>2 DEF Init
      <3>2. CASE kind \in Untabbed
        BY <3>1, <3>2, KindNames DEF FirstTab, Tabs, Untabbed
      <3>3. CASE kind \in {"proxy", "redirection", "dead", "stream", "access_list", "certificate"}
        BY <3>1, <3>3 DEF FirstTab, Tabs, Untabbed, AccountKinds, Panels
      <3> QED
        BY <1>1, <3>2, <3>3, KindNames DEF Untabbed
    <2> QED
      BY <2>1, <2>2
  <1>5. DialogTypes
    <2>1. 0 \in 0..MaxEdits /\ 0 \in 0..MaxTries
      BY DialogConstants
    <2>2. edits \in 0..MaxEdits /\ tries \in 0..MaxTries
      BY <1>2, <2>1
    <2>3. /\ problem \in {"none", "api"} \cup DOMAIN form /\ touched \subseteq DOMAIN form
          /\ step \in {"editing", "sent", "ok", "err", "closed"}
      BY <1>2
    <2> QED
      BY <1>1, <1>3, <1>4, <2>2, <2>3 DEF DialogTypes
  <1>6. kind = "dns_credential" /\ isEdit => form.provider = stored.provider
    BY <1>1, <1>2, ProviderSeed DEF isEdit, NoHost, RowsOf, Seed, AccountSeed
  <1> QED
    BY <1>2, <1>3, <1>5, <1>6 DEF DialogInv, Untouched, TokenOfProvider, SentIsPayload, AcceptedByApi,
       OnlyEditsAreSent, EditsAreSent, PasswordsAsEntered

\* The fields of a payload that the API refuses, whatever secrets it holds.
Refused(k, p, h, f) ==
    \/ f = "domain_names" /\ p[f] = "none"
    \/ f = "upstream_id" /\ ~OneTarget(p)
    \/ f = "forward_host" /\ p[f] = ""
    \/ f = "incoming_port" /\ p[f] = "null"
    \/ f = "tcp_forwarding" /\ p[f] = "off" /\ p.udp_forwarding = "off"
    \/ f = "maintenance_allow" /\ p[f] \in {"loose", "bad"}
    \/ f = "forward_domain_name" /\ p[f] # "d"
    \/ f = "locations" /\ \/ \E i \in DOMAIN p[f] : LocationRefused(p[f][i])
                          \/ \E i, j \in DOMAIN p[f] : i # j /\ p[f][i].path = p[f][j].path
    \/ f = "clients" /\ \E i \in DOMAIN p[f] : p[f][i].address \in {"", "junk"}
    \/ f \in {"name", "custom_name", "cert_pem", "key_pem"} /\ p[f] = ""
    \/ f = "dns_credential_id" /\ (p[f] = "null") # (p.challenge = "http-01")
    \/ f = "ips" /\ (p[f] \in {"loose", "bad"} \/ (p.wkind = "expression" /\ p[f] # "")
                       \/ (p.wkind = "ip_cidr" /\ p[f] = "" /\ p.cidrs = ""))
    \/ f = "cidrs" /\ (p[f] \in {"loose", "bad"} \/ (p.wkind = "expression" /\ p[f] # ""))
    \/ f = "filter" /\ p.wkind = "ip_cidr" /\ p[f] # "null"
    \/ f = "expressions" /\ (p.wkind = "expression") # (p[f] # "")
    \/ k \in AccountKinds /\ AccountRefused(f, p, h)

LEMMA RefusedIs ==
    ASSUME NEW k, NEW p, NEW f, f # "users"
    PROVE  /\ f \in ApiRefuses(k, p) <=> f \in DOMAIN p /\ Refused(k, p, stored, f)
           /\ f \in ApiRefuses(k, p)' <=> f \in DOMAIN p /\ Refused(k, p, stored', f)
  <1>1. f \in ApiRefuses(k, p) <=> f \in DOMAIN p /\ Refused(k, p, stored, f)
    BY ZenonT(60) DEF ApiRefuses, Refused
  <1>2. f \in ApiRefuses(k, p)' <=> f \in DOMAIN p /\ Refused(k, p, stored', f)
    BY ZenonT(60) DEF ApiRefuses, Refused
  <1> QED
    BY <1>1, <1>2

\* What a dialog is seeded with depends on what it was opened on alone.
LEMMA SeedStays ==
    ASSUME UNCHANGED <<kind, stored, hasOptions>>
    PROVE  Seed(kind, stored)' = Seed(kind, stored)
  <1>1. ProxyNew' = ProxyNew
    BY DEF ProxyNew
  <1>2. ProxySeed(stored)' = ProxySeed(stored)
    BY <1>1, Zenon DEF ProxySeed
  <1> QED
    BY <1>2, Zenon DEF Seed

\* What was said of the last payload stays true while it is the last.
LEMMA SentKept ==
    ASSUME OnlyEditsAreSent, UNCHANGED <<kind, stored, sent>>, touched \subseteq touched'
    PROVE  OnlyEditsAreSent'
  BY DEF OnlyEditsAreSent, isEdit, AsStored

LEMMA CountUp == \A m \in Nat : \A n \in 0..m : n < m => n + 1 \in 0..m
  OBVIOUS

\* A change of field f.
LEMMA EditedKeeps ==
    ASSUME DialogInv, NEW f \in DOMAIN form, Edited(f), Typed(kind, form'),
           isEdit => \A g \in DOMAIN form \ {f} : form'[g] = form[g],
           kind = "dns_credential" => form'.token \in {"", " ", form'.provider},
           kind = "dns_credential" /\ isEdit => form'.provider = form.provider
    PROVE  DialogInv'
  <1>1. /\ step = "editing" /\ edits < MaxEdits /\ edits' = edits + 1 /\ touched' = touched \cup {f}
        /\ UNCHANGED <<kind, stored, hasOptions, users, tab, problem, step, sent, tries>>
    BY DEF Edited, AtForm, context
  <1>2. DOMAIN form' = DOMAIN form
    BY DEF DialogInv, DialogTypes, Typed
  <1>3. DialogTypes'
    <2>1. edits \in 0..MaxEdits /\ tries \in 0..MaxTries
      BY DEF DialogInv, DialogTypes
    <2>2. edits' \in 0..MaxEdits /\ tries' \in 0..MaxTries
      <3>1. MaxEdits \in Nat
        BY DialogConstants
      <3>2. tries' = tries /\ edits < MaxEdits /\ edits' = edits + 1
        BY <1>1
      <3> QED
        BY <2>1, <3>1, <3>2, CountUp
    <2>3. touched' \subseteq DOMAIN form' /\ problem' \in {"none", "api"} \cup DOMAIN form'
      BY <1>1, <1>2 DEF DialogInv, DialogTypes
    <2> QED
      BY <1>1, <2>2, <2>3 DEF DialogInv, DialogTypes
  <1>4. Untouched'
    BY <1>1, <1>2, SeedStays DEF DialogInv, Untouched, isEdit
  <1>5. TokenOfProvider' /\ SentIsPayload'
    BY <1>1 DEF DialogInv, TokenOfProvider, SentIsPayload, isEdit
  <1>6. OnlyEditsAreSent'
    BY <1>1, SentKept DEF DialogInv
  <1>7. AcceptedByApi' /\ EditsAreSent' /\ PasswordsAsEntered'
    BY <1>1 DEF AcceptedByApi, EditsAreSent, PasswordsAsEntered
  <1> QED
    BY <1>3, <1>4, <1>5, <1>6, <1>7 DEF DialogInv

LEMMA EditControlKeeps ==
    ASSUME DialogInv, NEW t, NEW f, NEW v, EditControl(t, f, v)
    PROVE  DialogInv'
  <1>1. /\ t \in DOMAIN Panels(kind) /\ f \in DOMAIN Panels(kind)[t] /\ v \in Panels(kind)[t][f]
        /\ Usable(f, v) /\ Edited(f)
        /\ form' = IF f = "provider" THEN changeProvider(form, v) ELSE [form EXCEPT ![f] = v]
    BY DEF EditControl
  <1>2. kind \in Kinds /\ Typed(kind, form) /\ stored \in RowsOf(kind) \cup {NoHost}
    BY DEF DialogInv, DialogTypes
  <1>3. f \in DOMAIN form /\ v \in Class(kind)[f]
    BY <1>1, <1>2, PanelsOffer DEF Offers, Typed
  <1>4. CASE f # "provider"
    <2>1. form' = [form EXCEPT ![f] = v]
      BY <1>1, <1>4
    <2>2. /\ DOMAIN form' = DOMAIN form /\ form'[f] = v /\ \A g \in DOMAIN form \ {f} : form'[g] = form[g]
          /\ form' = [x \in DOMAIN form' |-> form'[x]]
      BY <1>2, <1>3, <2>1 DEF Typed
    <2>3. Typed(kind, form')
      BY <1>2, <1>3, <2>2 DEF Typed
    <2>4. kind = "dns_credential" => form'.token \in {"", " ", form'.provider}
      <3> SUFFICES ASSUME kind = "dns_credential" PROVE form'.token \in {"", " ", form'.provider}
        OBVIOUS
      <3>1. form'.provider = form.provider
        BY <1>2, <1>4, <2>2, ClassFields DEF Typed, Class
      <3>2. CASE f = "token"
        BY <1>1, <2>2, <3>1, <3>2 DEF Usable, DnsControl
      <3>3. CASE f # "token"
        <4>1. form'.token = form.token
          BY <1>2, <2>2, <3>3, ClassFields DEF Typed, Class
        <4> QED
          BY <3>1, <4>1 DEF DialogInv, TokenOfProvider
      <3> QED
        BY <3>2, <3>3
    <2>5. kind = "dns_credential" => form'.provider = form.provider
      BY <1>2, <1>4, <2>2, ClassFields DEF Typed, Class
    <2> QED
      BY <1>1, <1>3, <2>2, <2>3, <2>4, <2>5, EditedKeeps
  <1>5. CASE f = "provider"
    <2>1. kind = "dns_credential"
      BY <1>2, <1>3, <1>5, OneProvider DEF Typed
    <2>2. ~isEdit
      <3>1. DnsControl(f, v, form, stored)
        BY <1>1, <2>1 DEF Usable
      <3>2. stored = NoHost
        BY <1>5, <3>1 DEF DnsControl
      <3> QED
        BY <3>2 DEF isEdit, NoHost
    <2>3. form' = [Merge(emptyValues, form) EXCEPT !.provider = v]
      BY <1>1, <1>5 DEF changeProvider
    <2>4. /\ DOMAIN form = {"name", "provider", "token", "zone", "region"} /\ Class(kind) = DnsClass
          /\ form.name \in DnsClass.name
      BY <1>2, <2>1, ClassFields DEF Typed, Class
    <2>5. /\ DOMAIN form' = DOMAIN form /\ form' = [x \in DOMAIN form' |-> form'[x]]
          /\ form'.name = form.name /\ form'.provider = v /\ form'.token = "" /\ form'.zone = ""
          /\ form'.region = ""
      BY <2>3, <2>4 DEF Merge, emptyValues
    <2>6. "" \in DnsClass.token /\ "" \in DnsClass.zone /\ "" \in DnsClass.region /\ v \in DnsClass.provider
      BY <1>3, <1>5, <2>4 DEF DnsClass
    <2>7. \A x \in DOMAIN form' : form'[x] \in DnsClass[x]
      BY <2>4, <2>5, <2>6
    <2>8. Typed(kind, form')
      BY <2>4, <2>5, <2>7, ClassFields, Zenon DEF Typed
    <2> QED
      BY <1>1, <1>3, <2>2, <2>5, <2>8, EditedKeeps
  <1> QED
    BY <1>4, <1>5

\* Rows added, removed and changed.
LEMMA SeqEdits ==
    ASSUME NEW S, NEW s \in Seq(S)
    PROVE  /\ \A r \in S : Append(s, r) \in Seq(S)
           /\ \A r \in S : \A i \in DOMAIN s : [s EXCEPT ![i] = r] \in Seq(S)
           /\ \A i \in DOMAIN s :
                 [j \in 1..(Len(s) - 1) |-> s[IF j < i THEN j ELSE j + 1]] \in Seq(S)
  <1>1. \A r \in S : Append(s, r) \in Seq(S)
    OBVIOUS
  <1>2. \A r \in S : \A i \in DOMAIN s : [s EXCEPT ![i] = r] \in Seq(S)
    OBVIOUS
  <1>3. ASSUME NEW i \in DOMAIN s
        PROVE  [j \in 1..(Len(s) - 1) |-> s[IF j < i THEN j ELSE j + 1]] \in Seq(S)
    <2>1. i \in 1..Len(s) /\ Len(s) \in Nat
      BY <1>3
    <2>2. Len(s) - 1 \in Nat
      BY <2>1
    <2>3. ASSUME NEW j \in 1..(Len(s) - 1)
          PROVE  s[IF j < i THEN j ELSE j + 1] \in S
      <3>1. j \in 1..Len(s) /\ j + 1 \in 1..Len(s)
        BY <2>1, <2>3
      <3>2. s[j] \in S /\ s[j + 1] \in S
        BY <3>1
      <3> QED
        BY <3>2
    <2> DEFINE t == [j \in 1..(Len(s) - 1) |-> s[IF j < i THEN j ELSE j + 1]]
    <2>4. t \in [1..(Len(s) - 1) -> S]
      BY <2>3
    <2> HIDE DEF t
    <2>5. t \in Seq(S)
      BY <2>2, <2>4
    <2> QED
      BY <2>5 DEF t
  <1> QED
    BY <1>1, <1>2, <1>3

\* The tables.
LEMMA TableEditKeeps ==
    ASSUME DialogInv, NEW f \in DOMAIN RowPanels(kind), Edited(f),
           form' = [form EXCEPT ![f] = form'[f]],
           form[f] \in Seq(RowForm(f)) => form'[f] \in Seq(RowForm(f))
    PROVE  DialogInv'
  <1>1. kind \in Kinds /\ Typed(kind, form)
    BY DEF DialogInv, DialogTypes
  <1>2. f \in DOMAIN form /\ Class(kind)[f] = Seq(RowForm(f)) /\ kind # "dns_credential"
    BY <1>1, TablesAre DEF Typed
  <1>3. /\ DOMAIN form' = DOMAIN form /\ \A g \in DOMAIN form \ {f} : form'[g] = form[g]
        /\ form' = [x \in DOMAIN form' |-> form'[x]]
    BY <1>1 DEF Typed
  <1>4. Typed(kind, form')
    BY <1>1, <1>2, <1>3 DEF Typed
  <1> QED
    BY <1>2, <1>3, <1>4, EditedKeeps

LEMMA TableRowsKeep ==
    ASSUME DialogInv, NEW f \in DOMAIN RowPanels(kind),
           \/ AddRow(f)
           \/ \E i \in DOMAIN form[f] :
                 RemoveRow(f, i) \/ \E c \in DOMAIN Cells[f] : \E v \in Cells[f][c] : EditCell(f, i, c, v)
    PROVE  DialogInv'
  <1>1. kind \in Kinds /\ Typed(kind, form)
    BY DEF DialogInv, DialogTypes
  <1>2. /\ f \in DOMAIN form /\ f \in {"locations", "users", "clients"}
        /\ form[f] \in Seq(RowForm(f)) /\ form = [x \in DOMAIN form |-> form[x]]
    BY <1>1, TablesAre DEF Typed
  <1> DEFINE s == form[f]
             S == RowForm(f)
  <1>3. CASE AddRow(f)
    <2>1. form' = [form EXCEPT ![f] = Append(s, BlankRow[f])] /\ Edited(f)
      BY <1>3 DEF AddRow
    <2>2. BlankRow[f] \in S
      BY <1>2, BlankFits
    <2> HIDE DEF S
    <2>3. form'[f] = Append(s, BlankRow[f])
      BY <1>2, <2>1
    <2>4. form'[f] \in Seq(S)
      BY <1>2, <2>2, <2>3, SeqEdits DEF S
    <2> QED
      BY <2>1, <2>3, <2>4, TableEditKeeps DEF S
  <1>4. ASSUME NEW i \in DOMAIN form[f], RemoveRow(f, i) PROVE DialogInv'
    <2> DEFINE t == [j \in 1..(Len(s) - 1) |-> s[IF j < i THEN j ELSE j + 1]]
    <2>1. form' = [form EXCEPT ![f] = t] /\ Edited(f)
      BY <1>4 DEF RemoveRow
    <2>2. form'[f] = t
      BY <1>2, <2>1
    <2> HIDE DEF S
    <2>3. t \in Seq(S)
      BY <1>2, <1>4, SeqEdits DEF S
    <2> HIDE DEF t
    <2> QED
      BY <2>1, <2>2, <2>3, TableEditKeeps DEF S
  <1>5. ASSUME NEW i \in DOMAIN form[f], NEW c \in DOMAIN Cells[f], NEW v \in Cells[f][c],
               EditCell(f, i, c, v)
        PROVE  DialogInv'
    <2> DEFINE r == [s[i] EXCEPT ![c] = v]
    <2>1. form' = [form EXCEPT ![f] = [s EXCEPT ![i] = r]] /\ Edited(f)
      BY <1>5 DEF EditCell
    <2>2. s[i] \in S
      BY <1>2, <1>5
    <2>3. r \in S
      BY <1>2, <1>5, <2>2, CellsFit
    <2> HIDE DEF S, r
    <2>4. form'[f] = [s EXCEPT ![i] = r]
      BY <1>2, <2>1
    <2>5. form'[f] \in Seq(S)
      BY <1>2, <1>5, <2>3, <2>4, SeqEdits DEF S
    <2> QED
      BY <2>1, <2>4, <2>5, TableEditKeeps DEF S
  <1> QED
    BY <1>3, <1>4, <1>5

\* Choosing a tab, and the answer to a save.
LEMMA ChooseTabKeeps ==
    ASSUME DialogInv, NEW t \in Tabs(kind), ChooseTab(t)
    PROVE  DialogInv'
  <1>1. /\ tab' = t /\ step = "editing"
        /\ UNCHANGED <<kind, stored, hasOptions, users, form, problem, step, sent, touched, edits, tries>>
    BY DEF ChooseTab, AtForm, context
  <1>2. DialogTypes'
    BY <1>1 DEF DialogInv, DialogTypes
  <1>3. Untouched'
    BY <1>1, SeedStays DEF DialogInv, Untouched, isEdit
  <1>4. /\ TokenOfProvider' /\ SentIsPayload' /\ AcceptedByApi' /\ EditsAreSent'
        /\ PasswordsAsEntered'
    BY <1>1 DEF DialogInv, TokenOfProvider, isEdit, SentIsPayload, AcceptedByApi, EditsAreSent,
       PasswordsAsEntered
  <1> QED
    BY <1>1, <1>2, <1>3, <1>4, SentKept DEF DialogInv

LEMMA AnswerSaveKeeps ==
    ASSUME DialogInv, AnswerSave
    PROVE  DialogInv'
  <1>1. /\ step \in {"ok", "err"} /\ step' \in {"closed", "editing"}
        /\ step = "ok" /\ kind # "change_password" => step' = "closed"
        /\ problem' \in {problem, "api"}
        /\ form' = IF step = "ok" /\ kind = "change_password" THEN NoPasswords ELSE form
        /\ UNCHANGED <<kind, stored, hasOptions, users, tab, sent, touched, edits, tries>>
    BY DEF AnswerSave, context
  <1>2. Typed(kind, form') /\ DOMAIN form' = DOMAIN form
    BY <1>1, SmallSeedsTyped DEF DialogInv, DialogTypes, Typed
  <1>3. DialogTypes'
    BY <1>1, <1>2 DEF DialogInv, DialogTypes
  <1>4. Untouched'
    <2>1. CASE kind = "change_password"
      <3>1. stored = NoHost
        BY <2>1 DEF DialogInv, DialogTypes, RowsOf
      <3> QED
        BY <1>1, <3>1 DEF Untouched, isEdit, NoHost
    <2>2. CASE kind # "change_password"
      BY <1>1, <2>2, SeedStays DEF DialogInv, Untouched, isEdit
    <2> QED
      BY <2>1, <2>2
  <1>5. /\ TokenOfProvider' /\ SentIsPayload' /\ AcceptedByApi' /\ EditsAreSent'
        /\ PasswordsAsEntered'
    BY <1>1 DEF DialogInv, TokenOfProvider, isEdit, SentIsPayload, Secretive, AcceptedByApi,
       EditsAreSent, PasswordsAsEntered
  <1> QED
    BY <1>1, <1>3, <1>4, <1>5, SentKept DEF DialogInv

-----------------------------------------------------------------------------
(* What the API stores.                                                    *)

\* The payload of a DNS credential.
LEMMA DnsPayloadIs ==
    ASSUME NEW f, Typed("dns_credential", f), f.provider # "", NEW h
    PROVE  LET p == DnsPayload(f, h) IN
           /\ f.provider \in {"cf", "aws"} /\ {"id", "name", "token"} \subseteq DOMAIN p
           /\ p.id = h.id /\ p.name = trim(f.name) /\ p.token = OrNull(trim(f.token))
           /\ f.provider = "cf" => "zone" \in DOMAIN p /\ p.zone = OrNull(trim(f.zone))
           /\ f.provider = "aws" => "region" \in DOMAIN p /\ p.region = OrNull(trim(f.region))
           /\ h = NoHost => "provider" \in DOMAIN p /\ p.provider = trim(f.provider)
           /\ DOMAIN p = {"id", "name", "token", IF f.provider = "cf" THEN "zone" ELSE "region"}
                            \cup (IF h = NoHost THEN {"provider"} ELSE {})
  <1> DEFINE p == DnsPayload(f, h)
  <1>1. f.provider \in {"cf", "aws"}
    <2>1. Class("dns_credential") = DnsClass
      BY DEF Class
    <2>2. f.provider \in DnsClass.provider
      BY <2>1, ClassFields DEF Typed
    <2> QED
      BY <2>2 DEF DnsClass
  <1>2. Catalog[f.provider] = {"token", IF f.provider = "cf" THEN "zone" ELSE "region"}
    <2>1. Catalog["cf"] = {"token", "zone"} /\ Catalog["aws"] = {"token", "region"}
      BY DEF Catalog
    <2>2. CASE f.provider = "cf"
      BY <2>1, <2>2
    <2>3. CASE f.provider = "aws"
      BY <2>1, <2>3
    <2> QED
      BY <1>1, <2>2, <2>3
  <1>3. DOMAIN emptyValues = {"token", "zone", "region"}
    BY DEF emptyValues
  <1>4. DOMAIN p = {"id", "name", "token", IF f.provider = "cf" THEN "zone" ELSE "region"}
                     \cup (IF h = NoHost THEN {"provider"} ELSE {})
    BY <1>2 DEF DnsPayload
  <1>5. p.id = h.id /\ p.name = trim(f.name) /\ p.token = OrNull(trim(f.token))
    BY <1>2, <1>3 DEF DnsPayload
  <1>6. f.provider = "cf" => "zone" \in DOMAIN p /\ p.zone = OrNull(trim(f.zone))
    BY <1>2, <1>3 DEF DnsPayload
  <1>7. f.provider = "aws" => "region" \in DOMAIN p /\ p.region = OrNull(trim(f.region))
    BY <1>2, <1>3 DEF DnsPayload
  <1>8. h = NoHost => "provider" \in DOMAIN p /\ p.provider = trim(f.provider)
    BY <1>2, <1>3 DEF DnsPayload
  <1> HIDE DEF p
  <1> QED
    BY <1>1, <1>4, <1>5, <1>6, <1>7, <1>8 DEF p

LEMMA TokenStored ==
    ASSUME DialogInv, step = "sent", kind = "dns_credential", ApiRefuses(kind, sent) = {},
           users' = UsersAfter(sent)
    PROVE  users'.token = IF isEdit /\ trim(form.token) = "" THEN stored.hash ELSE form.provider
  <1>1. /\ Typed("dns_credential", form) /\ form.provider # "" /\ form.token \in {"", " ", form.provider}
        /\ stored \in RowsOf(kind) \cup {NoHost}
    BY DEF DialogInv, DialogTypes, TokenOfProvider
  <1>2. sent = DnsPayload(form, stored) /\ users = StoredUsers(kind, stored)
    BY DEF DialogInv, SentIsPayload, Secretive, Payload, AccountPayload
  <1>3. /\ form.provider \in {"cf", "aws"} /\ "token" \in DOMAIN sent /\ sent.id = stored.id
        /\ sent.token = OrNull(trim(form.token))
    BY <1>1, <1>2, DnsPayloadIs
  <1>4. users'.token = IF sent.token = "null" THEN users.token ELSE sent.token
    BY DEF UsersAfter, SecretsAfter
  <1>5. CASE form.token \in {"", " "}
    <2>1. sent.token = "null" /\ trim(form.token) = ""
      BY <1>3, <1>5 DEF trim, OrNull
    <2>2. isEdit
      <3> SUFFICES ASSUME ~isEdit PROVE FALSE
        OBVIOUS
      <3>1. sent.id = "none"
        BY <1>3 DEF isEdit
      <3>2. Refused(kind, sent, stored, "token")
        BY <2>1, <3>1, KindNames DEF Refused, AccountRefused
      <3> QED
        BY <1>3, <3>2, RefusedIs
    <2>3. users = [token |-> stored.hash]
      BY <1>2, <2>2 DEF StoredUsers, isEdit, NoHost
    <2> QED
      BY <1>4, <2>1, <2>2, <2>3
  <1>6. CASE form.token = form.provider
    <2>1. trim(form.token) = form.provider /\ sent.token = form.provider
      BY <1>3, <1>6 DEF trim, OrNull
    <2> QED
      BY <1>3, <1>4, <2>1
  <1> QED
    BY <1>1, <1>5, <1>6

\* A user of an access list, by name.
LEMMA UserStored ==
    ASSUME DialogInv, step = "sent", kind = "access_list", ApiRefuses(kind, sent) = {},
           users' = UsersAfter(sent), NEW i \in DOMAIN submittableUsers(form)
    PROVE  LET r == submittableUsers(form)[i] IN
           IF r.password # "" THEN users'[r.username] = "typed"
           ELSE \A j \in DOMAIN stored.users :
                   (stored.users[j].id = r.id /\ stored.users[j].username = r.username) =>
                        users'[r.username] = stored.users[j].hash
  <1> DEFINE us == submittableUsers(form)
             r == us[i]
             ps == sent.users
  <1>1. stored \in ListRows \cup {NoHost}
    BY DEF DialogInv, DialogTypes, RowsOf
  <1>2. sent = ListPayload(form, stored) /\ users = StoredUsers(kind, stored)
    BY DEF DialogInv, SentIsPayload, Secretive, Payload
  <1>3. /\ "users" \in DOMAIN sent
        /\ ps = [n \in DOMAIN us |-> [username |-> us[n].username, password |-> PasswordOf(us[n])]]
    BY <1>2 DEF ListPayload
  <1> HIDE DEF us, ps
  <1>4. /\ DOMAIN ps = DOMAIN us
        /\ \A n \in DOMAIN us : ps[n].username = us[n].username /\ ps[n].password = PasswordOf(us[n])
    BY <1>3
  <1>5. ~ \E n \in DOMAIN ps :
             \/ ps[n].username \in {"", "u:v"}
             \/ ps[n].password = "null" /\ ps[n].username \notin DOMAIN users
             \/ \E m \in DOMAIN ps : n # m /\ ps[n].username = ps[m].username
    <2>1. "users" \notin ApiRefuses(kind, sent)
      OBVIOUS
    <2> QED
      BY <1>3, <2>1, Zenon DEF ApiRefuses, ps
  <1>6. users' = [n \in {ps[m].username : m \in DOMAIN ps} |->
                    IF ps[CHOOSE m \in DOMAIN ps : ps[m].username = n].password = "null"
                    THEN users[n] ELSE "typed"]
    BY DEF UsersAfter, ListUsersAfter, ps
  <1>7. i \in DOMAIN ps /\ ps[i].username = r.username /\ ps[i].password = PasswordOf(r)
    BY <1>4 DEF us
  <1>8. (CHOOSE m \in DOMAIN ps : ps[m].username = r.username) = i
    BY <1>5, <1>7
  <1>9. users'[r.username] = IF ps[i].password = "null" THEN users[r.username] ELSE "typed"
    <2>1. r.username \in {ps[m].username : m \in DOMAIN ps}
      BY <1>7
    <2> HIDE DEF r
    <2>2. users'[r.username] = IF ps[CHOOSE m \in DOMAIN ps : ps[m].username = r.username].password = "null"
                               THEN users[r.username] ELSE "typed"
      BY <1>6, <2>1, Zenon
    <2> QED
      BY <1>8, <2>2, Zenon
  <1>10. CASE r.password # ""
    BY <1>7, <1>9, <1>10 DEF PasswordOf, us
  <1>11. CASE r.password = ""
    <2>1. ps[i].password = "null"
      BY <1>7, <1>11 DEF PasswordOf
    <2>2. users'[r.username] = users[r.username] /\ r.username \in DOMAIN users
      BY <1>5, <1>7, <1>9, <2>1
    <2>3. stored # NoHost
      BY <1>2, <2>2 DEF StoredUsers
    <2>4. users = [n \in {stored.users[m].username : m \in DOMAIN stored.users} |->
                     stored.users[CHOOSE m \in DOMAIN stored.users : stored.users[m].username = n].hash]
      BY <1>2, <2>3 DEF StoredUsers
    <2>5. \A m, n \in DOMAIN stored.users : stored.users[m].username = stored.users[n].username => m = n
      BY <1>1, <2>3 DEF ListRows
    <2>6. ASSUME NEW j \in DOMAIN stored.users, stored.users[j].username = r.username
          PROVE  users[r.username] = stored.users[j].hash
      <3>1. (CHOOSE m \in DOMAIN stored.users : stored.users[m].username = r.username) = j
        BY <2>5, <2>6
      <3> QED
        BY <2>4, <2>6, <3>1
    <2> QED
      BY <1>11, <2>2, <2>6 DEF us
  <1> QED
    BY <1>10, <1>11

LEMMA ServeSaveKeeps ==
    ASSUME DialogInv, NEW accept \in BOOLEAN, ServeSave(accept)
    PROVE  DialogInv'
  <1>1. /\ step = "sent" /\ step' = IF accept THEN "ok" ELSE "err"
        /\ accept => ApiRefuses(kind, sent) = {} /\ users' = UsersAfter(sent)
        /\ ~accept => users' = users
        /\ UNCHANGED <<kind, stored, hasOptions, form, tab, problem, sent, touched, edits, tries>>
    BY DEF ServeSave
  <1>2. step' \in {"ok", "err"}
    BY <1>1
  <1>3. DialogTypes'
    BY <1>1, <1>2 DEF DialogInv, DialogTypes
  <1>4. Untouched'
    BY <1>1, SeedStays DEF DialogInv, Untouched, isEdit
  <1>5. TokenOfProvider' /\ AcceptedByApi' /\ EditsAreSent'
    BY <1>1, <1>2 DEF DialogInv, TokenOfProvider, isEdit, AcceptedByApi, EditsAreSent
  <1>6. SentIsPayload'
    BY <1>1, <1>2 DEF DialogInv, SentIsPayload, Secretive
  <1>7. PasswordsAsEntered'
    <2>1. CASE step' = "err"
      BY <2>1 DEF PasswordsAsEntered
    <2>2. CASE step' = "ok"
      <3>1. ApiRefuses(kind, sent) = {} /\ users' = UsersAfter(sent)
        BY <1>1, <2>2
      <3>2. CASE kind = "dns_credential"
        BY <1>1, <3>1, <3>2, TokenStored DEF PasswordsAsEntered, isEdit
      <3>3. CASE kind = "access_list"
        <4>1. \A i \in DOMAIN submittableUsers(form) :
                 LET r == submittableUsers(form)[i] IN
                 IF r.password # "" THEN users'[r.username] = "typed"
                 ELSE \A j \in DOMAIN stored.users :
                         (stored.users[j].id = r.id /\ stored.users[j].username = r.username) =>
                              users'[r.username] = stored.users[j].hash
          BY <1>1, <3>1, <3>3, UserStored
        <4> QED
          BY <1>1, <3>3, <4>1, Zenon DEF PasswordsAsEntered
      <3> QED
        BY <1>1, <3>2, <3>3 DEF PasswordsAsEntered
    <2> QED
      BY <1>2, <2>1, <2>2
  <1> QED
    BY <1>1, <1>3, <1>4, <1>5, <1>6, <1>7, SentKept DEF DialogInv

-----------------------------------------------------------------------------
(* The checks of a save: their fields are on the screen.                   *)

\* The tab a check opens, and what it shows.
Opened(c) == IF c.tab = "stay" THEN tab ELSE c.tab
Seen(f, t) ==
    \/ \E u \in {"always", t} \cap DOMAIN Panels(kind) : f \in DOMAIN Panels(kind)[u] /\ Shown(f)
    \/ f \in DOMAIN RowPanels(kind) /\ RowPanels(kind)[f] = t
ShownAt(c) ==
    /\ c.field \in DOMAIN form /\ Opened(c) \in Tabs(kind)
    /\ Seen(c.field, Opened(c)) \/ (c.field = "maintenance_allow" /\ form.maintenance = "off")

LEMMA PanelTabs ==
    /\ DOMAIN Panels("proxy") = {"always", "forwarding", "certificate", "advanced"}
    /\ DOMAIN Panels("redirection") = {"details", "ssl"} /\ DOMAIN Panels("dead") = {"details", "ssl"}
    /\ DOMAIN Panels("stream") = {"details", "ssl"}
    /\ DOMAIN Panels("access_list") = {"details", "authorization", "access"}
    /\ DOMAIN Panels("certificate") = {"letsencrypt", "custom"}
    /\ DOMAIN Panels("whitelist") = {"always"}
    /\ \A k \in AccountKinds : DOMAIN Panels(k) = {"always"}
    /\ Tabs("proxy") = {"forwarding", "certificate", "advanced"}
    /\ Tabs("redirection") = {"details", "ssl"} /\ Tabs("dead") = {"details", "ssl"}
    /\ Tabs("stream") = {"details", "ssl"}
    /\ Tabs("access_list") = {"details", "authorization", "access"}
    /\ Tabs("certificate") = {"letsencrypt", "custom"}
    /\ \A k \in AccountKinds \cup {"whitelist"} : Tabs(k) = {"always"}
  <1>1. /\ DOMAIN Panels("proxy") = {"always", "forwarding", "certificate", "advanced"}
        /\ DOMAIN Panels("redirection") = {"details", "ssl"} /\ DOMAIN Panels("dead") = {"details", "ssl"}
        /\ DOMAIN Panels("stream") = {"details", "ssl"}
    BY DEF Panels
  <1>2. /\ DOMAIN Panels("access_list") = {"details", "authorization", "access"}
        /\ DOMAIN Panels("certificate") = {"letsencrypt", "custom"}
        /\ DOMAIN Panels("whitelist") = {"always"}
    BY DEF Panels
  <1>3. \A k \in AccountKinds : DOMAIN Panels(k) = {"always"}
    BY KindNames DEF Panels
  <1>4. /\ Tabs("proxy") = {"forwarding", "certificate", "advanced"}
        /\ Tabs("redirection") = {"details", "ssl"} /\ Tabs("dead") = {"details", "ssl"}
        /\ Tabs("stream") = {"details", "ssl"}
    BY <1>1, KindNames DEF Tabs, Untabbed
  <1>5. /\ Tabs("access_list") = {"details", "authorization", "access"}
        /\ Tabs("certificate") = {"letsencrypt", "custom"}
    BY <1>2, KindNames DEF Tabs, Untabbed
  <1>6. \A k \in AccountKinds \cup {"whitelist"} : Tabs(k) = {"always"}
    BY DEF Tabs, Untabbed
  <1> QED
    BY <1>1, <1>2, <1>3, <1>4, <1>5, <1>6

\* The controls that the checks are about.
LEMMA PanelsHold ==
    /\ {"pending", "domain_names"} \subseteq DOMAIN Panels("proxy")["always"]
    /\ {"upstream_id", "forward_host", "forward_port"} \subseteq DOMAIN Panels("proxy")["forwarding"]
    /\ "maintenance_allow" \in DOMAIN Panels("proxy")["advanced"]
    /\ {"pending", "domain_names", "forward_domain_name"} \subseteq DOMAIN Panels("redirection")["details"]
    /\ {"pending", "domain_names"} \subseteq DOMAIN Panels("dead")["details"]
    /\ {"incoming_port", "upstream_id", "forward_host", "forward_port", "tcp_forwarding"}
            \subseteq DOMAIN Panels("stream")["details"]
    /\ "name" \in DOMAIN Panels("access_list")["details"]
    /\ {"pending", "name", "domain_names", "dns_credential_id"}
            \subseteq DOMAIN Panels("certificate")["letsencrypt"]
    /\ {"custom_name", "cert_pem", "key_pem"} \subseteq DOMAIN Panels("certificate")["custom"]
    /\ {"expressions", "ips", "cidrs"} \subseteq DOMAIN Panels("whitelist")["always"]
    /\ {"email", "password"} \subseteq DOMAIN Panels("user")["always"]
    /\ "email" \in DOMAIN Panels("invite")["always"]
    /\ \A k \in {"reset_password", "change_password", "reset_link", "accept_invite"} :
          {"password", "confirm"} \subseteq DOMAIN Panels(k)["always"]
    /\ {"name", "provider", "token"} \subseteq DOMAIN Panels("dns_credential")["always"]
  <1>1. /\ {"pending", "domain_names"} \subseteq DOMAIN Panels("proxy")["always"]
        /\ {"upstream_id", "forward_host", "forward_port"} \subseteq DOMAIN Panels("proxy")["forwarding"]
        /\ "maintenance_allow" \in DOMAIN Panels("proxy")["advanced"]
    BY DEF Panels, ProxyIdentity, ProxyOptions, RootTarget, ProxyAdvanced, Merge, DomainTags
  <1>2. /\ {"pending", "domain_names", "forward_domain_name"} \subseteq DOMAIN Panels("redirection")["details"]
        /\ {"pending", "domain_names"} \subseteq DOMAIN Panels("dead")["details"]
    BY DEF Panels, RedirectionDetails, DeadDetails, Merge, DomainTags
  <1>3. {"incoming_port", "upstream_id", "forward_host", "forward_port", "tcp_forwarding"}
            \subseteq DOMAIN Panels("stream")["details"]
    BY DEF Panels, StreamDetails
  <1>4. "name" \in DOMAIN Panels("access_list")["details"]
    BY DEF Panels, ListDetails
  <1>5. {"pending", "name", "domain_names", "dns_credential_id"}
            \subseteq DOMAIN Panels("certificate")["letsencrypt"]
    BY DEF Panels, LetsEncryptFields, Merge, DomainTags
  <1>6. {"custom_name", "cert_pem", "key_pem"} \subseteq DOMAIN Panels("certificate")["custom"]
    BY DEF Panels, CustomFields
  <1>7. {"expressions", "ips", "cidrs"} \subseteq DOMAIN Panels("whitelist")["always"]
    BY DEF Panels, WhitelistFields
  <1>8. \A k \in AccountKinds : Panels(k)["always"] = AccountFields(k)
    BY KindNames DEF Panels
  <1>9. /\ {"email", "password"} \subseteq DOMAIN AccountFields("user")
        /\ "email" \in DOMAIN AccountFields("invite")
    BY DEF AccountFields, UserFields, InviteFields
  <1>10. \A k \in {"reset_password", "change_password", "reset_link", "accept_invite"} :
            {"password", "confirm"} \subseteq DOMAIN AccountFields(k)
    BY DEF AccountFields, PasswordPair, AcceptFields, Merge
  <1>11. {"name", "provider", "token"} \subseteq DOMAIN AccountFields("dns_credential")
    BY DEF AccountFields, DnsFields
  <1> QED
    BY <1>1, <1>2, <1>3, <1>4, <1>5, <1>6, <1>7, <1>8, <1>9, <1>10, <1>11, KindNames

\* A field of the tab that is open, or outside the tabs.
LEMMA SeenIn ==
    ASSUME NEW f, NEW u, NEW t \in {"always", u}, t \in DOMAIN Panels(kind),
           f \in DOMAIN Panels(kind)[t], Shown(f)
    PROVE  Seen(f, u)
  BY DEF Seen

\* Fields that are always rendered.
LEMMA PlainShown ==
    ASSUME kind \notin LinkKinds \/ hasOptions,
           NEW f, f \notin {"maintenance_allow", "upstream_id", "forward_host", "forward_port",
                         "dns_credential_id", "ips", "cidrs", "filter", "expressions", "token",
                         "zone", "region"},
           kind = "user" => f # "password"
    PROVE  Shown(f)
  BY DEF Shown, emptyValues

\* The checks, one by one.
LEMMA ProxyChecksAre ==
    ASSUME NEW f
    PROVE  LET c == ProxyChecks(f) IN
           /\ DOMAIN c = 1..7
           /\ c[1].field = "pending" /\ c[1].tab = "stay"
           /\ c[1].bad = (f.pending = "bad")
           /\ c[2].field = "domain_names" /\ c[2].tab = "stay"
           /\ c[2].bad = (f.domain_names = "none")
           /\ c[3].field = "upstream_id" /\ c[3].tab = "forwarding"
           /\ c[3].bad = (f.mode = "pool" /\ f.upstream_id = "")
           /\ c[4].field = "forward_host" /\ c[4].tab = "forwarding"
           /\ c[4].bad = (f.mode = "host" /\ f.forward_host = "")
           /\ c[5].field = "forward_port" /\ c[5].tab = "forwarding"
           /\ c[5].bad = (f.mode = "host" /\ parsePort(f.forward_port) = "null")
           /\ c[6].field = "maintenance_allow" /\ c[6].tab = "advanced"
           /\ c[6].bad = (~isIpOrCidr(f.maintenance_allow))
           /\ c[7].field = "locations" /\ c[7].tab = "forwarding"
           /\ c[7].bad = (validateLocations(f.locations))
  <1> DEFINE c == ProxyChecks(f)
  <1>1. DOMAIN c = 1..7
    BY DEF ProxyChecks, Check
  <1>2. /\ c[1].field = "pending" /\ c[1].tab = "stay"
        /\ c[2].field = "domain_names" /\ c[2].tab = "stay"
        /\ c[3].field = "upstream_id" /\ c[3].tab = "forwarding"
        /\ c[4].field = "forward_host" /\ c[4].tab = "forwarding"
        /\ c[5].field = "forward_port" /\ c[5].tab = "forwarding"
        /\ c[6].field = "maintenance_allow" /\ c[6].tab = "advanced"
        /\ c[7].field = "locations" /\ c[7].tab = "forwarding"
    BY DEF ProxyChecks, Check
  <1>3. c[1].bad = (f.pending = "bad")
    BY DEF ProxyChecks, Check
  <1>4. c[2].bad = (f.domain_names = "none")
    BY DEF ProxyChecks, Check
  <1>5. c[3].bad = (f.mode = "pool" /\ f.upstream_id = "")
    BY DEF ProxyChecks, Check
  <1>6. c[4].bad = (f.mode = "host" /\ f.forward_host = "")
    BY DEF ProxyChecks, Check
  <1>7. c[5].bad = (f.mode = "host" /\ parsePort(f.forward_port) = "null")
    BY DEF ProxyChecks, Check
  <1>8. c[6].bad = (~isIpOrCidr(f.maintenance_allow))
    BY DEF ProxyChecks, Check
  <1>9. c[7].bad = (validateLocations(f.locations))
    BY DEF ProxyChecks, Check
  <1> HIDE DEF c
  <1> QED
    BY <1>1, <1>2, <1>3, <1>4, <1>5, <1>6, <1>7, <1>8, <1>9, Zenon DEF c

LEMMA RedirectionChecksAre ==
    ASSUME NEW f
    PROVE  LET c == RedirectionChecks(f) IN
           /\ DOMAIN c = 1..3
           /\ c[1].field = "pending" /\ c[1].tab = "details"
           /\ c[1].bad = (f.pending = "bad")
           /\ c[2].field = "domain_names" /\ c[2].tab = "details"
           /\ c[2].bad = (f.domain_names = "none")
           /\ c[3].field = "forward_domain_name" /\ c[3].tab = "details"
           /\ c[3].bad = (f.forward_domain_name = "")
  <1> DEFINE c == RedirectionChecks(f)
  <1>1. DOMAIN c = 1..3
    BY DEF RedirectionChecks, Check
  <1>2. /\ c[1].field = "pending" /\ c[1].tab = "details"
        /\ c[2].field = "domain_names" /\ c[2].tab = "details"
        /\ c[3].field = "forward_domain_name" /\ c[3].tab = "details"
    BY DEF RedirectionChecks, Check
  <1>3. c[1].bad = (f.pending = "bad")
    BY DEF RedirectionChecks, Check
  <1>4. c[2].bad = (f.domain_names = "none")
    BY DEF RedirectionChecks, Check
  <1>5. c[3].bad = (f.forward_domain_name = "")
    BY DEF RedirectionChecks, Check
  <1> HIDE DEF c
  <1> QED
    BY <1>1, <1>2, <1>3, <1>4, <1>5, Zenon DEF c

LEMMA DeadChecksAre ==
    ASSUME NEW f
    PROVE  LET c == DeadChecks(f) IN
           /\ DOMAIN c = 1..2
           /\ c[1].field = "pending" /\ c[1].tab = "details"
           /\ c[1].bad = (f.pending = "bad")
           /\ c[2].field = "domain_names" /\ c[2].tab = "details"
           /\ c[2].bad = (f.domain_names = "none")
  <1> DEFINE c == DeadChecks(f)
  <1>1. DOMAIN c = 1..2
    BY DEF DeadChecks, Check
  <1>2. /\ c[1].field = "pending" /\ c[1].tab = "details"
        /\ c[2].field = "domain_names" /\ c[2].tab = "details"
    BY DEF DeadChecks, Check
  <1>3. c[1].bad = (f.pending = "bad")
    BY DEF DeadChecks, Check
  <1>4. c[2].bad = (f.domain_names = "none")
    BY DEF DeadChecks, Check
  <1> HIDE DEF c
  <1> QED
    BY <1>1, <1>2, <1>3, <1>4, Zenon DEF c

LEMMA StreamChecksAre ==
    ASSUME NEW f
    PROVE  LET c == StreamChecks(f) IN
           /\ DOMAIN c = 1..5
           /\ c[1].field = "incoming_port" /\ c[1].tab = "details"
           /\ c[1].bad = (parsePortStrict(f.incoming_port) = "null")
           /\ c[2].field = "upstream_id" /\ c[2].tab = "details"
           /\ c[2].bad = (f.mode = "pool" /\ f.upstream_id = "")
           /\ c[3].field = "forward_host" /\ c[3].tab = "details"
           /\ c[3].bad = (f.mode = "host" /\ f.forward_host = "")
           /\ c[4].field = "forward_port" /\ c[4].tab = "details"
           /\ c[4].bad = (f.mode = "host" /\ parsePortStrict(f.forward_port) = "null")
           /\ c[5].field = "tcp_forwarding" /\ c[5].tab = "details"
           /\ c[5].bad = (f.tcp_forwarding = "off" /\ f.udp_forwarding = "off")
  <1> DEFINE c == StreamChecks(f)
  <1>1. DOMAIN c = 1..5
    BY DEF StreamChecks, Check
  <1>2. /\ c[1].field = "incoming_port" /\ c[1].tab = "details"
        /\ c[2].field = "upstream_id" /\ c[2].tab = "details"
        /\ c[3].field = "forward_host" /\ c[3].tab = "details"
        /\ c[4].field = "forward_port" /\ c[4].tab = "details"
        /\ c[5].field = "tcp_forwarding" /\ c[5].tab = "details"
    BY DEF StreamChecks, Check
  <1>3. c[1].bad = (parsePortStrict(f.incoming_port) = "null")
    BY DEF StreamChecks, Check
  <1>4. c[2].bad = (f.mode = "pool" /\ f.upstream_id = "")
    BY DEF StreamChecks, Check
  <1>5. c[3].bad = (f.mode = "host" /\ f.forward_host = "")
    BY DEF StreamChecks, Check
  <1>6. c[4].bad = (f.mode = "host" /\ parsePortStrict(f.forward_port) = "null")
    BY DEF StreamChecks, Check
  <1>7. c[5].bad = (f.tcp_forwarding = "off" /\ f.udp_forwarding = "off")
    BY DEF StreamChecks, Check
  <1> HIDE DEF c
  <1> QED
    BY <1>1, <1>2, <1>3, <1>4, <1>5, <1>6, <1>7, Zenon DEF c

LEMMA LetsEncryptChecksAre ==
    ASSUME NEW f
    PROVE  LET c == LetsEncryptChecks(f) IN
           /\ DOMAIN c = 1..4
           /\ c[1].field = "pending" /\ c[1].tab = "stay"
           /\ c[1].bad = (f.pending = "bad")
           /\ c[2].field = "name" /\ c[2].tab = "stay"
           /\ c[2].bad = (f.name = "")
           /\ c[3].field = "domain_names" /\ c[3].tab = "stay"
           /\ c[3].bad = (f.domain_names = "none")
           /\ c[4].field = "dns_credential_id" /\ c[4].tab = "stay"
           /\ c[4].bad = (f.challenge = "dns-01" /\ f.dns_credential_id = "")
  <1> DEFINE c == LetsEncryptChecks(f)
  <1>1. DOMAIN c = 1..4
    BY DEF LetsEncryptChecks, Check
  <1>2. /\ c[1].field = "pending" /\ c[1].tab = "stay"
        /\ c[2].field = "name" /\ c[2].tab = "stay"
        /\ c[3].field = "domain_names" /\ c[3].tab = "stay"
        /\ c[4].field = "dns_credential_id" /\ c[4].tab = "stay"
    BY DEF LetsEncryptChecks, Check
  <1>3. c[1].bad = (f.pending = "bad")
    BY DEF LetsEncryptChecks, Check
  <1>4. c[2].bad = (f.name = "")
    BY DEF LetsEncryptChecks, Check
  <1>5. c[3].bad = (f.domain_names = "none")
    BY DEF LetsEncryptChecks, Check
  <1>6. c[4].bad = (f.challenge = "dns-01" /\ f.dns_credential_id = "")
    BY DEF LetsEncryptChecks, Check
  <1> HIDE DEF c
  <1> QED
    BY <1>1, <1>2, <1>3, <1>4, <1>5, <1>6, Zenon DEF c

LEMMA CustomChecksAre ==
    ASSUME NEW f
    PROVE  LET c == CustomChecks(f) IN
           /\ DOMAIN c = 1..3
           /\ c[1].field = "custom_name" /\ c[1].tab = "stay"
           /\ c[1].bad = (f.custom_name = "")
           /\ c[2].field = "cert_pem" /\ c[2].tab = "stay"
           /\ c[2].bad = (f.cert_pem = "")
           /\ c[3].field = "key_pem" /\ c[3].tab = "stay"
           /\ c[3].bad = (f.key_pem = "")
  <1> DEFINE c == CustomChecks(f)
  <1>1. DOMAIN c = 1..3
    BY DEF CustomChecks, Check
  <1>2. /\ c[1].field = "custom_name" /\ c[1].tab = "stay"
        /\ c[2].field = "cert_pem" /\ c[2].tab = "stay"
        /\ c[3].field = "key_pem" /\ c[3].tab = "stay"
    BY DEF CustomChecks, Check
  <1>3. c[1].bad = (f.custom_name = "")
    BY DEF CustomChecks, Check
  <1>4. c[2].bad = (f.cert_pem = "")
    BY DEF CustomChecks, Check
  <1>5. c[3].bad = (f.key_pem = "")
    BY DEF CustomChecks, Check
  <1> HIDE DEF c
  <1> QED
    BY <1>1, <1>2, <1>3, <1>4, <1>5, Zenon DEF c

LEMMA WhitelistChecksAre ==
    ASSUME NEW f
    PROVE  LET c == WhitelistChecks(f) IN
           /\ DOMAIN c = 1..4
           /\ c[1].field = "expressions" /\ c[1].tab = "stay"
           /\ c[1].bad = (f.wkind # "ip_cidr" /\ f.expressions = "")
           /\ c[2].field = "ips" /\ c[2].tab = "stay"
           /\ c[2].bad = (f.wkind = "ip_cidr" /\ badIp(f.ips))
           /\ c[3].field = "cidrs" /\ c[3].tab = "stay"
           /\ c[3].bad = (f.wkind = "ip_cidr" /\ badIp(f.cidrs))
           /\ c[4].field = "ips" /\ c[4].tab = "stay"
           /\ c[4].bad = (f.wkind = "ip_cidr" /\ f.ips = "" /\ f.cidrs = "")
  <1> DEFINE c == WhitelistChecks(f)
  <1>1. DOMAIN c = 1..4
    BY DEF WhitelistChecks, Check
  <1>2. /\ c[1].field = "expressions" /\ c[1].tab = "stay"
        /\ c[2].field = "ips" /\ c[2].tab = "stay"
        /\ c[3].field = "cidrs" /\ c[3].tab = "stay"
        /\ c[4].field = "ips" /\ c[4].tab = "stay"
    BY DEF WhitelistChecks, Check
  <1>3. c[1].bad = (f.wkind # "ip_cidr" /\ f.expressions = "")
    BY DEF WhitelistChecks, Check
  <1>4. c[2].bad = (f.wkind = "ip_cidr" /\ badIp(f.ips))
    BY DEF WhitelistChecks, Check
  <1>5. c[3].bad = (f.wkind = "ip_cidr" /\ badIp(f.cidrs))
    BY DEF WhitelistChecks, Check
  <1>6. c[4].bad = (f.wkind = "ip_cidr" /\ f.ips = "" /\ f.cidrs = "")
    BY DEF WhitelistChecks, Check
  <1> HIDE DEF c
  <1> QED
    BY <1>1, <1>2, <1>3, <1>4, <1>5, <1>6, Zenon DEF c

LEMMA InviteChecksAre ==
    ASSUME NEW f
    PROVE  LET c == InviteChecks(f) IN
           /\ DOMAIN c = 1..1
           /\ c[1].field = "email" /\ c[1].tab = "stay"
           /\ c[1].bad = (trim(f.email) = "")
  <1> DEFINE c == InviteChecks(f)
  <1>1. DOMAIN c = 1..1
    BY DEF InviteChecks, Check
  <1>2. /\ c[1].field = "email" /\ c[1].tab = "stay"
    BY DEF InviteChecks, Check
  <1>3. c[1].bad = (trim(f.email) = "")
    BY DEF InviteChecks, Check
  <1> HIDE DEF c
  <1> QED
    BY <1>1, <1>2, <1>3, Zenon DEF c

UsersUnfit(f) ==
    \E i \in DOMAIN submittableUsers(f) :
        \/ submittableUsers(f)[i].username = ""
        \/ submittableUsers(f)[i].id = "new" /\ submittableUsers(f)[i].password = ""
        \/ \E j \in 1..(i - 1) : submittableUsers(f)[j].username = submittableUsers(f)[i].username
ClientsUnfit(f) == \E i \in DOMAIN submittableClients(f) : submittableClients(f)[i].address = ""

LEMMA ListChecksAre ==
    ASSUME NEW f
    PROVE  LET c == ListChecks(f) IN
           /\ DOMAIN c = 1..3
           /\ c[1].field = "name" /\ c[1].tab = "details"
           /\ c[1].bad = (f.name = "")
           /\ c[2].field = "users" /\ c[2].tab = "authorization"
           /\ c[2].bad = UsersUnfit(f)
           /\ c[3].field = "clients" /\ c[3].tab = "access"
           /\ c[3].bad = ClientsUnfit(f)
  <1> DEFINE c == ListChecks(f)
             d == << Check("name", "details", f.name = ""),
                     Check("users", "authorization", UsersUnfit(f)),
                     Check("clients", "access", ClientsUnfit(f)) >>
  <1>0. c = d
    BY Zenon DEF ListChecks, UsersUnfit, ClientsUnfit
  <1>a. UsersUnfit(f) \in BOOLEAN /\ ClientsUnfit(f) \in BOOLEAN
    BY DEF UsersUnfit, ClientsUnfit
  <1> HIDE DEF c
  <1>1. DOMAIN d = 1..3
    BY DEF Check
  <1>2. /\ d[1].field = "name" /\ d[1].tab = "details" /\ d[2].field = "users"
        /\ d[2].tab = "authorization" /\ d[3].field = "clients" /\ d[3].tab = "access"
    BY DEF Check
  <1>3. d[1].bad = (f.name = "")
    BY DEF Check
  <1>4. d[2].bad = UsersUnfit(f)
    BY <1>a DEF Check
  <1>5. d[3].bad = ClientsUnfit(f)
    BY <1>a DEF Check
  <1> HIDE DEF d
  <1> QED
    BY <1>0, <1>1, <1>2, <1>3, <1>4, <1>5, Zenon DEF c

LEMMA UserChecksAre ==
    ASSUME NEW f, NEW h
    PROVE  LET c == UserChecks(f, h) IN
           /\ DOMAIN c = 1..2
           /\ c[1].field = "email" /\ c[1].tab = "stay"
           /\ c[1].bad = (h = NoHost /\ trim(f.email) = "")
           /\ c[2].field = "password" /\ c[2].tab = "stay"
           /\ c[2].bad = (h = NoHost /\ tooShort(f.password))
  <1> DEFINE c == UserChecks(f, h)
  <1>1. DOMAIN c = 1..2
    BY DEF UserChecks, Check
  <1>2. c[1].field = "email" /\ c[1].tab = "stay" /\ c[2].field = "password" /\ c[2].tab = "stay"
    BY DEF UserChecks, Check
  <1>3. c[1].bad = (h = NoHost /\ trim(f.email) = "")
    BY DEF UserChecks, Check
  <1>4. c[2].bad = (h = NoHost /\ tooShort(f.password))
    BY DEF UserChecks, Check
  <1> HIDE DEF c
  <1> QED
    BY <1>1, <1>2, <1>3, <1>4, Zenon DEF c

LEMMA PasswordChecksAre ==
    ASSUME NEW f
    PROVE  LET c == validateNewPassword(f) IN
           /\ DOMAIN c = 1..2
           /\ c[1].field = "password" /\ c[1].tab = "stay"
           /\ c[1].bad = tooShort(f.password)
           /\ c[2].field = "confirm" /\ c[2].tab = "stay"
           /\ c[2].bad = (f.password # f.confirm)
  <1> DEFINE c == validateNewPassword(f)
  <1>1. DOMAIN c = 1..2
    BY DEF validateNewPassword, Check
  <1>2. c[1].field = "password" /\ c[1].tab = "stay" /\ c[2].field = "confirm" /\ c[2].tab = "stay"
    BY DEF validateNewPassword, Check
  <1>3. c[1].bad = tooShort(f.password)
    BY DEF validateNewPassword, Check, tooShort
  <1>4. c[2].bad = (f.password # f.confirm)
    BY DEF validateNewPassword, Check
  <1> HIDE DEF c
  <1> QED
    BY <1>1, <1>2, <1>3, <1>4, Zenon DEF c

LEMMA DnsChecksAre ==
    ASSUME NEW f, NEW h
    PROVE  LET c == DnsChecks(f, h) IN
           /\ DOMAIN c = 1..3
           /\ c[1].field = "name" /\ c[1].tab = "stay"
           /\ c[1].bad = (trim(f.name) = "")
           /\ c[2].field = "provider" /\ c[2].tab = "stay"
           /\ c[2].bad = (f.provider = "")
           /\ c[3].field = "token" /\ c[3].tab = "stay"
           /\ c[3].bad = (h = NoHost /\ trim(f.token) = "")
  <1> DEFINE c == DnsChecks(f, h)
  <1>1. DOMAIN c = 1..3
    BY DEF DnsChecks, Check
  <1>2. /\ c[1].field = "name" /\ c[1].tab = "stay" /\ c[2].field = "provider"
        /\ c[2].tab = "stay" /\ c[3].field = "token" /\ c[3].tab = "stay"
    BY DEF DnsChecks, Check
  <1>3. c[1].bad = (trim(f.name) = "")
    BY DEF DnsChecks, Check
  <1>4. c[2].bad = (f.provider = "")
    BY DEF DnsChecks, Check
  <1>5. c[3].bad = (h = NoHost /\ trim(f.token) = "")
    BY DEF DnsChecks, Check
  <1> HIDE DEF c
  <1> QED
    BY <1>1, <1>2, <1>3, <1>4, <1>5, Zenon DEF c

\* The first check that fails is about a field of the form, and opens a tab
\* that shows it.
LEMMA ProxyShown ==
    ASSUME DialogInv, kind = "proxy", NEW i \in DOMAIN Checks, Checks[i].bad
    PROVE  ShownAt(Checks[i])
  <1> DEFINE c == Checks
  <1>1. c = ProxyChecks(form)
    BY DEF Checks
  <1>2. DOMAIN form = DOMAIN ProxyClass /\ tab \in Tabs(kind) /\ form.maintenance \in Toggle
    <2>1. Class(kind) = ProxyClass
      BY DEF Class
    <2>2. Typed(kind, form) /\ tab \in Tabs(kind)
      BY DEF DialogInv, DialogTypes
    <2>3. form.maintenance \in ProxyClass.maintenance
      BY <2>1, <2>2, ClassFields DEF Typed
    <2> QED
      BY <2>1, <2>2, <2>3 DEF Typed, ProxyClass
  <1> HIDE DEF c
  <1>3. i \in 1..7 /\ c[i].bad
    BY <1>1, ProxyChecksAre DEF c
  <1>4. kind \notin LinkKinds
    BY DEF LinkKinds
  <1>5. CASE i \in {1, 2}
    <2>1. c[i].field \in {"pending", "domain_names"} /\ c[i].tab = "stay"
      <3>1. c[1].field = "pending" /\ c[1].tab = "stay" /\ c[2].field = "domain_names" /\ c[2].tab = "stay"
        BY <1>1, ProxyChecksAre
      <3> QED
        BY <1>5, <3>1
    <2>2. Shown(c[i].field)
      BY <1>4, <2>1, PlainShown
    <2>3. Opened(c[i]) = tab
      BY <2>1 DEF Opened
    <2>4. Seen(c[i].field, tab)
      BY <2>1, <2>2, PanelTabs, PanelsHold, SeenIn
    <2> QED
      BY <1>2, <2>1, <2>3, <2>4, ClassFields DEF ShownAt, c
  <1>6. CASE i \in {3, 4, 5}
    <2>1. c[i].tab = "forwarding" /\ c[i].field \in {"upstream_id", "forward_host", "forward_port"}
      <3>1. /\ c[3].field = "upstream_id" /\ c[3].tab = "forwarding"
            /\ c[4].field = "forward_host" /\ c[4].tab = "forwarding"
            /\ c[5].field = "forward_port" /\ c[5].tab = "forwarding"
        BY <1>1, ProxyChecksAre
      <3> QED
        BY <1>6, <3>1
    <2>2. /\ c[i].field = "upstream_id" => form.mode = "pool"
          /\ c[i].field # "upstream_id" => form.mode = "host"
      <3>1. /\ c[3].field = "upstream_id" /\ c[4].field = "forward_host" /\ c[5].field = "forward_port"
            /\ c[3].bad => form.mode = "pool"
            /\ c[4].bad => form.mode = "host"
            /\ c[5].bad => form.mode = "host"
        <4>1. c[3].bad = (form.mode = "pool" /\ form.upstream_id = "") /\ c[3].field = "upstream_id"
          BY <1>1, ProxyChecksAre, Zenon
        <4>2. c[4].bad = (form.mode = "host" /\ form.forward_host = "") /\ c[4].field = "forward_host"
          BY <1>1, ProxyChecksAre, Zenon
        <4>3. /\ c[5].bad = (form.mode = "host" /\ parsePort(form.forward_port) = "null")
              /\ c[5].field = "forward_port"
          BY <1>1, ProxyChecksAre, Zenon
        <4> QED
          BY <4>1, <4>2, <4>3, Zenon
      <3>2. CASE i = 3
        BY <1>3, <3>1, <3>2
      <3>3. CASE i = 4
        BY <1>3, <3>1, <3>3
      <3>4. CASE i = 5
        BY <1>3, <3>1, <3>4
      <3> QED
        BY <1>6, <3>2, <3>3, <3>4
    <2>3. Shown(c[i].field)
      BY <1>4, <2>1, <2>2 DEF Shown, TargetCell, emptyValues
    <2>4. Opened(c[i]) = "forwarding"
      BY <2>1 DEF Opened
    <2>5. Seen(c[i].field, "forwarding")
      BY <2>1, <2>3, PanelTabs, PanelsHold, SeenIn
    <2> QED
      BY <1>2, <2>1, <2>4, <2>5, ClassFields, PanelTabs DEF ShownAt, c
  <1>7. CASE i = 6
    <2>1. c[i].tab = "advanced" /\ c[i].field = "maintenance_allow"
      BY <1>1, <1>7, ProxyChecksAre
    <2>2. Opened(c[i]) = "advanced"
      BY <2>1 DEF Opened
    <2>3. form.maintenance = "on" => Shown("maintenance_allow")
      BY <1>4 DEF Shown, emptyValues
    <2>4. form.maintenance = "on" => Seen("maintenance_allow", "advanced")
      BY <2>3, PanelTabs, PanelsHold, SeenIn
    <2>5. form.maintenance = "on" \/ form.maintenance = "off"
      BY <1>2 DEF Toggle
    <2> QED
      BY <1>2, <2>1, <2>2, <2>4, <2>5, ClassFields, PanelTabs DEF ShownAt, c
  <1>8. CASE i = 7
    <2>1. c[i].tab = "forwarding" /\ c[i].field = "locations"
      BY <1>1, <1>8, ProxyChecksAre
    <2>2. Opened(c[i]) = "forwarding"
      BY <2>1 DEF Opened
    <2>3. Seen("locations", "forwarding")
      BY DEF Seen, RowPanels
    <2> QED
      BY <1>2, <2>1, <2>2, <2>3, ClassFields, PanelTabs DEF ShownAt, c
  <1>9. i \in {1, 2} \/ i \in {3, 4, 5} \/ i = 6 \/ i = 7
    BY <1>3
  <1> QED
    BY <1>5, <1>6, <1>7, <1>8, <1>9

LEMMA RedirectionShown ==
    ASSUME DialogInv, kind \in {"redirection", "dead"}, NEW i \in DOMAIN Checks, Checks[i].bad
    PROVE  ShownAt(Checks[i])
  <1> DEFINE c == Checks
  <1>1. c = IF kind = "dead" THEN DeadChecks(form) ELSE RedirectionChecks(form)
    BY DEF Checks
  <1> HIDE DEF c
  <1>2. DOMAIN form = IF kind = "dead" THEN DOMAIN DeadClass ELSE DOMAIN RedirectionClass
    BY DEF DialogInv, DialogTypes, Typed, Class
  <1>3. /\ c[i].tab = "details" /\ c[i].field \in {"pending", "domain_names", "forward_domain_name"}
        /\ kind = "dead" => c[i].field # "forward_domain_name"
    <2>1. CASE kind = "dead"
      <3>1. c = DeadChecks(form)
        BY <1>1, <2>1
      <3>2. i \in {1, 2}
        <4>1. DOMAIN c = 1..2
          BY <3>1, DeadChecksAre
        <4>2. i \in 1..2
          BY <4>1 DEF c
        <4>3. i \in {1, 2}
          BY <4>2
        <4> QED
          BY <4>1, <4>3
      <3> QED
        BY <2>1, <3>1, <3>2, DeadChecksAre
    <2>2. CASE kind = "redirection"
      <3>1. c = RedirectionChecks(form)
        BY <1>1, <2>2
      <3>2. i \in {1, 2, 3}
        <4>1. DOMAIN c = 1..3
          BY <3>1, RedirectionChecksAre
        <4>2. i \in 1..3
          BY <4>1 DEF c
        <4>3. i \in {1, 2, 3}
          BY <4>2
        <4> QED
          BY <4>1, <4>3
      <3> QED
        <4>1. c[1].tab = "details" /\ c[2].tab = "details" /\ c[3].tab = "details"
          BY <3>1, RedirectionChecksAre, Zenon
        <4>2. c[1].field = "pending" /\ c[2].field = "domain_names" /\ c[3].field = "forward_domain_name"
          BY <3>1, RedirectionChecksAre, Zenon
        <4> QED
          BY <2>2, <3>2, <4>1, <4>2
    <2> QED
      BY <2>1, <2>2
  <1>4. Shown(c[i].field)
    BY <1>3, PlainShown DEF LinkKinds
  <1>5. Opened(c[i]) = "details"
    BY <1>3 DEF Opened
  <1>6. Seen(c[i].field, "details")
    BY <1>3, <1>4, PanelTabs, PanelsHold, SeenIn
  <1>7. c[i].field \in DOMAIN form /\ "details" \in Tabs(kind)
    BY <1>2, <1>3, ClassFields, PanelTabs
  <1> QED
    BY <1>5, <1>6, <1>7 DEF ShownAt, c

LEMMA StreamShown ==
    ASSUME DialogInv, kind = "stream", NEW i \in DOMAIN Checks, Checks[i].bad
    PROVE  ShownAt(Checks[i])
  <1> DEFINE c == Checks
  <1>1. c = StreamChecks(form)
    BY DEF Checks
  <1> HIDE DEF c
  <1>2. DOMAIN form = DOMAIN StreamClass
    BY DEF DialogInv, DialogTypes, Typed, Class
  <1>3. i \in {1, 2, 3, 4, 5} /\ c[i].bad
    <2>1. DOMAIN c = 1..5
      BY <1>1, StreamChecksAre
    <2>2. i \in 1..5
      BY <2>1 DEF c
    <2>3. i \in {1, 2, 3, 4, 5}
      BY <2>2
    <2> QED
      BY <2>1, <2>3 DEF c
  <1>4. /\ c[i].tab = "details"
        /\ c[i].field \in {"incoming_port", "upstream_id", "forward_host", "forward_port", "tcp_forwarding"}
    <2>1. /\ c[1].tab = "details" /\ c[2].tab = "details" /\ c[3].tab = "details"
          /\ c[4].tab = "details" /\ c[5].tab = "details"
      BY <1>1, StreamChecksAre, Zenon
    <2>2. /\ c[1].field = "incoming_port" /\ c[2].field = "upstream_id" /\ c[3].field = "forward_host"
          /\ c[4].field = "forward_port" /\ c[5].field = "tcp_forwarding"
      BY <1>1, StreamChecksAre, Zenon
    <2> QED
      BY <1>3, <2>1, <2>2
  <1>5. /\ c[i].field = "upstream_id" => form.mode = "pool"
        /\ c[i].field \in {"forward_host", "forward_port"} => form.mode = "host"
    <2>1. /\ c[1].field = "incoming_port" /\ c[2].field = "upstream_id" /\ c[3].field = "forward_host"
          /\ c[4].field = "forward_port" /\ c[5].field = "tcp_forwarding"
      BY <1>1, StreamChecksAre, Zenon
    <2>2. /\ c[2].bad => form.mode = "pool"
          /\ c[3].bad => form.mode = "host"
          /\ c[4].bad => form.mode = "host"
      <3>1. c[2].bad = (form.mode = "pool" /\ form.upstream_id = "")
        BY <1>1, StreamChecksAre, Zenon
      <3>2. c[3].bad = (form.mode = "host" /\ form.forward_host = "")
        BY <1>1, StreamChecksAre, Zenon
      <3>3. c[4].bad = (form.mode = "host" /\ parsePortStrict(form.forward_port) = "null")
        BY <1>1, StreamChecksAre, Zenon
      <3> QED
        BY <3>1, <3>2, <3>3, Zenon
    <2>3. CASE i \in {1, 5}
      BY <2>1, <2>3
    <2>4. CASE i = 2
      BY <1>3, <2>1, <2>2, <2>4
    <2>5. CASE i = 3
      BY <1>3, <2>1, <2>2, <2>5
    <2>6. CASE i = 4
      BY <1>3, <2>1, <2>2, <2>6
    <2> QED
      BY <1>3, <2>3, <2>4, <2>5, <2>6
  <1>6. Shown(c[i].field)
    BY <1>4, <1>5 DEF Shown, TargetCell, emptyValues, LinkKinds
  <1>7. Opened(c[i]) = "details"
    BY <1>4 DEF Opened
  <1>8. Seen(c[i].field, "details")
    BY <1>4, <1>6, PanelTabs, PanelsHold, SeenIn
  <1>9. c[i].field \in DOMAIN form /\ "details" \in Tabs(kind)
    BY <1>2, <1>4, ClassFields, PanelTabs
  <1> QED
    BY <1>7, <1>8, <1>9 DEF ShownAt, c

LEMMA ListShown ==
    ASSUME DialogInv, kind = "access_list", NEW i \in DOMAIN Checks, Checks[i].bad
    PROVE  ShownAt(Checks[i])
  <1> DEFINE c == Checks
  <1>1. c = ListChecks(form)
    BY DEF Checks
  <1> HIDE DEF c
  <1>2. DOMAIN form = DOMAIN ListClass
    BY DEF DialogInv, DialogTypes, Typed, Class
  <1>3. i \in {1, 2, 3}
    <2>1. DOMAIN c = 1..3
      BY <1>1, ListChecksAre
    <2>2. i \in 1..3
      BY <2>1 DEF c
    <2>3. i \in {1, 2, 3}
      BY <2>2
    <2> QED
      BY <2>1, <2>3
  <1>4. /\ i = 1 => c[i].tab = "details" /\ c[i].field = "name"
        /\ i = 2 => c[i].tab = "authorization" /\ c[i].field = "users"
        /\ i = 3 => c[i].tab = "access" /\ c[i].field = "clients"
    BY <1>1, ListChecksAre
  <1>5. Opened(c[i]) = c[i].tab /\ c[i].tab \in Tabs(kind) /\ c[i].field \in DOMAIN form
    BY <1>2, <1>3, <1>4, ClassFields, PanelTabs DEF Opened
  <1>6. Shown("name")
    BY PlainShown DEF LinkKinds
  <1>7. Seen("name", "details")
    BY <1>6, PanelTabs, PanelsHold, SeenIn
  <1>8. Seen("users", "authorization") /\ Seen("clients", "access")
    BY DEF Seen, RowPanels
  <1>9. Seen(c[i].field, c[i].tab)
    BY <1>3, <1>4, <1>7, <1>8
  <1> QED
    BY <1>5, <1>9 DEF ShownAt, c

LEMMA CertificateShown ==
    ASSUME DialogInv, kind = "certificate", NEW i \in DOMAIN Checks, Checks[i].bad
    PROVE  ShownAt(Checks[i])
  <1> DEFINE c == Checks
  <1>1. c = IF tab = "custom" THEN CustomChecks(form) ELSE LetsEncryptChecks(form)
    BY DEF Checks
  <1>2. c[i].bad
    OBVIOUS
  <1> HIDE DEF c
  <1>3. DOMAIN form = DOMAIN CertificateClass /\ tab \in Tabs(kind)
    BY DEF DialogInv, DialogTypes, Typed, Class
  <1>4. tab \in {"custom", "letsencrypt"}
    BY <1>3, PanelTabs
  <1>5. CASE tab = "custom"
    <2>1. c = CustomChecks(form)
      BY <1>1, <1>5
    <2>2. i \in {1, 2, 3}
      <3>1. DOMAIN c = 1..3
        BY <2>1, CustomChecksAre
      <3>2. i \in 1..3
        BY <3>1 DEF c
      <3>3. i \in {1, 2, 3}
        BY <3>2
      <3> QED
        BY <3>1, <3>3
    <2>3. c[i].tab = "stay" /\ c[i].field \in {"custom_name", "cert_pem", "key_pem"}
      BY <2>1, <2>2, CustomChecksAre
    <2>4. Shown(c[i].field)
      BY <2>3, PlainShown DEF LinkKinds
    <2>5. Opened(c[i]) = tab
      BY <2>3 DEF Opened
    <2>6. Seen(c[i].field, tab)
      BY <1>5, <2>3, <2>4, PanelTabs, PanelsHold, SeenIn
    <2> QED
      BY <1>3, <2>3, <2>5, <2>6, ClassFields DEF ShownAt, c
  <1>6. CASE tab = "letsencrypt"
    <2>1. c = LetsEncryptChecks(form)
      BY <1>1, <1>6
    <2>2. i \in {1, 2, 3, 4}
      <3>1. DOMAIN c = 1..4
        BY <2>1, LetsEncryptChecksAre
      <3>2. i \in 1..4
        BY <3>1 DEF c
      <3>3. i \in {1, 2, 3, 4}
        BY <3>2
      <3> QED
        BY <3>1, <3>3
    <2>3. /\ c[i].tab = "stay" /\ c[i].field \in {"pending", "name", "domain_names", "dns_credential_id"}
          /\ c[i].field = "dns_credential_id" => form.challenge = "dns-01"
      <3>1. /\ c[1].field = "pending" /\ c[1].tab = "stay" /\ c[2].field = "name" /\ c[2].tab = "stay"
            /\ c[3].field = "domain_names" /\ c[3].tab = "stay" /\ c[4].field = "dns_credential_id"
            /\ c[4].tab = "stay" /\ (c[4].bad => form.challenge = "dns-01")
        BY <2>1, LetsEncryptChecksAre
      <3> QED
        BY <1>2, <2>2, <3>1
    <2>4. Shown(c[i].field)
      BY <2>3 DEF LinkKinds, Shown, emptyValues
    <2>5. Opened(c[i]) = tab
      BY <2>3 DEF Opened
    <2>6. Seen(c[i].field, tab)
      BY <1>6, <2>3, <2>4, PanelTabs, PanelsHold, SeenIn
    <2> QED
      BY <1>3, <2>3, <2>5, <2>6, ClassFields DEF ShownAt, c
  <1> QED
    BY <1>4, <1>5, <1>6

LEMMA WhitelistShown ==
    ASSUME DialogInv, kind = "whitelist", NEW i \in DOMAIN Checks, Checks[i].bad
    PROVE  ShownAt(Checks[i])
  <1> DEFINE c == Checks
  <1>1. c = WhitelistChecks(form)
    BY DEF Checks
  <1> HIDE DEF c
  <1>2. DOMAIN form = DOMAIN WhitelistFields /\ tab = "always" /\ "always" \in Tabs(kind)
    BY PanelTabs DEF DialogInv, DialogTypes, Typed, Class
  <1>3. form.wkind \in {"ip_cidr", "expression"}
    <2>1. DOMAIN WhitelistFields = {"wkind", "name", "ips", "cidrs", "filter", "expressions"}
      BY DEF WhitelistFields
    <2>2. form.wkind \in WhitelistFields.wkind
      BY <2>1 DEF DialogInv, DialogTypes, Typed, Class
    <2> QED
      BY <2>2 DEF WhitelistFields
  <1>4. i \in {1, 2, 3, 4} /\ c[i].bad
    <2>1. DOMAIN c = 1..4
      BY <1>1, WhitelistChecksAre
    <2>2. i \in 1..4
      BY <2>1 DEF c
    <2>3. i \in {1, 2, 3, 4}
      BY <2>2
    <2> QED
      BY <2>1, <2>3 DEF c
  <1>5. /\ c[i].tab = "stay" /\ c[i].field \in {"expressions", "ips", "cidrs"}
        /\ c[i].field = "expressions" => form.wkind # "ip_cidr"
        /\ c[i].field # "expressions" => form.wkind = "ip_cidr"
    BY <1>1, <1>4, WhitelistChecksAre
  <1>6. Shown(c[i].field)
    BY <1>3, <1>5 DEF Shown, emptyValues, LinkKinds
  <1>7. Opened(c[i]) = "always"
    BY <1>2, <1>5 DEF Opened
  <1>8. Seen(c[i].field, "always")
    BY <1>5, <1>6, PanelTabs, PanelsHold, SeenIn
  <1>9. c[i].field \in DOMAIN form
    BY <1>2, <1>5 DEF WhitelistFields
  <1> QED
    BY <1>2, <1>7, <1>8, <1>9 DEF ShownAt, c

LEMMA AccountShown ==
    ASSUME DialogInv, kind \in AccountKinds, AccountSendable(kind, form, hasOptions),
           NEW i \in DOMAIN Checks, Checks[i].bad, \A j \in DOMAIN Checks : j < i => ~Checks[j].bad
    PROVE  ShownAt(Checks[i])
  <1> DEFINE c == Checks
  <1>1. c = AccountChecks(kind, form, stored)
    BY KindNames DEF Checks
  <1>2. c[i].bad /\ i \in DOMAIN c /\ \A j \in DOMAIN c : j < i => ~c[j].bad
    OBVIOUS
  <1> HIDE DEF c
  <1>3. DOMAIN form = DOMAIN Class(kind) /\ tab = "always" /\ "always" \in Tabs(kind) /\ kind \in Kinds
    BY PanelTabs, ZenonT(60) DEF DialogInv, DialogTypes, Typed
  <1>4. kind \notin LinkKinds \/ hasOptions
    BY DEF AccountSendable
  <1>5. SUFFICES /\ c[i].tab = "stay" /\ c[i].field \in DOMAIN form
                 /\ c[i].field \in DOMAIN Panels(kind)["always"] /\ Shown(c[i].field)
    <2>1. Opened(c[i]) = "always"
      BY <1>3, <1>5 DEF Opened
    <2>2. Seen(c[i].field, "always")
      BY <1>5, PanelTabs, SeenIn
    <2> QED
      BY <1>3, <1>5, <2>1, <2>2 DEF ShownAt, c
  <1>6. CASE kind = "user"
    <2>1. c = UserChecks(form, stored)
      BY <1>1, <1>6 DEF AccountChecks
    <2>2. i \in {1, 2}
      <3>1. DOMAIN c = 1..2
        BY <2>1, UserChecksAre
      <3>2. i \in 1..2
        BY <3>1, <1>2
      <3>3. i \in {1, 2}
        BY <3>2
      <3> QED
        BY <3>1, <3>3
    <2>3. c[i].tab = "stay" /\ c[i].field \in {"email", "password"} /\ stored = NoHost
      <3>1. c[1].field = "email" /\ c[1].tab = "stay" /\ c[2].field = "password" /\ c[2].tab = "stay"
        BY <2>1, UserChecksAre, Zenon
      <3>2. /\ c[1].bad => stored = NoHost
            /\ c[2].bad => stored = NoHost
        <4>1. c[1].bad = (stored = NoHost /\ trim(form.email) = "")
          BY <2>1, UserChecksAre, Zenon
        <4>2. c[2].bad = (stored = NoHost /\ tooShort(form.password))
          BY <2>1, UserChecksAre, Zenon
        <4> QED
          BY <4>1, <4>2, Zenon
      <3>3. CASE i = 1
        BY <1>2, <3>1, <3>2, <3>3
      <3>4. CASE i = 2
        BY <1>2, <3>1, <3>2, <3>4
      <3> QED
        BY <2>2, <3>3, <3>4
    <2>4. Shown(c[i].field)
      BY <1>6, <2>3 DEF Shown, emptyValues, LinkKinds, UserControl
    <2>5. c[i].field \in DOMAIN form
      BY <1>3, <1>6, <2>3 DEF Class, UserFields
    <2> QED
      BY <1>6, <2>3, <2>4, <2>5, PanelsHold
  <1>7. CASE kind = "invite"
    <2>1. c = InviteChecks(form)
      BY <1>1, <1>7 DEF AccountChecks
    <2>2. c[i].tab = "stay" /\ c[i].field = "email"
      <3>1. DOMAIN c = 1..1 /\ c[1].field = "email" /\ c[1].tab = "stay"
        BY <2>1, InviteChecksAre
      <3>2. i = 1
        BY <1>2, <3>1
      <3> QED
        BY <3>1, <3>2
    <2>3. Shown(c[i].field)
      BY <1>4, <1>7, <2>2, PlainShown
    <2>4. c[i].field \in DOMAIN form
      BY <1>3, <1>7, <2>2 DEF Class, InviteFields
    <2> QED
      BY <1>7, <2>2, <2>3, <2>4, PanelsHold
  <1>8. CASE kind \in {"reset_password", "change_password", "reset_link", "accept_invite"}
    <2>1. c = validateNewPassword(form)
      BY <1>1, <1>8 DEF AccountChecks
    <2>2. i \in {1, 2}
      <3>1. DOMAIN c = 1..2
        BY <2>1, PasswordChecksAre
      <3>2. i \in 1..2
        BY <3>1, <1>2
      <3>3. i \in {1, 2}
        BY <3>2
      <3> QED
        BY <3>1, <3>3
    <2>3. c[i].tab = "stay" /\ c[i].field \in {"password", "confirm"}
      BY <2>1, <2>2, PasswordChecksAre
    <2>4. Shown(c[i].field)
      BY <1>4, <1>8, <2>3, PlainShown
    <2>5. c[i].field \in DOMAIN form
      BY <1>3, <1>8, <2>3 DEF Class, PasswordPair
    <2> QED
      BY <1>8, <2>3, <2>4, <2>5, PanelsHold
  <1>9. CASE kind = "dns_credential"
    <2>1. c = DnsChecks(form, stored)
      BY <1>1, <1>9 DEF AccountChecks
    <2>2. DOMAIN c = 1..3 /\ i \in {1, 2, 3}
      <3>1. DOMAIN c = 1..3
        BY <2>1, DnsChecksAre
      <3>2. i \in 1..3
        BY <3>1, <1>2
      <3>3. i \in {1, 2, 3}
        BY <3>2
      <3> QED
        BY <3>1, <3>3
    <2>a. /\ c[1].field = "name" /\ c[1].tab = "stay" /\ c[2].field = "provider" /\ c[2].tab = "stay"
          /\ c[3].field = "token" /\ c[3].tab = "stay"
      BY <2>1, DnsChecksAre, ZenonT(60)
    <2>3. c[i].tab = "stay" /\ c[i].field \in {"name", "provider", "token"}
      BY <2>2, <2>a
    <2>4. c[i].field \in DOMAIN form
      BY <1>3, <1>9, <2>3 DEF Class, DnsClass
    <2>5. CASE i \in {1, 2}
      <3>1. c[i].field \in {"name", "provider"}
        BY <2>5, <2>a
      <3>2. Shown(c[i].field)
        BY <1>4, <1>9, <3>1, PlainShown
      <3> QED
        BY <1>9, <2>3, <2>4, <3>2, PanelsHold
    <2>6. CASE i = 3
      <3>1. ~c[2].bad
        BY <1>2, <2>2, <2>6
      <3>2. form.provider # "" /\ c[i].field = "token"
        BY <2>1, <2>6, <3>1, DnsChecksAre
      <3>3. form.provider \in {"cf", "aws"}
        BY <1>9, <3>2, DnsPayloadIs DEF DialogInv, DialogTypes
      <3>4. "token" \in Catalog["cf"] /\ "token" \in Catalog["aws"]
        BY DEF Catalog
      <3>5. "token" \in Catalog[form.provider]
        BY <3>3, <3>4
      <3>6. Shown("token")
        BY <1>9, <3>2, <3>5 DEF Shown, emptyValues, LinkKinds
      <3> QED
        BY <1>9, <2>3, <2>4, <3>2, <3>6, PanelsHold
    <2> QED
      BY <2>2, <2>5, <2>6
  <1>10. kind # "forgot_password"
    <2>1. kind = "forgot_password" => DOMAIN c = {}
      BY <1>1 DEF AccountChecks
    <2> QED
      BY <1>2, <2>1
  <1> QED
    BY <1>3, <1>6, <1>7, <1>8, <1>9, <1>10, KindNames

-----------------------------------------------------------------------------
(* Submit.                                                                 *)

LEMMA LeastOf ==
    ASSUME NEW B, B \subseteq 1..7, B # {}
    PROVE  \E i \in B : \A j \in B : i <= j
  <1>1. \A j \in B : j \in {1, 2, 3, 4, 5, 6, 7}
    OBVIOUS
  <1>2. CASE 1 \in B
    BY <1>1, <1>2
  <1>3. CASE 1 \notin B /\ 2 \in B
    BY <1>1, <1>3
  <1>4. CASE 1 \notin B /\ 2 \notin B /\ 3 \in B
    BY <1>1, <1>4
  <1>5. CASE 1 \notin B /\ 2 \notin B /\ 3 \notin B /\ 4 \in B
    BY <1>1, <1>5
  <1>6. CASE 1 \notin B /\ 2 \notin B /\ 3 \notin B /\ 4 \notin B
    <2>1. \A j \in B : j \in {5, 6, 7}
      BY <1>1, <1>6
    <2>2. CASE 5 \in B
      BY <2>1, <2>2
    <2>3. CASE 5 \notin B /\ 6 \in B
      BY <2>1, <2>3
    <2>4. CASE 5 \notin B /\ 6 \notin B
      <3>1. \A j \in B : j = 7
        BY <2>1, <2>4
      <3>2. PICK j \in B : TRUE
        OBVIOUS
      <3>3. 7 <= 7
        OBVIOUS
      <3> QED
        BY <3>1, <3>2, <3>3
    <2> QED
      BY <2>2, <2>3, <2>4
  <1> QED
    BY <1>2, <1>3, <1>4, <1>5, <1>6

LEMMA FewChecks ==
    ASSUME kind \in Kinds
    PROVE  DOMAIN Checks \subseteq 1..7
  <1>1. \A n \in {1, 2, 3, 4, 5, 7} : 1..n \subseteq 1..7
    OBVIOUS
  <1>2. CASE kind \in {"proxy", "redirection", "dead", "stream"}
    <2>1. DOMAIN Checks \in {1..7, 1..3, 1..2, 1..5}
      BY <1>2, ProxyChecksAre, RedirectionChecksAre, DeadChecksAre, StreamChecksAre, ZenonT(60) DEF Checks
    <2> QED
      BY <1>1, <2>1
  <1>3. CASE kind \in {"access_list", "certificate", "whitelist"}
    <2>1. DOMAIN Checks \in {1..3, 1..4}
      BY <1>3, ListChecksAre, LetsEncryptChecksAre, CustomChecksAre, WhitelistChecksAre, Zenon DEF Checks
    <2> QED
      BY <1>1, <2>1
  <1>4. CASE kind \in AccountKinds
    <2>1. Checks = AccountChecks(kind, form, stored)
      BY <1>4, KindNames DEF Checks
    <2>2. DOMAIN AccountChecks(kind, form, stored) \in {1..1, 1..2, 1..3, {}}
      <3>1. DOMAIN << >> = {}
        OBVIOUS
      <3> QED
        BY <1>4, <3>1, KindNames, UserChecksAre, InviteChecksAre, DnsChecksAre, PasswordChecksAre, ZenonT(60)
           DEF AccountChecks
    <2> QED
      BY <1>1, <2>1, <2>2
  <1> QED
    BY <1>2, <1>3, <1>4, KindNames

\* Either the first check that fails is named, or the payload leaves.
Named(i) ==
    /\ i \in DOMAIN Checks /\ Checks[i].bad /\ \A j \in DOMAIN Checks : j < i => ~Checks[j].bad
    /\ problem' = Checks[i].field /\ tab' = Opened(Checks[i])
    /\ UNCHANGED <<step, sent>>
Leaves ==
    /\ \A i \in DOMAIN Checks : ~Checks[i].bad
    /\ problem' = "none" /\ step' = "sent" /\ sent' = Payload /\ tab' = tab

LEMMA SubmitSplit ==
    ASSUME DialogInv, Submit
    PROVE  (\E i : Named(i)) \/ Leaves
  <1> DEFINE bad == {i \in DOMAIN Checks : Checks[i].bad}
             first == CHOOSE i \in bad : \A j \in bad : i <= j
  <1>1. IF bad # {}
        THEN /\ problem' = Checks[first].field
             /\ tab' = IF Checks[first].tab = "stay" THEN tab ELSE Checks[first].tab
             /\ UNCHANGED <<step, sent>>
        ELSE /\ problem' = "none" /\ step' = "sent" /\ sent' = Payload
             /\ tab' = tab
    BY DEF Submit
  <1>2. DOMAIN Checks \subseteq 1..7
    BY FewChecks DEF DialogInv, DialogTypes
  <1>3. CASE bad = {}
    BY <1>1, <1>3 DEF Leaves
  <1>4. CASE bad # {}
    <2>1. \E i \in bad : \A j \in bad : i <= j
      BY <1>2, <1>4, LeastOf
    <2>2. first \in bad /\ \A j \in bad : first <= j
      BY <2>1
    <2>3. first \in DOMAIN Checks /\ Checks[first].bad
      BY <2>2
    <2>4. \A j \in DOMAIN Checks : j < first => ~Checks[j].bad
      <3> SUFFICES ASSUME NEW j \in DOMAIN Checks, j < first, Checks[j].bad PROVE FALSE
        OBVIOUS
      <3>1. j \in bad
        OBVIOUS
      <3>2. first <= j
        BY <2>2, <3>1
      <3>3. first \in 1..7 /\ j \in 1..7
        BY <1>2, <2>3
      <3> HIDE DEF first
      <3> QED
        BY <3>2, <3>3
    <2> HIDE DEF first
    <2>5. Named(first)
      BY <1>1, <1>4, <2>3, <2>4 DEF Named, Opened
    <2> QED
      BY <2>5
  <1> QED
    BY <1>3, <1>4

LEMMA NamedIsShown ==
    ASSUME DialogInv, Submit, NEW i, Named(i)
    PROVE  ShownAt(Checks[i])
  <1>1. i \in DOMAIN Checks /\ Checks[i].bad /\ \A j \in DOMAIN Checks : j < i => ~Checks[j].bad
    BY DEF Named
  <1>2. AccountSendable(kind, form, hasOptions) /\ kind \in Kinds
    BY DEF Submit, DialogInv, DialogTypes
  <1> QED
    BY <1>1, <1>2, KindNames, ProxyShown, RedirectionShown, StreamShown, ListShown, CertificateShown,
       WhitelistShown, AccountShown

LEMMA NamedKeeps ==
    ASSUME DialogInv, Submit, NEW i, Named(i)
    PROVE  DialogInv'
  <1>1. /\ step = "editing" /\ tries < MaxTries /\ tries' = tries + 1
        /\ UNCHANGED <<kind, stored, hasOptions, users, form, touched, edits>>
    BY DEF Submit, AtForm, context
  <1>2. problem' = Checks[i].field /\ tab' = Opened(Checks[i]) /\ UNCHANGED <<step, sent>>
    BY DEF Named
  <1>3. problem' \in DOMAIN form /\ tab' \in Tabs(kind)
    BY <1>2, NamedIsShown DEF ShownAt
  <1>4. tries' \in 0..MaxTries
    <2>1. MaxTries \in Nat /\ tries \in 0..MaxTries
      BY DialogConstants DEF DialogInv, DialogTypes
    <2> QED
      BY <1>1, <2>1, CountUp
  <1>5. DialogTypes'
    BY <1>1, <1>2, <1>3, <1>4 DEF DialogInv, DialogTypes
  <1>6. Untouched'
    BY <1>1, SeedStays DEF DialogInv, Untouched, isEdit
  <1>7. /\ TokenOfProvider' /\ SentIsPayload' /\ AcceptedByApi' /\ EditsAreSent'
        /\ PasswordsAsEntered'
    BY <1>1, <1>2 DEF DialogInv, TokenOfProvider, isEdit, SentIsPayload, AcceptedByApi,
       EditsAreSent, PasswordsAsEntered
  <1> QED
    BY <1>1, <1>2, <1>5, <1>6, <1>7, SentKept DEF DialogInv

\* What is left to show of a payload that leaves.
Sound(p) ==
    /\ \A f \in DOMAIN p \ {"users"} : Refused(kind, p, stored, f) => LeftToApi(p, f)
    /\ "users" \in DOMAIN p => LeftToApi(p, "users")
Faithful(p) ==
    isEdit => \A x \in DOMAIN p : DecidedBy(x) \cap touched = {} => AsStored(p, x)
Whole(p) ==
    /\ FieldsAreSent(p)
    /\ kind = "proxy" => LocationsAreSent(p)
    /\ kind = "access_list" => UsersAreSent(p) /\ ClientsAreSent(p)
    /\ kind = "dns_credential" => form.provider # ""

\* It depends on the form and on what the dialog was opened on, and on nothing else.
LEMMA PartsStay ==
    ASSUME UNCHANGED <<kind, stored, hasOptions, form, tab>>, NEW p
    PROVE  /\ \A f : LeftToApi(p, f)' <=> LeftToApi(p, f)
           /\ \A x : AsStored(p, x)' <=> AsStored(p, x)
           /\ FieldsAreSent(p)' <=> FieldsAreSent(p)
           /\ LocationsAreSent(p)' <=> LocationsAreSent(p)
           /\ UsersAreSent(p)' <=> UsersAreSent(p)
           /\ ClientsAreSent(p)' <=> ClientsAreSent(p)
  <1>1. ASSUME NEW f PROVE LeftToApi(p, f)' <=> LeftToApi(p, f)
    BY ZenonT(60) DEF LeftToApi
  <1>2. ASSUME NEW x PROVE AsStored(p, x)' <=> AsStored(p, x)
    BY ZenonT(60) DEF AsStored
  <1>3. \A x : Shown(x)' <=> Shown(x)
    BY ZenonT(60) DEF Shown
  <1>4. \A x, v : Meaning(x, v)' = Meaning(x, v)
    BY ZenonT(60) DEF Meaning
  <1>5. \A x : FieldIsSent(p, x)' <=> FieldIsSent(p, x)
    BY <1>3, <1>4, ZenonT(60) DEF FieldIsSent
  <1>6. \A x : MayBeLeftOut(p, x)' <=> MayBeLeftOut(p, x)
    BY ZenonT(60) DEF MayBeLeftOut, isEdit
  <1>7. FieldsAreSent(p)' <=> FieldsAreSent(p)
    BY <1>5, <1>6, ZenonT(60) DEF FieldsAreSent
  <1>8. LocationsAreSent(p)' <=> LocationsAreSent(p)
    BY <1>4, ZenonT(60) DEF LocationsAreSent
  <1>9. UserRowsInUse' = UserRowsInUse /\ ClientRowsInUse' = ClientRowsInUse
    BY ZenonT(60) DEF UserRowsInUse, ClientRowsInUse
  <1>10. UsersAreSent(p)' <=> UsersAreSent(p)
    BY <1>9, ZenonT(60) DEF UsersAreSent
  <1>11. ClientsAreSent(p)' <=> ClientsAreSent(p)
    BY <1>9, ZenonT(60) DEF ClientsAreSent
  <1> QED
    BY <1>1, <1>2, <1>7, <1>8, <1>10, <1>11

\* A value without blanks around it means itself, but where "none", a port or a
\* blank have a meaning of their own.
LEMMA PlainMeaning ==
    ASSUME NEW x, NEW v, trim(v) = v,
           x \notin {"incoming_port", "forward_port", "certificate_id", "access_list_id",
                     "account_email", "chain_pem", "filter", "token", "zone", "region"}
    PROVE  Meaning(x, v) = v
  BY DEF Meaning

\* The texts of the host dialogs have no blanks around them.
LEMMA NoBlanks ==
    ASSUME kind \in HostKinds, Typed(kind, form),
           NEW x \in DOMAIN form \ {"locations", "users", "clients"}
    PROVE  trim(form[x]) = form[x]
  <1>1. SUFFICES form[x] \notin {" ", " n"}
    BY DEF trim
  <1>2. DOMAIN form = DOMAIN Class(kind) /\ form[x] \in Class(kind)[x]
    BY DEF Typed
  <1> USE DEF Toggle, Ports
  <1>3. CASE kind = "proxy"
    <2>1. Class(kind) = ProxyClass
      BY <1>3 DEF Class
    <2>2. /\ ProxyClass.domain_names = {"none", "ok"} /\ ProxyClass.pending = {"none", "bad"}
          /\ ProxyClass.access_list_id = {"none", "1"} /\ ProxyClass.enabled = Toggle
          /\ ProxyClass.mode = {"pool", "host"} /\ ProxyClass.upstream_id = {"", "p"}
          /\ ProxyClass.forward_host = {"", "h"} /\ ProxyClass.forward_port = Ports
          /\ ProxyClass.forward_scheme = {"http", "https"} /\ ProxyClass.certificate_id = {"none", "active", "pending"}
          /\ ProxyClass.options = Toggle /\ ProxyClass.tls = Toggle
          /\ ProxyClass.security = Toggle /\ ProxyClass.maintenance = Toggle
          /\ ProxyClass.maintenance_allow = {"empty", "ok", "loose", "bad"} /\ ProxyClass.advanced_config = {"", "text"}
      BY DEF ProxyClass
    <2>3. x \in {"domain_names", "pending", "access_list_id", "enabled", "mode", "upstream_id",
               "forward_host", "forward_port", "forward_scheme", "locations", "certificate_id",
               "options", "tls", "security", "maintenance", "maintenance_allow", "advanced_config"}
      BY <1>2, <2>1, ClassFields
    <2>4. form[x] \in ProxyClass[x]
      BY <1>2, <2>1
    <2> QED
      BY ZenonT(60), <2>2, <2>3, <2>4
  <1>4. CASE kind = "redirection"
    <2>1. Class(kind) = RedirectionClass
      BY <1>4 DEF Class
    <2>2. /\ RedirectionClass.domain_names = {"none", "ok"} /\ RedirectionClass.pending = {"none", "bad"}
          /\ RedirectionClass.forward_domain_name = {"", "d", "a b"} /\ RedirectionClass.forward_scheme = {"auto", "https"}
          /\ RedirectionClass.forward_http_code = {"302", "301"} /\ RedirectionClass.preserve_path = Toggle
          /\ RedirectionClass.certificate_id = {"none", "active", "pending"} /\ RedirectionClass.enabled = Toggle
          /\ RedirectionClass.options = Toggle /\ RedirectionClass.tls = Toggle
      BY DEF RedirectionClass
    <2>3. x \in {"domain_names", "pending", "forward_domain_name", "forward_scheme",
               "forward_http_code", "preserve_path", "certificate_id", "enabled", "options", "tls"}
      BY <1>2, <2>1, ClassFields
    <2>4. form[x] \in RedirectionClass[x]
      BY <1>2, <2>1
    <2> QED
      BY <2>2, <2>3, <2>4
  <1>5. CASE kind = "dead"
    <2>1. Class(kind) = DeadClass
      BY <1>5 DEF Class
    <2>2. /\ DeadClass.domain_names = {"none", "ok"} /\ DeadClass.pending = {"none", "bad"}
          /\ DeadClass.certificate_id = {"none", "active", "pending"} /\ DeadClass.enabled = Toggle
          /\ DeadClass.options = Toggle /\ DeadClass.tls = Toggle
      BY DEF DeadClass
    <2>3. x \in {"domain_names", "pending", "certificate_id", "enabled", "options", "tls"}
      BY <1>2, <2>1, ClassFields
    <2>4. form[x] \in DeadClass[x]
      BY <1>2, <2>1
    <2> QED
      BY <2>2, <2>3, <2>4
  <1>6. CASE kind = "stream"
    <2>1. Class(kind) = StreamClass
      BY <1>6 DEF Class
    <2>2. /\ StreamClass.mode = {"pool", "host"} /\ StreamClass.upstream_id = {"", "p"}
          /\ StreamClass.incoming_port = Ports /\ StreamClass.forward_host = {"", "h"}
          /\ StreamClass.forward_port = Ports /\ StreamClass.tcp_forwarding = Toggle
          /\ StreamClass.udp_forwarding = Toggle /\ StreamClass.certificate_id = {"none", "active", "pending"}
          /\ StreamClass.enabled = Toggle
      BY DEF StreamClass
    <2>3. x \in {"mode", "upstream_id", "incoming_port", "forward_host", "forward_port",
               "tcp_forwarding", "udp_forwarding", "certificate_id", "enabled"}
      BY <1>2, <2>1, ClassFields
    <2>4. form[x] \in StreamClass[x]
      BY <1>2, <2>1
    <2> QED
      BY <2>2, <2>3, <2>4
  <1>7. CASE kind = "access_list"
    <2>1. Class(kind) = ListClass
      BY <1>7 DEF Class
    <2>2. /\ ListClass.name = {"", "n"} /\ ListClass.satisfy_any = Toggle
          /\ ListClass.pass_auth = Toggle
      BY DEF ListClass
    <2>3. x \in {"name", "satisfy_any", "pass_auth", "users", "clients"}
      BY <1>2, <2>1, ClassFields
    <2>4. form[x] \in ListClass[x]
      BY <1>2, <2>1
    <2> QED
      BY <2>2, <2>3, <2>4
  <1>8. CASE kind = "certificate"
    <2>1. Class(kind) = CertificateClass
      BY <1>8 DEF Class
    <2>2. /\ CertificateClass.domain_names = {"none", "ok"} /\ CertificateClass.pending = {"none", "bad"}
          /\ CertificateClass.name = {"", "n"} /\ CertificateClass.challenge = {"http-01", "dns-01"}
          /\ CertificateClass.dns_credential_id = {"", "d"} /\ CertificateClass.account_email = {"", "e"}
          /\ CertificateClass.custom_name = {"", "n"} /\ CertificateClass.cert_pem = {"", "c"}
          /\ CertificateClass.key_pem = {"", "k"} /\ CertificateClass.chain_pem = {"", "x"}
      BY DEF CertificateClass
    <2>3. x \in {"domain_names", "pending", "name", "challenge", "dns_credential_id",
               "account_email", "custom_name", "cert_pem", "key_pem", "chain_pem"}
      BY <1>2, <2>1, ClassFields
    <2>4. form[x] \in CertificateClass[x]
      BY <1>2, <2>1
    <2> QED
      BY <2>2, <2>3, <2>4
  <1>9. CASE kind = "whitelist"
    <2>1. Class(kind) = WhitelistFields
      BY <1>9 DEF Class
    <2>2. /\ WhitelistFields.wkind = {"ip_cidr", "expression"} /\ WhitelistFields.name = {"", "n"}
          /\ WhitelistFields.ips = {"", "ok", "v6", "loose", "bad"} /\ WhitelistFields.cidrs = {"", "ok", "loose", "bad"}
          /\ WhitelistFields.filter = {"", "f"} /\ WhitelistFields.expressions = {"", "e"}
      BY DEF WhitelistFields
    <2>3. x \in {"wkind", "name", "ips", "cidrs", "filter", "expressions"}
      BY <1>2, <2>1, ClassFields
    <2>4. form[x] \in WhitelistFields[x]
      BY <1>2, <2>1
    <2> QED
      BY <2>2, <2>3, <2>4
  <1> QED
    BY <1>3, <1>4, <1>5, <1>6, <1>7, <1>8, <1>9, KindNames

\* A field whose text is sent as it stands, and a reference that may be "none".
LEMMA PlainIsSent ==
    ASSUME kind \in HostKinds, Typed(kind, form), NEW p, NEW x \in DOMAIN form, p[x] = form[x],
           x \notin {"locations", "users", "clients", "upstream_id", "forward_host", "forward_port",
                     "incoming_port", "certificate_id", "access_list_id", "dns_credential_id",
                     "account_email", "chain_pem", "ips", "cidrs", "filter", "expressions", "token",
                     "zone", "region"}
    PROVE  FieldIsSent(p, x)
  <1>1. kind \notin LinkKinds /\ kind # "user"
    BY KindNames DEF LinkKinds
  <1>2. trim(form[x]) = form[x]
    BY NoBlanks
  <1>3. Meaning(x, form[x]) = form[x]
    BY <1>2, PlainMeaning
  <1>4. Shown(x) \/ x = "maintenance_allow"
    BY <1>1, PlainShown
  <1> QED
    BY <1>3, <1>4 DEF FieldIsSent

LEMMA ReferenceIsSent ==
    ASSUME kind \in HostKinds, NEW p, NEW x \in {"certificate_id", "access_list_id"},
           p[x] = certificateIdFromValue(form[x])
    PROVE  FieldIsSent(p, x)
  <1>1. kind \notin LinkKinds /\ kind # "user" /\ kind # "forgot_password"
    BY KindNames DEF LinkKinds
  <1>2. Shown(x)
    BY <1>1, PlainShown
  <1>3. \A v : Meaning(x, v) = IF v = "none" THEN "null" ELSE v
    BY <1>1 DEF Meaning
  <1> QED
    BY <1>2, <1>3, Zenon DEF FieldIsSent, certificateIdFromValue

\* The target of a proxy host or a stream, of which one kind is on the screen.
LEMMA TargetIsSent ==
    ASSUME kind \in {"proxy", "stream"}, Typed(kind, form), form.mode \in {"pool", "host"},
           {"upstream_id", "forward_host", "forward_port"} \subseteq DOMAIN form, NEW p,
           form.mode = "pool" =>
              p.upstream_id = form.upstream_id /\ p.forward_host = "null" /\ p.forward_port = "null",
           form.mode = "host" =>
              /\ p.upstream_id = "null" /\ p.forward_host = form.forward_host
              /\ p.forward_port = Meaning("forward_port", form.forward_port),
           NEW x \in {"upstream_id", "forward_host", "forward_port"}
    PROVE  FieldIsSent(p, x)
  <1>1. Shown(x) <=> x \in TargetCell(form.mode)
    <2>1. kind \notin LinkKinds /\ x \notin DOMAIN emptyValues /\ kind # "user"
      BY DEF LinkKinds, emptyValues
    <2> QED
      BY <2>1 DEF Shown
  <1>2. kind \in HostKinds
    BY KindNames
  <1>3. x # "forward_port" => Meaning(x, form[x]) = form[x]
    BY <1>2, NoBlanks, PlainMeaning
  <1>4. Nothing(x) = "null"
    BY DEF Nothing
  <1>5. CASE form.mode = "pool"
    <2>1. TargetCell(form.mode) = {"upstream_id"}
      BY <1>5 DEF TargetCell
    <2> QED
      BY <1>1, <1>3, <1>4, <1>5, <2>1 DEF FieldIsSent
  <1>6. CASE form.mode = "host"
    <2>1. TargetCell(form.mode) = {"forward_host", "forward_port"}
      BY <1>6 DEF TargetCell
    <2> QED
      BY <1>1, <1>3, <1>4, <1>6, <2>1 DEF FieldIsSent
  <1> QED
    BY <1>5, <1>6

\* The dialogs without a table.
LEMMA NoTables ==
    ASSUME kind \in Kinds \ {"proxy", "access_list"}
    PROVE  DOMAIN RowPanels(kind) = {}
  BY DEF RowPanels

LEMMA LeavesKeeps ==
    ASSUME DialogInv, Submit, Leaves, Sound(Payload), Faithful(Payload), Whole(Payload)
    PROVE  DialogInv'
  <1>1. /\ step = "editing" /\ tries < MaxTries /\ tries' = tries + 1
        /\ UNCHANGED <<kind, stored, hasOptions, users, form, touched, edits>>
    BY DEF Submit, AtForm, context
  <1>2. problem' = "none" /\ step' = "sent" /\ sent' = Payload /\ tab' = tab
    BY DEF Leaves
  <1>3. tries' \in 0..MaxTries
    <2>1. MaxTries \in Nat /\ tries \in 0..MaxTries
      BY DialogConstants DEF DialogInv, DialogTypes
    <2> QED
      BY <1>1, <2>1, CountUp
  <1>4. DialogTypes'
    BY <1>1, <1>2, <1>3 DEF DialogInv, DialogTypes
  <1>5. Untouched'
    BY <1>1, SeedStays DEF DialogInv, Untouched, isEdit
  <1>6. TokenOfProvider' /\ PasswordsAsEntered'
    BY <1>1, <1>2 DEF DialogInv, TokenOfProvider, isEdit, PasswordsAsEntered, Whole
  <1>7. EditsAreSent'
    BY <1>1, <1>2, PartsStay DEF EditsAreSent, Whole
  <1>8. SentIsPayload'
    <2>1. Payload' = Payload
      BY <1>1, <1>2, Zenon DEF Payload
    <2> QED
      BY <1>1, <1>2, <2>1 DEF DialogInv, SentIsPayload, Secretive
  <1>9. AcceptedByApi'
    <2> SUFFICES ASSUME NEW f \in ApiRefuses(kind, sent)' PROVE LeftToApi(sent, f)'
      BY DEF AcceptedByApi
    <2>1. CASE f = "users"
      <3>1. "users" \in DOMAIN Payload
        BY <1>2, <2>1 DEF ApiRefuses
      <3> QED
        BY <1>1, <1>2, <2>1, <3>1, PartsStay DEF Sound
    <2>2. CASE f # "users"
      <3>1. f \in DOMAIN sent' /\ Refused(kind', sent', stored', f)
        BY <2>2, RefusedIs
      <3>2. LeftToApi(Payload, f)
        BY <1>1, <1>2, <2>2, <3>1 DEF Sound
      <3> QED
        BY <1>1, <1>2, <3>2, PartsStay
    <2> QED
      BY <2>1, <2>2
  <1>10. OnlyEditsAreSent'
    BY <1>1, <1>2, PartsStay DEF OnlyEditsAreSent, Faithful, isEdit
  <1> QED
    BY <1>4, <1>5, <1>6, <1>7, <1>8, <1>9, <1>10 DEF DialogInv

\* Redirections and 404 hosts.
LEMMA RedirectionLeaves ==
    ASSUME DialogInv, kind \in {"redirection", "dead"}, \A i \in DOMAIN Checks : ~Checks[i].bad
    PROVE  Sound(Payload) /\ Faithful(Payload) /\ Whole(Payload)
  <1> DEFINE p == RedirectionPayload(form, stored)
             fields == {"domain_names", "pending", "certificate_id", "enabled", "options", "tls"}
                         \cup (IF kind = "dead" THEN {}
                               ELSE {"forward_domain_name", "forward_scheme", "forward_http_code", "preserve_path"})
  <1>1. Payload = p
    BY DEF Payload, DeadPayload
  <1>2. Typed(kind, form) /\ stored \in RowsOf(kind) \cup {NoHost} /\ Untouched
    BY DEF DialogInv, DialogTypes
  <1>3. DOMAIN form = fields
    BY <1>2, ClassFields DEF Typed, Class
  <1>4. /\ form.domain_names \in {"none", "ok"} /\ form.pending \in {"none", "bad"}
        /\ form.certificate_id \in {"none", "active", "pending"}
    <2>1. CASE kind = "redirection"
      <3>1. Class(kind) = RedirectionClass
        BY <2>1 DEF Class
      <3>2. /\ form.domain_names \in RedirectionClass.domain_names /\ form.pending \in RedirectionClass.pending
            /\ form.certificate_id \in RedirectionClass.certificate_id
        BY <1>2, <1>3, <3>1 DEF Typed
      <3> QED
        BY <3>2 DEF RedirectionClass
    <2>2. CASE kind = "dead"
      <3>1. Class(kind) = DeadClass
        BY <2>2 DEF Class
      <3>2. /\ form.domain_names \in DeadClass.domain_names /\ form.pending \in DeadClass.pending
            /\ form.certificate_id \in DeadClass.certificate_id
        BY <1>2, <1>3, <3>1 DEF Typed
      <3> QED
        BY <3>2 DEF DeadClass
    <2> QED
      BY <2>1, <2>2
  <1>5. kind = "redirection" => form.forward_domain_name \in {"", "d", "a b"}
    <2> SUFFICES ASSUME kind = "redirection" PROVE form.forward_domain_name \in {"", "d", "a b"}
      OBVIOUS
    <2>1. Class(kind) = RedirectionClass
      BY DEF Class
    <2>2. form.forward_domain_name \in RedirectionClass.forward_domain_name
      BY <1>2, <1>3, <2>1 DEF Typed
    <2> QED
      BY <2>2 DEF RedirectionClass
  <1>6. /\ form.pending # "bad" /\ form.domain_names # "none"
        /\ kind = "redirection" => form.forward_domain_name # ""
    <2>1. CASE kind = "redirection"
      <3>1. Checks = RedirectionChecks(form)
        BY <2>1 DEF Checks
      <3>2. \A i \in {1, 2, 3} : ~RedirectionChecks(form)[i].bad
        <4>1. DOMAIN RedirectionChecks(form) = 1..3
          BY RedirectionChecksAre
        <4>2. \A i \in {1, 2, 3} : i \in 1..3
          OBVIOUS
        <4> QED
          BY <3>1, <4>1, <4>2
      <3> QED
        BY <3>2, RedirectionChecksAre
    <2>2. CASE kind = "dead"
      <3>1. Checks = DeadChecks(form)
        BY <2>2 DEF Checks
      <3>2. \A i \in {1, 2} : ~DeadChecks(form)[i].bad
        <4>1. DOMAIN DeadChecks(form) = 1..2
          BY DeadChecksAre
        <4>2. \A i \in {1, 2} : i \in 1..2
          OBVIOUS
        <4> QED
          BY <3>1, <4>1, <4>2
      <3> QED
        BY <2>2, <3>2, DeadChecksAre
    <2> QED
      BY <2>1, <2>2
  <1>7. /\ DOMAIN p = {"id", "advanced_config"} \cup (fields \ {"pending"})
        /\ p.id = stored.id /\ p.advanced_config = KeptConfig(stored)
        /\ p.certificate_id = certificateIdFromValue(form.certificate_id)
        /\ \A x \in fields \ {"pending", "certificate_id"} : p[x] = form[x]
    BY <1>3 DEF RedirectionPayload
  <1> HIDE DEF p
  <1>8. Sound(p)
    <2> SUFFICES ASSUME NEW f \in DOMAIN p \ {"users"}, Refused(kind, p, stored, f) PROVE LeftToApi(p, f)
      BY <1>7 DEF Sound
    <2>1. kind \notin AccountKinds
      BY KindNames
    <2>2. f \in {"domain_names", "forward_domain_name"}
      BY <1>7, <2>1 DEF Refused
    <2>3. p.domain_names = form.domain_names
      BY <1>7
    <2>4. f = "forward_domain_name"
      BY <1>4, <1>6, <2>1, <2>2, <2>3 DEF Refused
    <2>5. kind = "redirection" /\ p.forward_domain_name = form.forward_domain_name
      BY <1>7, <2>4
    <2>6. p.forward_domain_name # "d"
      BY <2>1, <2>4 DEF Refused
    <2> QED
      BY <1>5, <1>6, <2>4, <2>5, <2>6 DEF LeftToApi
  <1>9. Faithful(p)
    <2> SUFFICES ASSUME isEdit, NEW x \in DOMAIN p, DecidedBy(x) \cap touched = {}
                 PROVE  AsStored(p, x)
      BY DEF Faithful
    <2>1. x \notin touched /\ stored # NoHost
      BY DEF DecidedBy, isEdit, NoHost
    <2>2. x \notin {"users", "clients"}
      BY <1>7
    <2>3. SUFFICES p[x] = stored[x]
      BY <2>2 DEF AsStored
    <2>4. CASE x = "id" \/ x = "advanced_config"
      BY <1>7, <2>1, <2>4 DEF KeptConfig
    <2>5. CASE x \in fields \ {"pending"}
      <3>1. form[x] = Seed(kind, stored)[x]
        BY <1>2, <1>3, <2>1, <2>5 DEF Untouched
      <3>2. Seed(kind, stored) = IF kind = "dead" THEN DeadSeed(stored) ELSE RedirectionSeed(stored)
        BY DEF Seed
      <3>3. Seed(kind, stored)[x] = IF x = "certificate_id" THEN valueFromCertificateId(stored.certificate_id)
                                    ELSE stored[x]
        <4>1. CASE kind = "dead"
          BY <2>1, <2>5, <3>2, <4>1 DEF DeadSeed, DeadNew
        <4>2. CASE kind = "redirection"
          BY <2>1, <2>5, <3>2, <4>2 DEF RedirectionSeed, RedirectionNew
        <4> QED
          BY <4>1, <4>2
      <3>4. stored.certificate_id \in {"null", "active", "pending"}
        BY <1>2, <2>1 DEF RowsOf, RedirectionRows, DeadRows, CertificateIds
      <3>5. CASE x = "certificate_id"
        BY <1>7, <3>1, <3>3, <3>4, <3>5 DEF certificateIdFromValue, valueFromCertificateId
      <3>6. CASE x # "certificate_id"
        BY <1>7, <2>5, <3>1, <3>3, <3>6
      <3> QED
        BY <3>5, <3>6
    <2> QED
      BY <1>7, <2>4, <2>5
  <1>10. Whole(p)
    <2>1. SUFFICES FieldsAreSent(p)
      BY DEF Whole
    <2>2. DOMAIN RowPanels(kind) = {} /\ kind \in HostKinds
      BY NoTables, KindNames
    <2> SUFFICES ASSUME NEW x \in DOMAIN form
                 PROVE  IF x \in DOMAIN p THEN FieldIsSent(p, x) ELSE MayBeLeftOut(p, x)
      BY <2>2 DEF FieldsAreSent
    <2>3. CASE x = "pending"
      BY <1>4, <1>6, <1>7, <2>3 DEF MayBeLeftOut
    <2>4. CASE x = "certificate_id"
      BY <1>7, <2>2, <2>4, ReferenceIsSent
    <2>5. CASE x \notin {"pending", "certificate_id"}
      <3>1. x \in fields \ {"pending", "certificate_id"}
        BY <1>3, <2>5
      <3>2. x \in DOMAIN p /\ p[x] = form[x]
        BY <1>7, <3>1
      <3>3. FieldIsSent(p, x)
        BY <1>2, <2>2, <3>1, <3>2, PlainIsSent
      <3> QED
        BY <3>2, <3>3
    <2> QED
      BY <2>3, <2>4, <2>5
  <1> QED
    BY <1>1, <1>8, <1>9, <1>10

\* Whitelists: the fields of one kind only.
LEMMA WhitelistLeaves ==
    ASSUME DialogInv, kind = "whitelist", \A i \in DOMAIN Checks : ~Checks[i].bad
    PROVE  Sound(Payload) /\ Faithful(Payload) /\ Whole(Payload)
  <1> DEFINE p == WhitelistPayload(form, stored)
             fields == {"wkind", "name", "ips", "cidrs", "filter", "expressions"}
  <1>1. Payload = p
    BY DEF Payload
  <1>2. Typed(kind, form) /\ stored \in WhitelistRows \cup {NoHost} /\ Untouched
    BY DEF DialogInv, DialogTypes, RowsOf
  <1>3. Class(kind) = WhitelistFields /\ DOMAIN form = fields
    BY <1>2 DEF Typed, Class, WhitelistFields
  <1>4. /\ form.wkind \in {"ip_cidr", "expression"} /\ form.ips \in {"", "ok", "v6", "loose", "bad"}
        /\ form.cidrs \in {"", "ok", "loose", "bad"} /\ form.filter \in {"", "f"} /\ form.expressions \in {"", "e"}
    <2>1. /\ form.wkind \in WhitelistFields.wkind /\ form.ips \in WhitelistFields.ips
          /\ form.cidrs \in WhitelistFields.cidrs /\ form.filter \in WhitelistFields.filter
          /\ form.expressions \in WhitelistFields.expressions
      BY <1>2, <1>3 DEF Typed
    <2> QED
      BY <2>1 DEF WhitelistFields
  <1>5. /\ form.wkind # "ip_cidr" => form.expressions # ""
        /\ form.wkind = "ip_cidr" => /\ form.ips # "bad" /\ form.cidrs # "bad"
                                     /\ form.ips # "" \/ form.cidrs # ""
    <2>1. Checks = WhitelistChecks(form) /\ DOMAIN WhitelistChecks(form) = 1..4
      BY WhitelistChecksAre DEF Checks
    <2>2. \A i \in {1, 2, 3, 4} : i \in 1..4
      OBVIOUS
    <2>3. \A i \in {1, 2, 3, 4} : ~WhitelistChecks(form)[i].bad
      BY <2>1, <2>2
    <2> QED
      BY <2>3, WhitelistChecksAre DEF badIp
  <1>6. /\ DOMAIN p = {"id", "wkind", "name", "enabled", "ips", "cidrs", "filter", "expressions"}
        /\ p.id = stored.id /\ p.wkind = form.wkind /\ p.name = form.name
        /\ p.enabled = IF stored = NoHost THEN "on" ELSE stored.enabled
    BY DEF WhitelistPayload
  <1>7. form.wkind = "ip_cidr" =>
            p.ips = form.ips /\ p.cidrs = form.cidrs /\ p.filter = "null" /\ p.expressions = ""
    BY DEF WhitelistPayload
  <1>8. form.wkind # "ip_cidr" =>
            /\ p.ips = "" /\ p.cidrs = "" /\ p.expressions = form.expressions
            /\ p.filter = IF form.filter = "" THEN "null" ELSE form.filter
    BY DEF WhitelistPayload
  <1> HIDE DEF p
  <1>9. Sound(p)
    <2> SUFFICES ASSUME NEW f \in DOMAIN p \ {"users"}, Refused(kind, p, stored, f), f # "name",
                        ~(f \in {"ips", "cidrs"} /\ p[f] = "loose")
                 PROVE  FALSE
      BY <1>6 DEF Sound, LeftToApi
    <2>1. kind \notin AccountKinds
      BY KindNames
    <2>2. f \in {"ips", "cidrs", "filter", "expressions"}
      BY <1>6, <2>1 DEF Refused
    <2>3. CASE f = "ips"
      BY <1>4, <1>5, <1>6, <1>7, <1>8, <2>1, <2>3 DEF Refused
    <2>4. CASE f = "cidrs"
      BY <1>4, <1>5, <1>6, <1>7, <1>8, <2>1, <2>4 DEF Refused
    <2>5. CASE f = "expressions"
      BY <1>4, <1>5, <1>6, <1>7, <1>8, <2>1, <2>5 DEF Refused
    <2>6. CASE f = "filter"
      BY <1>4, <1>6, <1>7, <1>8, <2>1, <2>6 DEF Refused
    <2> QED
      BY <2>2, <2>3, <2>4, <2>5, <2>6
  <1>10. Faithful(p)
    <2> SUFFICES ASSUME isEdit, NEW x \in DOMAIN p, DecidedBy(x) \cap touched = {}
                 PROVE  AsStored(p, x)
      BY DEF Faithful
    <2>1. x \notin touched /\ (x \in {"ips", "cidrs", "filter", "expressions"} => "wkind" \notin touched)
      BY DEF DecidedBy
    <2>2. stored # NoHost /\ stored \in WhitelistRows
      BY <1>2 DEF isEdit, NoHost
    <2>3. /\ stored.wkind \in {"ip_cidr", "expression"} /\ stored.filter \in {"null", "f"}
          /\ stored.name = "n" /\ stored.ips \in {"", "ok", "v6"} /\ stored.cidrs \in {"", "ok"}
          /\ stored.expressions \in {"", "e"}
          /\ stored.wkind = "expression" => stored.ips = "" /\ stored.cidrs = ""
          /\ stored.wkind = "ip_cidr" => stored.filter = "null" /\ stored.expressions = ""
      BY <2>2 DEF WhitelistRows
    <2>4. SUFFICES p[x] = stored[x]
      BY <1>6 DEF AsStored
    <2>5. \A y \in fields : y \notin touched => form[y] = OrBlank(stored[y])
      <3>1. Seed(kind, stored) = WhitelistSeed(stored)
        BY DEF Seed
      <3>2. \A y \in fields : WhitelistSeed(stored)[y] = OrBlank(stored[y])
        BY <2>2 DEF WhitelistSeed, WhitelistNew
      <3> QED
        BY <1>2, <1>3, <3>1, <3>2 DEF Untouched
    <2>6. CASE x \in {"id", "enabled"}
      BY <1>6, <2>2, <2>6
    <2>7. CASE x \in {"wkind", "name"}
      BY <1>6, <2>1, <2>3, <2>5, <2>7 DEF OrBlank
    <2>8. CASE x \in {"ips", "cidrs", "filter", "expressions"}
      <3>1. form.wkind = stored.wkind /\ form[x] = OrBlank(stored[x])
        BY <2>1, <2>3, <2>5, <2>8 DEF OrBlank
      <3>2. CASE x = "ips"
        BY <1>7, <1>8, <2>3, <3>1, <3>2 DEF OrBlank
      <3>3. CASE x = "cidrs"
        BY <1>7, <1>8, <2>3, <3>1, <3>3 DEF OrBlank
      <3>4. CASE x = "filter"
        BY <1>7, <1>8, <2>3, <3>1, <3>4 DEF OrBlank
      <3>5. CASE x = "expressions"
        BY <1>7, <1>8, <2>3, <3>1, <3>5 DEF OrBlank
      <3> QED
        BY <2>8, <3>2, <3>3, <3>4, <3>5
    <2> QED
      BY <1>6, <2>6, <2>7, <2>8
  <1>11. Whole(p)
    <2>1. SUFFICES FieldsAreSent(p)
      BY DEF Whole
    <2>2. DOMAIN RowPanels(kind) = {} /\ kind \in HostKinds
      BY NoTables, KindNames
    <2> SUFFICES ASSUME NEW x \in DOMAIN form
                 PROVE  IF x \in DOMAIN p THEN FieldIsSent(p, x) ELSE MayBeLeftOut(p, x)
      BY <2>2 DEF FieldsAreSent
    <2>3. x \in DOMAIN p
      BY <1>3, <1>6
    <2>4. trim(form[x]) = form[x]
      BY <1>2, <1>3, <2>2, NoBlanks
    <2>5. CASE x \in {"wkind", "name"}
      BY <1>2, <1>6, <2>2, <2>3, <2>5, PlainIsSent
    <2>6. CASE x \in {"ips", "cidrs"}
      <3>1. Shown(x) <=> form.wkind = "ip_cidr"
        BY <2>6 DEF Shown, LinkKinds, emptyValues
      <3>2. Meaning(x, form[x]) = form[x] /\ Nothing(x) = ""
        BY <2>4, <2>6, PlainMeaning DEF Nothing
      <3>3. p[x] = IF form.wkind = "ip_cidr" THEN form[x] ELSE ""
        BY <1>7, <1>8, <2>6
      <3> QED
        BY <2>3, <2>6, <3>1, <3>2, <3>3 DEF FieldIsSent
    <2>7. CASE x = "expressions"
      <3>1. Shown(x) <=> form.wkind = "expression"
        BY <2>7 DEF Shown, LinkKinds, emptyValues
      <3>2. Meaning(x, form[x]) = form[x] /\ Nothing(x) = ""
        BY <2>4, <2>7, PlainMeaning DEF Nothing
      <3>3. p[x] = IF form.wkind = "ip_cidr" THEN "" ELSE form[x]
        BY <1>7, <1>8, <2>7
      <3> QED
        BY <1>4, <2>3, <2>7, <3>1, <3>2, <3>3 DEF FieldIsSent
    <2>8. CASE x = "filter"
      <3>1. Shown(x) <=> form.wkind = "expression"
        BY <2>8 DEF Shown, LinkKinds, emptyValues
      <3>2. Meaning(x, form[x]) = (IF form[x] = "" THEN "null" ELSE form[x]) /\ Nothing(x) = "null"
        BY <2>4, <2>8 DEF Nothing, Meaning, OrNull
      <3>3. p[x] = IF form.wkind = "ip_cidr" \/ form[x] = "" THEN "null" ELSE form[x]
        BY <1>7, <1>8, <2>8
      <3> QED
        BY <1>4, <2>3, <2>8, <3>1, <3>2, <3>3 DEF FieldIsSent
    <2> QED
      BY <1>3, <2>5, <2>6, <2>7, <2>8
  <1> QED
    BY <1>1, <1>9, <1>10, <1>11

\* Certificates: a dialog with two buttons, and nothing to edit.
LEMMA CertificateLeaves ==
    ASSUME DialogInv, kind = "certificate", \A i \in DOMAIN Checks : ~Checks[i].bad
    PROVE  Sound(Payload) /\ Faithful(Payload) /\ Whole(Payload)
  <1>1. Typed(kind, form) /\ ~isEdit
    BY DEF DialogInv, DialogTypes, RowsOf, isEdit, NoHost
  <1>2. Class(kind) = CertificateClass
    BY DEF Class
  <1>3. /\ form.challenge \in CertificateClass.challenge
        /\ form.dns_credential_id \in CertificateClass.dns_credential_id
        /\ form.pending \in CertificateClass.pending
    BY <1>1, <1>2, ClassFields DEF Typed
  <1>4. /\ form.challenge \in {"http-01", "dns-01"} /\ form.dns_credential_id \in {"", "d"}
        /\ form.pending \in {"none", "bad"}
    BY <1>3 DEF CertificateClass
  <1>8. /\ DOMAIN RowPanels(kind) = {} /\ kind \in HostKinds /\ kind # "user"
        /\ kind \notin LinkKinds /\ kind # "forgot_password"
    BY NoTables, KindNames DEF LinkKinds
  <1>9. DOMAIN form = {"domain_names", "pending", "name", "challenge", "dns_credential_id",
                       "account_email", "custom_name", "cert_pem", "key_pem", "chain_pem"}
    BY <1>1, <1>2, ClassFields DEF Typed
  <1>10. \A x \in DOMAIN form : trim(form[x]) = form[x]
    BY <1>1, <1>8, <1>9, NoBlanks
  <1>5. kind \notin AccountKinds
    BY KindNames
  <1>6. CASE tab = "custom"
    <2> DEFINE p == CustomPayload(form, stored)
    <2>1. Payload = p
      BY <1>6 DEF Payload
    <2>2. form.custom_name # "" /\ form.cert_pem # "" /\ form.key_pem # ""
      <3>1. Checks = CustomChecks(form) /\ DOMAIN CustomChecks(form) = 1..3
        BY <1>6, CustomChecksAre DEF Checks
      <3>2. \A i \in {1, 2, 3} : i \in 1..3
        OBVIOUS
      <3>3. \A i \in {1, 2, 3} : ~CustomChecks(form)[i].bad
        BY <3>1, <3>2
      <3> QED
        BY <3>3, CustomChecksAre
    <2>3. /\ DOMAIN p = {"id", "custom_name", "cert_pem", "key_pem", "chain_pem"}
          /\ p.custom_name = form.custom_name /\ p.cert_pem = form.cert_pem /\ p.key_pem = form.key_pem
          /\ p.chain_pem = IF form.chain_pem = "" THEN "null" ELSE form.chain_pem
      BY DEF CustomPayload
    <2> HIDE DEF p
    <2>4. Sound(p)
      <3> SUFFICES ASSUME NEW f \in DOMAIN p \ {"users"}, Refused(kind, p, stored, f) PROVE FALSE
        BY <2>3 DEF Sound
      <3>1. f \in {"custom_name", "cert_pem", "key_pem"} /\ p[f] = ""
        BY <1>5, <2>3 DEF Refused
      <3> QED
        BY <2>2, <2>3, <3>1
    <2>5. Whole(p)
      <3>1. SUFFICES FieldsAreSent(p)
        BY DEF Whole
      <3> SUFFICES ASSUME NEW x \in DOMAIN form
                   PROVE  IF x \in DOMAIN p THEN FieldIsSent(p, x) ELSE MayBeLeftOut(p, x)
        BY <1>8 DEF FieldsAreSent
      <3>2. DOMAIN Panels(kind)[tab] = {"custom_name", "cert_pem", "key_pem", "chain_pem"}
        BY <1>6 DEF Panels, CustomFields
      <3>3. CASE x \in {"custom_name", "cert_pem", "key_pem"}
        BY <1>1, <1>8, <2>3, <3>3, PlainIsSent
      <3>4. CASE x = "chain_pem"
        <4>1. Shown(x)
          BY <1>8, <3>4, PlainShown
        <4>2. Meaning(x, form[x]) = IF form[x] = "" THEN "null" ELSE form[x]
          BY <1>8, <1>10, <3>4 DEF Meaning, OrNull
        <4> QED
          BY <2>3, <3>4, <4>1, <4>2 DEF FieldIsSent
      <3>5. CASE x \notin {"custom_name", "cert_pem", "key_pem", "chain_pem"}
        <4>1. x \notin DOMAIN p
          BY <1>9, <2>3, <3>5
        <4> QED
          BY <3>2, <3>5, <4>1 DEF MayBeLeftOut
      <3> QED
        BY <3>3, <3>4, <3>5
    <2> QED
      BY <1>1, <2>1, <2>4, <2>5 DEF Faithful
  <1>7. CASE tab # "custom"
    <2> DEFINE p == letsEncryptPayload(form, stored)
    <2>1. Payload = p
      BY <1>7 DEF Payload
    <2>2. /\ form.name # "" /\ form.domain_names # "none" /\ form.pending # "bad"
          /\ form.challenge = "dns-01" => form.dns_credential_id # ""
      <3>1. Checks = LetsEncryptChecks(form) /\ DOMAIN LetsEncryptChecks(form) = 1..4
        BY <1>7, LetsEncryptChecksAre DEF Checks
      <3>2. \A i \in {1, 2, 3, 4} : i \in 1..4
        OBVIOUS
      <3>3. \A i \in {1, 2, 3, 4} : ~LetsEncryptChecks(form)[i].bad
        BY <3>1, <3>2
      <3> QED
        BY <3>3, LetsEncryptChecksAre
    <2>3. /\ DOMAIN p = {"id", "name", "domain_names", "challenge", "account_email", "dns_credential_id"}
          /\ p.name = form.name /\ p.domain_names = form.domain_names /\ p.challenge = form.challenge
          /\ p.dns_credential_id = IF form.challenge = "dns-01" THEN form.dns_credential_id ELSE "null"
          /\ p.account_email = IF form.account_email = "" THEN "null" ELSE form.account_email
      BY DEF letsEncryptPayload
    <2> HIDE DEF p
    <2>4. Sound(p)
      <3> SUFFICES ASSUME NEW f \in DOMAIN p \ {"users"}, Refused(kind, p, stored, f) PROVE FALSE
        BY <2>3 DEF Sound
      <3>1. f \in {"name", "domain_names", "dns_credential_id"}
        BY <1>5, <2>3 DEF Refused
      <3>2. CASE f \in {"name", "domain_names"}
        BY <1>5, <2>2, <2>3, <3>2 DEF Refused
      <3>3. CASE f = "dns_credential_id"
        <4>1. (p[f] = "null") # (p.challenge = "http-01")
          BY <1>5, <3>3 DEF Refused
        <4>2. p[f] = "null" <=> p.challenge = "http-01"
          BY <1>4, <2>2, <2>3, <3>3
        <4> QED
          BY <4>1, <4>2
      <3> QED
        BY <3>1, <3>2, <3>3
    <2>5. Whole(p)
      <3>1. SUFFICES FieldsAreSent(p)
        BY DEF Whole
      <3> SUFFICES ASSUME NEW x \in DOMAIN form
                   PROVE  IF x \in DOMAIN p THEN FieldIsSent(p, x) ELSE MayBeLeftOut(p, x)
        BY <1>8 DEF FieldsAreSent
      <3>2. tab = "letsencrypt"
        BY <1>7 DEF DialogInv, DialogTypes, Tabs, Untabbed, AccountKinds, Panels
      <3>3. DOMAIN Panels(kind)[tab] = {"domain_names", "pending", "name", "challenge",
                                        "dns_credential_id", "account_email"}
        BY <3>2 DEF Panels, LetsEncryptFields, Merge, DomainTags
      <3>4. CASE x \in {"name", "domain_names", "challenge"}
        BY <1>1, <1>8, <2>3, <3>4, PlainIsSent
      <3>5. CASE x = "account_email"
        <4>1. Shown(x)
          BY <1>8, <3>5, PlainShown
        <4>2. Meaning(x, form[x]) = IF form[x] = "" THEN "null" ELSE form[x]
          BY <1>8, <1>10, <3>5 DEF Meaning, OrNull
        <4> QED
          BY <2>3, <3>5, <4>1, <4>2 DEF FieldIsSent
      <3>6. CASE x = "dns_credential_id"
        <4>1. Shown(x) <=> form.challenge = "dns-01"
          BY <1>8, <3>6 DEF Shown, emptyValues
        <4>2. Meaning(x, form[x]) = form[x] /\ Nothing(x) = "null"
          BY <1>10, <3>6, PlainMeaning DEF Nothing
        <4> QED
          BY <2>3, <3>6, <4>1, <4>2 DEF FieldIsSent
      <3>7. CASE x = "pending"
        BY <1>4, <2>2, <2>3, <3>7 DEF MayBeLeftOut
      <3>8. CASE x \in {"custom_name", "cert_pem", "key_pem", "chain_pem"}
        BY <2>3, <3>3, <3>8 DEF MayBeLeftOut
      <3> QED
        BY <1>9, <3>4, <3>5, <3>6, <3>7, <3>8
    <2> QED
      BY <1>1, <2>1, <2>4, <2>5 DEF Faithful
  <1> QED
    BY <1>6, <1>7

\* Streams: one target, at least one protocol.
LEMMA StreamLeaves ==
    ASSUME DialogInv, kind = "stream", \A i \in DOMAIN Checks : ~Checks[i].bad
    PROVE  Sound(Payload) /\ Faithful(Payload) /\ Whole(Payload)
  <1> DEFINE p == StreamPayload(form, stored)
             plain == {"tcp_forwarding", "udp_forwarding", "enabled"}
             fields == {"mode", "upstream_id", "incoming_port", "forward_host", "forward_port",
                        "tcp_forwarding", "udp_forwarding", "certificate_id", "enabled"}
  <1>1. Payload = p
    BY DEF Payload
  <1>2. Typed(kind, form) /\ stored \in StreamRows \cup {NoHost} /\ Untouched
    BY DEF DialogInv, DialogTypes, RowsOf
  <1>3. Class(kind) = StreamClass /\ DOMAIN form = fields
    BY <1>2, ClassFields DEF Typed, Class
  <1>4. /\ form.mode \in {"pool", "host"} /\ form.upstream_id \in {"", "p"}
        /\ form.forward_host \in {"", "h"}
        /\ form.certificate_id \in {"none", "active", "pending"}
    <2>1. /\ form.mode \in StreamClass.mode /\ form.upstream_id \in StreamClass.upstream_id
          /\ form.forward_host \in StreamClass.forward_host
          /\ form.certificate_id \in StreamClass.certificate_id
      BY <1>2, <1>3 DEF Typed
    <2> QED
      BY <2>1 DEF StreamClass
  <1>5. /\ parsePortStrict(form.incoming_port) # "null"
        /\ form.mode = "pool" => form.upstream_id # ""
        /\ form.mode = "host" => form.forward_host # "" /\ parsePortStrict(form.forward_port) # "null"
        /\ ~(form.tcp_forwarding = "off" /\ form.udp_forwarding = "off")
    <2>1. Checks = StreamChecks(form) /\ DOMAIN StreamChecks(form) = 1..5
      BY StreamChecksAre DEF Checks
    <2>2. \A i \in {1, 2, 3, 4, 5} : i \in 1..5
      OBVIOUS
    <2>3. \A i \in {1, 2, 3, 4, 5} : ~StreamChecks(form)[i].bad
      BY <2>1, <2>2
    <2> QED
      BY <2>3, StreamChecksAre
  <1>6. /\ DOMAIN p = {"id"} \cup (fields \ {"mode"}) /\ p.id = stored.id
        /\ p.incoming_port = parsePortStrict(form.incoming_port)
        /\ p.certificate_id = certificateIdFromValue(form.certificate_id)
        /\ \A x \in plain : p[x] = form[x]
    BY <1>3 DEF StreamPayload
  <1>7. form.mode = "pool" =>
            p.upstream_id = form.upstream_id /\ p.forward_host = "null" /\ p.forward_port = "null"
    BY <1>3 DEF StreamPayload, PoolOf
  <1>8. form.mode = "host" =>
            /\ p.upstream_id = "null" /\ p.forward_host = form.forward_host
            /\ p.forward_port = parsePortStrict(form.forward_port)
    BY <1>3 DEF StreamPayload, PoolOf
  <1> HIDE DEF p
  <1>9. Sound(p)
    <2> SUFFICES ASSUME NEW f \in DOMAIN p \ {"users"}, Refused(kind, p, stored, f) PROVE FALSE
      BY <1>6 DEF Sound
    <2>1. kind \notin AccountKinds
      BY KindNames
    <2>2. f \in {"upstream_id", "forward_host", "incoming_port", "tcp_forwarding"}
      BY <1>6, <2>1 DEF Refused
    <2>3. CASE f = "upstream_id"
      <3>1. ~OneTarget(p)
        BY <2>1, <2>3 DEF Refused
      <3>2. (p.upstream_id # "null") # (p.forward_host # "null" /\ p.forward_port # "null")
        <4>1. CASE form.mode = "pool"
          BY <1>4, <1>5, <1>7, <4>1
        <4>2. CASE form.mode = "host"
          BY <1>4, <1>5, <1>8, <4>2
        <4> QED
          BY <1>4, <4>1, <4>2
      <3> QED
        BY <3>1, <3>2 DEF OneTarget
    <2>4. CASE f = "forward_host"
      BY <1>4, <1>5, <1>7, <1>8, <2>1, <2>4 DEF Refused
    <2>5. CASE f = "incoming_port"
      BY <1>5, <1>6, <2>1, <2>5 DEF Refused
    <2>6. CASE f = "tcp_forwarding"
      <3>1. p.tcp_forwarding = form.tcp_forwarding /\ p.udp_forwarding = form.udp_forwarding
        BY <1>6
      <3> QED
        BY <1>5, <2>1, <2>6, <3>1 DEF Refused
    <2> QED
      BY <2>2, <2>3, <2>4, <2>5, <2>6
  <1>10. Faithful(p)
    <2> SUFFICES ASSUME isEdit, NEW x \in DOMAIN p, DecidedBy(x) \cap touched = {}
                 PROVE  AsStored(p, x)
      BY DEF Faithful
    <2>1. /\ x \notin touched
          /\ x \in {"upstream_id", "forward_host", "forward_port"} => "mode" \notin touched
      BY DEF DecidedBy
    <2>2. stored # NoHost /\ stored \in StreamRows
      BY <1>2 DEF isEdit, NoHost
    <2>3. /\ stored.incoming_port = "80" /\ stored.upstream_id \in {"null", "p"}
          /\ stored.forward_host \in {"null", "h"} /\ stored.forward_port \in {"null", "80"}
          /\ stored.certificate_id \in {"null", "active", "pending"} /\ OneTargetStored(stored)
      BY <2>2 DEF StreamRows, CertificateIds
    <2>4. SUFFICES p[x] = stored[x]
      BY <1>6 DEF AsStored
    <2>5. \A y \in fields : y \notin touched => form[y] = StreamSeed(stored)[y]
      <3>1. Seed(kind, stored) = StreamSeed(stored)
        BY DEF Seed
      <3> QED
        BY <1>2, <1>3, <3>1 DEF Untouched
    <2> DEFINE s == StreamSeed(stored)
    <2>6. /\ s.mode = IF stored.upstream_id # "null" THEN "pool" ELSE "host"
          /\ s.upstream_id = OrBlank(stored.upstream_id) /\ s.forward_host = OrBlank(stored.forward_host)
          /\ s.forward_port = OrBlank(stored.forward_port)
          /\ s.certificate_id = valueFromCertificateId(stored.certificate_id)
          /\ s.incoming_port = stored.incoming_port
          /\ \A y \in plain : s[y] = stored[y]
      BY <2>2 DEF StreamSeed, StreamNew
    <2> HIDE DEF s
    <2>7. CASE x \in plain \cup {"id"}
      BY <1>6, <2>1, <2>5, <2>6, <2>7 DEF s
    <2>8. CASE x = "incoming_port"
      BY <1>6, <2>1, <2>3, <2>5, <2>6, <2>8 DEF parsePortStrict, s
    <2>9. CASE x = "certificate_id"
      BY <1>6, <2>1, <2>3, <2>5, <2>6, <2>9 DEF certificateIdFromValue, valueFromCertificateId, s
    <2>10. CASE x \in {"upstream_id", "forward_host", "forward_port"}
      <3>1. form.mode = s.mode /\ form[x] = s[x]
        BY <2>1, <2>5, <2>10 DEF s
      <3>2. CASE stored.upstream_id = "p"
        BY <1>7, <2>3, <2>6, <2>10, <3>1, <3>2 DEF OneTargetStored, OrBlank
      <3>3. CASE stored.upstream_id = "null"
        <4>1. stored.forward_host = "h" /\ stored.forward_port = "80"
          BY <2>3, <3>3 DEF OneTargetStored
        <4>2. s.mode = "host" /\ s.upstream_id = "" /\ s.forward_host = "h" /\ s.forward_port = "80"
          BY <2>6, <3>3, <4>1 DEF OrBlank
        <4> QED
          BY <1>8, <2>10, <3>1, <3>3, <4>1, <4>2 DEF parsePortStrict
      <3> QED
        BY <2>3, <3>2, <3>3
    <2> QED
      BY <1>6, <2>7, <2>8, <2>9, <2>10
  <1>11. Whole(p)
    <2>1. SUFFICES FieldsAreSent(p)
      BY DEF Whole
    <2>2. DOMAIN RowPanels(kind) = {}
      BY NoTables, KindNames
    <2> SUFFICES ASSUME NEW x \in DOMAIN form
                 PROVE  IF x \in DOMAIN p THEN FieldIsSent(p, x) ELSE MayBeLeftOut(p, x)
      BY <2>2 DEF FieldsAreSent
    <2>3. kind \in HostKinds
      BY KindNames
    <2>4. CASE x = "mode"
      <3>1. x \notin DOMAIN p /\ (form.mode = "pool" <=> p.upstream_id # "null")
        BY <1>4, <1>6, <1>7, <1>8, <2>4
      <3> QED
        BY <2>4, <3>1 DEF MayBeLeftOut
    <2>5. CASE x \in plain
      <3>1. x \in DOMAIN p /\ p[x] = form[x]
        BY <1>6, <2>5
      <3> QED
        BY <1>2, <2>3, <2>5, <3>1, PlainIsSent
    <2>6. CASE x = "certificate_id"
      BY <1>6, <2>3, <2>6, ReferenceIsSent
    <2>7. CASE x = "incoming_port"
      <3>1. Shown(x)
        BY <2>7, PlainShown DEF LinkKinds
      <3>2. form.incoming_port = "80" /\ p.incoming_port = "80"
        BY <1>5, <1>6 DEF parsePortStrict
      <3>3. Meaning(x, "80") = "80"
        BY <2>7 DEF Meaning
      <3> QED
        BY <1>6, <2>7, <3>1, <3>2, <3>3 DEF FieldIsSent
    <2>8. CASE x \in {"upstream_id", "forward_host", "forward_port"}
      <3>1. form.mode = "host" => form.forward_port = "80"
        BY <1>5 DEF parsePortStrict
      <3>2. form.mode = "host" => p.forward_port = Meaning("forward_port", form.forward_port)
        BY <1>8, <3>1 DEF parsePortStrict, Meaning
      <3>3. FieldIsSent(p, x)
        BY <1>2, <1>3, <1>4, <1>7, <1>8, <2>8, <3>2, TargetIsSent
      <3> QED
        BY <1>6, <2>8, <3>3
    <2> QED
      BY <1>3, <2>4, <2>5, <2>6, <2>7, <2>8
  <1> QED
    BY <1>1, <1>9, <1>10, <1>11

\* What is typed about a person or a credential is trimmed, but for a password.
LEMMA PersonMeaning ==
    ASSUME kind # "forgot_password", NEW v
    PROVE  /\ \A x \in {"email", "full_name", "role", "is_active", "name", "provider"} :
                 Meaning(x, v) = trim(v)
           /\ \A x \in {"token", "zone", "region"} : Meaning(x, v) = OrNull(trim(v))
           /\ Meaning("password", v) = v
  BY DEF Meaning

\* Users: an email and a password of a new one only, a role of another only.
LEMMA UserLeaves ==
    ASSUME DialogInv, kind = "user", \A i \in DOMAIN Checks : ~Checks[i].bad
    PROVE  Sound(Payload) /\ Faithful(Payload) /\ Whole(Payload)
  <1> DEFINE p == UserPayload(form, stored)
             fields == {"email", "full_name", "password", "role", "is_active"}
  <1>1. Payload = p
    BY DEF Payload, AccountPayload
  <1>2. Typed(kind, form) /\ stored \in UserRows \cup {NoHost} /\ Untouched
    BY DEF DialogInv, DialogTypes, RowsOf
  <1>3. Class(kind) = UserFields /\ DOMAIN form = fields
    BY <1>2 DEF Typed, Class, UserFields
  <1>4. form.email \in {"", " ", "e", "junk"}
    <2>1. form.email \in UserFields.email
      BY <1>2, <1>3 DEF Typed
    <2> QED
      BY <2>1 DEF UserFields, Emails
  <1>5. stored = NoHost => trim(form.email) # "" /\ ~tooShort(form.password)
    <2>1. Checks = UserChecks(form, stored) /\ DOMAIN UserChecks(form, stored) = 1..2
      BY UserChecksAre DEF Checks, AccountChecks
    <2>2. \A i \in {1, 2} : i \in 1..2
      OBVIOUS
    <2>3. \A i \in {1, 2} : ~UserChecks(form, stored)[i].bad
      BY <2>1, <2>2
    <2> QED
      BY <2>3, UserChecksAre
  <1>6. /\ DOMAIN p \subseteq {"id"} \cup fields /\ p.id = stored.id /\ p.full_name = trim(form.full_name)
        /\ "email" \in DOMAIN p => stored = NoHost /\ p.email = trim(form.email)
        /\ "password" \in DOMAIN p => stored = NoHost /\ p.password = form.password
        /\ "role" \in DOMAIN p => stored.id # "self" /\ p.role = trim(form.role)
        /\ "is_active" \in DOMAIN p => stored.id # "self" /\ p.is_active = trim(form.is_active)
    BY <1>3 DEF UserPayload, UserControl
  <1>10. /\ "full_name" \in DOMAIN p
         /\ \A x \in fields \ DOMAIN p : ~UserControl(x, stored)
    BY <1>3 DEF UserPayload
  <1> HIDE DEF p
  <1>7. Sound(p)
    <2> SUFFICES ASSUME NEW f \in DOMAIN p \ {"users"}, Refused(kind, p, stored, f) PROVE LeftToApi(p, f)
      BY <1>6 DEF Sound
    <2>1. AccountRefused(f, p, stored) /\ f \in {"id"} \cup fields
      BY <1>6 DEF Refused
    <2>2. f = "email" /\ p.email # "e"
      BY <1>5, <1>6, <2>1 DEF AccountRefused
    <2> QED
      BY <1>4, <1>5, <1>6, <2>2 DEF trim, LeftToApi
  <1>8. Faithful(p)
    <2> SUFFICES ASSUME isEdit, NEW x \in DOMAIN p, DecidedBy(x) \cap touched = {}
                 PROVE  AsStored(p, x)
      BY DEF Faithful
    <2>1. x \notin touched
      BY DEF DecidedBy
    <2>2. stored # NoHost /\ stored \in UserRows
      BY <1>2 DEF isEdit, NoHost
    <2>3. /\ stored.full_name \in {"", "n"} /\ stored.role \in {"member", "admin"}
          /\ stored.is_active \in {"on", "off"}
      BY <2>2 DEF UserRows, Toggle
    <2>4. SUFFICES p[x] = stored[x]
      BY <1>6 DEF AsStored
    <2>5. x \in {"id", "full_name", "role", "is_active"}
      BY <1>6, <2>2
    <2>6. x # "id" => form[x] = stored[x]
      <3>1. Seed(kind, stored) = UserSeed(stored)
        BY DEF Seed, AccountSeed
      <3>2. \A y \in {"full_name", "role", "is_active"} : UserSeed(stored)[y] = stored[y]
        BY <2>2 DEF UserSeed, UserFields
      <3> QED
        BY <1>2, <1>3, <2>1, <2>5, <3>1, <3>2 DEF Untouched
    <2> QED
      BY <1>6, <2>3, <2>5, <2>6 DEF trim
  <1>9. Whole(p)
    <2>1. SUFFICES FieldsAreSent(p)
      BY DEF Whole
    <2>2. DOMAIN RowPanels(kind) = {}
      BY NoTables, KindNames
    <2> SUFFICES ASSUME NEW x \in DOMAIN form
                 PROVE  IF x \in DOMAIN p THEN FieldIsSent(p, x) ELSE MayBeLeftOut(p, x)
      BY <2>2 DEF FieldsAreSent
    <2>3. kind \notin LinkKinds /\ kind # "forgot_password"
      BY DEF LinkKinds
    <2>4. CASE x \notin DOMAIN p
      BY <1>3, <1>10, <2>4 DEF MayBeLeftOut
    <2>5. CASE x \in DOMAIN p /\ x = "password"
      <3>1. UserControl(x, stored)
        BY <1>6, <2>5 DEF UserControl
      <3>2. Shown(x)
        BY <2>3, <2>5, <3>1 DEF Shown, emptyValues
      <3> QED
        BY <1>6, <2>3, <2>5, <3>2, PersonMeaning DEF FieldIsSent
    <2>6. CASE x \in DOMAIN p /\ x # "password"
      <3>1. Shown(x)
        BY <1>3, <2>3, <2>6, PlainShown
      <3>2. p[x] = trim(form[x])
        BY <1>3, <1>6, <2>6
      <3> QED
        BY <1>3, <2>3, <2>6, <3>1, <3>2, PersonMeaning DEF FieldIsSent
    <2> QED
      BY <2>4, <2>5, <2>6
  <1> QED
    BY <1>1, <1>7, <1>8, <1>9

\* Invitations, and the forms that set a password.
LEMMA PersonLeaves ==
    ASSUME DialogInv, AccountSendable(kind, form, hasOptions), \A i \in DOMAIN Checks : ~Checks[i].bad,
           kind \in {"invite", "reset_password", "change_password", "reset_link", "accept_invite",
                     "forgot_password"}
    PROVE  Sound(Payload) /\ Faithful(Payload) /\ Whole(Payload)
  <1>1. Typed(kind, form) /\ stored \in RowsOf(kind) \cup {NoHost} /\ Untouched
    BY DEF DialogInv, DialogTypes
  <1>2. /\ DOMAIN RowPanels(kind) = {} /\ (kind \notin LinkKinds \/ hasOptions)
        /\ kind \notin {"user", "proxy", "access_list", "dns_credential"}
    BY NoTables, KindNames DEF AccountSendable
  <1>7. ASSUME NEW p,
               \A x \in DOMAIN form : IF x \in DOMAIN p THEN p[x] = Meaning(x, form[x])
                                                        ELSE MayBeLeftOut(p, x),
               DOMAIN form \subseteq {"email", "full_name", "role", "password", "confirm"}
        PROVE  Whole(p)
    <2>1. SUFFICES FieldsAreSent(p)
      BY <1>2 DEF Whole
    <2>2. \A x \in DOMAIN form : Shown(x)
      BY <1>2, <1>7, PlainShown
    <2> QED
      BY <1>2, <1>7, <2>2 DEF FieldsAreSent, FieldIsSent
  <1>3. CASE kind = "invite"
    <2> DEFINE p == InvitePayload(form)
    <2>1. Payload = p /\ ~isEdit
      BY <1>1, <1>3 DEF Payload, AccountPayload, RowsOf, isEdit, NoHost
    <2>2. form.email \in {"", " ", "e", "junk"}
      <3>1. form.email \in InviteFields.email
        BY <1>1, <1>3 DEF Typed, Class, InviteFields
      <3> QED
        BY <3>1 DEF InviteFields, Emails
    <2>3. trim(form.email) # ""
      <3>1. Checks = InviteChecks(form) /\ DOMAIN InviteChecks(form) = 1..1
        BY <1>3, InviteChecksAre DEF Checks, AccountChecks
      <3>2. 1 \in 1..1
        OBVIOUS
      <3>3. ~InviteChecks(form)[1].bad
        BY <3>1, <3>2
      <3> QED
        BY <3>3, InviteChecksAre
    <2>4. /\ DOMAIN p = {"id", "email", "full_name", "role"} /\ p.email = trim(form.email) /\ p.id = "none"
          /\ p.full_name = trim(form.full_name) /\ p.role = form.role
      BY DEF InvitePayload
    <2> HIDE DEF p
    <2>5. Sound(p)
      <3> SUFFICES ASSUME NEW f \in DOMAIN p \ {"users"}, Refused(kind, p, stored, f) PROVE LeftToApi(p, f)
        BY <2>4 DEF Sound
      <3>1. f = "email" /\ p.email # "e"
        BY <2>4 DEF Refused, AccountRefused
      <3> QED
        BY <2>2, <2>3, <2>4, <3>1 DEF trim, LeftToApi
    <2>6. Whole(p)
      <3>1. DOMAIN form = {"email", "full_name", "role"} /\ form.role \in {"member", "admin"}
        BY <1>1, <1>3 DEF Typed, Class, InviteFields
      <3>2. trim(form.role) = form.role
        BY <3>1 DEF trim
      <3>3. \A x \in DOMAIN form : x \in DOMAIN p /\ p[x] = Meaning(x, form[x])
        BY <1>3, <2>4, <3>1, <3>2, PersonMeaning
      <3> QED
        BY <1>7, <3>1, <3>3
    <2> QED
      BY <2>1, <2>5, <2>6 DEF Faithful
  <1>4. CASE kind \in {"reset_password", "change_password", "reset_link"}
    <2> DEFINE p == PasswordPayload(form, stored)
    <2>1. Payload = p
      BY <1>4 DEF Payload, AccountPayload
    <2>2. ~tooShort(form.password) /\ form.confirm = form.password
      <3>1. Checks = validateNewPassword(form) /\ DOMAIN validateNewPassword(form) = 1..2
        BY <1>4, PasswordChecksAre DEF Checks, AccountChecks
      <3>2. 1 \in 1..2 /\ 2 \in 1..2
        OBVIOUS
      <3>3. ~validateNewPassword(form)[1].bad /\ ~validateNewPassword(form)[2].bad
        BY <3>1, <3>2
      <3> QED
        BY <3>3, PasswordChecksAre
    <2>3. DOMAIN p = {"id", "password"} /\ p.password = form.password /\ p.id = stored.id
      BY DEF PasswordPayload
    <2> HIDE DEF p
    <2>4. Sound(p)
      <3> SUFFICES ASSUME NEW f \in DOMAIN p \ {"users"}, Refused(kind, p, stored, f) PROVE FALSE
        BY <2>3 DEF Sound
      <3>1. f = "password" /\ tooShort(p.password)
        BY <2>3 DEF Refused, AccountRefused
      <3> QED
        BY <2>2, <2>3, <3>1
    <2>5. Faithful(p)
      <3> SUFFICES ASSUME isEdit, NEW x \in DOMAIN p, DecidedBy(x) \cap touched = {}
                   PROVE  AsStored(p, x)
        BY DEF Faithful
      <3>1. x \notin touched
        BY DEF DecidedBy
      <3>2. CASE x = "password"
        <4>1. "password" \in DOMAIN form
          BY <1>1, <1>4 DEF Typed, Class, PasswordPair
        <4>2. Seed(kind, stored) = NoPasswords
          BY <1>4 DEF Seed, AccountSeed
        <4>3. form.password = ""
          <5>1. form.password = Seed(kind, stored).password
            BY <1>1, <3>1, <3>2, <4>1 DEF Untouched
          <5>2. NoPasswords.password = ""
            BY DEF NoPasswords
          <5> QED
            BY <4>2, <5>1, <5>2
        <4> QED
          BY <2>2, <4>3 DEF tooShort
      <3>3. CASE x = "id"
        BY <2>3, <3>3 DEF AsStored
      <3> QED
        BY <2>3, <3>2, <3>3
    <2>6. Whole(p)
      <3>1. DOMAIN form = {"password", "confirm"}
        BY <1>1, <1>4 DEF Typed, Class, PasswordPair
      <3>2. MayBeLeftOut(p, "confirm")
        BY <2>2 DEF MayBeLeftOut
      <3>3. p.password = Meaning("password", form.password)
        BY <1>4, <2>3, PersonMeaning
      <3> QED
        BY <1>7, <2>3, <3>1, <3>2, <3>3
    <2> QED
      BY <2>1, <2>4, <2>5, <2>6
  <1>5. CASE kind = "accept_invite"
    <2> DEFINE p == AcceptPayload(form)
    <2>1. Payload = p /\ ~isEdit
      BY <1>1, <1>5 DEF Payload, AccountPayload, RowsOf, isEdit, NoHost
    <2>2. ~tooShort(form.password) /\ form.confirm = form.password
      <3>1. Checks = validateNewPassword(form) /\ DOMAIN validateNewPassword(form) = 1..2
        BY <1>5, PasswordChecksAre DEF Checks, AccountChecks
      <3>2. 1 \in 1..2 /\ 2 \in 1..2
        OBVIOUS
      <3>3. ~validateNewPassword(form)[1].bad /\ ~validateNewPassword(form)[2].bad
        BY <3>1, <3>2
      <3> QED
        BY <3>3, PasswordChecksAre
    <2>3. /\ DOMAIN p = {"id", "full_name", "password"} /\ p.password = form.password
          /\ p.full_name = trim(form.full_name)
      BY DEF AcceptPayload
    <2> HIDE DEF p
    <2>4. Sound(p)
      <3> SUFFICES ASSUME NEW f \in DOMAIN p \ {"users"}, Refused(kind, p, stored, f) PROVE FALSE
        BY <2>3 DEF Sound
      <3>1. f = "password" /\ tooShort(p.password)
        BY <2>3 DEF Refused, AccountRefused
      <3> QED
        BY <2>2, <2>3, <3>1
    <2>5. Whole(p)
      <3>1. DOMAIN form = {"password", "confirm", "full_name"}
        BY <1>1, <1>5 DEF Typed, Class
      <3>2. MayBeLeftOut(p, "confirm")
        BY <2>2 DEF MayBeLeftOut
      <3>3. /\ p.password = Meaning("password", form.password)
            /\ p.full_name = Meaning("full_name", form.full_name)
        BY <1>5, <2>3, PersonMeaning
      <3> QED
        BY <1>7, <2>3, <3>1, <3>2, <3>3
    <2> QED
      BY <2>1, <2>4, <2>5 DEF Faithful
  <1>6. CASE kind = "forgot_password"
    <2> DEFINE p == ForgotPayload(form)
    <2>1. Payload = p /\ ~isEdit
      BY <1>1, <1>6 DEF Payload, AccountPayload, RowsOf, isEdit, NoHost
    <2>2. DOMAIN p = {"id", "email"} /\ p.email = form.email
      BY DEF ForgotPayload
    <2> HIDE DEF p
    <2>3. Sound(p)
      <3> SUFFICES ASSUME NEW f \in DOMAIN p \ {"users"}, Refused(kind, p, stored, f) PROVE LeftToApi(p, f)
        BY <2>2 DEF Sound
      <3>1. f = "email"
        BY <2>2 DEF Refused, AccountRefused
      <3> QED
        BY <1>6, <3>1 DEF LeftToApi
    <2>4. Whole(p)
      <3>1. DOMAIN form = {"email"}
        BY <1>1, <1>6 DEF Typed, Class, ForgotFields
      <3>2. Meaning("email", form.email) = form.email
        BY <1>6 DEF Meaning
      <3> QED
        BY <1>7, <2>2, <3>1, <3>2
    <2> QED
      BY <2>1, <2>3, <2>4 DEF Faithful
  <1> QED
    BY <1>3, <1>4, <1>5, <1>6

\* DNS credentials: the fields of the provider.
LEMMA DnsLeaves ==
    ASSUME DialogInv, kind = "dns_credential", \A i \in DOMAIN Checks : ~Checks[i].bad
    PROVE  Sound(Payload) /\ Faithful(Payload) /\ Whole(Payload)
  <1> DEFINE p == DnsPayload(form, stored)
             fields == {"name", "provider", "token", "zone", "region"}
  <1>1. Payload = p
    BY DEF Payload, AccountPayload
  <1>2. /\ Typed(kind, form) /\ stored \in CredentialRows \cup {NoHost} /\ Untouched
        /\ isEdit => form.provider = stored.provider
    BY DEF DialogInv, DialogTypes, RowsOf, TokenOfProvider
  <1>3. DOMAIN form = fields
    BY <1>2, ClassFields DEF Typed, Class
  <1>4. /\ trim(form.name) # "" /\ form.provider # ""
        /\ stored = NoHost => trim(form.token) # ""
    <2>1. Checks = DnsChecks(form, stored) /\ DOMAIN DnsChecks(form, stored) = 1..3
      BY DnsChecksAre DEF Checks, AccountChecks
    <2>2. \A i \in {1, 2, 3} : i \in 1..3
      OBVIOUS
    <2>3. \A i \in {1, 2, 3} : ~DnsChecks(form, stored)[i].bad
      BY <2>1, <2>2
    <2> QED
      BY <2>3, DnsChecksAre
  <1>5. /\ form.provider \in {"cf", "aws"} /\ p.id = stored.id /\ p.name = trim(form.name)
        /\ p.token = OrNull(trim(form.token))
        /\ form.provider = "cf" => p.zone = OrNull(trim(form.zone))
        /\ form.provider = "aws" => p.region = OrNull(trim(form.region))
        /\ stored = NoHost => p.provider = trim(form.provider)
        /\ DOMAIN p = {"id", "name", "token", IF form.provider = "cf" THEN "zone" ELSE "region"}
                         \cup (IF stored = NoHost THEN {"provider"} ELSE {})
    BY <1>2, <1>4, DnsPayloadIs
  <1> HIDE DEF p
  <1>6. stored = NoHost <=> stored.id = "none"
    BY <1>2, DialogConstants DEF CredentialRows, NoHost
  <1>7. Sound(p)
    <2> SUFFICES ASSUME NEW f \in DOMAIN p \ {"users"}, Refused(kind, p, stored, f) PROVE FALSE
      BY <1>5 DEF Sound
    <2>1. f \in {"name", "token", "zone", "region"}
      BY <1>5 DEF Refused, AccountRefused
    <2>2. CASE f = "name"
      BY <1>4, <1>5, <2>2 DEF Refused, AccountRefused
    <2>3. CASE f = "token"
      <3>1. p.id = "none" /\ p.token = "null"
        BY <2>3 DEF Refused, AccountRefused
      <3>2. trim(form.token) # ""
        BY <1>4, <1>5, <1>6, <3>1
      <3>3. trim(form.token) = "null"
        BY <1>5, <3>1, <3>2 DEF OrNull
      <3>4. form.token \in {"", " ", "cf", "aws"}
        BY <1>5 DEF DialogInv, TokenOfProvider
      <3> QED
        BY <3>3, <3>4 DEF trim
    <2>4. CASE f \in {"zone", "region"}
      <3>1. p.id = "none" /\ f \notin Catalog[p.provider]
        BY <2>4 DEF Refused, AccountRefused
      <3>2. stored = NoHost /\ p.provider = form.provider
        BY <1>5, <1>6, <3>1 DEF trim
      <3>3. "zone" \in Catalog["cf"] /\ "region" \in Catalog["aws"]
        BY DEF Catalog
      <3>4. f = IF form.provider = "cf" THEN "zone" ELSE "region"
        BY <1>5, <2>4
      <3> QED
        BY <1>5, <3>1, <3>2, <3>3, <3>4
    <2> QED
      BY <2>1, <2>2, <2>3, <2>4
  <1>8. Faithful(p)
    <2> SUFFICES ASSUME isEdit, NEW x \in DOMAIN p, DecidedBy(x) \cap touched = {}
                 PROVE  AsStored(p, x)
      BY DEF Faithful
    <2>1. x \notin touched
      BY DEF DecidedBy
    <2>2. stored # NoHost /\ stored \in CredentialRows /\ form.provider = stored.provider
      BY <1>2 DEF isEdit, NoHost
    <2>3. /\ stored.name = "n" /\ stored.token = "null"
          /\ stored.provider = "cf" => "zone" \in DOMAIN stored /\ stored.zone \in {"null", "z"}
          /\ stored.provider = "aws" => "region" \in DOMAIN stored /\ stored.region \in {"null", "r"}
          /\ {"name", "token"} \subseteq DOMAIN stored
      BY <2>2 DEF CredentialRows
    <2>4. SUFFICES p[x] = stored[x]
      BY <1>5 DEF AsStored
    <2>5. \A y \in fields : y \notin touched /\ y \in DOMAIN stored => form[y] = OrBlank(stored[y])
      <3>1. Seed(kind, stored) = DnsSeed(stored, hasOptions)
        BY DEF Seed, AccountSeed
      <3>2. \A y \in fields : y \in DOMAIN stored => DnsSeed(stored, hasOptions)[y] = OrBlank(stored[y])
        BY <2>2 DEF DnsSeed, DnsFields
      <3> QED
        BY <1>2, <1>3, <3>1, <3>2 DEF Untouched
    <2>6. CASE x = "id"
      BY <1>5, <2>6
    <2>7. CASE x = "name"
      BY <1>5, <2>1, <2>3, <2>5, <2>7 DEF OrBlank, trim
    <2>8. CASE x = "token"
      BY <1>5, <2>1, <2>3, <2>5, <2>8 DEF OrBlank, OrNull, trim
    <2>9. CASE x = "zone"
      BY <1>5, <2>1, <2>2, <2>3, <2>5, <2>9 DEF OrBlank, OrNull, trim
    <2>10. CASE x = "region"
      BY <1>5, <2>1, <2>2, <2>3, <2>5, <2>10 DEF OrBlank, OrNull, trim
    <2> QED
      BY <1>5, <2>2, <2>6, <2>7, <2>8, <2>9, <2>10
  <1>9. Whole(p)
    <2>1. SUFFICES FieldsAreSent(p)
      BY <1>4 DEF Whole
    <2>2. DOMAIN RowPanels(kind) = {}
      BY NoTables, KindNames
    <2> SUFFICES ASSUME NEW x \in DOMAIN form
                 PROVE  IF x \in DOMAIN p THEN FieldIsSent(p, x) ELSE MayBeLeftOut(p, x)
      BY <2>2 DEF FieldsAreSent
    <2>3. kind \notin LinkKinds /\ kind # "forgot_password"
      BY DEF LinkKinds
    <2>4. DOMAIN emptyValues = {"token", "zone", "region"}
      BY DEF emptyValues
    <2>5. Catalog[form.provider] = {"token", IF form.provider = "cf" THEN "zone" ELSE "region"}
      <3>1. Catalog["cf"] = {"token", "zone"} /\ Catalog["aws"] = {"token", "region"}
        BY DEF Catalog
      <3> QED
        BY <1>5, <3>1
    <2>6. CASE x = "name"
      BY <1>5, <2>3, <2>6, PlainShown, PersonMeaning DEF FieldIsSent
    <2>7. CASE x = "provider" /\ stored = NoHost
      BY <1>5, <2>3, <2>7, PlainShown, PersonMeaning DEF FieldIsSent
    <2>8. CASE x = "provider" /\ stored # NoHost
      BY <1>5, <1>6, <2>8 DEF MayBeLeftOut, isEdit
    <2>9. CASE x \in Catalog[form.provider]
      <3>1. Shown(x)
        BY <1>4, <2>3, <2>5, <2>9 DEF Shown
      <3>2. x \in DOMAIN p /\ p[x] = OrNull(trim(form[x]))
        BY <1>5, <2>5, <2>9
      <3> QED
        BY <2>3, <2>5, <2>9, <3>1, <3>2, PersonMeaning DEF FieldIsSent
    <2>10. CASE x \in {"token", "zone", "region"} \ Catalog[form.provider]
      BY <1>5, <2>5, <2>10 DEF MayBeLeftOut
    <2> QED
      BY <1>3, <2>6, <2>7, <2>8, <2>9, <2>10
  <1> QED
    BY <1>1, <1>7, <1>8, <1>9

LEMMA SeqFacts ==
    ASSUME NEW S, NEW s \in Seq(S)
    PROVE  /\ DOMAIN s = 1..Len(s) /\ Len(s) \in Nat /\ s = [i \in DOMAIN s |-> s[i]]
           /\ \A i \in DOMAIN s : s[i] \in S
  OBVIOUS

\* Locations.
LEMMA LocationFits ==
    ASSUME NEW r \in LocationForm, r.path \notin {"", "/", "/a b"},
           ~(r.mode = "pool" /\ r.upstream_id = ""), ~(r.mode = "custom_page" /\ r.page = ""),
           ~(r.mode = "error_page" /\ r.code = ""),
           ~(r.mode = "host" /\ (r.forward_host = "" \/ parsePort(r.forward_port) = "null"))
    PROVE  ~LocationRefused(LocationPayload(r)) /\ LocationPayload(r).path = r.path
  <1> DEFINE l == LocationPayload(r)
  <1>1. /\ r.mode \in {"pool", "host", "default_site", "custom_page", "error_page"}
        /\ r.upstream_id \in {"", "p"} /\ r.forward_host \in {"", "h"} /\ r.page \in {"", "c"}
        /\ r.code \in {"", "404"}
    BY DEF LocationForm
  <1>2. /\ l.path = r.path /\ l.target = r.mode
        /\ l.upstream_id = IF r.mode = "pool" THEN r.upstream_id ELSE "null"
        /\ l.forward_host = IF r.mode = "host" THEN r.forward_host ELSE "null"
        /\ l.forward_port = IF r.mode = "host" THEN parsePort(r.forward_port) ELSE "null"
        /\ l.page = IF r.mode = "custom_page" THEN r.page ELSE "null"
        /\ l.code = IF r.mode = "error_page" THEN r.code ELSE "null"
    BY DEF LocationPayload, PoolOf
  <1> HIDE DEF l
  <1>3. l.path \notin {"", "/", "/a b"}
    BY <1>2
  <1>4. l.target = "pool" <=> l.upstream_id # "null"
    BY <1>1, <1>2
  <1>5. l.target = "host" <=> l.forward_host \notin {"null", ""} /\ l.forward_port # "null"
    BY <1>1, <1>2
  <1>6. (l.target = "custom_page" <=> l.page # "null") /\ (l.target = "error_page" <=> l.code # "null")
    BY <1>1, <1>2
  <1> QED
    BY <1>2, <1>3, <1>4, <1>5, <1>6 DEF LocationRefused, l

LEMMA LocationBack == \A l \in LocationRows : LocationPayload(LocationSeed(l)) = l
  <1> SUFFICES ASSUME NEW l \in LocationRows PROVE LocationPayload(LocationSeed(l)) = l
    OBVIOUS
  <1> DEFINE r == LocationSeed(l)
  <1>1. /\ l.target \in {"pool", "host", "default_site", "custom_page", "error_page"}
        /\ l.upstream_id \in {"null", "p"} /\ l.forward_host \in {"null", "h"}
        /\ l.forward_port \in {"null", "80"} /\ l.page \in {"null", "c"} /\ l.code \in {"null", "404"}
    BY DEF LocationRows, LocationCells
  <1>2. /\ (l.target = "pool") = (l.upstream_id # "null") /\ (l.target = "host") = (l.forward_host # "null")
        /\ (l.target = "host") = (l.forward_port # "null")
        /\ (l.target = "custom_page") = (l.page # "null") /\ (l.target = "error_page") = (l.code # "null")
        /\ l = [path |-> l.path, target |-> l.target, upstream_id |-> l.upstream_id,
                forward_host |-> l.forward_host, forward_port |-> l.forward_port,
                forward_scheme |-> l.forward_scheme, page |-> l.page, code |-> l.code]
    BY DEF LocationRows
  <1>3. /\ r.path = l.path /\ r.mode = l.target /\ r.upstream_id = OrBlank(l.upstream_id)
        /\ r.forward_host = OrBlank(l.forward_host) /\ r.forward_port = OrBlank(l.forward_port)
        /\ r.page = OrBlank(l.page) /\ r.code = OrBlank(l.code)
        /\ r.forward_scheme = l.forward_scheme
    BY <1>1 DEF LocationSeed
  <1> HIDE DEF r
  <1>4. PoolOf(r) = l.upstream_id
    BY <1>1, <1>2, <1>3 DEF PoolOf, OrBlank
  <1>5. (IF r.mode = "host" THEN r.forward_host ELSE "null") = l.forward_host
    BY <1>1, <1>2, <1>3 DEF OrBlank
  <1>6. (IF r.mode = "host" THEN parsePort(r.forward_port) ELSE "null") = l.forward_port
    BY <1>1, <1>2, <1>3 DEF OrBlank, parsePort
  <1>7. /\ (IF r.mode = "custom_page" THEN r.page ELSE "null") = l.page
        /\ (IF r.mode = "error_page" THEN r.code ELSE "null") = l.code
    BY <1>1, <1>2, <1>3 DEF OrBlank
  <1>8. LocationPayload(r) = [path |-> l.path, target |-> l.target, upstream_id |-> l.upstream_id,
                              forward_host |-> l.forward_host, forward_port |-> l.forward_port,
                              forward_scheme |-> l.forward_scheme, page |-> l.page, code |-> l.code]
    BY <1>3, <1>4, <1>5, <1>6, <1>7 DEF LocationPayload
  <1> QED
    BY <1>2, <1>8 DEF r

\* A location is sent with the target of its kind.
LEMMA LocationIsSent ==
    ASSUME NEW r \in LocationForm, kind = "proxy"
    PROVE  LET l == LocationPayload(r) IN
           /\ l.path = r.path /\ l.target = r.mode /\ l.forward_scheme = r.forward_scheme
           /\ \A c \in {"upstream_id", "forward_host", "forward_port", "page", "code"} :
                l[c] = IF c \in TargetCell(r.mode) THEN Meaning(c, r[c]) ELSE "null"
  <1> DEFINE l == LocationPayload(r)
  <1>1. /\ r.mode \in {"pool", "host", "default_site", "custom_page", "error_page"}
        /\ r.upstream_id \in {"", "p"} /\ r.forward_host \in {"", "h"} /\ r.page \in {"", "c"}
        /\ r.code \in {"", "404"}
    BY DEF LocationForm
  <1>2. /\ l.path = r.path /\ l.target = r.mode /\ l.forward_scheme = r.forward_scheme
        /\ l.upstream_id = IF r.mode = "pool" THEN r.upstream_id ELSE "null"
        /\ l.forward_host = IF r.mode = "host" THEN r.forward_host ELSE "null"
        /\ l.forward_port = IF r.mode = "host" THEN parsePort(r.forward_port) ELSE "null"
        /\ l.page = IF r.mode = "custom_page" THEN r.page ELSE "null"
        /\ l.code = IF r.mode = "error_page" THEN r.code ELSE "null"
    BY DEF LocationPayload, PoolOf
  <1> HIDE DEF l
  <1>3. /\ "upstream_id" \in TargetCell(r.mode) <=> r.mode = "pool"
        /\ "forward_host" \in TargetCell(r.mode) <=> r.mode = "host"
        /\ "forward_port" \in TargetCell(r.mode) <=> r.mode = "host"
        /\ "page" \in TargetCell(r.mode) <=> r.mode = "custom_page"
        /\ "code" \in TargetCell(r.mode) <=> r.mode = "error_page"
    BY <1>1 DEF TargetCell
  <1>4. /\ Meaning("upstream_id", r.upstream_id) = r.upstream_id
        /\ Meaning("forward_host", r.forward_host) = r.forward_host
        /\ Meaning("page", r.page) = r.page /\ Meaning("code", r.code) = r.code
    <2>1. /\ trim(r.upstream_id) = r.upstream_id /\ trim(r.forward_host) = r.forward_host
          /\ trim(r.page) = r.page /\ trim(r.code) = r.code
      BY <1>1 DEF trim
    <2> QED
      BY <2>1, PlainMeaning
  <1>5. Meaning("forward_port", r.forward_port) = parsePort(r.forward_port)
    BY DEF Meaning, parsePort
  <1>6. ASSUME NEW c \in {"upstream_id", "forward_host", "forward_port", "page", "code"}
        PROVE  l[c] = IF c \in TargetCell(r.mode) THEN Meaning(c, r[c]) ELSE "null"
    BY <1>2, <1>3, <1>4, <1>5
  <1> QED
    BY <1>2, <1>6 DEF l

\* Proxy hosts: one target, coherent locations with distinct paths.
LEMMA ProxyLeaves ==
    ASSUME DialogInv, kind = "proxy", \A i \in DOMAIN Checks : ~Checks[i].bad
    PROVE  Sound(Payload) /\ Faithful(Payload) /\ Whole(Payload)
  <1> DEFINE p == ProxyPayload(form, stored)
             plain == {"domain_names", "forward_scheme", "enabled", "options", "tls", "security",
                       "maintenance", "maintenance_allow", "advanced_config"}
             named == {"certificate_id", "access_list_id"}
             target == {"upstream_id", "forward_host", "forward_port"}
  <1>1. Payload = p
    BY DEF Payload
  <1>2. Typed(kind, form) /\ stored \in ProxyRows \cup {NoHost} /\ Untouched
    BY DEF DialogInv, DialogTypes, RowsOf
  <1>3. Class(kind) = ProxyClass /\ DOMAIN form = plain \cup named \cup target \cup {"pending", "mode", "locations"}
    BY <1>2, ClassFields DEF Typed, Class
  <1>4. /\ form.mode \in {"pool", "host"} /\ form.upstream_id \in {"", "p"}
        /\ form.forward_host \in {"", "h"} /\ form.pending \in {"none", "bad"}
        /\ form.maintenance_allow \in {"empty", "ok", "loose", "bad"} /\ form.locations \in Seq(LocationForm)
    <2>1. /\ form.mode \in ProxyClass.mode /\ form.upstream_id \in ProxyClass.upstream_id
          /\ form.forward_host \in ProxyClass.forward_host /\ form.pending \in ProxyClass.pending
          /\ form.maintenance_allow \in ProxyClass.maintenance_allow
          /\ form.locations \in ProxyClass.locations
      BY <1>2, <1>3 DEF Typed
    <2> QED
      BY <2>1 DEF ProxyClass
  <1>5. /\ form.pending # "bad" /\ form.domain_names # "none"
        /\ form.mode = "pool" => form.upstream_id # ""
        /\ form.mode = "host" => form.forward_host # "" /\ parsePort(form.forward_port) # "null"
        /\ form.maintenance_allow # "bad" /\ ~validateLocations(form.locations)
    <2>1. Checks = ProxyChecks(form) /\ DOMAIN ProxyChecks(form) = 1..7
      BY ProxyChecksAre DEF Checks
    <2>2. \A i \in {1, 2, 3, 4, 5, 6, 7} : i \in 1..7
      OBVIOUS
    <2>3. \A i \in {1, 2, 3, 4, 5, 6, 7} : ~ProxyChecks(form)[i].bad
      BY <2>1, <2>2
    <2>4. form.pending # "bad" /\ form.domain_names # "none"
      <3>1. ~ProxyChecks(form)[1].bad /\ ~ProxyChecks(form)[2].bad
        BY <2>3
      <3> QED
        BY <3>1, ProxyChecksAre, Zenon
    <2>5. form.mode = "pool" => form.upstream_id # ""
      <3>1. ~ProxyChecks(form)[3].bad
        BY <2>3
      <3> QED
        BY <3>1, ProxyChecksAre, Zenon
    <2>6. form.mode = "host" => form.forward_host # "" /\ parsePort(form.forward_port) # "null"
      <3>1. ~ProxyChecks(form)[4].bad /\ ~ProxyChecks(form)[5].bad
        BY <2>3
      <3> QED
        BY <3>1, ProxyChecksAre, Zenon
    <2>7. isIpOrCidr(form.maintenance_allow) /\ ~validateLocations(form.locations)
      <3>1. ~ProxyChecks(form)[6].bad /\ ~ProxyChecks(form)[7].bad
        BY <2>3
      <3> QED
        BY <3>1, ProxyChecksAre, Zenon
    <2> QED
      BY <2>4, <2>5, <2>6, <2>7, Zenon DEF isIpOrCidr
  <1>6. /\ DOMAIN p = {"id", "appsec", "locations"} \cup plain \cup named \cup target
        /\ p.id = stored.id /\ p.appsec = IF stored = NoHost THEN "off" ELSE stored.appsec
        /\ p.certificate_id = certificateIdFromValue(form.certificate_id)
        /\ p.access_list_id = certificateIdFromValue(form.access_list_id)
        /\ p.locations = [i \in DOMAIN form.locations |-> LocationPayload(form.locations[i])]
    BY DEF ProxyPayload
  <1>7. \A x \in plain : p[x] = form[x]
    BY DEF ProxyPayload
  <1>8. form.mode = "pool" =>
            p.upstream_id = form.upstream_id /\ p.forward_host = "null" /\ p.forward_port = "null"
    BY DEF ProxyPayload, PoolOf
  <1>9. form.mode = "host" =>
            /\ p.upstream_id = "null" /\ p.forward_host = form.forward_host
            /\ p.forward_port = parsePort(form.forward_port)
    BY DEF ProxyPayload, PoolOf
  <1> HIDE DEF p
  <1>10. Sound(p)
    <2> SUFFICES ASSUME NEW f \in DOMAIN p \ {"users"}, Refused(kind, p, stored, f), ~LeftToApi(p, f) PROVE FALSE
      BY <1>6 DEF Sound
    <2>1. kind \notin AccountKinds
      BY KindNames
    <2>2. f \in {"domain_names", "upstream_id", "forward_host", "maintenance_allow", "locations"}
      BY <1>6, <2>1 DEF Refused
    <2>3. CASE f \in {"domain_names", "maintenance_allow"}
      <3>1. p[f] = form[f]
        BY <1>7, <2>3
      <3> QED
        BY <1>4, <1>5, <2>1, <2>3, <3>1 DEF Refused, LeftToApi
    <2>4. CASE f = "upstream_id"
      <3>1. ~OneTarget(p)
        BY <2>1, <2>4 DEF Refused
      <3>2. (p.upstream_id # "null") # (p.forward_host # "null" /\ p.forward_port # "null")
        <4>1. CASE form.mode = "pool"
          BY <1>4, <1>5, <1>8, <4>1
        <4>2. CASE form.mode = "host"
          BY <1>4, <1>5, <1>9, <4>2
        <4> QED
          BY <1>4, <4>1, <4>2
      <3> QED
        BY <3>1, <3>2 DEF OneTarget
    <2>5. CASE f = "forward_host"
      BY <1>4, <1>5, <1>8, <1>9, <2>1, <2>5 DEF Refused
    <2>6. CASE f = "locations"
      <3> DEFINE rows == form.locations
                 ls == p.locations
      <3>1. \A i \in DOMAIN rows :
               /\ rows[i] \in LocationForm /\ rows[i].path \notin {"", "/", "/a b"}
               /\ ~ \E j \in 1..(i - 1) : rows[j].path = rows[i].path
               /\ ~(rows[i].mode = "pool" /\ rows[i].upstream_id = "")
               /\ ~(rows[i].mode = "custom_page" /\ rows[i].page = "")
               /\ ~(rows[i].mode = "error_page" /\ rows[i].code = "")
               /\ ~(rows[i].mode = "host" /\ (rows[i].forward_host = "" \/ parsePort(rows[i].forward_port) = "null"))
        <4>1. \A i \in DOMAIN rows : rows[i] \in LocationForm
          BY <1>4, SeqFacts
        <4>2. ~validateLocations(rows)
          BY <1>5
        <4> HIDE DEF rows
        <4> QED
          BY <4>1, <4>2, Zenon DEF validateLocations
      <3>2. DOMAIN ls = DOMAIN rows /\ \A i \in DOMAIN rows : ls[i] = LocationPayload(rows[i])
        BY <1>6
      <3>3. DOMAIN rows = 1..Len(rows) /\ Len(rows) \in Nat
        BY <1>4, SeqFacts
      <3> HIDE DEF rows, ls
      <3>4. \A i \in DOMAIN rows : ~LocationRefused(ls[i]) /\ ls[i].path = rows[i].path
        BY <3>1, <3>2, LocationFits
      <3>5. \A i, j \in DOMAIN rows : j < i => ls[j].path # ls[i].path
        <4> SUFFICES ASSUME NEW i \in DOMAIN rows, NEW j \in DOMAIN rows, j < i PROVE ls[j].path # ls[i].path
          OBVIOUS
        <4>1. j \in 1..(i - 1)
          BY <3>3
        <4> QED
          BY <3>1, <3>4, <4>1
      <3>6. \A i, j \in DOMAIN rows : i # j => i < j \/ j < i
        BY <3>3
      <3>7. \/ \E i \in DOMAIN ls : LocationRefused(ls[i])
            \/ \E i, j \in DOMAIN ls : i # j /\ ls[i].path = ls[j].path
        BY <2>1, <2>6 DEF Refused, ls
      <3> QED
        BY <3>2, <3>4, <3>5, <3>6, <3>7
    <2> QED
      BY <2>2, <2>3, <2>4, <2>5, <2>6
  <1>11. Faithful(p)
    <2> SUFFICES ASSUME isEdit, NEW x \in DOMAIN p, DecidedBy(x) \cap touched = {}
                 PROVE  AsStored(p, x)
      BY DEF Faithful
    <2>1. x \notin touched /\ (x \in target => "mode" \notin touched)
      BY DEF DecidedBy
    <2>2. stored # NoHost /\ stored \in ProxyRows
      BY <1>2 DEF isEdit, NoHost
    <2>3. /\ stored.upstream_id \in {"null", "p"}
          /\ stored.forward_host \in {"null", "h"} /\ stored.forward_port \in {"null", "80"}
          /\ stored.certificate_id \in {"null", "active", "pending"} /\ stored.access_list_id \in {"null", "1"}
          /\ OneTargetStored(stored) /\ stored.locations \in Seq(LocationRows)
      BY <2>2 DEF ProxyRows, CertificateIds
    <2>4. SUFFICES p[x] = stored[x]
      BY <1>6 DEF AsStored
    <2> DEFINE s == ProxySeed(stored)
    <2>5. \A y \in DOMAIN form : y \notin touched => form[y] = s[y]
      <3>1. Seed(kind, stored) = s
        BY DEF Seed
      <3> QED
        BY <1>2, <3>1 DEF Untouched
    <2>6. /\ s.mode = IF stored.upstream_id # "null" THEN "pool" ELSE "host"
          /\ s.upstream_id = OrBlank(stored.upstream_id) /\ s.forward_host = OrBlank(stored.forward_host)
          /\ s.forward_port = OrBlank(stored.forward_port)
          /\ s.certificate_id = valueFromCertificateId(stored.certificate_id)
          /\ s.access_list_id = valueFromCertificateId(stored.access_list_id)
          /\ s.locations = [i \in DOMAIN stored.locations |-> LocationSeed(stored.locations[i])]
      BY <2>2, ProxySeedIs
    <2>7. \A y \in plain : s[y] = stored[y]
      BY <2>2, ProxySeedIs
    <2> HIDE DEF s
    <2>8. CASE x \in plain
      BY <1>3, <1>7, <2>1, <2>5, <2>7, <2>8
    <2>9. CASE x \in {"id", "appsec"}
      BY <1>6, <2>2, <2>9
    <2>10. CASE x \in named
      <3>1. form[x] = s[x]
        BY <1>3, <2>1, <2>5, <2>10
      <3> QED
        BY <1>6, <2>3, <2>6, <2>10, <3>1 DEF certificateIdFromValue, valueFromCertificateId
    <2>11. CASE x \in target
      <3>1. form.mode = s.mode /\ form[x] = s[x]
        BY <1>3, <2>1, <2>5, <2>11
      <3>2. CASE stored.upstream_id = "p"
        BY <1>8, <2>3, <2>6, <2>11, <3>1, <3>2 DEF OneTargetStored, OrBlank
      <3>3. CASE stored.upstream_id = "null"
        <4>1. stored.forward_host = "h" /\ stored.forward_port = "80"
          BY <2>3, <3>3 DEF OneTargetStored
        <4>2. /\ form.mode = "host" /\ (x = "forward_host" => form.forward_host = "h")
              /\ (x = "forward_port" => form.forward_port = "80")
          BY <2>6, <3>1, <3>3, <4>1 DEF OrBlank
        <4> QED
          BY <1>9, <2>11, <3>3, <4>1, <4>2 DEF parsePort
      <3> QED
        BY <2>3, <3>2, <3>3
    <2>12. CASE x = "locations"
      <3> DEFINE rows == stored.locations
      <3>1. form.locations = s.locations
        BY <1>3, <2>1, <2>5, <2>12
      <3>2. /\ DOMAIN p.locations = DOMAIN rows /\ p.locations = [i \in DOMAIN p.locations |-> p.locations[i]]
            /\ \A i \in DOMAIN rows : p.locations[i] = LocationPayload(LocationSeed(rows[i]))
        BY <1>6, <2>6, <3>1
      <3>3. rows = [i \in DOMAIN rows |-> rows[i]] /\ \A i \in DOMAIN rows : rows[i] \in LocationRows
        BY <2>3
      <3> HIDE DEF rows
      <3>4. \A i \in DOMAIN rows : p.locations[i] = rows[i]
        BY <3>2, <3>3, LocationBack
      <3>5. p.locations = rows
        BY <3>2, <3>3, <3>4
      <3> QED
        BY <2>12, <3>5 DEF rows
    <2> QED
      BY <1>6, <2>8, <2>9, <2>10, <2>11, <2>12
  <1>12. LocationsAreSent(p)
    <2> DEFINE rows == form.locations
    <2>1. \A i \in DOMAIN rows : rows[i] \in LocationForm
      BY <1>4, SeqFacts
    <2>2. DOMAIN p.locations = DOMAIN rows /\ \A i \in DOMAIN rows : p.locations[i] = LocationPayload(rows[i])
      BY <1>6
    <2> HIDE DEF rows
    <2>3. ASSUME NEW i \in DOMAIN rows
          PROVE  LET r == rows[i] l == p.locations[i] IN
                 /\ l.path = r.path /\ l.target = r.mode /\ l.forward_scheme = r.forward_scheme
                 /\ \A c \in {"upstream_id", "forward_host", "forward_port", "page", "code"} :
                      l[c] = IF c \in TargetCell(r.mode) THEN Meaning(c, r[c]) ELSE "null"
      <3>1. rows[i] \in LocationForm /\ p.locations[i] = LocationPayload(rows[i])
        BY <2>1, <2>2, <2>3
      <3> QED
        BY <3>1, LocationIsSent, Zenon
    <2> QED
      BY <2>2, <2>3, Zenon DEF LocationsAreSent, rows
  <1>13. FieldsAreSent(p)
    <2>1. DOMAIN RowPanels(kind) = {"locations"} /\ kind \in HostKinds
      BY KindNames DEF RowPanels
    <2> SUFFICES ASSUME NEW x \in DOMAIN form \ {"locations"}
                 PROVE  IF x \in DOMAIN p THEN FieldIsSent(p, x) ELSE MayBeLeftOut(p, x)
      BY <2>1 DEF FieldsAreSent
    <2>2. CASE x = "mode"
      <3>1. x \notin DOMAIN p /\ (form.mode = "pool" <=> p.upstream_id # "null")
        BY <1>4, <1>6, <1>8, <1>9, <2>2
      <3> QED
        BY <2>2, <3>1 DEF MayBeLeftOut
    <2>3. CASE x = "pending"
      BY <1>4, <1>5, <1>6, <2>3 DEF MayBeLeftOut
    <2>4. CASE x \in plain
      <3>1. x \in DOMAIN p /\ p[x] = form[x]
        BY <1>6, <1>7, <2>4
      <3> QED
        BY <1>2, <2>1, <2>4, <3>1, PlainIsSent
    <2>5. CASE x \in named
      BY <1>6, <2>1, <2>5, ReferenceIsSent
    <2>6. CASE x \in target
      <3>1. form.mode = "host" => p.forward_port = Meaning("forward_port", form.forward_port)
        BY <1>9 DEF parsePort, Meaning
      <3>2. FieldIsSent(p, x)
        BY <1>2, <1>3, <1>4, <1>8, <1>9, <2>6, <3>1, TargetIsSent
      <3> QED
        BY <1>6, <2>6, <3>2
    <2> QED
      BY <1>3, <2>2, <2>3, <2>4, <2>5, <2>6
  <1>14. Whole(p)
    BY <1>12, <1>13 DEF Whole
  <1> QED
    BY <1>1, <1>10, <1>11, <1>14

\* Access lists: the rows that are not blank.
LEMMA FilledAre ==
    ASSUME NEW rows, NEW S, rows \in Seq(S), NEW B, B \subseteq DOMAIN rows
    PROVE  IsFiniteSet(B) /\ Cardinality(B) \in Nat /\ Len(rows) \in Nat /\ B \subseteq 1..Len(rows)
  <1>1. DOMAIN rows = 1..Len(rows) /\ Len(rows) \in Nat
    BY SeqFacts
  <1>2. IsFiniteSet(1..Len(rows))
    <2>1. 1 \in Int /\ Len(rows) \in Int
      BY <1>1
    <2> QED
      BY <2>1, FS_Interval
  <1>3. IsFiniteSet(B)
    BY <1>1, <1>2, FS_Subset
  <1>4. Cardinality(B) \in Nat
    BY <1>3, FS_CardinalityType
  <1> QED
    BY <1>1, <1>3, <1>4

\* No two rows of a table take the same place among those that are sent.
LEMMA PlacesDiffer ==
    ASSUME NEW n \in Nat, NEW P, P \subseteq 1..n, IsFiniteSet(P), NEW i \in P, NEW j \in P, i < j
    PROVE  PlaceIn(P, i) # PlaceIn(P, j)
  <1> DEFINE A == {k \in P : k <= i}
             B == {k \in P : k <= j}
  <1>1. i \in Int /\ j \in Int /\ \A k \in P : k \in Int
    OBVIOUS
  <1>2. A \subseteq B /\ B \subseteq P
    <2>1. \A k \in P : k <= i => k <= j
      BY <1>1
    <2> QED
      BY <2>1
  <1>5. j \in B /\ j \notin A
    BY <1>1
  <1>3. IsFiniteSet(B)
    BY <1>2, FS_Subset
  <1> HIDE DEF A, B
  <1>4. Cardinality(B) # Cardinality(A)
    BY <1>2, <1>3, <1>5, FS_Subset
  <1> QED
    BY <1>4 DEF PlaceIn, A, B

LEMMA PlaceIsOne ==
    ASSUME NEW n \in Nat, NEW P, P \subseteq 1..n, IsFiniteSet(P), NEW i \in P
    PROVE  PlaceIn(P, i) \in 1..Cardinality(P)
  <1> DEFINE A == {k \in P : k <= i}
  <1>1. i \in A /\ A \subseteq P
    OBVIOUS
  <1> HIDE DEF A
  <1>2. IsFiniteSet(A) /\ Cardinality(A) <= Cardinality(P)
    BY <1>1, FS_Subset
  <1>3. Cardinality(A) \in Nat /\ Cardinality(P) \in Nat
    BY <1>2, FS_CardinalityType
  <1>4. Cardinality(A) # 0
    BY <1>1, <1>2, FS_EmptySet
  <1> QED
    BY <1>2, <1>3, <1>4 DEF PlaceIn, A

\* What stands in that place is the row.
LEMMA RowAtPlace ==
    ASSUME NEW rows, NEW n \in Nat, NEW P, P \subseteq 1..n, IsFiniteSet(P), NEW i \in P
    PROVE  RowsAt(rows, P)[PlaceIn(P, i)] = rows[i]
  <1> DEFINE m == PlaceIn(P, i)
  <1>1. m \in 1..Cardinality(P)
    BY PlaceIsOne
  <1>2. \A k \in P : PlaceIn(P, k) = m => k = i
    <2> SUFFICES ASSUME NEW k \in P, PlaceIn(P, k) = m, k # i PROVE FALSE
      OBVIOUS
    <2>1. k < i \/ i < k
      OBVIOUS
    <2> QED
      BY <2>1, PlacesDiffer
  <1> HIDE DEF m
  <1>3. (CHOOSE k \in P : PlaceIn(P, k) = m) = i
    BY <1>2 DEF m
  <1>4. RowsAt(rows, P)[m] = rows[CHOOSE k \in P : PlaceIn(P, k) = m]
    BY <1>1, Zenon DEF RowsAt, PlaceIn
  <1> QED
    BY <1>3, <1>4 DEF m

\* When no row is left out, each keeps its place.
LEMMA FullPlaces ==
    ASSUME NEW n \in Nat, NEW i \in 1..n
    PROVE  PlaceIn(1..n, i) = i
  <1>1. {k \in 1..n : k <= i} = 1..i
    OBVIOUS
  <1>2. Cardinality(1..i) = IF 1 > i THEN 0 ELSE i - 1 + 1
    <2>1. 1 \in Int /\ i \in Int
      OBVIOUS
    <2> QED
      BY <2>1, FS_Interval, Zenon
  <1>3. Cardinality(1..i) = i
    BY <1>2
  <1> QED
    BY <1>1, <1>3, Zenon DEF PlaceIn

LEMMA FullTable == \A n \in Nat : Cardinality(1..n) = n
  <1> SUFFICES ASSUME NEW n \in Nat PROVE Cardinality(1..n) = n
    OBVIOUS
  <1>1. Cardinality(1..n) = IF 1 > n THEN 0 ELSE n - 1 + 1
    <2>1. 1 \in Int /\ n \in Int
      OBVIOUS
    <2> QED
      BY <2>1, FS_Interval, Zenon
  <1> QED
    BY <1>1

LEMMA LenOf ==
    ASSUME NEW n \in Nat, NEW t, t = [i \in 1..n |-> t[i]]
    PROVE  Len(t) = n
  OBVIOUS

LEMMA SeededIds ==
    ASSUME NEW u, NEW t,
           t = [i \in DOMAIN u |-> [id |-> u[i].id, username |-> u[i].username, password |-> ""]]
    PROVE  /\ DOMAIN t = DOMAIN u
           /\ \A i \in DOMAIN u : t[i].id = u[i].id /\ t[i].username = u[i].username /\ t[i].password = ""
  OBVIOUS

LEMMA ListLeaves ==
    ASSUME DialogInv, kind = "access_list", \A i \in DOMAIN Checks : ~Checks[i].bad
    PROVE  Sound(Payload) /\ Faithful(Payload) /\ Whole(Payload)
  <1> DEFINE p == ListPayload(form, stored)
             fields == {"name", "satisfy_any", "pass_auth", "users", "clients"}
  <1>1. Payload = p
    BY DEF Payload
  <1>2. Typed(kind, form) /\ stored \in ListRows \cup {NoHost} /\ Untouched
    BY DEF DialogInv, DialogTypes, RowsOf
  <1>3. Class(kind) = ListClass /\ DOMAIN form = fields
    BY <1>2, ClassFields DEF Typed, Class
  <1>4. form.users \in Seq(UserForm) /\ form.clients \in Seq(ClientForm)
    <2>1. form.users \in ListClass.users /\ form.clients \in ListClass.clients
      BY <1>2, <1>3 DEF Typed
    <2> QED
      BY <2>1 DEF ListClass
  <1>5. form.name # "" /\ ~UsersUnfit(form) /\ ~ClientsUnfit(form)
    <2>1. Checks = ListChecks(form) /\ DOMAIN ListChecks(form) = 1..3
      BY ListChecksAre DEF Checks
    <2>2. \A i \in {1, 2, 3} : i \in 1..3
      OBVIOUS
    <2>3. \A i \in {1, 2, 3} : ~ListChecks(form)[i].bad
      BY <2>1, <2>2
    <2>4. ~ListChecks(form)[1].bad /\ ~ListChecks(form)[2].bad /\ ~ListChecks(form)[3].bad
      BY <2>3
    <2> QED
      BY <2>4, ListChecksAre, Zenon
  <1>6. /\ DOMAIN p = {"id"} \cup fields /\ p.id = stored.id /\ p.name = form.name
        /\ p.satisfy_any = form.satisfy_any /\ p.pass_auth = form.pass_auth
    BY DEF ListPayload
  <1> DEFINE us == submittableUsers(form)
             cs == submittableClients(form)
             U == FilledUsers(form)
             C == FilledClients(form)
  <1>7. /\ IsFiniteSet(U) /\ Cardinality(U) \in Nat /\ U \subseteq 1..Len(form.users)
        /\ IsFiniteSet(C) /\ Cardinality(C) \in Nat /\ C \subseteq 1..Len(form.clients)
        /\ Len(form.users) \in Nat /\ Len(form.clients) \in Nat
    <2>1. U \subseteq DOMAIN form.users /\ C \subseteq DOMAIN form.clients
      BY DEF FilledUsers, FilledClients
    <2> QED
      BY <1>4, <2>1, FilledAre
  <1>8. /\ DOMAIN us = 1..Cardinality(U) /\ DOMAIN cs = 1..Cardinality(C)
        /\ \A i \in U : us[PlaceIn(U, i)] = form.users[i] /\ PlaceIn(U, i) \in DOMAIN us
        /\ \A i \in C : cs[PlaceIn(C, i)] = form.clients[i] /\ PlaceIn(C, i) \in DOMAIN cs
    <2>1. DOMAIN us = 1..Cardinality(U) /\ DOMAIN cs = 1..Cardinality(C)
      BY DEF submittableUsers, submittableClients, RowsAt
    <2>2. \A i \in U : us[PlaceIn(U, i)] = form.users[i] /\ PlaceIn(U, i) \in 1..Cardinality(U)
      BY <1>7, RowAtPlace, PlaceIsOne DEF submittableUsers
    <2>3. \A i \in C : cs[PlaceIn(C, i)] = form.clients[i] /\ PlaceIn(C, i) \in 1..Cardinality(C)
      BY <1>7, RowAtPlace, PlaceIsOne DEF submittableClients
    <2> QED
      BY <2>1, <2>2, <2>3
  <1>9. /\ p.users = [i \in DOMAIN us |-> [username |-> us[i].username, password |-> PasswordOf(us[i])]]
        /\ p.clients = [i \in DOMAIN cs |-> [address |-> cs[i].address, directive |-> cs[i].directive]]
    BY DEF ListPayload
  <1> HIDE DEF p, us, cs, U, C
  <1>10. /\ DOMAIN p.users = DOMAIN us /\ Len(p.users) = Cardinality(U)
         /\ \A i \in DOMAIN us : p.users[i].username = us[i].username /\ p.users[i].password = PasswordOf(us[i])
    <2>1. DOMAIN p.users = DOMAIN us /\ p.users = [i \in 1..Cardinality(U) |-> p.users[i]]
      BY <1>8, <1>9
    <2>2. Len(p.users) = Cardinality(U)
      BY <1>7, <2>1, LenOf
    <2> QED
      BY <1>9, <2>1, <2>2
  <1>11. /\ DOMAIN p.clients = DOMAIN cs /\ Len(p.clients) = Cardinality(C)
         /\ \A i \in DOMAIN cs : p.clients[i].address = cs[i].address /\ p.clients[i].directive = cs[i].directive
    <2>1. DOMAIN p.clients = DOMAIN cs /\ p.clients = [i \in 1..Cardinality(C) |-> p.clients[i]]
      BY <1>8, <1>9
    <2>2. Len(p.clients) = Cardinality(C)
      BY <1>7, <2>1, LenOf
    <2> QED
      BY <1>9, <2>1, <2>2
  <1>12. Sound(p)
    <2>1. kind \notin AccountKinds
      BY KindNames
    <2>2. LeftToApi(p, "users")
      <3>1. \A i \in DOMAIN us :
               /\ us[i].username # "" /\ ~(us[i].id = "new" /\ us[i].password = "")
               /\ ~ \E j \in 1..(i - 1) : us[j].username = us[i].username
        BY <1>5, Zenon DEF UsersUnfit, us
      <3>2. \A i, j \in DOMAIN us : j < i => us[j].username # us[i].username
        <4> SUFFICES ASSUME NEW i \in DOMAIN us, NEW j \in DOMAIN us, j < i
                     PROVE  us[j].username # us[i].username
          OBVIOUS
        <4>1. j \in 1..(i - 1)
          BY <1>7, <1>8
        <4> QED
          BY <3>1, <4>1
      <3>3. \A i, j \in DOMAIN us : i # j => i < j \/ j < i
        BY <1>7, <1>8
      <3>4. ASSUME NEW i \in DOMAIN p.users
            PROVE  /\ p.users[i].username # ""
                   /\ \A j \in DOMAIN p.users : p.users[j].username = p.users[i].username => j = i
                   /\ p.users[i].password = "null" => us[i].id # "new"
        <4>1. p.users[i].username # ""
          BY <1>10, <3>1, <3>4
        <4>2. \A j \in DOMAIN p.users : p.users[j].username = p.users[i].username => j = i
          BY <1>10, <3>2, <3>3, <3>4
        <4>3. p.users[i].password = "null" => us[i].id # "new"
          BY <1>10, <3>1, <3>4 DEF PasswordOf
        <4> QED
          BY <4>1, <4>2, <4>3
      <3> QED
        BY <3>4, Zenon DEF LeftToApi, us
    <2>3. LeftToApi(p, "clients")
      <3>1. \A i \in DOMAIN cs : cs[i].address # ""
        BY <1>5, Zenon DEF ClientsUnfit, cs
      <3>2. \A i \in DOMAIN p.clients : p.clients[i].address # ""
        BY <1>11, <3>1
      <3> QED
        BY <3>2, Zenon DEF LeftToApi
    <2>4. SUFFICES ASSUME NEW f \in DOMAIN p \ {"users", "clients"}, Refused(kind, p, stored, f)
                   PROVE  FALSE
      BY <2>2, <2>3 DEF Sound
    <2>5. f = "name" /\ p[f] = ""
      BY <1>6, <2>1, <2>4 DEF Refused
    <2> QED
      BY <1>5, <1>6, <2>5
  <1>13. \A i \in DOMAIN form.users : form.users[i] \in UserForm
    BY <1>4, SeqFacts
  <1>14. \A i \in DOMAIN form.clients : form.clients[i] \in ClientForm
    BY <1>4, SeqFacts
  <1>15. Faithful(p)
    <2> SUFFICES ASSUME isEdit, NEW x \in DOMAIN p, DecidedBy(x) \cap touched = {}
                 PROVE  AsStored(p, x)
      BY DEF Faithful
    <2>1. x \notin touched
      BY DEF DecidedBy
    <2>2. stored # NoHost /\ stored \in ListRows
      BY <1>2 DEF isEdit, NoHost
    <2>3. stored.users \in Seq(ListUsers) /\ stored.clients \in Seq(ListClients)
      BY <2>2 DEF ListRows
    <2>4. x # "id" => form[x] = ListSeed(stored)[x]
      <3>1. Seed(kind, stored) = ListSeed(stored)
        BY DEF Seed
      <3> QED
        BY <1>2, <1>3, <1>6, <2>1, <3>1 DEF Untouched
    <2> DEFINE s == ListSeed(stored)
    <2>5. /\ s.name = stored.name /\ s.satisfy_any = stored.satisfy_any /\ s.pass_auth = stored.pass_auth
          /\ s.clients = stored.clients
          /\ s.users = [i \in DOMAIN stored.users |->
                          [id |-> stored.users[i].id, username |-> stored.users[i].username, password |-> ""]]
      BY <2>2 DEF ListSeed
    <2> HIDE DEF s
    <2>6. CASE x \in {"id", "name", "satisfy_any", "pass_auth"}
      BY <1>6, <2>4, <2>5, <2>6 DEF AsStored, s
    <2>7. CASE x = "users"
      <3>1. /\ DOMAIN form.users = DOMAIN stored.users
            /\ \A i \in DOMAIN stored.users :
                 /\ form.users[i].id = stored.users[i].id /\ form.users[i].password = ""
                 /\ form.users[i].username = stored.users[i].username
        <4>1. form.users = s.users
          BY <2>4, <2>7 DEF s
        <4> DEFINE u == stored.users
                   t == form.users
        <4>2. t = [i \in DOMAIN u |-> [id |-> u[i].id, username |-> u[i].username, password |-> ""]]
          BY <2>5, <4>1
        <4> HIDE DEF u, t
        <4>3. /\ DOMAIN t = DOMAIN u
              /\ \A i \in DOMAIN u : t[i].id = u[i].id /\ t[i].username = u[i].username /\ t[i].password = ""
          BY <4>2, SeededIds
        <4> QED
          BY <4>3 DEF u, t
      <3>2. \A i \in DOMAIN stored.users : stored.users[i].id \in Texts
        <4>1. \A i \in DOMAIN stored.users : stored.users[i] \in ListUsers
          BY <2>3, SeqFacts
        <4> QED
          BY <4>1 DEF ListUsers
      <3>3. U = DOMAIN form.users /\ DOMAIN form.users = 1..Len(form.users)
        <4>1. DOMAIN form.users = 1..Len(form.users)
          BY <1>4, SeqFacts
        <4>2. U = DOMAIN form.users
          BY <3>1, <3>2, DialogConstants DEF FilledUsers, isBlankUser, U
        <4> QED
          BY <4>1, <4>2
      <3>4. \A i \in U : PlaceIn(U, i) = i
        BY <1>7, <3>3, FullPlaces
      <3>5. \A i \in U : us[i] = form.users[i] /\ i \in DOMAIN us
        BY <1>8, <3>4
      <3>6. DOMAIN us = DOMAIN stored.users
        <4>1. Cardinality(U) = Len(form.users)
          BY <1>7, <3>3, FullTable
        <4> QED
          BY <1>8, <3>1, <3>3, <4>1
      <3>7. \A i \in DOMAIN stored.users :
               p.users[i].username = stored.users[i].username /\ p.users[i].password = "null"
        <4> SUFFICES ASSUME NEW i \in DOMAIN stored.users
                     PROVE  p.users[i].username = stored.users[i].username /\ p.users[i].password = "null"
          OBVIOUS
        <4>1. i \in U /\ i \in DOMAIN us /\ us[i] = form.users[i]
          BY <3>1, <3>3, <3>5
        <4>2. p.users[i].username = us[i].username /\ p.users[i].password = PasswordOf(us[i])
          BY <1>10, <4>1
        <4> QED
          BY <3>1, <4>1, <4>2 DEF PasswordOf
      <3> QED
        BY <1>10, <2>7, <3>6, <3>7, Zenon DEF AsStored
    <2>8. CASE x = "clients"
      <3>1. form.clients = stored.clients
        BY <2>4, <2>5, <2>8 DEF s
      <3>2. \A i \in DOMAIN stored.clients : stored.clients[i].id \in Texts
        <4>1. \A i \in DOMAIN stored.clients : stored.clients[i] \in ListClients
          BY <2>3, SeqFacts
        <4> QED
          BY <4>1 DEF ListClients
      <3>3. C = DOMAIN form.clients /\ DOMAIN form.clients = 1..Len(form.clients)
        <4>1. DOMAIN form.clients = 1..Len(form.clients)
          BY <1>4, SeqFacts
        <4>2. C = DOMAIN form.clients
          BY <3>1, <3>2, DialogConstants DEF FilledClients, isBlankClient, C
        <4> QED
          BY <4>1, <4>2
      <3>4. \A i \in C : PlaceIn(C, i) = i
        BY <1>7, <3>3, FullPlaces
      <3>5. \A i \in C : cs[i] = form.clients[i] /\ i \in DOMAIN cs
        BY <1>8, <3>4
      <3>6. DOMAIN cs = DOMAIN stored.clients
        <4>1. Cardinality(C) = Len(form.clients)
          BY <1>7, <3>3, FullTable
        <4> QED
          BY <1>8, <3>1, <3>3, <4>1
      <3>7. \A i \in DOMAIN stored.clients :
               /\ p.clients[i].address = stored.clients[i].address
               /\ p.clients[i].directive = stored.clients[i].directive
        BY <1>11, <3>1, <3>3, <3>5
      <3> QED
        BY <1>11, <2>8, <3>6, <3>7, Zenon DEF AsStored
    <2> QED
      BY <1>6, <2>6, <2>7, <2>8
  <1>16. UsersAreSent(p)
    <2>1. UserRowsInUse = U
      BY DEF UserRowsInUse, U, FilledUsers, isBlankUser
    <2>2. ASSUME NEW i \in U
          PROVE  /\ p.users[PlaceIn(U, i)].username = form.users[i].username
                 /\ p.users[PlaceIn(U, i)].password = OrNull(form.users[i].password)
      <3>1. us[PlaceIn(U, i)] = form.users[i] /\ PlaceIn(U, i) \in DOMAIN us
        BY <1>8, <2>2
      <3>2. form.users[i].password \in {"", "typed"}
        BY <1>13, <2>2 DEF UserForm, U, FilledUsers
      <3> QED
        BY <1>10, <3>1, <3>2 DEF PasswordOf, OrNull
    <2> QED
      BY <1>10, <2>1, <2>2, Zenon DEF UsersAreSent
  <1>17. ClientsAreSent(p)
    <2>1. ClientRowsInUse = C
      <3>1. \A i \in DOMAIN form.clients : form.clients[i].directive \in {"allow", "deny"}
        BY <1>14 DEF ClientForm
      <3> QED
        BY <3>1 DEF ClientRowsInUse, C, FilledClients, isBlankClient
    <2>2. ASSUME NEW i \in C
          PROVE  /\ p.clients[PlaceIn(C, i)].address = form.clients[i].address
                 /\ p.clients[PlaceIn(C, i)].directive = form.clients[i].directive
      <3>1. cs[PlaceIn(C, i)] = form.clients[i] /\ PlaceIn(C, i) \in DOMAIN cs
        BY <1>8, <2>2
      <3> QED
        BY <1>11, <3>1
    <2> QED
      BY <1>11, <2>1, <2>2, Zenon DEF ClientsAreSent
  <1>18. FieldsAreSent(p)
    <2>1. DOMAIN RowPanels(kind) = {"users", "clients"} /\ kind \in HostKinds
      BY KindNames DEF RowPanels
    <2> SUFFICES ASSUME NEW x \in {"name", "satisfy_any", "pass_auth"}
                 PROVE  IF x \in DOMAIN p THEN FieldIsSent(p, x) ELSE MayBeLeftOut(p, x)
      BY <1>3, <2>1 DEF FieldsAreSent
    <2>2. x \in DOMAIN p /\ p[x] = form[x] /\ x \in DOMAIN form
      BY <1>3, <1>6
    <2> QED
      BY <1>2, <2>1, <2>2, PlainIsSent
  <1>19. Whole(p)
    BY <1>16, <1>17, <1>18 DEF Whole
  <1> QED
    BY <1>1, <1>12, <1>15, <1>19

\* What leaves a dialog, whatever it is about.
LEMMA SubmitKeeps ==
    ASSUME DialogInv, Submit
    PROVE  DialogInv'
  <1>1. CASE \E i : Named(i)
    BY <1>1, NamedKeeps
  <1>2. CASE Leaves
    <2>1. /\ kind \in Kinds /\ AccountSendable(kind, form, hasOptions)
          /\ \A i \in DOMAIN Checks : ~Checks[i].bad
      BY <1>2 DEF Leaves, DialogInv, DialogTypes, Submit
    <2>2. Sound(Payload) /\ Faithful(Payload) /\ Whole(Payload)
      BY <2>1, KindNames, ProxyLeaves, RedirectionLeaves, StreamLeaves, ListLeaves, CertificateLeaves,
         WhitelistLeaves, UserLeaves, PersonLeaves, DnsLeaves
    <2> QED
      BY <1>2, <2>2, LeavesKeeps
  <1> QED
    BY <1>1, <1>2, SubmitSplit

\* Every step of a dialog preserves its invariant.
LEMMA DialogStep ==
    ASSUME DialogInv, Next
    PROVE  DialogInv'
  <1>1. CASE \E t \in DOMAIN Panels(kind) : \E f \in DOMAIN Panels(kind)[t] :
                 \E v \in Panels(kind)[t][f] : EditControl(t, f, v)
    BY <1>1, EditControlKeeps
  <1>2. CASE \E f \in DOMAIN RowPanels(kind) :
                 \/ AddRow(f)
                 \/ \E i \in DOMAIN form[f] :
                       RemoveRow(f, i) \/ \E c \in DOMAIN Cells[f] : \E v \in Cells[f][c] : EditCell(f, i, c, v)
    BY <1>2, TableRowsKeep
  <1>3. CASE \E t \in Tabs(kind) : ChooseTab(t)
    BY <1>3, ChooseTabKeeps
  <1>4. CASE Submit
    BY <1>4, SubmitKeeps
  <1>5. CASE AnswerSave
    BY <1>5, AnswerSaveKeeps
  <1>6. CASE \E accept \in BOOLEAN : ServeSave(accept)
    BY <1>6, ServeSaveKeeps
  <1> QED
    BY <1>1, <1>2, <1>3, <1>4, <1>5, <1>6 DEF Next

UsersRefused(ps, us) ==
    \E i \in DOMAIN ps :
        \/ ps[i].username \in {"", "u:v"}
        \/ ps[i].password = "null" /\ ps[i].username \notin DOMAIN us
        \/ \E j \in DOMAIN ps : i # j /\ ps[i].username = ps[j].username

LEMMA UsersRefusedIs ==
    ASSUME NEW k, NEW p
    PROVE  /\ "users" \in ApiRefuses(k, p) <=>
                 /\ "users" \in DOMAIN p
                 /\ \/ UsersRefused(p.users, users)
                    \/ k \in AccountKinds /\ AccountRefused("users", p, stored)
           /\ "users" \in ApiRefuses(k, p)' <=>
                 /\ "users" \in DOMAIN p
                 /\ \/ UsersRefused(p.users, users')
                    \/ k \in AccountKinds /\ AccountRefused("users", p, stored')
  <1>1. "users" \in ApiRefuses(k, p) <=>
           /\ "users" \in DOMAIN p
           /\ \/ UsersRefused(p.users, users)
              \/ k \in AccountKinds /\ AccountRefused("users", p, stored)
    BY ZenonT(60) DEF ApiRefuses, UsersRefused
  <1>2. "users" \in ApiRefuses(k, p)' <=>
           /\ "users" \in DOMAIN p
           /\ \/ UsersRefused(p.users, users')
              \/ k \in AccountKinds /\ AccountRefused("users", p, stored')
    BY ZenonT(60) DEF ApiRefuses, UsersRefused
  <1> QED
    BY <1>1, <1>2

LEMMA DialogStays ==
    ASSUME DialogInv, UNCHANGED formVars
    PROVE  DialogInv'
  <1>1. UNCHANGED <<kind, stored, hasOptions, form, tab, problem, step, sent, touched, users, edits, tries>>
    BY DEF formVars
  <1>2. DialogTypes'
    BY <1>1 DEF DialogInv, DialogTypes
  <1>3. Untouched' /\ TokenOfProvider'
    BY <1>1, SeedStays DEF DialogInv, Untouched, TokenOfProvider, isEdit
  <1>4. SentIsPayload'
    <2>1. Payload' = Payload
      BY <1>1, Zenon DEF Payload
    <2> QED
      BY <1>1, <2>1 DEF DialogInv, SentIsPayload
  <1>5. EditsAreSent'
    BY <1>1, PartsStay DEF DialogInv, EditsAreSent
  <1>6. PasswordsAsEntered'
    BY <1>1, Zenon DEF DialogInv, PasswordsAsEntered, isEdit
  <1>7. AcceptedByApi'
    <2>1. ASSUME NEW f, f \in ApiRefuses(kind, sent)' PROVE f \in ApiRefuses(kind, sent)
      <3>1. CASE f = "users"
        <4>1. /\ "users" \in DOMAIN sent'
              /\ \/ UsersRefused(sent'.users, users')
                 \/ kind' \in AccountKinds /\ AccountRefused("users", sent', stored')
          BY <2>1, <3>1, UsersRefusedIs, Zenon
        <4>2. /\ "users" \in DOMAIN sent
              /\ \/ UsersRefused(sent.users, users)
                 \/ kind \in AccountKinds /\ AccountRefused("users", sent, stored)
          BY <1>1, <4>1
        <4> QED
          BY <3>1, <4>2, UsersRefusedIs, Zenon
      <3>2. CASE f # "users"
        <4>1. f \in DOMAIN sent' /\ Refused(kind', sent', stored', f)
          BY <2>1, <3>2, RefusedIs
        <4>2. f \in DOMAIN sent /\ Refused(kind, sent, stored, f)
          BY <1>1, <4>1
        <4> QED
          BY <3>2, <4>2, RefusedIs
      <3> QED
        BY <3>1, <3>2
    <2> QED
      BY <1>1, <2>1, PartsStay DEF DialogInv, AcceptedByApi
  <1> QED
    BY <1>1, <1>2, <1>3, <1>4, <1>5, <1>6, <1>7, SentKept DEF DialogInv

\* The console's forms are a dialog or the settings page.
FormsInv == DialogInv /\ SettingsInv

LEMMA FormsAlways == ConsoleSpec => []FormsInv
  <1>1. ConsoleInit => FormsInv
    BY DialogInitially, SettingsInitially DEF ConsoleInit, FormsInv
  <1>2. FormsInv /\ [ConsoleNext]_<<formVars, cardVars>> => FormsInv'
    <2> SUFFICES ASSUME FormsInv, [ConsoleNext]_<<formVars, cardVars>> PROVE FormsInv'
      OBVIOUS
    <2>1. CASE Next /\ UNCHANGED cardVars
      BY <2>1, DialogStep, LoadsKeep DEF FormsInv
    <2>2. CASE Settings!SettingsNext /\ UNCHANGED formVars
      BY <2>2, SettingsStep, DialogStays DEF FormsInv
    <2>3. CASE UNCHANGED <<formVars, cardVars>>
      BY <2>3, DialogStays, LoadsKeep DEF FormsInv
    <2> QED
      BY <2>1, <2>2, <2>3 DEF ConsoleNext
  <1> QED
    BY <1>1, <1>2, PTL DEF ConsoleSpec

-----------------------------------------------------------------------------
(* The theorems.                                                           *)

\* The forms keep their types: the form of a dialog has the fields it was
\* seeded with, and the error line names one of them.
THEOREM FormsTypeOKHolds == ConsoleSpec => []FormsTypeOK
  <1>1. FormsInv => FormsTypeOK
    <2> SUFFICES ASSUME FormsInv PROVE FormsTypeOK
      OBVIOUS
    <2>1. DialogTypes /\ SettingsInv
      BY DEF FormsInv, DialogInv
    <2>2. DOMAIN form = DOMAIN Seed(kind, stored)
      BY <2>1, SeedTyped DEF DialogTypes, Typed
    <2> QED
      BY <2>1, <2>2, CardsWhenInv DEF DialogTypes, FormTypeOK, FormsTypeOK
  <1> QED
    BY <1>1, FormsAlways, PTL

\* No form sends what the API is bound to refuse but the texts it leaves to the
\* API: loose spellings of addresses, names of redirect targets, of whitelists
\* and of users with a colon, texts that are no email address or no address, a
\* stored user renamed without a password (LeftToApi), and the public URL of the
\* mail card, which no check of the card reads (CardsFitApi).
THEOREM FitForApiHolds == ConsoleSpec => []FitForApi
  <1>1. FormsInv => FitForApi
    BY CardsWhenInv DEF FormsInv, DialogInv, FitForApi
  <1> QED
    BY <1>1, FormsAlways, PTL

\* What a dialog sends is what stands in it, every field with its meaning and
\* every row of its tables cell by cell, and of a stored row nothing the operator
\* left alone is changed: buildPayload undoes the seeding of the form.
THEOREM SentAsEnteredHolds == ConsoleSpec => []SentAsEntered
  <1>1. FormsInv => SentAsEntered
    BY DEF FormsInv, DialogInv, SentAsEntered
  <1> QED
    BY <1>1, FormsAlways, PTL

\* Passwords, tokens and keys are kept, replaced or removed as asked, in access
\* lists, DNS credentials and the cards of the model and the mail server.
THEOREM SecretsAsEnteredHolds == ConsoleSpec => []SecretsAsEntered
  <1>1. FormsInv => SecretsAsEntered
    BY CardsWhenInv DEF FormsInv, DialogInv, SecretsAsEntered
  <1> QED
    BY <1>1, FormsAlways, PTL

\* A settings card that has nothing to save holds what the API stores.
THEOREM CleanCardIsStoredHolds == ConsoleSpec => []CleanCardIsStored
  <1>1. FormsInv => CleanCardIsStored
    BY CleanWhenInv DEF FormsInv
  <1> QED
    BY <1>1, FormsAlways, PTL

\* The first check that fails brings its field on the screen.
THEOREM ErrorIsShownHolds == ConsoleSpec => ErrorIsShown
  <1>1. FormsInv /\ [ConsoleNext]_<<formVars, cardVars>> =>
           [(tries' # tries /\ step' = "editing") =>
              Visible(problem)' \/ (problem' = "maintenance_allow" /\ form.maintenance = "off")]_formVars
    <2> SUFFICES ASSUME FormsInv, [ConsoleNext]_<<formVars, cardVars>>, ~UNCHANGED formVars,
                        tries' # tries, step' = "editing",
                        ~(problem' = "maintenance_allow" /\ form.maintenance = "off")
                 PROVE  Visible(problem)'
      OBVIOUS
    <2>1. DialogInv /\ Next
      BY DEF FormsInv, ConsoleNext
    <2>2. Submit
      BY <2>1 DEF Next, EditControl, AddRow, RemoveRow, EditCell, Edited, ChooseTab, ServeSave, AnswerSave
    <2>3. ~Leaves
      BY DEF Leaves
    <2>4. PICK i : Named(i)
      BY <2>1, <2>2, <2>3, SubmitSplit
    <2>5. ShownAt(Checks[i]) /\ problem' = Checks[i].field /\ tab' = Opened(Checks[i])
      BY <2>1, <2>2, <2>4, NamedIsShown DEF Named
    <2>6. Seen(problem', tab')
      BY <2>5 DEF ShownAt
    <2>7. UNCHANGED <<kind, stored, hasOptions, form>>
      BY <2>2 DEF Submit, context
    <2>8. Shown(problem') <=> Shown(problem)'
      BY <2>7, Zenon DEF Shown
    <2> QED
      BY <2>6, <2>7, <2>8, Zenon DEF Seen, Visible
  <1> QED
    BY <1>1, FormsAlways, PTL DEF ConsoleSpec, ErrorIsShown

=============================================================================
