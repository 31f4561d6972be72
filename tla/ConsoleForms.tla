---------------------------- MODULE ConsoleForms ----------------------------
(***************************************************************************)
(* Where the console writes settings down: the dialogs and forms of        *)
(* HostForms, on the rows of a small inventory, and the settings page.     *)
(* Neither is open while the other is, so a behaviour stays with one.      *)
(***************************************************************************)
EXTENDS HostForms, Inventory

CONSTANTS WorkedIn, MaxCardEdits, MaxCardRequests, MaxSetFaults

VARIABLES
    settingsPage, loadAsk, errorsAsk, worked, hasPages, cardForm, row, savedSite, storedErrors,
    cardSaves, testing, kept, seq, cardEdits, cardRequests, setFaults, wish, overtaken, unanswered

Settings == INSTANCE SettingsCards

ASSUME CardConstants ==
    /\ MaxCardEdits \in Nat /\ MaxCardRequests \in Nat /\ MaxSetFaults \in Nat

cardVars ==
    <<settingsPage, loadAsk, errorsAsk, worked, hasPages, cardForm, row, savedSite, storedErrors,
      cardSaves, testing, kept, seq, cardEdits, cardRequests, setFaults, wish, overtaken,
      unanswered>>

ConsoleInit == (Init /\ Settings!SettingsOff) \/ (Closed /\ Settings!SettingsInit)

ConsoleNext ==
    \/ Next /\ UNCHANGED cardVars
    \/ Settings!SettingsNext /\ UNCHANGED formVars

ConsoleSpec ==
    /\ ConsoleInit /\ [][ConsoleNext]_<<formVars, cardVars>>
    /\ FormFairness /\ Settings!SettingsFairness

-----------------------------------------------------------------------------
\* Type invariant of the forms and of the cards.
FormsTypeOK == FormTypeOK /\ Settings!SettingsTypeOK

\* Dialogs and settings cards send nothing the API is bound to refuse, but for
\* the rules LeftToApi names and the two addresses of the cards: the target of
\* the default site's redirect and the public URL on the mail card.
FitForApi == AcceptedByApi /\ Settings!CardsFitApi

\* What a dialog sends is the stored row with the operator's edits: all of them,
\* field by field and row by row, and no others (buildPayload, isBlankUser,
\* isBlankClient).
SentAsEntered == OnlyEditsAreSent /\ EditsAreSent

\* Passwords, tokens and keys are kept, replaced or removed as asked, in access
\* lists, DNS credentials and the cards of the model and the mail server.
SecretsAsEntered == PasswordsAsEntered /\ Settings!SecretAsAsked

\* components/settings: a card with nothing to save holds what the API stores.
CleanCardIsStored == Settings!CleanCardIsStored

\* Saves of the dialogs end; loads, saves and tests of the settings page too.
FormsSettle == SaveEnds /\ Settings!SettingsSettle

=============================================================================
