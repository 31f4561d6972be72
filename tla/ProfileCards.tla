----------------------------- MODULE ProfileCards -----------------------------
(***************************************************************************)
(* The cards of the profile page that hand out secrets: API keys           *)
(* (components/profile/api-keys-card.tsx), the authenticator app           *)
(* (totp-card.tsx) and passkeys (passkeys-card.tsx).  Each is a small      *)
(* dialogue of modes with one request at a time; the switches of the API   *)
(* keys write at once, flip the row first and are not held back while an   *)
(* earlier write is in flight.                                             *)
(***************************************************************************)
EXTENDS Naturals, FiniteSets

CONSTANTS
    Keys,          \* ids the API may give to keys or passkeys, above 0
    FirstKey,      \* the one that exists when the page opens
    MaxUses,       \* buttons and switches pressed
    MaxCardFaults  \* requests that fail

VARIABLES
    card,      \* "keys", "totp", "passkeys" or "off"
    mode,      \* of the card
    target,    \* the key the delete or remove mode is about
    op,        \* the request of the dialogue in flight, "none" if busy is false
    opReply,   \* "none", "sent", "ok" or "err"
    acknowledged, cardError,
    enabled,   \* totp_enabled of the session user
    shownKeys, \* the rows: id -> its switch
    writes,    \* switch writes in flight
    listAsks,  \* list requests in flight
    heldKeys,  \* the API: id -> enabled
    totpOn,    \* the API: the second factor is on
    refreshAsk,\* refreshUser is in flight
    handedOut, \* secrets the API gave out: a token, or recovery codes
    codesSeen, \* history: how many of them had been given out at the last one shown
    uses, cardFaults, serial,
    tangled    \* history: "lost" when an answer did not arrive or a list was not read,
               \* "overlap" when two requests about the rows were in flight together

cardVars == <<card, mode, target, op, opReply, acknowledged, cardError, enabled, shownKeys,
              writes, listAsks, heldKeys, totpOn, refreshAsk, codesSeen, handedOut, uses,
              cardFaults, serial, tangled>>

theRows == <<refreshAsk, shownKeys, writes, listAsks, serial, tangled>>
theDialog == <<mode, target, acknowledged, cardError>>
theServer == <<heldKeys, totpOn, handedOut>>

NoKey == 0

busy == op # "none"
Use == card # "off" /\ uses < MaxUses /\ uses' = uses + 1

CardBlank ==
    /\ mode = "idle" /\ target = NoKey /\ op = "none" /\ opReply = "none"
    /\ acknowledged = FALSE /\ cardError = FALSE
    /\ writes = {} /\ codesSeen = 0 /\ handedOut = 0 /\ refreshAsk = FALSE
    /\ uses = 0 /\ cardFaults = 0 /\ serial = 1 /\ tangled = {}

\* The page is open and its lists have been read once.
CardInit ==
    /\ card \in {"keys", "totp", "passkeys"}
    /\ totpOn \in BOOLEAN /\ (card = "passkeys" => totpOn)
    /\ enabled = totpOn
    /\ heldKeys = IF card = "totp" THEN <<>> ELSE [k \in {FirstKey} |-> TRUE]
    /\ shownKeys = heldKeys /\ listAsks = {}
    /\ CardBlank

CardOff ==
    /\ card = "off" /\ totpOn = FALSE /\ enabled = FALSE
    /\ heldKeys = <<>> /\ shownKeys = <<>> /\ listAsks = {}
    /\ CardBlank

Init == CardInit

-----------------------------------------------------------------------------
(* The buttons: the mode they are shown in, what they do and the mode they *)
(* lead to ("stay" for a request).                                         *)

Button(m, what, to) == [mode |-> m, what |-> what, to |-> to]

ApiKeysFooter ==
    {Button("idle", "open", "create"), Button("create", "create", "stay"),
     Button("delete", "delete", "stay")}
ApiKeysRow == {Button("idle", "open", "delete")}

TotpFooter ==
    (IF enabled THEN {Button("idle", "open", "ask regenerate"), Button("idle", "open", "ask disable")}
     ELSE {Button("idle", "start", "stay")}) \cup
    {Button("setup", "confirm", "stay"), Button("ask disable", "disable", "stay"),
     Button("ask regenerate", "regenerate", "stay")}

\* Add is offered below MAX_PASSKEYS.
PasskeysFooter ==
    (IF DOMAIN shownKeys # Keys THEN {Button("idle", "open", "add")} ELSE {}) \cup
    {Button("add", "options", "stay"), Button("remove", "remove", "stay")}
PasskeysRow == {Button("idle", "open", "remove")}

Buttons == CASE card = "keys" -> ApiKeysFooter \cup ApiKeysRow
             [] card = "totp" -> TotpFooter
             [] card = "passkeys" -> PasskeysFooter \cup PasskeysRow
             [] OTHER -> {}

\* Opening one of the modes; the row's buttons name a key.
Open(b) ==
    /\ Use /\ b \in Buttons /\ b.mode = mode /\ b.what = "open" /\ ~busy
    /\ mode' = b.to
    /\ IF b \in ApiKeysRow \cup PasskeysRow THEN target' \in DOMAIN shownKeys
       ELSE UNCHANGED target
    /\ UNCHANGED <<card, op, opReply, acknowledged, cardError, enabled, theRows, theServer,
                   codesSeen, cardFaults>>

\* run, create, add and remove up to their request.
Submit(b) ==
    /\ Use /\ b \in Buttons /\ b.mode = mode /\ b.what # "open" /\ ~busy
    /\ op' = b.what /\ opReply' = "sent" /\ cardError' = FALSE
    /\ UNCHANGED <<card, mode, target, acknowledged, enabled, theRows, theServer, codesSeen,
                   cardFaults>>

\* reset, from Cancel, or from Done once the secret is acknowledged.
reset ==
    /\ mode' = "idle" /\ target' = NoKey /\ acknowledged' = FALSE /\ cardError' = FALSE

Cancel ==
    /\ mode \notin {"idle", "created", "codes"} /\ ~busy /\ Use
    /\ reset
    /\ UNCHANGED <<card, op, opReply, enabled, theRows, theServer, codesSeen, cardFaults>>

Acknowledge ==
    /\ mode \in {"created", "codes"} /\ ~acknowledged /\ Use
    /\ acknowledged' = TRUE
    /\ UNCHANGED <<card, mode, target, op, opReply, cardError, enabled, theRows, theServer,
                   codesSeen, cardFaults>>

Done ==
    /\ mode \in {"created", "codes"} /\ acknowledged /\ Use
    /\ reset
    /\ UNCHANGED <<card, op, opReply, enabled, theRows, theServer, codesSeen, cardFaults>>

\* setEnabled: the row first, then the write.
setEnabled(k, to) ==
    /\ card = "keys" /\ mode = "idle" /\ k \in DOMAIN shownKeys /\ to # shownKeys[k] /\ Use
    /\ shownKeys' = [shownKeys EXCEPT ![k] = to]
    /\ writes' = writes \cup {[n |-> serial, key |-> k, to |-> to, st |-> "sent"]}
    /\ serial' = serial + 1
    /\ tangled' = IF writes # {} \/ listAsks # {} THEN tangled \cup {"overlap"} ELSE tangled
    /\ UNCHANGED <<card, theDialog, op, opReply, enabled, refreshAsk, listAsks, theServer,
                   codesSeen, cardFaults>>

-----------------------------------------------------------------------------
(* The API.                                                                *)

Secret == {"create", "confirm", "regenerate"}

Without(f, k) == [x \in DOMAIN f \ {k} |-> f[x]]
With(f, k, v) == [x \in DOMAIN f \cup {k} |-> IF x = k THEN v ELSE f[x]]

\* What a request of a dialogue changes.
DoOp ==
    /\ heldKeys' \in CASE op \in {"create", "register"} -> {With(heldKeys, k, TRUE) : k \in Keys \ DOMAIN heldKeys}
                       [] op \in {"delete", "remove"} -> {Without(heldKeys, target)}
                       [] OTHER -> {heldKeys}
    /\ totpOn' = CASE op = "confirm" -> TRUE [] op = "disable" -> FALSE [] OTHER -> totpOn
    /\ handedOut' = IF op \in Secret THEN handedOut + 1 ELSE handedOut

\* No further key or passkey is taken.
Full == op \in {"create", "register"} /\ DOMAIN heldKeys = Keys

Fault == cardFaults < MaxCardFaults /\ cardFaults' = cardFaults + 1

\* An answer is lost after the API acted, or the request is refused (or, for a
\* passkey, the browser's prompt fails) and nothing changes.
ServeOp ==
    /\ opReply = "sent"
    /\ \/ ~Full /\ opReply' = "ok" /\ DoOp /\ UNCHANGED <<cardFaults, tangled>>
       \/ Full /\ opReply' = "err" /\ UNCHANGED <<theServer, cardFaults, tangled>>
       \/ Fault /\ opReply' = "err" /\ DoOp /\ tangled' = tangled \cup {"lost"}
       \/ Fault /\ opReply' = "err" /\ UNCHANGED <<theServer, tangled>>
    /\ UNCHANGED <<card, theDialog, op, enabled, refreshAsk, shownKeys, writes, listAsks,
                   codesSeen, uses, serial>>

\* A switch write; a key that is gone meanwhile is answered 404.
ServeWrite(w) ==
    /\ w \in writes /\ w.st = "sent"
    /\ \/ /\ w.key \in DOMAIN heldKeys /\ heldKeys' = [heldKeys EXCEPT ![w.key] = w.to]
          /\ \/ /\ writes' = (writes \ {w}) \cup {[w EXCEPT !.st = "ok"]}
                /\ UNCHANGED <<cardFaults, tangled>>
             \/ /\ Fault /\ writes' = (writes \ {w}) \cup {[w EXCEPT !.st = "err"]}
                /\ tangled' = tangled \cup {"lost"}
       \/ /\ writes' = (writes \ {w}) \cup {[w EXCEPT !.st = "err"]}
          /\ (w.key \notin DOMAIN heldKeys /\ cardFaults' = cardFaults) \/ Fault
          /\ UNCHANGED <<heldKeys, tangled>>
    /\ UNCHANGED <<card, theDialog, op, opReply, enabled, refreshAsk, shownKeys, listAsks, totpOn,
                   handedOut, codesSeen, uses, serial>>

\* Mutant of Reverted: the failed flip stays on the screen.
RevertedNot(w) == shownKeys

\* A write that failed puts back the opposite of what it wrote.
Reverted(w) == [k \in DOMAIN shownKeys |-> IF k = w.key THEN ~w.to ELSE shownKeys[k]]

AnswerWrite(w) ==
    /\ w \in writes /\ w.st # "sent"
    /\ writes' = writes \ {w}
    /\ shownKeys' = IF w.st = "err" THEN Reverted(w) ELSE shownKeys
    /\ UNCHANGED <<card, theDialog, op, opReply, enabled, refreshAsk, listAsks, theServer,
                   codesSeen, uses, cardFaults, serial, tangled>>

\* load: the list is asked for, read and shown.
Load ==
    /\ listAsks' = listAsks \cup {[n |-> serial, st |-> "sent", rows |-> <<>>]}
    /\ serial' = serial + 1
    /\ tangled' = IF writes # {} \/ listAsks # {} THEN tangled \cup {"overlap"} ELSE tangled

ServeList(a) ==
    /\ a \in listAsks /\ a.st = "sent"
    /\ \/ listAsks' = (listAsks \ {a}) \cup {[a EXCEPT !.st = "ok", !.rows = heldKeys]}
          /\ UNCHANGED cardFaults
       \/ Fault /\ listAsks' = (listAsks \ {a}) \cup {[a EXCEPT !.st = "err"]}
    /\ UNCHANGED <<card, theDialog, op, opReply, enabled, refreshAsk, shownKeys, writes,
                   theServer, codesSeen, uses, serial, tangled>>

AnswerList(a) ==
    /\ a \in listAsks /\ a.st # "sent"
    /\ listAsks' = listAsks \ {a}
    /\ IF a.st = "ok" THEN shownKeys' = a.rows /\ UNCHANGED <<cardError, tangled>>
       ELSE cardError' = TRUE /\ tangled' = tangled \cup {"lost"} /\ UNCHANGED shownKeys
    /\ UNCHANGED <<card, mode, target, acknowledged, op, opReply, enabled, refreshAsk, writes, theServer,
                   codesSeen, uses, cardFaults, serial>>

Ended == op' = "none" /\ opReply' = "none"

\* The token or the recovery codes of the answer are shown in mode m.
ShowSecret(m) == mode' = m /\ codesSeen' = handedOut

\* The end of a dialogue's request: the error (a prompt the operator dismissed
\* is none), the next stage of a passkey, or what follows.  load reads the list
\* again, onChanged the session user.

AnswerOp ==
    /\ opReply \in {"ok", "err"}
    /\ IF opReply = "err"
       THEN /\ Ended
            /\ \/ cardError' = TRUE /\ UNCHANGED <<mode, target, acknowledged>>
               \/ op = "ceremony" /\ reset
            /\ UNCHANGED <<codesSeen, theRows>>
       ELSE CASE op \in {"options", "ceremony"} ->
                   /\ op' = IF op = "options" THEN "ceremony" ELSE "register"
                   /\ opReply' = "sent"
                   /\ UNCHANGED <<theDialog, codesSeen, theRows>>
              [] op = "start" ->
                   /\ Ended /\ mode' = "setup"
                   /\ UNCHANGED <<target, acknowledged, cardError, codesSeen, theRows>>
              [] op = "create" ->
                   /\ Ended /\ ShowSecret("created")
                   /\ Load
                   /\ UNCHANGED <<target, acknowledged, cardError, refreshAsk, shownKeys, writes>>
              [] op \in {"confirm", "regenerate"} ->
                   /\ Ended /\ ShowSecret("codes")
                   /\ refreshAsk' = (refreshAsk \/ op = "confirm")
                   /\ UNCHANGED <<target, acknowledged, cardError, shownKeys, writes, listAsks,
                                  serial, tangled>>
              [] op = "disable" ->
                   /\ Ended /\ reset /\ refreshAsk' = TRUE
                   /\ UNCHANGED <<codesSeen, shownKeys, writes, listAsks, serial, tangled>>
              [] OTHER ->
                   /\ Ended /\ reset /\ Load
                   /\ UNCHANGED <<codesSeen, refreshAsk, shownKeys, writes>>
    /\ UNCHANGED <<card, enabled, theServer, uses, cardFaults>>

RefreshEnabled ==
    /\ refreshAsk
    /\ refreshAsk' = FALSE
    /\ \/ enabled' = totpOn /\ UNCHANGED <<cardFaults, tangled>>
       \/ Fault /\ tangled' = tangled \cup {"lost"} /\ UNCHANGED enabled
    /\ UNCHANGED <<card, theDialog, op, opReply, shownKeys, writes, listAsks, serial, theServer,
                   codesSeen, uses>>

CardNext ==
    \/ \E b \in Buttons : Open(b) \/ Submit(b)
    \/ Cancel \/ Acknowledge \/ Done
    \/ \E k \in Keys, to \in BOOLEAN : setEnabled(k, to)
    \/ ServeOp \/ AnswerOp \/ RefreshEnabled
    \/ \E w \in writes : ServeWrite(w) \/ AnswerWrite(w)
    \/ \E a \in listAsks : ServeList(a) \/ AnswerList(a)

Next == CardNext

\* Requests are answered.
CardFairness ==
    /\ WF_cardVars(ServeOp) /\ WF_cardVars(AnswerOp) /\ WF_cardVars(RefreshEnabled)
    /\ WF_cardVars(\E w \in writes : ServeWrite(w) \/ AnswerWrite(w))
    /\ WF_cardVars(\E a \in listAsks : ServeList(a) \/ AnswerList(a))

Spec == Init /\ [][Next]_cardVars /\ CardFairness

-----------------------------------------------------------------------------
\* Type invariant of the cards.
CardTypeOK ==
    /\ card \in {"keys", "totp", "passkeys", "off"}
    /\ mode \in {"idle", "create", "created", "delete", "setup", "codes", "ask disable",
                 "ask regenerate", "add", "remove"}
    /\ opReply \in {"none", "sent", "ok", "err"}
    /\ {acknowledged, cardError, enabled, totpOn, refreshAsk} \subseteq BOOLEAN
    /\ tangled \subseteq {"lost", "overlap"}
    /\ codesSeen <= handedOut
    /\ DOMAIN shownKeys \subseteq Keys /\ DOMAIN heldKeys \subseteq Keys
    /\ mode \in {"delete", "remove"} => target \in Keys

Resting == card # "off" /\ writes = {} /\ listAsks = {} /\ ~refreshAsk /\ ~busy

\* Once the requests are answered the list is the API's, every switch shows
\* what the key does and the card knows whether the second factor is on, unless
\* two requests about the rows overlapped or an answer was lost.
RowsMatchServer == (Resting /\ tangled = {}) => shownKeys = heldKeys /\ enabled = totpOn

\* "a row that claims a key is off while it still works is the one state to
\* never be wrong about" (setEnabled); no answer is lost here.
OffMeansOff ==
    (Resting /\ card = "keys" /\ "lost" \notin tangled) =>
        \A k \in DOMAIN shownKeys \cap DOMAIN heldKeys : heldKeys[k] => shownKeys[k]

\* A secret the API handed out reaches the screen, unless its answer was lost
\* or is on its way.
SecretIsShown == (tangled = {} /\ ~busy) => codesSeen = handedOut

\* No dialogue stays busy for ever.
CardComesToRest == []<>~busy

=============================================================================
