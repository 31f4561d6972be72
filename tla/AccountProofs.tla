---------------------------- MODULE AccountProofs ----------------------------
(***************************************************************************)
(* Proofs about the session and the profile cards as they run in the       *)
(* console, for any accounts, any keys and every bound.                    *)
(***************************************************************************)
EXTENDS Console, Sequences, TLAPS

-----------------------------------------------------------------------------
(* The profile cards: the inductive invariant.                             *)

\* Rows of keys or passkeys: id -> its switch.
RowSets == UNION {[D -> BOOLEAN] : D \in SUBSET Keys}

Modes == {"idle", "create", "created", "delete", "setup", "codes", "ask disable",
          "ask regenerate", "add", "remove"}
Ops == {"none", "create", "delete", "start", "confirm", "disable", "regenerate", "options",
        "ceremony", "register", "remove"}
SwitchWrite == [n : Nat, key : Keys, to : BOOLEAN, st : {"sent", "ok", "err"}]
ListAsk == [n : Nat, st : {"sent", "ok", "err"}, rows : RowSets]

CardModes ==
    /\ card \in {"keys", "totp", "passkeys", "off"} /\ mode \in Modes
    /\ op \in Ops /\ opReply \in {"none", "sent", "ok", "err"}
    /\ mode \in {"delete", "remove"} => target \in Keys
CardFlags ==
    /\ acknowledged \in BOOLEAN /\ cardError \in BOOLEAN /\ enabled \in BOOLEAN
    /\ totpOn \in BOOLEAN /\ refreshAsk \in BOOLEAN
CardRows ==
    /\ shownKeys \in RowSets /\ heldKeys \in RowSets
    /\ writes \subseteq SwitchWrite /\ listAsks \subseteq ListAsk /\ serial \in Nat
    /\ tangled \subseteq {"lost", "overlap"}
CardSecrets == codesSeen \in Nat /\ handedOut \in Nat /\ codesSeen <= handedOut
CardTypes == CardModes /\ CardFlags /\ CardRows /\ CardSecrets

\* A request of a dialogue is in flight or there is none; the rows' switches
\* are not offered meanwhile.
OneDialogue ==
    /\ op = "none" <=> opReply = "none"
    /\ card = "keys" /\ op # "none" => mode \in {"create", "delete"}

\* The API has acted on one of the requests ops and the card does not know yet.
Answered(ops) == opReply = "ok" /\ op \in ops
RowOps == {"create", "register", "delete", "remove"}

\* The switch write w explains how the rows and the API differ.
Flip(w) ==
    /\ w.key \in DOMAIN shownKeys
    /\ w.st = "sent" => shownKeys[w.key] = w.to
    /\ heldKeys = IF w.st = "ok" THEN shownKeys ELSE [shownKeys EXCEPT ![w.key] = ~w.to]

\* Unless requests overlapped or an answer was lost, the rows are the API's,
\* or one write is in flight, or the list is about to be read again.
RowsFollow ==
    tangled = {} /\ ~Answered(RowOps) =>
        \/ writes = {} /\ listAsks = {} /\ shownKeys = heldKeys
        \/ listAsks = {} /\ \E w \in writes : writes = {w} /\ Flip(w)
        \/ /\ writes = {}
           /\ \E a \in listAsks : listAsks = {a} /\ (a.st = "ok" => a.rows = heldKeys)

\* The same of the second factor and of the secrets handed out.
FactorFollows ==
    tangled = {} /\ ~refreshAsk /\ ~Answered({"confirm", "disable"}) => enabled = totpOn
SecretsFollow == tangled = {} /\ ~Answered(Cards!Secret) => codesSeen = handedOut

CardInv == CardTypes /\ OneDialogue /\ RowsFollow /\ FactorFollows /\ SecretsFollow

-----------------------------------------------------------------------------
(* Rows.                                                                   *)

LEMMA RowsAre ==
    ASSUME NEW f
    PROVE  f \in RowSets <=> DOMAIN f \subseteq Keys /\ f \in [DOMAIN f -> BOOLEAN]
  BY DEF RowSets

LEMMA RowsChange ==
    ASSUME NEW f \in RowSets, NEW k, NEW v \in BOOLEAN
    PROVE  /\ k \in Keys => Cards!With(f, k, v) \in RowSets
           /\ Cards!Without(f, k) \in RowSets
           /\ [f EXCEPT ![k] = v] \in RowSets
           /\ [x \in DOMAIN f |-> IF x = k THEN v ELSE f[x]] \in RowSets
  <1>1. DOMAIN f \subseteq Keys /\ f \in [DOMAIN f -> BOOLEAN]
    BY RowsAre
  <1>2. Cards!With(f, k, v) \in [DOMAIN f \cup {k} -> BOOLEAN]
    BY <1>1 DEF Cards!With
  <1>3. Cards!Without(f, k) \in [DOMAIN f \ {k} -> BOOLEAN]
    BY <1>1 DEF Cards!Without
  <1>4. [f EXCEPT ![k] = v] \in [DOMAIN f -> BOOLEAN]
    BY <1>1
  <1>5. [x \in DOMAIN f |-> IF x = k THEN v ELSE f[x]] \in [DOMAIN f -> BOOLEAN]
    BY <1>1
  <1> QED
    BY <1>1, <1>2, <1>3, <1>4, <1>5 DEF RowSets

LEMMA NoRows == <<>> \in RowSets
  <1>1. <<>> \in [{} -> BOOLEAN]
    OBVIOUS
  <1> QED
    BY <1>1 DEF RowSets

\* The buttons: those that open a mode, and those that send a request.
LEMMA ButtonsAre ==
    ASSUME card \in {"keys", "totp", "passkeys", "off"}, NEW b \in Cards!Buttons
    PROVE  /\ b.what = "open" => /\ b.to \in Modes
                                 /\ b.to \in {"delete", "remove"} =>
                                      b \in Cards!ApiKeysRow \cup Cards!PasskeysRow
           /\ b.what # "open" => /\ b.what \in Ops \ {"none"}
                                 /\ card = "keys" => b.mode \in {"create", "delete"}
  <1>1. CASE card = "keys"
    <2>1. CASE b = Cards!Button("idle", "open", "create")
      BY <1>1, <2>1 DEF Cards!Button, Modes, Ops, Cards!ApiKeysRow, Cards!PasskeysRow
    <2>2. CASE b = Cards!Button("create", "create", "stay")
      BY <1>1, <2>2 DEF Cards!Button, Modes, Ops, Cards!ApiKeysRow, Cards!PasskeysRow
    <2>3. CASE b = Cards!Button("delete", "delete", "stay")
      BY <1>1, <2>3 DEF Cards!Button, Modes, Ops, Cards!ApiKeysRow, Cards!PasskeysRow
    <2>4. CASE b = Cards!Button("idle", "open", "delete")
      BY <1>1, <2>4 DEF Cards!Button, Modes, Ops, Cards!ApiKeysRow, Cards!PasskeysRow
    <2> QED
      BY <1>1, <2>1, <2>2, <2>3, <2>4 DEF Cards!Buttons, Cards!ApiKeysFooter, Cards!ApiKeysRow
  <1>2. CASE card = "totp"
    <2>1. CASE b = Cards!Button("idle", "open", "ask regenerate")
      BY <1>2, <2>1 DEF Cards!Button, Modes, Ops, Cards!ApiKeysRow, Cards!PasskeysRow
    <2>2. CASE b = Cards!Button("idle", "open", "ask disable")
      BY <1>2, <2>2 DEF Cards!Button, Modes, Ops, Cards!ApiKeysRow, Cards!PasskeysRow
    <2>3. CASE b = Cards!Button("idle", "start", "stay")
      BY <1>2, <2>3 DEF Cards!Button, Modes, Ops, Cards!ApiKeysRow, Cards!PasskeysRow
    <2>4. CASE b = Cards!Button("setup", "confirm", "stay")
      BY <1>2, <2>4 DEF Cards!Button, Modes, Ops, Cards!ApiKeysRow, Cards!PasskeysRow
    <2>5. CASE b = Cards!Button("ask disable", "disable", "stay")
      BY <1>2, <2>5 DEF Cards!Button, Modes, Ops, Cards!ApiKeysRow, Cards!PasskeysRow
    <2>6. CASE b = Cards!Button("ask regenerate", "regenerate", "stay")
      BY <1>2, <2>6 DEF Cards!Button, Modes, Ops, Cards!ApiKeysRow, Cards!PasskeysRow
    <2> QED
      BY <1>2, <2>1, <2>2, <2>3, <2>4, <2>5, <2>6 DEF Cards!Buttons, Cards!TotpFooter
  <1>3. CASE card = "passkeys"
    <2>1. CASE b = Cards!Button("idle", "open", "add")
      BY <1>3, <2>1 DEF Cards!Button, Modes, Ops, Cards!ApiKeysRow, Cards!PasskeysRow
    <2>2. CASE b = Cards!Button("add", "options", "stay")
      BY <1>3, <2>2 DEF Cards!Button, Modes, Ops, Cards!ApiKeysRow, Cards!PasskeysRow
    <2>3. CASE b = Cards!Button("remove", "remove", "stay")
      BY <1>3, <2>3 DEF Cards!Button, Modes, Ops, Cards!ApiKeysRow, Cards!PasskeysRow
    <2>4. CASE b = Cards!Button("idle", "open", "remove")
      BY <1>3, <2>4 DEF Cards!Button, Modes, Ops, Cards!ApiKeysRow, Cards!PasskeysRow
    <2> QED
      BY <1>3, <2>1, <2>2, <2>3, <2>4 DEF Cards!Buttons, Cards!PasskeysFooter, Cards!PasskeysRow
  <1>4. CASE card = "off"
    BY <1>4 DEF Cards!Buttons
  <1> QED
    BY <1>1, <1>2, <1>3, <1>4

\* The modes and the requests.
LEMMA CardModesStep ==
    ASSUME CardTypes, OneDialogue, Cards!CardNext
    PROVE  CardModes'
  <1> USE DEF Cards!theRows, Cards!theDialog, Cards!theServer, CardTypes, CardModes,
              Modes, Ops, Cards!busy
  <1>1. ASSUME NEW b \in Cards!Buttons, Cards!Open(b) PROVE CardModes'
    BY <1>1, ButtonsAre, RowsAre DEF Cards!Open, Cards!Use, CardRows, CardModes
  <1>2. ASSUME NEW b \in Cards!Buttons, Cards!Submit(b) PROVE CardModes'
    BY <1>2, ButtonsAre DEF Cards!Submit, Cards!Use, CardModes
  <1>3. CASE Cards!Cancel
    BY <1>3 DEF Cards!Cancel, Cards!Use, Cards!reset
  <1>4. CASE Cards!Acknowledge
    BY <1>4 DEF Cards!Acknowledge, Cards!Use
  <1>5. CASE Cards!Done
    BY <1>5 DEF Cards!Done, Cards!Use, Cards!reset
  <1>6. ASSUME NEW k \in Keys, NEW to \in BOOLEAN, Cards!setEnabled(k, to) PROVE CardModes'
    BY <1>6 DEF Cards!setEnabled, Cards!Use
  <1>7. CASE Cards!ServeOp
    BY ZenonT(60), <1>7 DEF Cards!ServeOp, Cards!DoOp, Cards!Fault, Cards!Full
  <1>8. CASE Cards!AnswerOp
    <2>1. CASE opReply = "err"
      BY <1>8, <2>1 DEF Cards!AnswerOp, Cards!Ended, Cards!ShowSecret, Cards!Load,
         Cards!reset
    <2>2. CASE opReply = "ok" /\ op \in {"options", "ceremony"}
      BY <1>8, <2>2 DEF Cards!AnswerOp, Cards!Ended, Cards!ShowSecret, Cards!Load,
         Cards!reset
    <2>3. CASE opReply = "ok" /\ op = "start"
      BY <1>8, <2>3 DEF Cards!AnswerOp, Cards!Ended, Cards!ShowSecret, Cards!Load,
         Cards!reset
    <2>4. CASE opReply = "ok" /\ op = "create"
      BY <1>8, <2>4 DEF Cards!AnswerOp, Cards!Ended, Cards!ShowSecret, Cards!Load,
         Cards!reset
    <2>5. CASE opReply = "ok" /\ op \in {"confirm", "regenerate"}
      BY <1>8, <2>5 DEF Cards!AnswerOp, Cards!Ended, Cards!ShowSecret, Cards!Load,
         Cards!reset
    <2>6. CASE opReply = "ok" /\ op = "disable"
      BY <1>8, <2>6 DEF Cards!AnswerOp, Cards!Ended, Cards!ShowSecret, Cards!Load,
         Cards!reset
    <2>7. CASE opReply = "ok" /\ op \in {"delete", "remove", "register"}
      BY <1>8, <2>7 DEF Cards!AnswerOp, Cards!Ended, Cards!ShowSecret, Cards!Load,
         Cards!reset
    <2> QED
      BY <1>8, <2>1, <2>2, <2>3, <2>4, <2>5, <2>6, <2>7
         DEF Cards!AnswerOp, Ops, CardTypes, CardModes, OneDialogue
  <1>9. CASE Cards!RefreshEnabled
    BY <1>9 DEF Cards!RefreshEnabled, Cards!Fault
  <1>10. ASSUME NEW w \in writes, Cards!ServeWrite(w) PROVE CardModes'
    BY <1>10 DEF Cards!ServeWrite, Cards!Fault
  <1>11. ASSUME NEW w \in writes, Cards!AnswerWrite(w) PROVE CardModes'
    BY <1>11 DEF Cards!AnswerWrite, Cards!Reverted
  <1>12. ASSUME NEW a \in listAsks, Cards!ServeList(a) PROVE CardModes'
    BY <1>12 DEF Cards!ServeList, Cards!Fault
  <1>13. ASSUME NEW a \in listAsks, Cards!AnswerList(a) PROVE CardModes'
    BY <1>13 DEF Cards!AnswerList
  <1> QED
    BY <1>1, <1>2, <1>3, <1>4, <1>5, <1>6, <1>7, <1>8, <1>9, <1>10, <1>11, <1>12, <1>13
       DEF Cards!CardNext

\* The flags.
LEMMA CardFlagsStep ==
    ASSUME CardTypes, OneDialogue, Cards!CardNext
    PROVE  CardFlags'
  <1> USE DEF Cards!theRows, Cards!theDialog, Cards!theServer, CardTypes, CardFlags,
              Cards!busy
  <1>1. ASSUME NEW b \in Cards!Buttons, Cards!Open(b) PROVE CardFlags'
    BY <1>1 DEF Cards!Open, Cards!Use
  <1>2. ASSUME NEW b \in Cards!Buttons, Cards!Submit(b) PROVE CardFlags'
    BY <1>2 DEF Cards!Submit, Cards!Use
  <1>3. CASE Cards!Cancel
    BY <1>3 DEF Cards!Cancel, Cards!Use, Cards!reset
  <1>4. CASE Cards!Acknowledge
    BY <1>4 DEF Cards!Acknowledge, Cards!Use
  <1>5. CASE Cards!Done
    BY <1>5 DEF Cards!Done, Cards!Use, Cards!reset
  <1>6. ASSUME NEW k \in Keys, NEW to \in BOOLEAN, Cards!setEnabled(k, to) PROVE CardFlags'
    BY <1>6 DEF Cards!setEnabled, Cards!Use
  <1>7. CASE Cards!ServeOp
    BY <1>7 DEF Cards!ServeOp, Cards!DoOp, Cards!Fault, Cards!Full
  <1>8. CASE Cards!AnswerOp
    <2>1. CASE opReply = "err"
      BY <1>8, <2>1 DEF Cards!AnswerOp, Cards!Ended, Cards!ShowSecret, Cards!Load,
         Cards!reset
    <2>2. CASE opReply = "ok" /\ op \in {"options", "ceremony"}
      BY <1>8, <2>2 DEF Cards!AnswerOp, Cards!Ended, Cards!ShowSecret, Cards!Load,
         Cards!reset
    <2>3. CASE opReply = "ok" /\ op = "start"
      BY <1>8, <2>3 DEF Cards!AnswerOp, Cards!Ended, Cards!ShowSecret, Cards!Load,
         Cards!reset
    <2>4. CASE opReply = "ok" /\ op = "create"
      BY <1>8, <2>4 DEF Cards!AnswerOp, Cards!Ended, Cards!ShowSecret, Cards!Load,
         Cards!reset
    <2>5. CASE opReply = "ok" /\ op \in {"confirm", "regenerate"}
      BY <1>8, <2>5 DEF Cards!AnswerOp, Cards!Ended, Cards!ShowSecret, Cards!Load,
         Cards!reset
    <2>6. CASE opReply = "ok" /\ op = "disable"
      BY <1>8, <2>6 DEF Cards!AnswerOp, Cards!Ended, Cards!ShowSecret, Cards!Load,
         Cards!reset
    <2>7. CASE opReply = "ok" /\ op \in {"delete", "remove", "register"}
      BY <1>8, <2>7 DEF Cards!AnswerOp, Cards!Ended, Cards!ShowSecret, Cards!Load,
         Cards!reset
    <2> QED
      BY <1>8, <2>1, <2>2, <2>3, <2>4, <2>5, <2>6, <2>7
         DEF Cards!AnswerOp, Ops, CardTypes, CardModes, OneDialogue
  <1>9. CASE Cards!RefreshEnabled
    BY <1>9 DEF Cards!RefreshEnabled, Cards!Fault
  <1>10. ASSUME NEW w \in writes, Cards!ServeWrite(w) PROVE CardFlags'
    BY <1>10 DEF Cards!ServeWrite, Cards!Fault
  <1>11. ASSUME NEW w \in writes, Cards!AnswerWrite(w) PROVE CardFlags'
    BY <1>11 DEF Cards!AnswerWrite, Cards!Reverted
  <1>12. ASSUME NEW a \in listAsks, Cards!ServeList(a) PROVE CardFlags'
    BY <1>12 DEF Cards!ServeList, Cards!Fault
  <1>13. ASSUME NEW a \in listAsks, Cards!AnswerList(a) PROVE CardFlags'
    BY <1>13 DEF Cards!AnswerList
  <1> QED
    BY <1>1, <1>2, <1>3, <1>4, <1>5, <1>6, <1>7, <1>8, <1>9, <1>10, <1>11, <1>12, <1>13
       DEF Cards!CardNext

\* The rows and the requests about them.
LEMMA CardRowsStep ==
    ASSUME CardTypes, OneDialogue, Cards!CardNext
    PROVE  CardRows'
  <1> USE DEF Cards!theRows, Cards!theDialog, Cards!theServer, CardTypes, CardRows,
              Cards!busy
  <1>1. ASSUME NEW b \in Cards!Buttons, Cards!Open(b) PROVE CardRows'
    BY <1>1 DEF Cards!Open, Cards!Use
  <1>2. ASSUME NEW b \in Cards!Buttons, Cards!Submit(b) PROVE CardRows'
    BY <1>2 DEF Cards!Submit, Cards!Use
  <1>3. CASE Cards!Cancel
    BY <1>3 DEF Cards!Cancel, Cards!Use, Cards!reset
  <1>4. CASE Cards!Acknowledge
    BY <1>4 DEF Cards!Acknowledge, Cards!Use
  <1>5. CASE Cards!Done
    BY <1>5 DEF Cards!Done, Cards!Use, Cards!reset
  <1>6. ASSUME NEW k \in Keys, NEW to \in BOOLEAN, Cards!setEnabled(k, to) PROVE CardRows'
    <2>1. shownKeys' \in RowSets
      BY <1>6, RowsChange DEF Cards!setEnabled
    <2>2. [n |-> serial, key |-> k, to |-> to, st |-> "sent"] \in SwitchWrite
      BY DEF SwitchWrite
    <2> QED
      BY <1>6, <2>1, <2>2 DEF Cards!setEnabled
  <1>7. CASE Cards!ServeOp
    <2>1. heldKeys' \in RowSets
      <3>1. CASE Cards!DoOp
        <4>1. CASE op \in {"create", "register"}
          <5>1. PICK k \in Keys : heldKeys' = Cards!With(heldKeys, k, TRUE)
            BY <3>1, <4>1 DEF Cards!DoOp
          <5>2. TRUE \in BOOLEAN
            BY Zenon
          <5> QED
            BY <5>1, <5>2, RowsChange
        <4>2. CASE op \in {"delete", "remove"}
          BY <3>1, <4>2, RowsChange DEF Cards!DoOp
        <4>3. CASE op \notin {"create", "register", "delete", "remove"}
          BY <3>1, <4>3 DEF Cards!DoOp
        <4> QED
          BY <4>1, <4>2, <4>3
      <3>2. CASE heldKeys' = heldKeys
        BY <3>2
      <3> QED
        BY <1>7, <3>1, <3>2 DEF Cards!ServeOp
    <2> QED
      BY <1>7, <2>1 DEF Cards!ServeOp
  <1>8. CASE Cards!AnswerOp
    <2>1. CASE opReply = "err"
      BY <1>8, <2>1 DEF Cards!AnswerOp, Cards!Ended, Cards!ShowSecret, Cards!Load,
         Cards!reset
    <2>2. CASE opReply = "ok" /\ op \in {"options", "ceremony"}
      BY <1>8, <2>2 DEF Cards!AnswerOp, Cards!Ended, Cards!ShowSecret, Cards!Load,
         Cards!reset
    <2>3. CASE opReply = "ok" /\ op = "start"
      BY <1>8, <2>3 DEF Cards!AnswerOp, Cards!Ended, Cards!ShowSecret, Cards!Load,
         Cards!reset
    <2>4. CASE opReply = "ok" /\ op = "create"
      <3>1. [n |-> serial, st |-> "sent", rows |-> <<>>] \in ListAsk
        BY NoRows DEF ListAsk
      <3> QED
        BY <1>8, <2>4, <3>1 DEF Cards!AnswerOp, Cards!Load
    <2>5. CASE opReply = "ok" /\ op \in {"confirm", "regenerate"}
      BY <1>8, <2>5 DEF Cards!AnswerOp, Cards!Ended, Cards!ShowSecret, Cards!Load,
         Cards!reset
    <2>6. CASE opReply = "ok" /\ op = "disable"
      BY <1>8, <2>6 DEF Cards!AnswerOp, Cards!Ended, Cards!ShowSecret, Cards!Load,
         Cards!reset
    <2>7. CASE opReply = "ok" /\ op \in {"delete", "remove", "register"}
      <3>1. [n |-> serial, st |-> "sent", rows |-> <<>>] \in ListAsk
        BY NoRows DEF ListAsk
      <3> QED
        BY <1>8, <2>7, <3>1 DEF Cards!AnswerOp, Cards!Load
    <2> QED
      BY <1>8, <2>1, <2>2, <2>3, <2>4, <2>5, <2>6, <2>7
         DEF Cards!AnswerOp, Ops, CardTypes, CardModes, OneDialogue
  <1>9. CASE Cards!RefreshEnabled
    BY <1>9 DEF Cards!RefreshEnabled, Cards!Fault
  <1>10. ASSUME NEW w \in writes, Cards!ServeWrite(w) PROVE CardRows'
    <2>1. w \in SwitchWrite /\ w.key \in Keys /\ w.to \in BOOLEAN
      BY DEF SwitchWrite
    <2>2. [w EXCEPT !.st = "ok"] \in SwitchWrite /\ [w EXCEPT !.st = "err"] \in SwitchWrite
      BY <2>1 DEF SwitchWrite
    <2>3. [heldKeys EXCEPT ![w.key] = w.to] \in RowSets
      BY <2>1, RowsChange
    <2>4. heldKeys' \in RowSets
      BY <1>10, <2>3 DEF Cards!ServeWrite
    <2>5. writes' \subseteq SwitchWrite
      BY <1>10, <2>2 DEF Cards!ServeWrite
    <2> QED
      BY <1>10, <2>4, <2>5 DEF Cards!ServeWrite
  <1>11. ASSUME NEW w \in writes, Cards!AnswerWrite(w) PROVE CardRows'
    <2>1. w.to \in BOOLEAN
      BY DEF SwitchWrite
    <2>2. Cards!Reverted(w) \in RowSets
      BY <2>1, RowsChange DEF Cards!Reverted
    <2> QED
      BY <1>11, <2>2 DEF Cards!AnswerWrite
  <1>12. ASSUME NEW a \in listAsks, Cards!ServeList(a) PROVE CardRows'
    <2>1. /\ [a EXCEPT !.st = "ok", !.rows = heldKeys] \in ListAsk
          /\ [a EXCEPT !.st = "err"] \in ListAsk
      BY DEF ListAsk
    <2> QED
      BY <1>12, <2>1 DEF Cards!ServeList
  <1>13. ASSUME NEW a \in listAsks, Cards!AnswerList(a) PROVE CardRows'
    <2>1. a.rows \in RowSets
      BY DEF ListAsk
    <2> QED
      BY <1>13, <2>1 DEF Cards!AnswerList
  <1> QED
    BY <1>1, <1>2, <1>3, <1>4, <1>5, <1>6, <1>7, <1>8, <1>9, <1>10, <1>11, <1>12, <1>13
       DEF Cards!CardNext

\* The secrets.
LEMMA CardSecretsStep ==
    ASSUME CardTypes, OneDialogue, Cards!CardNext
    PROVE  CardSecrets'
  <1> USE DEF Cards!theRows, Cards!theDialog, Cards!theServer, CardTypes, CardSecrets,
              Cards!busy
  <1>1. ASSUME NEW b \in Cards!Buttons, Cards!Open(b) PROVE CardSecrets'
    BY <1>1 DEF Cards!Open, Cards!Use
  <1>2. ASSUME NEW b \in Cards!Buttons, Cards!Submit(b) PROVE CardSecrets'
    BY <1>2 DEF Cards!Submit, Cards!Use
  <1>3. CASE Cards!Cancel
    BY <1>3 DEF Cards!Cancel, Cards!Use, Cards!reset
  <1>4. CASE Cards!Acknowledge
    BY <1>4 DEF Cards!Acknowledge, Cards!Use
  <1>5. CASE Cards!Done
    BY <1>5 DEF Cards!Done, Cards!Use, Cards!reset
  <1>6. ASSUME NEW k \in Keys, NEW to \in BOOLEAN, Cards!setEnabled(k, to)
         PROVE  CardSecrets'
    BY <1>6 DEF Cards!setEnabled, Cards!Use
  <1>7. CASE Cards!ServeOp
    <2>1. codesSeen' = codesSeen /\ (handedOut' = handedOut \/ handedOut' = handedOut + 1)
      BY <1>7 DEF Cards!ServeOp, Cards!DoOp
    <2> QED
      BY <2>1
  <1>8. CASE Cards!AnswerOp
    <2>1. CASE opReply = "err"
      BY <1>8, <2>1 DEF Cards!AnswerOp, Cards!Ended, Cards!ShowSecret, Cards!Load,
         Cards!reset
    <2>2. CASE opReply = "ok" /\ op \in {"options", "ceremony"}
      BY <1>8, <2>2 DEF Cards!AnswerOp, Cards!Ended, Cards!ShowSecret, Cards!Load,
         Cards!reset
    <2>3. CASE opReply = "ok" /\ op = "start"
      BY <1>8, <2>3 DEF Cards!AnswerOp, Cards!Ended, Cards!ShowSecret, Cards!Load,
         Cards!reset
    <2>4. CASE opReply = "ok" /\ op = "create"
      BY <1>8, <2>4 DEF Cards!AnswerOp, Cards!Ended, Cards!ShowSecret, Cards!Load,
         Cards!reset
    <2>5. CASE opReply = "ok" /\ op \in {"confirm", "regenerate"}
      BY <1>8, <2>5 DEF Cards!AnswerOp, Cards!Ended, Cards!ShowSecret, Cards!Load,
         Cards!reset
    <2>6. CASE opReply = "ok" /\ op = "disable"
      BY <1>8, <2>6 DEF Cards!AnswerOp, Cards!Ended, Cards!ShowSecret, Cards!Load,
         Cards!reset
    <2>7. CASE opReply = "ok" /\ op \in {"delete", "remove", "register"}
      BY <1>8, <2>7 DEF Cards!AnswerOp, Cards!Ended, Cards!ShowSecret, Cards!Load,
         Cards!reset
    <2> QED
      BY <1>8, <2>1, <2>2, <2>3, <2>4, <2>5, <2>6, <2>7
         DEF Cards!AnswerOp, Ops, CardTypes, CardModes, OneDialogue
  <1>9. CASE Cards!RefreshEnabled
    BY <1>9 DEF Cards!RefreshEnabled, Cards!Fault
  <1>10. ASSUME NEW w \in writes, Cards!ServeWrite(w) PROVE CardSecrets'
    BY <1>10 DEF Cards!ServeWrite, Cards!Fault
  <1>11. ASSUME NEW w \in writes, Cards!AnswerWrite(w) PROVE CardSecrets'
    BY <1>11 DEF Cards!AnswerWrite, Cards!Reverted
  <1>12. ASSUME NEW a \in listAsks, Cards!ServeList(a) PROVE CardSecrets'
    BY <1>12 DEF Cards!ServeList, Cards!Fault
  <1>13. ASSUME NEW a \in listAsks, Cards!AnswerList(a) PROVE CardSecrets'
    BY <1>13 DEF Cards!AnswerList
  <1> QED
    BY <1>1, <1>2, <1>3, <1>4, <1>5, <1>6, <1>7, <1>8, <1>9, <1>10, <1>11, <1>12, <1>13
       DEF Cards!CardNext

\* One request of the dialogue at a time.
LEMMA DialogueStep ==
    ASSUME CardTypes, OneDialogue, Cards!CardNext
    PROVE  OneDialogue'
  <1> USE DEF Cards!theRows, Cards!theDialog, Cards!theServer, CardTypes, CardModes,
              OneDialogue, Cards!busy, Ops
  <1>1. ASSUME NEW b \in Cards!Buttons, Cards!Open(b) PROVE OneDialogue'
    BY <1>1, ButtonsAre DEF Cards!Open, Cards!Use
  <1>2. ASSUME NEW b \in Cards!Buttons, Cards!Submit(b) PROVE OneDialogue'
    BY <1>2, ButtonsAre DEF Cards!Submit, Cards!Use
  <1>3. CASE Cards!Cancel
    BY <1>3 DEF Cards!Cancel, Cards!Use, Cards!reset
  <1>4. CASE Cards!Acknowledge
    BY <1>4 DEF Cards!Acknowledge, Cards!Use
  <1>5. CASE Cards!Done
    BY <1>5 DEF Cards!Done, Cards!Use, Cards!reset
  <1>6. ASSUME NEW k \in Keys, NEW to \in BOOLEAN, Cards!setEnabled(k, to)
         PROVE  OneDialogue'
    BY <1>6 DEF Cards!setEnabled, Cards!Use
  <1>7. CASE Cards!ServeOp
    BY <1>7 DEF Cards!ServeOp, Cards!DoOp, Cards!Fault, Cards!Full
  <1>8. CASE Cards!AnswerOp
    BY <1>8 DEF Cards!AnswerOp, Cards!Ended, Cards!ShowSecret, Cards!Load, Cards!reset
  <1>9. CASE Cards!RefreshEnabled
    BY <1>9 DEF Cards!RefreshEnabled, Cards!Fault
  <1>10. ASSUME NEW w \in writes, Cards!ServeWrite(w) PROVE OneDialogue'
    BY <1>10 DEF Cards!ServeWrite, Cards!Fault
  <1>11. ASSUME NEW w \in writes, Cards!AnswerWrite(w) PROVE OneDialogue'
    BY <1>11 DEF Cards!AnswerWrite, Cards!Reverted
  <1>12. ASSUME NEW a \in listAsks, Cards!ServeList(a) PROVE OneDialogue'
    BY <1>12 DEF Cards!ServeList, Cards!Fault
  <1>13. ASSUME NEW a \in listAsks, Cards!AnswerList(a) PROVE OneDialogue'
    BY <1>13 DEF Cards!AnswerList
  <1> QED
    BY <1>1, <1>2, <1>3, <1>4, <1>5, <1>6, <1>7, <1>8, <1>9, <1>10, <1>11, <1>12, <1>13
       DEF Cards!CardNext

\* The rows follow the API.
LEMMA RowsStep ==
    ASSUME CardTypes, OneDialogue, RowsFollow, Cards!CardNext
    PROVE  RowsFollow'
  <1> USE DEF Cards!theRows, Cards!theDialog, Cards!theServer, OneDialogue, RowsFollow,
              Answered, RowOps, Flip, Cards!busy
  <1>1. ASSUME NEW b \in Cards!Buttons, Cards!Open(b) PROVE RowsFollow'
    BY <1>1 DEF Cards!Open, Cards!Use
  <1>2. ASSUME NEW b \in Cards!Buttons, Cards!Submit(b) PROVE RowsFollow'
    BY <1>2 DEF Cards!Submit, Cards!Use
  <1>3. CASE Cards!Cancel
    BY <1>3 DEF Cards!Cancel, Cards!Use, Cards!reset
  <1>4. CASE Cards!Acknowledge
    BY <1>4 DEF Cards!Acknowledge, Cards!Use
  <1>5. CASE Cards!Done
    BY <1>5 DEF Cards!Done, Cards!Use, Cards!reset
  <1>6. ASSUME NEW k \in Keys, NEW to \in BOOLEAN, Cards!setEnabled(k, to) PROVE RowsFollow'
    <2>0. PICK x : x = [n |-> serial, key |-> k, to |-> to, st |-> "sent"]
      OBVIOUS
    <2>3. x.key = k /\ x.to = to /\ x.st = "sent"
      BY <2>0
    <2> SUFFICES ASSUME tangled' = {} PROVE RowsFollow'
      OBVIOUS
    <2>1. /\ writes' = writes \cup {x} /\ shownKeys' = [shownKeys EXCEPT ![k] = to]
          /\ k \in DOMAIN shownKeys /\ to # shownKeys[k] /\ UNCHANGED <<listAsks, heldKeys>>
          /\ writes = {} /\ listAsks = {} /\ tangled = {} /\ opReply # "ok"
      BY <1>6, <2>0 DEF Cards!setEnabled
    <2>2. shownKeys = heldKeys /\ shownKeys \in [DOMAIN shownKeys -> BOOLEAN]
      BY <2>1, RowsAre DEF CardTypes, CardRows
    <2>4. shownKeys[k] = ~to
      BY <2>1, <2>2
    <2>5. heldKeys' = [shownKeys' EXCEPT ![k] = ~to]
      BY <2>1, <2>2, <2>4
    <2>6. shownKeys'[k] = to /\ k \in DOMAIN shownKeys'
      BY <2>1, <2>2
    <2>7. Flip(x)'
      BY <2>3, <2>5, <2>6
    <2> HIDE DEF Flip
    <2> QED
      BY <2>1, <2>7
  <1>7. CASE Cards!ServeOp
    BY <1>7 DEF Cards!ServeOp, Cards!DoOp, Cards!Fault, Cards!Full
  <1>8. CASE Cards!AnswerOp
    <2>1. CASE opReply = "err"
      BY <1>8, <2>1 DEF Cards!AnswerOp, Cards!Ended, Cards!ShowSecret, Cards!Load,
         Cards!reset
    <2>2. CASE opReply = "ok" /\ op \in {"options", "ceremony"}
      BY <1>8, <2>2 DEF Cards!AnswerOp, Cards!Ended, Cards!ShowSecret, Cards!Load,
         Cards!reset
    <2>3. CASE opReply = "ok" /\ op = "start"
      BY <1>8, <2>3 DEF Cards!AnswerOp, Cards!Ended, Cards!ShowSecret, Cards!Load,
         Cards!reset
    <2>4. CASE opReply = "ok" /\ op = "create"
      <3> DEFINE x == [n |-> serial, st |-> "sent", rows |-> <<>>]
      <3>1. /\ listAsks' = listAsks \cup {x} /\ UNCHANGED <<writes, heldKeys>>
            /\ tangled' = {} => writes = {} /\ listAsks = {}
        BY <1>8, <2>4 DEF Cards!AnswerOp, Cards!Load
      <3>2. x.st # "ok"
        OBVIOUS
      <3> HIDE DEF x
      <3> QED
        BY <3>1, <3>2
    <2>5. CASE opReply = "ok" /\ op \in {"confirm", "regenerate"}
      BY <1>8, <2>5 DEF Cards!AnswerOp, Cards!Ended, Cards!ShowSecret, Cards!Load,
         Cards!reset
    <2>6. CASE opReply = "ok" /\ op = "disable"
      BY <1>8, <2>6 DEF Cards!AnswerOp, Cards!Ended, Cards!ShowSecret, Cards!Load,
         Cards!reset
    <2>7. CASE opReply = "ok" /\ op \in {"delete", "remove", "register"}
      <3> DEFINE x == [n |-> serial, st |-> "sent", rows |-> <<>>]
      <3>1. /\ listAsks' = listAsks \cup {x} /\ UNCHANGED <<writes, heldKeys>>
            /\ tangled' = {} => writes = {} /\ listAsks = {}
        BY <1>8, <2>7 DEF Cards!AnswerOp, Cards!Load
      <3>2. x.st # "ok"
        OBVIOUS
      <3> HIDE DEF x
      <3> QED
        BY <3>1, <3>2
    <2> QED
      BY <1>8, <2>1, <2>2, <2>3, <2>4, <2>5, <2>6, <2>7
         DEF Cards!AnswerOp, Ops, CardTypes, CardModes, OneDialogue
  <1>9. CASE Cards!RefreshEnabled
    BY <1>9 DEF Cards!RefreshEnabled, Cards!Fault
  <1>10. ASSUME NEW w \in writes, Cards!ServeWrite(w) PROVE RowsFollow'
    <2> SUFFICES ASSUME tangled' = {}, ~Answered(RowOps) PROVE RowsFollow'
      BY <1>10 DEF Cards!ServeWrite
    <2>1. /\ listAsks = {} /\ writes = {w} /\ Flip(w) /\ w.st = "sent" /\ tangled = {}
          /\ UNCHANGED <<listAsks, shownKeys>>
      BY <1>10 DEF Cards!ServeWrite
    <2>2. /\ shownKeys \in [DOMAIN shownKeys -> BOOLEAN]
          /\ w \in SwitchWrite /\ w.to \in BOOLEAN
      BY RowsAre DEF CardTypes, CardRows, SwitchWrite
    <2>3. /\ w.key \in DOMAIN heldKeys
          /\ [heldKeys EXCEPT ![w.key] = w.to] = shownKeys
      BY <2>1, <2>2
    <2>4. CASE writes' = (writes \ {w}) \cup {[w EXCEPT !.st = "ok"]} /\ heldKeys' = shownKeys
      <3>1. PICK x : x = [w EXCEPT !.st = "ok"]
        OBVIOUS
      <3>3. x.st = "ok" /\ x.key = w.key /\ x.to = w.to
        BY <2>2, <3>1 DEF SwitchWrite
      <3>2. writes' = {x}
        BY <2>1, <2>4, <3>1
      <3> QED
        BY <2>1, <2>4, <3>2, <3>3
    <2>5. CASE writes' = (writes \ {w}) \cup {[w EXCEPT !.st = "err"]} /\ heldKeys' = heldKeys
      <3>1. PICK x : x = [w EXCEPT !.st = "err"]
        OBVIOUS
      <3>3. x.st = "err" /\ x.key = w.key /\ x.to = w.to
        BY <2>2, <3>1 DEF SwitchWrite
      <3>2. writes' = {x}
        BY <2>1, <2>5, <3>1
      <3> QED
        BY <2>1, <2>5, <3>2, <3>3
    <2> QED
      BY <1>10, <2>3, <2>4, <2>5 DEF Cards!ServeWrite
  <1>11. ASSUME NEW w \in writes, Cards!AnswerWrite(w) PROVE RowsFollow'
    <2> SUFFICES ASSUME tangled = {}, ~Answered(RowOps) PROVE RowsFollow'
      BY <1>11 DEF Cards!AnswerWrite
    <2>1. /\ listAsks = {} /\ writes = {w} /\ Flip(w) /\ w.st # "sent"
          /\ UNCHANGED <<listAsks, heldKeys>> /\ writes' = {}
      BY <1>11 DEF Cards!AnswerWrite
    <2>2. /\ shownKeys \in [DOMAIN shownKeys -> BOOLEAN] /\ w.st \in {"sent", "ok", "err"}
          /\ w.to \in BOOLEAN
      BY RowsAre DEF CardTypes, CardRows, SwitchWrite
    <2>3. Cards!Reverted(w) = [shownKeys EXCEPT ![w.key] = ~w.to]
      BY <2>1, <2>2 DEF Cards!Reverted
    <2>4. shownKeys' = heldKeys
      BY <1>11, <2>1, <2>2, <2>3 DEF Cards!AnswerWrite
    <2> QED
      BY <2>1, <2>4
  <1>12. ASSUME NEW a \in listAsks, Cards!ServeList(a) PROVE RowsFollow'
    <2> SUFFICES ASSUME tangled = {}, ~Answered(RowOps) PROVE RowsFollow'
      BY <1>12 DEF Cards!ServeList
    <2>1. writes = {} /\ listAsks = {a} /\ UNCHANGED <<writes, heldKeys>>
      BY <1>12 DEF Cards!ServeList
    <2>2. a \in ListAsk
      BY DEF CardTypes, CardRows
    <2> DEFINE x == [a EXCEPT !.st = "ok", !.rows = heldKeys]
               y == [a EXCEPT !.st = "err"]
    <2>3. x.rows = heldKeys /\ y.st # "ok"
      BY <2>2 DEF ListAsk
    <2>4. listAsks' = {x} \/ listAsks' = {y}
      BY <1>12, <2>1 DEF Cards!ServeList
    <2> HIDE DEF x, y
    <2> QED
      BY <2>1, <2>3, <2>4
  <1>13. ASSUME NEW a \in listAsks, Cards!AnswerList(a) PROVE RowsFollow'
    BY <1>13 DEF Cards!AnswerList
  <1> QED
    BY <1>1, <1>2, <1>3, <1>4, <1>5, <1>6, <1>7, <1>8, <1>9, <1>10, <1>11, <1>12, <1>13
       DEF Cards!CardNext

\* The card knows whether the second factor is on.
LEMMA FactorStep ==
    ASSUME CardTypes, OneDialogue, FactorFollows, Cards!CardNext
    PROVE  FactorFollows'
  <1> USE DEF Cards!theRows, Cards!theDialog, Cards!theServer, CardTypes, CardModes,
              CardFlags, OneDialogue, FactorFollows, Answered, Cards!busy
  <1>1. ASSUME NEW b \in Cards!Buttons, Cards!Open(b) PROVE FactorFollows'
    BY <1>1 DEF Cards!Open, Cards!Use
  <1>2. ASSUME NEW b \in Cards!Buttons, Cards!Submit(b) PROVE FactorFollows'
    BY <1>2 DEF Cards!Submit, Cards!Use
  <1>3. CASE Cards!Cancel
    BY <1>3 DEF Cards!Cancel, Cards!Use, Cards!reset
  <1>4. CASE Cards!Acknowledge
    BY <1>4 DEF Cards!Acknowledge, Cards!Use
  <1>5. CASE Cards!Done
    BY <1>5 DEF Cards!Done, Cards!Use, Cards!reset
  <1>6. ASSUME NEW k \in Keys, NEW to \in BOOLEAN, Cards!setEnabled(k, to)
         PROVE  FactorFollows'
    BY <1>6 DEF Cards!setEnabled, Cards!Use
  <1>7. CASE Cards!ServeOp
    BY <1>7 DEF Cards!ServeOp, Cards!DoOp, Cards!Fault, Cards!Full
  <1>8. CASE Cards!AnswerOp
    BY <1>8 DEF Cards!AnswerOp, Cards!Ended, Cards!ShowSecret, Cards!Load, Cards!reset
  <1>9. CASE Cards!RefreshEnabled
    BY <1>9 DEF Cards!RefreshEnabled, Cards!Fault
  <1>10. ASSUME NEW w \in writes, Cards!ServeWrite(w) PROVE FactorFollows'
    BY <1>10 DEF Cards!ServeWrite, Cards!Fault
  <1>11. ASSUME NEW w \in writes, Cards!AnswerWrite(w) PROVE FactorFollows'
    BY <1>11 DEF Cards!AnswerWrite, Cards!Reverted
  <1>12. ASSUME NEW a \in listAsks, Cards!ServeList(a) PROVE FactorFollows'
    BY <1>12 DEF Cards!ServeList, Cards!Fault
  <1>13. ASSUME NEW a \in listAsks, Cards!AnswerList(a) PROVE FactorFollows'
    BY <1>13 DEF Cards!AnswerList
  <1> QED
    BY <1>1, <1>2, <1>3, <1>4, <1>5, <1>6, <1>7, <1>8, <1>9, <1>10, <1>11, <1>12, <1>13
       DEF Cards!CardNext

\* Secrets are shown as they are handed out.
LEMMA SecretsStep ==
    ASSUME CardTypes, OneDialogue, SecretsFollow, Cards!CardNext
    PROVE  SecretsFollow'
  <1> USE DEF Cards!theRows, Cards!theDialog, Cards!theServer, CardTypes, CardModes,
              CardSecrets, OneDialogue, SecretsFollow, Answered, Cards!Secret,
              Cards!busy
  <1>1. ASSUME NEW b \in Cards!Buttons, Cards!Open(b) PROVE SecretsFollow'
    BY <1>1 DEF Cards!Open, Cards!Use
  <1>2. ASSUME NEW b \in Cards!Buttons, Cards!Submit(b) PROVE SecretsFollow'
    BY <1>2 DEF Cards!Submit, Cards!Use
  <1>3. CASE Cards!Cancel
    BY <1>3 DEF Cards!Cancel, Cards!Use, Cards!reset
  <1>4. CASE Cards!Acknowledge
    BY <1>4 DEF Cards!Acknowledge, Cards!Use
  <1>5. CASE Cards!Done
    BY <1>5 DEF Cards!Done, Cards!Use, Cards!reset
  <1>6. ASSUME NEW k \in Keys, NEW to \in BOOLEAN, Cards!setEnabled(k, to)
         PROVE  SecretsFollow'
    BY <1>6 DEF Cards!setEnabled, Cards!Use
  <1>7. CASE Cards!ServeOp
    BY <1>7 DEF Cards!ServeOp, Cards!DoOp, Cards!Fault, Cards!Full
  <1>8. CASE Cards!AnswerOp
    BY <1>8 DEF Cards!AnswerOp, Cards!Ended, Cards!ShowSecret, Cards!Load, Cards!reset
  <1>9. CASE Cards!RefreshEnabled
    BY <1>9 DEF Cards!RefreshEnabled, Cards!Fault
  <1>10. ASSUME NEW w \in writes, Cards!ServeWrite(w) PROVE SecretsFollow'
    BY <1>10 DEF Cards!ServeWrite, Cards!Fault
  <1>11. ASSUME NEW w \in writes, Cards!AnswerWrite(w) PROVE SecretsFollow'
    BY <1>11 DEF Cards!AnswerWrite, Cards!Reverted
  <1>12. ASSUME NEW a \in listAsks, Cards!ServeList(a) PROVE SecretsFollow'
    BY <1>12 DEF Cards!ServeList, Cards!Fault
  <1>13. ASSUME NEW a \in listAsks, Cards!AnswerList(a) PROVE SecretsFollow'
    BY <1>13 DEF Cards!AnswerList
  <1> QED
    BY <1>1, <1>2, <1>3, <1>4, <1>5, <1>6, <1>7, <1>8, <1>9, <1>10, <1>11, <1>12, <1>13
       DEF Cards!CardNext

-----------------------------------------------------------------------------
\* The page has read its lists once when it opens, and the parts that are not
\* open hold nothing.
LEMMA CardInitially == Init => CardInv
  <1> SUFFICES ASSUME Init PROVE CardInv
    OBVIOUS
  <1>1. /\ card \in {"keys", "totp", "passkeys", "off"}
        /\ totpOn \in BOOLEAN /\ enabled = totpOn /\ shownKeys = heldKeys /\ listAsks = {}
        /\ heldKeys = <<>> \/ heldKeys = [k \in {FirstKey} |-> TRUE]
        /\ Cards!CardBlank
    <2>1. CASE Cards!CardInit
      BY <2>1 DEF Cards!CardInit
    <2>2. CASE Cards!CardOff
      BY <2>2, Zenon DEF Cards!CardOff
    <2> QED
      BY <2>1, <2>2 DEF Init
  <1>2. heldKeys \in RowSets
    <2>1. TRUE \in BOOLEAN
      BY Zenon
    <2>2. [k \in {FirstKey} |-> TRUE] \in [{FirstKey} -> BOOLEAN]
      BY <2>1
    <2>3. [k \in {FirstKey} |-> TRUE] \in RowSets
      BY <2>2, CardConstants DEF RowSets
    <2> QED
      BY <1>1, <2>3, NoRows
  <1>3. CardFlags
    <2>1. acknowledged = FALSE /\ cardError = FALSE /\ refreshAsk = FALSE
      BY <1>1 DEF Cards!CardBlank
    <2> QED
      BY <1>1, <2>1, Zenon DEF CardFlags
  <1>4. CardModes /\ CardRows /\ CardSecrets
    BY <1>1, <1>2 DEF Cards!CardBlank, CardModes, CardRows, CardSecrets, Modes, Ops
  <1>5. OneDialogue /\ RowsFollow /\ FactorFollows /\ SecretsFollow
    BY <1>1 DEF Cards!CardBlank, OneDialogue, RowsFollow, FactorFollows, SecretsFollow
  <1> QED
    BY <1>3, <1>4, <1>5 DEF CardInv, CardTypes

LEMMA CardStep ==
    ASSUME CardInv, [Next]_vars
    PROVE  CardInv'
  <1>1. CASE Cards!CardNext
    BY <1>1, CardModesStep, CardFlagsStep, CardRowsStep, CardSecretsStep, DialogueStep, RowsStep,
       FactorStep, SecretsStep
       DEF CardInv, CardTypes
  <1>2. CASE UNCHANGED C
    BY <1>2 DEF C, CardInv, CardTypes, CardModes, CardFlags, CardRows, CardSecrets, OneDialogue,
                RowsFollow, Flip, FactorFollows, SecretsFollow, Answered
  <1> QED
    BY <1>1, <1>2 DEF Next, vars

\* The inductive invariant of the cards holds in the whole console.
THEOREM CardInductive == Spec => []CardInv
  <1>1. Init => CardInv
    BY CardInitially
  <1>2. CardInv /\ [Next]_vars => CardInv'
    BY CardStep
  <1> QED
    BY <1>1, <1>2, PTL DEF Spec

\* api-keys-card.tsx, totp-card.tsx, passkeys-card.tsx: with every request
\* answered, the rows and the second factor are the API's unless requests
\* overlapped or an answer was lost, and no secret handed out went unseen.
THEOREM CardsMatchServerHolds == Spec => []CardsMatchServer
  <1>1. CardInv => CardsMatchServer
    BY DEF CardInv, RowsFollow, FactorFollows, SecretsFollow, OneDialogue, Answered,
           CardsMatchServer, Cards!RowsMatchServer, Cards!SecretIsShown, Cards!Resting,
           Cards!busy, RowOps, Cards!Secret
  <1> QED
    BY <1>1, CardInductive, PTL

\* The types of the cards.
LEMMA CardTyped == CardInv => Cards!CardTypeOK
  <1> SUFFICES ASSUME CardInv PROVE Cards!CardTypeOK
    OBVIOUS
  <1>1. {acknowledged, cardError, enabled, totpOn, refreshAsk} \subseteq BOOLEAN
    BY Zenon DEF CardInv, CardTypes, CardFlags
  <1>2. DOMAIN shownKeys \subseteq Keys /\ DOMAIN heldKeys \subseteq Keys
    BY RowsAre DEF CardInv, CardTypes, CardRows
  <1> QED
    BY <1>1, <1>2 DEF CardInv, CardTypes, CardModes, CardRows, CardSecrets, Modes, Cards!CardTypeOK

-----------------------------------------------------------------------------
(* The session: the inductive invariant.                                   *)

Someone == Accounts \cup {NoOne}
SignIn == [st : {"none", "login", "verify", "passkey", "finish"}, who : Someone]
SessionCall == [n : Nat, why : {"page", "me", "hydrate", "finish"},
                st : {"sent", "refresh", "retry"}, bearer : Someone]

\* An attempt to sign in locks the form, and the form is there.
SessionForm ==
    /\ page \in {"login", "app", "off"} /\ email \in Someone /\ mfaFor \in Someone
    /\ code \in BOOLEAN /\ submitting \in BOOLEAN /\ loginError \in BOOLEAN
    /\ attempt \in SignIn
    /\ attempt.st # "none" => submitting /\ page = "login"
SessionTokens ==
    /\ status \in {"loading", "authenticated", "unauthenticated"}
    /\ user \in Someone /\ cookies \in Someone /\ calls \subseteq SessionCall /\ made \in Nat
    /\ crossing \in BOOLEAN /\ halfIn \in BOOLEAN
SessionRecent ==
    recent \in Seq(Accounts) /\ Len(recent) <= MaxRecent /\ Auth!IsInjective(recent)
SessionTypes == SessionForm /\ SessionTokens /\ SessionRecent

\* Unless a session began or ended under it, a request that will set the user
\* or the cookies carries the tokens the cookies hold.
StaleBearsCookies == ~crossing => \A c \in calls : Auth!Stale(c) => c.bearer = cookies

\* Stronger than SignedOutHoldsNothing, requests in flight or not.
SignedOut ==
    (status = "unauthenticated" /\ ~crossing /\ ~halfIn /\ ~Auth!Finishing) => cookies = NoOne

\* Whoever the cookies, a request or the list names passed every factor.
Proven ==
    /\ cookies \in proven \cup {NoOne} /\ Auth!Range(recent) \subseteq proven
    /\ \A c \in calls : c.bearer \in proven \cup {NoOne}

SessionInv ==
    /\ SessionTypes /\ StaleBearsCookies /\ SignedOut /\ Proven /\ Auth!UserIsSessionOwner

-----------------------------------------------------------------------------
\* Taking one account out of a list leaves the others, in their order.
LEMMA Removed ==
    ASSUME NEW s \in Seq(Accounts), NEW i \in DOMAIN s
    PROVE  /\ Auth!RemoveAt(s, i) \in Seq(Accounts)
           /\ Len(Auth!RemoveAt(s, i)) = Len(s) - 1
           /\ \A j \in 1 .. Len(s) - 1 :
                Auth!RemoveAt(s, i)[j] = IF j < i THEN s[j] ELSE s[j + 1]
  <1> DEFINE a == SubSeq(s, 1, i - 1)
             b == SubSeq(s, i + 1, Len(s))
  <1>1. i \in 1 .. Len(s) /\ Len(s) \in Nat
    OBVIOUS
  <1>2. a \in Seq(Accounts) /\ Len(a) = i - 1 /\ \A j \in 1 .. i - 1 : a[j] = s[j]
    BY <1>1
  <1>3. b \in Seq(Accounts) /\ Len(b) = Len(s) - i /\ \A j \in 1 .. Len(s) - i : b[j] = s[j + i]
    BY <1>1
  <1>4. Auth!RemoveAt(s, i) = a \o b
    BY DEF Auth!RemoveAt
  <1> HIDE DEF a, b
  <1> QED
    BY <1>1, <1>2, <1>3, <1>4

\* forgetAccount: the list stays a list of distinct accounts.
LEMMA OthersKept ==
    ASSUME SessionRecent, NEW who
    PROVE  /\ Auth!OtherAccounts(who) \in Seq(Accounts)
           /\ Len(Auth!OtherAccounts(who)) <= MaxRecent
           /\ Auth!IsInjective(Auth!OtherAccounts(who))
           /\ Auth!Range(Auth!OtherAccounts(who)) \subseteq Auth!Range(recent) \ {who}
  <1> USE DEF SessionRecent
  <1>1. CASE who \notin Auth!Range(recent)
    BY <1>1 DEF Auth!OtherAccounts, Auth!Range
  <1>2. CASE who \in Auth!Range(recent)
    <2>1. PICK i \in DOMAIN recent :
            recent[i] = who /\ Auth!OtherAccounts(who) = Auth!RemoveAt(recent, i)
      BY <1>2 DEF Auth!OtherAccounts, Auth!Range
    <2>2. PICK r : r = Auth!OtherAccounts(who)
      OBVIOUS
    <2>3. /\ r \in Seq(Accounts) /\ Len(r) = Len(recent) - 1
          /\ \A j \in 1 .. Len(recent) - 1 : r[j] = IF j < i THEN recent[j] ELSE recent[j + 1]
      BY <2>1, <2>2, Removed
    <2>4. i \in 1 .. Len(recent) /\ Len(recent) \in Nat /\ DOMAIN r = 1 .. Len(recent) - 1
      BY <2>3
    <2>5. \A j, k \in 1 .. Len(recent) : recent[j] = recent[k] => j = k
      BY DEF Auth!IsInjective
    <2>6. Auth!IsInjective(r)
      BY <2>3, <2>4, <2>5 DEF Auth!IsInjective
    <2>7. \A j \in 1 .. Len(recent) - 1 : r[j] # who /\ r[j] \in Auth!Range(recent)
      <3> SUFFICES ASSUME NEW j \in 1 .. Len(recent) - 1
                   PROVE  r[j] # who /\ r[j] \in Auth!Range(recent)
        OBVIOUS
      <3>1. PICK k \in 1 .. Len(recent) : k # i /\ r[j] = recent[k]
        <4>1. CASE j < i
          BY <2>3, <2>4, <4>1
        <4>2. CASE ~(j < i)
          BY <2>3, <2>4, <4>2
        <4> QED
          BY <4>1, <4>2
      <3>2. r[j] # who
        BY <2>1, <2>4, <2>5, <3>1
      <3>3. recent[k] \in Auth!Range(recent)
        BY <2>4 DEF Auth!Range
      <3> QED
        BY <3>1, <3>2, <3>3
    <2>8. Auth!Range(r) \subseteq Auth!Range(recent) \ {who}
      BY <2>4, <2>7 DEF Auth!Range
    <2> QED
      BY <2>2, <2>3, <2>4, <2>6, <2>8, SessionConstants
  <1> QED
    BY <1>1, <1>2

\* rememberAccount: the account is at the front once, and the list is cut.
LEMMA Remembered ==
    ASSUME SessionRecent, NEW who \in Accounts
    PROVE  /\ Auth!rememberAccount(who) \in Seq(Accounts)
           /\ Len(Auth!rememberAccount(who)) <= MaxRecent
           /\ Auth!IsInjective(Auth!rememberAccount(who))
           /\ Auth!Range(Auth!rememberAccount(who)) \subseteq Auth!Range(recent) \cup {who}
  <1>1. PICK r : r = Auth!OtherAccounts(who)
    OBVIOUS
  <1>2. /\ r \in Seq(Accounts) /\ Auth!IsInjective(r)
        /\ Auth!Range(r) \subseteq Auth!Range(recent) \ {who}
    BY <1>1, OthersKept
  <1>3. PICK next : next = << who >> \o r
    OBVIOUS
  <1>4. /\ next \in Seq(Accounts) /\ Len(next) = Len(r) + 1 /\ next[1] = who
        /\ \A j \in 2 .. Len(next) : next[j] = r[j - 1]
    BY <1>2, <1>3
  <1>5. \A j \in 1 .. Len(r) : r[j] # who /\ r[j] \in Auth!Range(recent)
    BY <1>2 DEF Auth!Range
  <1>6. \A j, k \in 1 .. Len(r) : r[j] = r[k] => j = k
    BY <1>2 DEF Auth!IsInjective
  <1>7. \A j, k \in 1 .. Len(next) : next[j] = next[k] => j = k
    BY <1>2, <1>4, <1>5, <1>6
  <1>8. \A j \in 1 .. Len(next) : next[j] \in Auth!Range(recent) \cup {who}
    <2> SUFFICES ASSUME NEW j \in 1 .. Len(next) PROVE next[j] \in Auth!Range(recent) \cup {who}
      OBVIOUS
    <2>1. CASE j = 1
      BY <1>4, <2>1
    <2>2. CASE j # 1
      <3>1. j - 1 \in 1 .. Len(r) /\ next[j] = r[j - 1]
        BY <1>2, <1>4, <2>2
      <3> QED
        BY <1>5, <3>1
    <2> QED
      BY <2>1, <2>2
  <1>9. PICK m : m = IF Len(next) > MaxRecent THEN MaxRecent ELSE Len(next)
    OBVIOUS
  <1>10. m \in 0 .. Len(next) /\ m <= MaxRecent
    BY <1>4, <1>9, SessionConstants
  <1>11. PICK q : q = SubSeq(next, 1, m)
    OBVIOUS
  <1>12. q \in Seq(Accounts) /\ Len(q) = m /\ \A j \in 1 .. m : q[j] = next[j]
    BY <1>4, <1>10, <1>11
  <1>13. Auth!IsInjective(q)
    BY <1>7, <1>10, <1>12, <1>4 DEF Auth!IsInjective
  <1>14. Auth!Range(q) \subseteq Auth!Range(recent) \cup {who}
    <2>1. \A j \in 1 .. m : q[j] \in Auth!Range(recent) \cup {who}
      BY <1>4, <1>8, <1>10, <1>12
    <2>2. DOMAIN q = 1 .. m
      BY <1>12
    <2> QED
      BY <2>1, <2>2 DEF Auth!Range
  <1>15. Auth!rememberAccount(who) = q
    BY <1>1, <1>3, <1>9, <1>11 DEF Auth!rememberAccount
  <1> QED
    BY <1>10, <1>12, <1>13, <1>14, <1>15

\* The login form that mounts is filled with a known account or with nothing.
LEMMA Prefilled ==
    ASSUME SessionRecent
    PROVE  Auth!prefill(recent) \in Someone
  BY DEF SessionRecent, Auth!prefill, Someone

LEMMA IdleIs == Auth!Idle \in SignIn /\ Auth!Idle.st = "none"
  BY DEF Auth!Idle, SignIn, Someone

\* A request that is given up.
LEMMA GivenUp ==
    ASSUME SessionTypes, NEW c \in calls, NEW ended \in BOOLEAN, Auth!GiveUp(c, ended)
    PROVE  SessionForm'
  <1> USE DEF SessionTypes, SessionForm
  <1>1. UNCHANGED <<page, email, mfaFor, code>>
    BY DEF Auth!GiveUp
  <1>2. CASE c.why = "finish"
    <2>1. attempt' = Auth!Idle /\ submitting' = FALSE /\ loginError' = TRUE
      BY <1>2 DEF Auth!GiveUp
    <2>2. submitting' \in BOOLEAN /\ loginError' \in BOOLEAN
      BY <2>1, Zenon
    <2> QED
      BY <1>1, <2>1, <2>2, IdleIs
  <1>3. CASE c.why # "finish"
    BY <1>1, <1>3 DEF Auth!GiveUp
  <1> QED
    BY <1>2, <1>3

\* The login form and its attempt.
LEMMA SessionFormStep ==
    ASSUME SessionTypes, Auth!SessionNext
    PROVE  SessionForm'
  <1> USE DEF Auth!theForm, Auth!theBounds, Auth!theAuth, SessionTypes, SessionForm,
              Someone
  <1>1. ASSUME NEW who \in Someone, Auth!TypeEmail(who) PROVE SessionForm'
    BY <1>1 DEF Auth!TypeEmail, SignIn
  <1>2. ASSUME NEW who \in Someone, Auth!removeAccount(who) PROVE SessionForm'
    BY <1>2 DEF Auth!removeAccount
  <1>3. ASSUME NEW st \in {"login", "verify", "passkey"}, Auth!Begin(st) PROVE SessionForm'
    <2>1. attempt' \in SignIn
      BY <1>3 DEF Auth!Begin, SignIn
    <2>2. submitting' = TRUE /\ loginError' = FALSE
      BY <1>3 DEF Auth!Begin
    <2>3. submitting' \in BOOLEAN /\ loginError' \in BOOLEAN
      BY <2>2, Zenon
    <2> QED
      BY <1>3, <2>1, <2>2, <2>3 DEF Auth!Begin
  <1>4. CASE Auth!TypeCode
    BY <1>4 DEF Auth!TypeCode, SignIn
  <1>5. CASE Auth!toggleRecovery
    BY <1>5 DEF Auth!toggleRecovery, SignIn
  <1>6. CASE Auth!cancelMfa
    BY <1>6 DEF Auth!cancelMfa, SignIn
  <1>7. CASE Auth!AttemptFails
    BY <1>7 DEF Auth!AttemptFails, Auth!Idle, SignIn
  <1>8. CASE Auth!Challenge
    BY <1>8 DEF Auth!Challenge, Auth!Idle, SignIn
  <1>9. CASE Auth!finishLogin
    BY <1>9 DEF Auth!finishLogin, Auth!persistSession, Auth!Request, SignIn
  <1>10. ASSUME NEW why \in {"page", "me"}, Auth!Send(why) PROVE SessionForm'
    BY <1>10 DEF Auth!Send, Auth!Request, SignIn
  <1>11. ASSUME NEW c \in calls, Auth!Succeed(c) PROVE SessionForm'
    <2>1. CASE c.why # "finish"
      BY <1>11, <2>1 DEF Auth!Succeed
    <2>2. CASE c.why = "finish" /\ Auth!proxy("app") = "app"
      <3>1. /\ page' = "app" /\ attempt' = Auth!Idle /\ email' = NoOne /\ mfaFor' = NoOne
            /\ code' = FALSE /\ submitting' = FALSE /\ loginError' = FALSE
        BY <1>11, <2>2 DEF Auth!Succeed, Auth!FreshForm
      <3>2. code' \in BOOLEAN /\ submitting' \in BOOLEAN /\ loginError' \in BOOLEAN
        BY <3>1, Zenon
      <3> QED
        BY <3>1, <3>2, IdleIs
    <2>3. CASE c.why = "finish" /\ Auth!proxy("app") # "app"
      BY <1>11, <2>3, IdleIs DEF Auth!Succeed, Auth!proxy
    <2> QED
      BY <2>1, <2>2, <2>3
  <1>12. ASSUME NEW c \in calls, Auth!Fail(c) PROVE SessionForm'
    BY <1>12, GivenUp DEF Auth!Fail
  <1>13. ASSUME NEW c \in calls, Auth!RejectWithoutRefresh(c) PROVE SessionForm'
    BY <1>13, GivenUp DEF Auth!RejectWithoutRefresh
  <1>14. ASSUME NEW c \in calls, Auth!Reject(c) PROVE SessionForm'
    BY <1>14 DEF Auth!Reject, SignIn
  <1>15. ASSUME NEW c \in calls, Auth!Refreshed(c) PROVE SessionForm'
    BY <1>15 DEF Auth!Refreshed, Auth!persistSession, SignIn
  <1>16. ASSUME NEW c \in calls, Auth!RefreshFails(c) PROVE SessionForm'
    BY <1>16, GivenUp DEF Auth!RefreshFails
  <1>17. CASE Auth!logout
    BY <1>17, Prefilled DEF Auth!logout, Auth!endSession, Auth!ToLogin, Auth!FreshForm, SignIn
  <1>18. CASE Auth!AuthGuard
    BY <1>18, Prefilled DEF Auth!AuthGuard, Auth!ToLogin, Auth!FreshForm, SignIn
  <1>19. ASSUME NEW p \in {"login", "app"}, Auth!Reload(p) PROVE SessionForm'
    <2>1. /\ page' \in {"login", "app"} /\ attempt' = Auth!Idle /\ mfaFor' = NoOne
          /\ email' \in {NoOne, Auth!prefill(recent)}
          /\ code' = FALSE /\ submitting' = FALSE /\ loginError' = FALSE
      BY <1>19 DEF Auth!Reload, Auth!FreshForm, Auth!proxy
    <2>2. code' \in BOOLEAN /\ submitting' \in BOOLEAN /\ loginError' \in BOOLEAN
      BY <2>1, Zenon
    <2> QED
      BY <2>1, <2>2, IdleIs, Prefilled
  <1> QED
    BY <1>1, <1>2, <1>3, <1>4, <1>5, <1>6, <1>7, <1>8, <1>9, <1>10, <1>11, <1>12, <1>13,
       <1>14, <1>15, <1>16, <1>17, <1>18, <1>19 DEF Auth!SessionNext, Someone

\* The user, the token pair and the requests.
LEMMA SessionTokensStep ==
    ASSUME SessionTypes, Auth!SessionNext
    PROVE  SessionTokens'
  <1> USE DEF Auth!theForm, Auth!theBounds, Auth!theAuth, SessionTypes, SessionTokens,
              Someone
  <1>1. ASSUME NEW who \in Someone, Auth!TypeEmail(who) PROVE SessionTokens'
    BY <1>1 DEF Auth!TypeEmail, SessionCall
  <1>2. ASSUME NEW who \in Someone, Auth!removeAccount(who) PROVE SessionTokens'
    BY <1>2 DEF Auth!removeAccount, SessionCall
  <1>3. ASSUME NEW st \in {"login", "verify", "passkey"}, Auth!Begin(st)
         PROVE  SessionTokens'
    BY <1>3 DEF Auth!Begin, SessionCall
  <1>4. CASE Auth!TypeCode
    BY <1>4 DEF Auth!TypeCode, SessionCall
  <1>5. CASE Auth!toggleRecovery
    BY <1>5 DEF Auth!toggleRecovery, SessionCall
  <1>6. CASE Auth!cancelMfa
    BY <1>6 DEF Auth!cancelMfa, SessionCall
  <1>7. CASE Auth!AttemptFails
    BY <1>7 DEF Auth!AttemptFails, Auth!Idle, SessionCall
  <1>8. CASE Auth!Challenge
    BY <1>8 DEF Auth!Challenge, Auth!Idle, SessionCall
  <1>9. CASE Auth!finishLogin
    <2>1. attempt.who \in Someone
      BY DEF SessionForm, SignIn
    <2>2. Auth!Request(0, "finish", attempt.who) \in SessionCall
      BY <2>1 DEF Auth!Request, SessionCall
    <2> QED
      BY <1>9, <2>1, <2>2 DEF Auth!finishLogin, Auth!persistSession
  <1>10. ASSUME NEW why \in {"page", "me"}, Auth!Send(why) PROVE SessionTokens'
    BY <1>10 DEF Auth!Send, Auth!Request, SessionCall
  <1>11. ASSUME NEW c \in calls, Auth!Succeed(c) PROVE SessionTokens'
    BY <1>11 DEF Auth!Succeed, Auth!proxy, Auth!FreshForm, Auth!Idle, SessionCall
  <1>12. ASSUME NEW c \in calls, Auth!Fail(c) PROVE SessionTokens'
    BY <1>12 DEF Auth!Fail, Auth!GiveUp, Auth!endSession, Auth!Idle, SessionCall
  <1>13. ASSUME NEW c \in calls, Auth!RejectWithoutRefresh(c) PROVE SessionTokens'
    BY <1>13 DEF Auth!RejectWithoutRefresh, Auth!GiveUp, Auth!endSession, Auth!Idle,
       SessionCall
  <1>14. ASSUME NEW c \in calls, Auth!Reject(c) PROVE SessionTokens'
    BY <1>14 DEF Auth!Reject, SessionCall
  <1>15. ASSUME NEW c \in calls, Auth!Refreshed(c) PROVE SessionTokens'
    BY <1>15 DEF Auth!Refreshed, Auth!persistSession, SessionCall
  <1>16. ASSUME NEW c \in calls, Auth!RefreshFails(c) PROVE SessionTokens'
    BY <1>16 DEF Auth!RefreshFails, Auth!GiveUp, Auth!endSession, Auth!Idle, SessionCall
  <1>17. CASE Auth!logout
    BY <1>17 DEF Auth!logout, Auth!endSession, Auth!ToLogin, Auth!FreshForm, SessionCall
  <1>18. CASE Auth!AuthGuard
    BY <1>18 DEF Auth!AuthGuard, Auth!ToLogin, Auth!FreshForm, SessionCall
  <1>19. ASSUME NEW p \in {"login", "app"}, Auth!Reload(p) PROVE SessionTokens'
    <2>1. Auth!Request(0, "hydrate", cookies) \in SessionCall
      BY DEF Auth!Request, SessionCall
    <2>2. crossing' = FALSE /\ halfIn' = FALSE /\ user' = NoOne /\ UNCHANGED <<cookies, made>>
      BY <1>19 DEF Auth!Reload
    <2>3. crossing' \in BOOLEAN /\ halfIn' \in BOOLEAN
      BY <2>2, Zenon
    <2> QED
      BY <1>19, <2>1, <2>2, <2>3 DEF Auth!Reload, Auth!hydrate
  <1> QED
    BY <1>1, <1>2, <1>3, <1>4, <1>5, <1>6, <1>7, <1>8, <1>9, <1>10, <1>11, <1>12, <1>13,
       <1>14, <1>15, <1>16, <1>17, <1>18, <1>19 DEF Auth!SessionNext, Someone

\* The remembered accounts.
LEMMA SessionRecentStep ==
    ASSUME SessionTypes, Auth!SessionNext
    PROVE  SessionRecent'
  <1> USE DEF Auth!theForm, Auth!theBounds, Auth!theAuth, SessionTypes, SessionRecent
  <1>1. ASSUME NEW who \in Someone, Auth!TypeEmail(who) PROVE SessionRecent'
    BY <1>1 DEF Auth!TypeEmail
  <1>2. ASSUME NEW who \in Someone, Auth!removeAccount(who) PROVE SessionRecent'
    BY <1>2, OthersKept DEF Auth!removeAccount, Auth!forgetAccount
  <1>3. ASSUME NEW st \in {"login", "verify", "passkey"}, Auth!Begin(st)
         PROVE  SessionRecent'
    BY <1>3 DEF Auth!Begin
  <1>4. CASE Auth!TypeCode
    BY <1>4 DEF Auth!TypeCode
  <1>5. CASE Auth!toggleRecovery
    BY <1>5 DEF Auth!toggleRecovery
  <1>6. CASE Auth!cancelMfa
    BY <1>6 DEF Auth!cancelMfa
  <1>7. CASE Auth!AttemptFails
    BY <1>7 DEF Auth!AttemptFails, Auth!Idle
  <1>8. CASE Auth!Challenge
    BY <1>8 DEF Auth!Challenge, Auth!Idle
  <1>9. CASE Auth!finishLogin
    BY <1>9 DEF Auth!finishLogin, Auth!persistSession, Auth!Request
  <1>10. ASSUME NEW why \in {"page", "me"}, Auth!Send(why) PROVE SessionRecent'
    BY <1>10 DEF Auth!Send, Auth!Request
  <1>11. ASSUME NEW c \in calls, Auth!Succeed(c) PROVE SessionRecent'
    BY <1>11, Remembered DEF Auth!Succeed, SessionTokens, SessionCall, Someone
  <1>12. ASSUME NEW c \in calls, Auth!Fail(c) PROVE SessionRecent'
    BY <1>12 DEF Auth!Fail, Auth!GiveUp, Auth!endSession, Auth!Idle
  <1>13. ASSUME NEW c \in calls, Auth!RejectWithoutRefresh(c) PROVE SessionRecent'
    BY <1>13 DEF Auth!RejectWithoutRefresh, Auth!GiveUp, Auth!endSession, Auth!Idle
  <1>14. ASSUME NEW c \in calls, Auth!Reject(c) PROVE SessionRecent'
    BY <1>14 DEF Auth!Reject
  <1>15. ASSUME NEW c \in calls, Auth!Refreshed(c) PROVE SessionRecent'
    BY <1>15 DEF Auth!Refreshed, Auth!persistSession
  <1>16. ASSUME NEW c \in calls, Auth!RefreshFails(c) PROVE SessionRecent'
    BY <1>16 DEF Auth!RefreshFails, Auth!GiveUp, Auth!endSession, Auth!Idle
  <1>17. CASE Auth!logout
    BY <1>17 DEF Auth!logout, Auth!endSession, Auth!ToLogin, Auth!FreshForm
  <1>18. CASE Auth!AuthGuard
    BY <1>18 DEF Auth!AuthGuard, Auth!ToLogin, Auth!FreshForm
  <1>19. ASSUME NEW p \in {"login", "app"}, Auth!Reload(p) PROVE SessionRecent'
    BY <1>19 DEF Auth!Reload, Auth!proxy, Auth!FreshForm, Auth!Idle, Auth!hydrate,
       Auth!Request
  <1> QED
    BY <1>1, <1>2, <1>3, <1>4, <1>5, <1>6, <1>7, <1>8, <1>9, <1>10, <1>11, <1>12, <1>13,
       <1>14, <1>15, <1>16, <1>17, <1>18, <1>19 DEF Auth!SessionNext, Someone

\* Requests that would change the session carry its tokens.
LEMMA StaleStep ==
    ASSUME SessionTypes, StaleBearsCookies, Auth!SessionNext
    PROVE  StaleBearsCookies'
  <1> USE DEF Auth!theForm, Auth!theBounds, Auth!theAuth, SessionTypes, SessionTokens,
              StaleBearsCookies, Auth!Stale, Auth!Overtakes
  <1>1. ASSUME NEW who \in Someone, Auth!TypeEmail(who) PROVE StaleBearsCookies'
    BY <1>1 DEF Auth!TypeEmail
  <1>2. ASSUME NEW who \in Someone, Auth!removeAccount(who) PROVE StaleBearsCookies'
    BY <1>2 DEF Auth!removeAccount
  <1>3. ASSUME NEW st \in {"login", "verify", "passkey"}, Auth!Begin(st)
         PROVE  StaleBearsCookies'
    BY <1>3 DEF Auth!Begin
  <1>4. CASE Auth!TypeCode
    BY <1>4 DEF Auth!TypeCode
  <1>5. CASE Auth!toggleRecovery
    BY <1>5 DEF Auth!toggleRecovery
  <1>6. CASE Auth!cancelMfa
    BY <1>6 DEF Auth!cancelMfa
  <1>7. CASE Auth!AttemptFails
    BY <1>7 DEF Auth!AttemptFails, Auth!Idle
  <1>8. CASE Auth!Challenge
    BY <1>8 DEF Auth!Challenge, Auth!Idle
  <1>9. CASE Auth!finishLogin
    <2>1. PICK x : x = Auth!Request(0, "finish", attempt.who)
      OBVIOUS
    <2>2. x.bearer = attempt.who
      BY <2>1 DEF Auth!Request
    <2>3. calls' = calls \cup {x} /\ cookies' = attempt.who
      BY <1>9, <2>1 DEF Auth!finishLogin, Auth!persistSession
    <2> QED
      BY <1>9, <2>2, <2>3 DEF Auth!finishLogin
  <1>10. ASSUME NEW why \in {"page", "me"}, Auth!Send(why) PROVE StaleBearsCookies'
    BY <1>10 DEF Auth!Send, Auth!Request
  <1>11. ASSUME NEW c \in calls, Auth!Succeed(c) PROVE StaleBearsCookies'
    BY <1>11 DEF Auth!Succeed, Auth!proxy, Auth!FreshForm, Auth!Idle
  <1>12. ASSUME NEW c \in calls, Auth!Fail(c) PROVE StaleBearsCookies'
    BY <1>12 DEF Auth!Fail, Auth!GiveUp, Auth!endSession, Auth!Idle
  <1>13. ASSUME NEW c \in calls, Auth!RejectWithoutRefresh(c) PROVE StaleBearsCookies'
    BY <1>13 DEF Auth!RejectWithoutRefresh, Auth!GiveUp, Auth!endSession, Auth!Idle
  <1>14. ASSUME NEW c \in calls, Auth!Reject(c) PROVE StaleBearsCookies'
    <2>1. c \in SessionCall
      BY DEF SessionTypes, SessionTokens
    <2>2. PICK x : x = [c EXCEPT !.st = "refresh", !.bearer = cookies]
      OBVIOUS
    <2>3. x.bearer = cookies
      BY <2>1, <2>2 DEF SessionCall
    <2>4. calls' = (calls \ {c}) \cup {x} /\ UNCHANGED <<cookies, crossing, proven, recent>>
      BY <1>14, <2>2 DEF Auth!Reject
    <2> QED
      BY <2>3, <2>4
  <1>15. ASSUME NEW c \in calls, Auth!Refreshed(c) PROVE StaleBearsCookies'
    <2>1. c \in SessionCall
      BY DEF SessionTypes, SessionTokens
    <2>2. PICK x : x = [c EXCEPT !.st = "retry"]
      OBVIOUS
    <2>3. x.bearer = c.bearer
      BY <2>1, <2>2 DEF SessionCall
    <2>4. /\ calls' = (calls \ {c}) \cup {x} /\ cookies' = c.bearer /\ c.st = "refresh"
          /\ UNCHANGED <<crossing, proven, recent>>
      BY <1>15, <2>2 DEF Auth!Refreshed, Auth!persistSession
    <2> QED
      BY <2>3, <2>4
  <1>16. ASSUME NEW c \in calls, Auth!RefreshFails(c) PROVE StaleBearsCookies'
    BY <1>16 DEF Auth!RefreshFails, Auth!GiveUp, Auth!endSession, Auth!Idle
  <1>17. CASE Auth!logout
    BY <1>17 DEF Auth!logout, Auth!endSession, Auth!ToLogin, Auth!FreshForm
  <1>18. CASE Auth!AuthGuard
    BY <1>18 DEF Auth!AuthGuard, Auth!ToLogin, Auth!FreshForm
  <1>19. ASSUME NEW p \in {"login", "app"}, Auth!Reload(p) PROVE StaleBearsCookies'
    BY <1>19 DEF Auth!Reload, Auth!proxy, Auth!FreshForm, Auth!Idle, Auth!hydrate,
       Auth!Request
  <1> QED
    BY <1>1, <1>2, <1>3, <1>4, <1>5, <1>6, <1>7, <1>8, <1>9, <1>10, <1>11, <1>12, <1>13,
       <1>14, <1>15, <1>16, <1>17, <1>18, <1>19 DEF Auth!SessionNext, Someone

\* Signed out.
LEMMA SignedOutStep ==
    ASSUME SessionTypes, StaleBearsCookies, SignedOut, Auth!SessionNext
    PROVE  SignedOut'
  <1> USE DEF Auth!theForm, Auth!theBounds, Auth!theAuth, SessionTypes, SessionForm,
              StaleBearsCookies, SignedOut, Auth!Stale, Auth!Overtakes, Auth!Finishing
  <1>1. ASSUME NEW who \in Someone, Auth!TypeEmail(who) PROVE SignedOut'
    BY <1>1 DEF Auth!TypeEmail
  <1>2. ASSUME NEW who \in Someone, Auth!removeAccount(who) PROVE SignedOut'
    BY <1>2 DEF Auth!removeAccount
  <1>3. ASSUME NEW st \in {"login", "verify", "passkey"}, Auth!Begin(st) PROVE SignedOut'
    BY <1>3 DEF Auth!Begin
  <1>4. CASE Auth!TypeCode
    BY <1>4 DEF Auth!TypeCode
  <1>5. CASE Auth!toggleRecovery
    BY <1>5 DEF Auth!toggleRecovery
  <1>6. CASE Auth!cancelMfa
    BY <1>6 DEF Auth!cancelMfa
  <1>7. CASE Auth!AttemptFails
    BY <1>7 DEF Auth!AttemptFails, Auth!Idle
  <1>8. CASE Auth!Challenge
    BY <1>8 DEF Auth!Challenge, Auth!Idle
  <1>9. CASE Auth!finishLogin
    BY <1>9 DEF Auth!finishLogin, Auth!persistSession, Auth!Request
  <1>10. ASSUME NEW why \in {"page", "me"}, Auth!Send(why) PROVE SignedOut'
    BY <1>10 DEF Auth!Send, Auth!Request
  <1>11. ASSUME NEW c \in calls, Auth!Succeed(c) PROVE SignedOut'
    BY <1>11 DEF Auth!Succeed, Auth!proxy, Auth!FreshForm, Auth!Idle
  <1>12. ASSUME NEW c \in calls, Auth!Fail(c) PROVE SignedOut'
    BY <1>12 DEF Auth!Fail, Auth!GiveUp, Auth!endSession, Auth!Idle
  <1>13. ASSUME NEW c \in calls, Auth!RejectWithoutRefresh(c) PROVE SignedOut'
    BY <1>13 DEF Auth!RejectWithoutRefresh, Auth!GiveUp, Auth!endSession, Auth!Idle
  <1>14. ASSUME NEW c \in calls, Auth!Reject(c) PROVE SignedOut'
    BY <1>14 DEF Auth!Reject
  <1>15. ASSUME NEW c \in calls, Auth!Refreshed(c) PROVE SignedOut'
    BY <1>15 DEF Auth!Refreshed, Auth!persistSession
  <1>16. ASSUME NEW c \in calls, Auth!RefreshFails(c) PROVE SignedOut'
    BY <1>16 DEF Auth!RefreshFails, Auth!GiveUp, Auth!endSession, Auth!Idle
  <1>17. CASE Auth!logout
    BY <1>17 DEF Auth!logout, Auth!endSession, Auth!ToLogin, Auth!FreshForm
  <1>18. CASE Auth!AuthGuard
    BY <1>18 DEF Auth!AuthGuard, Auth!ToLogin, Auth!FreshForm
  <1>19. ASSUME NEW p \in {"login", "app"}, Auth!Reload(p) PROVE SignedOut'
    BY <1>19 DEF Auth!Reload, Auth!proxy, Auth!FreshForm, Auth!Idle, Auth!hydrate,
       Auth!Request
  <1> QED
    BY <1>1, <1>2, <1>3, <1>4, <1>5, <1>6, <1>7, <1>8, <1>9, <1>10, <1>11, <1>12, <1>13,
       <1>14, <1>15, <1>16, <1>17, <1>18, <1>19 DEF Auth!SessionNext, Someone

\* Only who passed every factor.
LEMMA ProvenStep ==
    ASSUME SessionTypes, Proven, Auth!SessionNext
    PROVE  Proven'
  <1> USE DEF Auth!theForm, Auth!theBounds, Auth!theAuth, SessionTypes, SessionTokens,
              SessionRecent, Proven
  <1>1. ASSUME NEW who \in Someone, Auth!TypeEmail(who) PROVE Proven'
    BY <1>1 DEF Auth!TypeEmail
  <1>2. ASSUME NEW who \in Someone, Auth!removeAccount(who) PROVE Proven'
    BY <1>2, OthersKept DEF Auth!removeAccount, Auth!forgetAccount
  <1>3. ASSUME NEW st \in {"login", "verify", "passkey"}, Auth!Begin(st) PROVE Proven'
    BY <1>3 DEF Auth!Begin
  <1>4. CASE Auth!TypeCode
    BY <1>4 DEF Auth!TypeCode
  <1>5. CASE Auth!toggleRecovery
    BY <1>5 DEF Auth!toggleRecovery
  <1>6. CASE Auth!cancelMfa
    BY <1>6 DEF Auth!cancelMfa
  <1>7. CASE Auth!AttemptFails
    BY <1>7 DEF Auth!AttemptFails, Auth!Idle
  <1>8. CASE Auth!Challenge
    BY <1>8 DEF Auth!Challenge, Auth!Idle
  <1>9. CASE Auth!finishLogin
    BY <1>9 DEF Auth!finishLogin, Auth!persistSession, Auth!Request
  <1>10. ASSUME NEW why \in {"page", "me"}, Auth!Send(why) PROVE Proven'
    BY <1>10 DEF Auth!Send, Auth!Request
  <1>11. ASSUME NEW c \in calls, Auth!Succeed(c) PROVE Proven'
    BY <1>11, Remembered DEF Auth!Succeed, SessionCall, Someone
  <1>12. ASSUME NEW c \in calls, Auth!Fail(c) PROVE Proven'
    BY <1>12 DEF Auth!Fail, Auth!GiveUp, Auth!endSession, Auth!Idle
  <1>13. ASSUME NEW c \in calls, Auth!RejectWithoutRefresh(c) PROVE Proven'
    BY <1>13 DEF Auth!RejectWithoutRefresh, Auth!GiveUp, Auth!endSession, Auth!Idle
  <1>14. ASSUME NEW c \in calls, Auth!Reject(c) PROVE Proven'
    <2>1. c \in SessionCall
      BY DEF SessionTypes, SessionTokens
    <2>2. PICK x : x = [c EXCEPT !.st = "refresh", !.bearer = cookies]
      OBVIOUS
    <2>3. x.bearer = cookies
      BY <2>1, <2>2 DEF SessionCall
    <2>4. calls' = (calls \ {c}) \cup {x} /\ UNCHANGED <<cookies, crossing, proven, recent>>
      BY <1>14, <2>2 DEF Auth!Reject
    <2> QED
      BY <2>3, <2>4
  <1>15. ASSUME NEW c \in calls, Auth!Refreshed(c) PROVE Proven'
    <2>1. c \in SessionCall
      BY DEF SessionTypes, SessionTokens
    <2>2. PICK x : x = [c EXCEPT !.st = "retry"]
      OBVIOUS
    <2>3. x.bearer = c.bearer
      BY <2>1, <2>2 DEF SessionCall
    <2>4. /\ calls' = (calls \ {c}) \cup {x} /\ cookies' = c.bearer /\ c.st = "refresh"
          /\ UNCHANGED <<crossing, proven, recent>>
      BY <1>15, <2>2 DEF Auth!Refreshed, Auth!persistSession
    <2> QED
      BY <2>3, <2>4
  <1>16. ASSUME NEW c \in calls, Auth!RefreshFails(c) PROVE Proven'
    BY <1>16 DEF Auth!RefreshFails, Auth!GiveUp, Auth!endSession, Auth!Idle
  <1>17. CASE Auth!logout
    BY <1>17 DEF Auth!logout, Auth!endSession, Auth!ToLogin, Auth!FreshForm
  <1>18. CASE Auth!AuthGuard
    BY <1>18 DEF Auth!AuthGuard, Auth!ToLogin, Auth!FreshForm
  <1>19. ASSUME NEW p \in {"login", "app"}, Auth!Reload(p) PROVE Proven'
    BY <1>19 DEF Auth!Reload, Auth!proxy, Auth!FreshForm, Auth!Idle, Auth!hydrate,
       Auth!Request
  <1> QED
    BY <1>1, <1>2, <1>3, <1>4, <1>5, <1>6, <1>7, <1>8, <1>9, <1>10, <1>11, <1>12, <1>13,
       <1>14, <1>15, <1>16, <1>17, <1>18, <1>19 DEF Auth!SessionNext, Someone

\* The user shown owns the tokens.
LEMMA OwnerStep ==
    ASSUME SessionTypes, StaleBearsCookies, Auth!UserIsSessionOwner, Auth!SessionNext
    PROVE  Auth!UserIsSessionOwner'
  <1> USE DEF Auth!theForm, Auth!theBounds, Auth!theAuth, SessionTypes, SessionForm,
              StaleBearsCookies, Auth!UserIsSessionOwner, Auth!Stale, Auth!Overtakes,
              Auth!Finishing
  <1>1. ASSUME NEW who \in Someone, Auth!TypeEmail(who) PROVE Auth!UserIsSessionOwner'
    BY <1>1 DEF Auth!TypeEmail
  <1>2. ASSUME NEW who \in Someone, Auth!removeAccount(who) PROVE Auth!UserIsSessionOwner'
    BY <1>2 DEF Auth!removeAccount
  <1>3. ASSUME NEW st \in {"login", "verify", "passkey"}, Auth!Begin(st)
         PROVE  Auth!UserIsSessionOwner'
    BY <1>3 DEF Auth!Begin
  <1>4. CASE Auth!TypeCode
    BY <1>4 DEF Auth!TypeCode
  <1>5. CASE Auth!toggleRecovery
    BY <1>5 DEF Auth!toggleRecovery
  <1>6. CASE Auth!cancelMfa
    BY <1>6 DEF Auth!cancelMfa
  <1>7. CASE Auth!AttemptFails
    BY <1>7 DEF Auth!AttemptFails, Auth!Idle
  <1>8. CASE Auth!Challenge
    BY <1>8 DEF Auth!Challenge, Auth!Idle
  <1>9. CASE Auth!finishLogin
    BY <1>9 DEF Auth!finishLogin, Auth!persistSession, Auth!Request
  <1>10. ASSUME NEW why \in {"page", "me"}, Auth!Send(why) PROVE Auth!UserIsSessionOwner'
    BY <1>10 DEF Auth!Send, Auth!Request
  <1>11. ASSUME NEW c \in calls, Auth!Succeed(c) PROVE Auth!UserIsSessionOwner'
    BY <1>11 DEF Auth!Succeed, Auth!proxy, Auth!FreshForm, Auth!Idle
  <1>12. ASSUME NEW c \in calls, Auth!Fail(c) PROVE Auth!UserIsSessionOwner'
    BY <1>12 DEF Auth!Fail, Auth!GiveUp, Auth!endSession, Auth!Idle
  <1>13. ASSUME NEW c \in calls, Auth!RejectWithoutRefresh(c) PROVE Auth!UserIsSessionOwner'
    BY <1>13 DEF Auth!RejectWithoutRefresh, Auth!GiveUp, Auth!endSession, Auth!Idle
  <1>14. ASSUME NEW c \in calls, Auth!Reject(c) PROVE Auth!UserIsSessionOwner'
    BY <1>14 DEF Auth!Reject
  <1>15. ASSUME NEW c \in calls, Auth!Refreshed(c) PROVE Auth!UserIsSessionOwner'
    BY <1>15 DEF Auth!Refreshed, Auth!persistSession
  <1>16. ASSUME NEW c \in calls, Auth!RefreshFails(c) PROVE Auth!UserIsSessionOwner'
    BY <1>16 DEF Auth!RefreshFails, Auth!GiveUp, Auth!endSession, Auth!Idle
  <1>17. CASE Auth!logout
    BY <1>17 DEF Auth!logout, Auth!endSession, Auth!ToLogin, Auth!FreshForm
  <1>18. CASE Auth!AuthGuard
    BY <1>18 DEF Auth!AuthGuard, Auth!ToLogin, Auth!FreshForm
  <1>19. ASSUME NEW p \in {"login", "app"}, Auth!Reload(p) PROVE Auth!UserIsSessionOwner'
    BY <1>19 DEF Auth!Reload, Auth!proxy, Auth!FreshForm, Auth!Idle, Auth!hydrate,
       Auth!Request
  <1> QED
    BY <1>1, <1>2, <1>3, <1>4, <1>5, <1>6, <1>7, <1>8, <1>9, <1>10, <1>11, <1>12, <1>13,
       <1>14, <1>15, <1>16, <1>17, <1>18, <1>19 DEF Auth!SessionNext, Someone

-----------------------------------------------------------------------------
\* The console opens signed out, or with the tokens of an earlier sign-in.
LEMMA SessionInitially == Init => SessionInv
  <1> SUFFICES ASSUME Init PROVE SessionInv
    OBVIOUS
  <1>1. \/ Auth!SessionInit
        \/ Auth!SessionOff
    BY DEF Init
  <1>2. /\ cookies \in Someone /\ recent = IF cookies = NoOne THEN <<>> ELSE << cookies >>
        /\ \E p \in {"login", "app", "off"} : Auth!SessionClean(p)
        /\ proven = {cookies} \ {NoOne}
        /\ status = Auth!hydrate(cookies).status /\ calls = Auth!hydrate(cookies).calls
    BY <1>1 DEF Auth!SessionInit, Auth!SessionOff, Someone, Auth!hydrate
  <1>3. SessionRecent /\ Auth!Range(recent) \subseteq proven
    <2>1. CASE cookies = NoOne
      BY <1>2, <2>1, SessionConstants DEF SessionRecent, Auth!IsInjective, Auth!Range
    <2>2. CASE cookies # NoOne
      BY <1>2, <2>2, SessionConstants DEF SessionRecent, Auth!IsInjective, Auth!Range, Someone
    <2> QED
      BY <2>1, <2>2
  <1>4. SessionForm
    <2>1. /\ code = FALSE /\ submitting = FALSE /\ loginError = FALSE
          /\ page \in {"login", "app", "off"} /\ attempt = Auth!Idle
          /\ email \in {NoOne, Auth!prefill(recent)} /\ mfaFor = NoOne
      BY <1>2 DEF Auth!SessionClean
    <2>2. code \in BOOLEAN /\ submitting \in BOOLEAN /\ loginError \in BOOLEAN
      BY <2>1, Zenon
    <2>3. email \in Someone /\ mfaFor \in Someone
      BY <1>3, <2>1, Prefilled DEF Someone
    <2> QED
      BY <2>1, <2>2, <2>3, IdleIs DEF SessionForm
  <1>5. calls \subseteq {Auth!Request(0, "hydrate", cookies)}
    BY <1>2 DEF Auth!hydrate
  <1>6. /\ Auth!Request(0, "hydrate", cookies) \in SessionCall
        /\ Auth!Request(0, "hydrate", cookies).bearer = cookies
    BY <1>2 DEF Auth!Request, SessionCall
  <1>7. SessionTokens
    <2>1. crossing = FALSE /\ halfIn = FALSE /\ user = NoOne /\ made = 0
      BY <1>2 DEF Auth!SessionClean
    <2>2. crossing \in BOOLEAN /\ halfIn \in BOOLEAN
      BY <2>1, Zenon
    <2>3. status \in {"loading", "authenticated", "unauthenticated"}
      BY <1>2 DEF Auth!hydrate
    <2> QED
      BY <1>2, <1>5, <1>6, <2>1, <2>2, <2>3 DEF SessionTokens, Someone
  <1>8. StaleBearsCookies
    BY <1>5, <1>6 DEF StaleBearsCookies
  <1>9. SignedOut /\ Auth!UserIsSessionOwner
    BY <1>2 DEF SignedOut, Auth!UserIsSessionOwner, Auth!hydrate
  <1>10. Proven
    BY <1>2, <1>3, <1>5, <1>6 DEF Proven
  <1> QED
    BY <1>3, <1>4, <1>7, <1>8, <1>9, <1>10 DEF SessionInv, SessionTypes

LEMMA SessionStep ==
    ASSUME SessionInv, [Next]_vars
    PROVE  SessionInv'
  <1>1. CASE Auth!SessionNext
    BY <1>1, SessionFormStep, SessionTokensStep, SessionRecentStep, StaleStep, SignedOutStep,
       ProvenStep, OwnerStep
       DEF SessionInv, SessionTypes
  <1>2. CASE UNCHANGED S
    BY <1>2 DEF S, SessionInv, SessionTypes, SessionForm, SessionTokens, SessionRecent,
                StaleBearsCookies, SignedOut, Proven, Auth!UserIsSessionOwner, Auth!Finishing
  <1> QED
    BY <1>1, <1>2 DEF Next, vars

\* The inductive invariant of the session holds in the whole console.
THEOREM SessionInductive == Spec => []SessionInv
  <1>1. Init => SessionInv
    BY SessionInitially
  <1>2. SessionInv /\ [Next]_vars => SessionInv'
    BY SessionStep
  <1> QED
    BY <1>1, <1>2, PTL DEF Spec

\* lib/auth/context.tsx, session.ts, recent-accounts.ts: the user shown owns the
\* tokens the requests carry and signing out leaves none, unless a request
\* overtook the change; only who passed every factor is remembered.
THEOREM SessionIsWhatItSaysHolds == Spec => []SessionIsWhatItSays
  <1>1. SessionInv => SessionIsWhatItSays
    BY IdleIs DEF SessionInv, SessionIsWhatItSays, SignedOut, Proven, Auth!Finishing,
           Auth!SignedOutHoldsNothing, Auth!OnlySignedInRemembered
  <1> QED
    BY <1>1, SessionInductive, PTL

\* The types of the session.
LEMMA SessionTyped == SessionInv => Auth!SessionTypeOK
  <1> SUFFICES ASSUME SessionInv PROVE Auth!SessionTypeOK
    OBVIOUS
  <1>1. {code, submitting, loginError, crossing, halfIn} \subseteq BOOLEAN
    BY Zenon DEF SessionInv, SessionTypes, SessionForm, SessionTokens
  <1>2. \A c \in calls : c.st \in {"sent", "refresh", "retry"} /\ c.bearer \in Someone
    BY DEF SessionInv, SessionTypes, SessionTokens, SessionCall
  <1> QED
    BY <1>1, <1>2 DEF SessionInv, SessionTypes, SessionForm, SessionTokens, SessionRecent, Someone,
                      Auth!SessionTypeOK

=============================================================================
