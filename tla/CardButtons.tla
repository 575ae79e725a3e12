----------------------------- MODULE CardButtons -----------------------------
(***************************************************************************)
(* The cards with buttons of one mobile conversation                       *)
(* (interfaces/mobile/controller.py): menus, settings, and the cards that  *)
(* ask for an approval or an answer.                                       *)
(*                                                                         *)
(* Commands and presses run one at a time (the conversation's lock); the   *)
(* reader of the session's events takes no lock, so it shows and ends      *)
(* cards while a command awaits the platform.  A card's buttons are        *)
(* registered before it is sent and get its message id afterwards; the     *)
(* request is noted as shown only then, so reader and command may both     *)
(* show it.  The user may press every button there ever was.               *)
(* Approvals and questions are one kind here; a session asks one thing at  *)
(* a time.  Cards without buttons are left out.                            *)
(***************************************************************************)
EXTENDS Naturals, Sequences

CONSTANTS
    BtnSessions,    \* the sessions a menu offers
    BtnNone,        \* no session is selected
    BtnMaxTurns,    \* bound on the turns of the sessions
    BtnMaxAsks,     \* bound on the requests of the sessions
    BtnMaxCards,    \* bound on the cards with buttons
    BtnMaxFaults,   \* bound on the failed calls of the platform
    BtnMaxMoves,    \* bound on the commands
    BtnMaxOther     \* bound on what the other front end does

ASSUME BtnAssumption ==
    /\ BtnNone \notin BtnSessions
    /\ BtnMaxTurns \in Nat /\ BtnMaxAsks \in Nat /\ BtnMaxCards \in Nat
    /\ BtnMaxFaults \in Nat /\ BtnMaxMoves \in Nat /\ BtnMaxOther \in Nat

VARIABLES
    btnBound,       \* the session selected
    btnOwner,       \* who is attached to it: im, other, or left by the other
    btnRun,         \* btnRun[s]: a turn runs, and what it asks (0: nothing)
    btnTurns,       \* how many turns there were
    btnAsked,       \* how many requests there were
    btnEvents,      \* the events the reader has not handled
    btnReader,      \* the reader: idle, showing a card, off, or let go
    btnHandler,     \* the command: idle, or showing a card and what then
    btnCards,       \* the cards sent, and what became of their buttons
    btnNoted,       \* btnNoted[r]: the card noted for request r, or 0
    btnSettings,    \* the settings: no, asked for, or answered
    btnSent,        \* what was sent to sessions
    btnMissed,      \* the requests whose card could not be sent
    btnFaults,
    btnUsed         \* the commands, and what the other front end did

btnVars == <<btnBound, btnOwner, btnRun, btnTurns, btnAsked, btnEvents, btnReader, btnHandler,
             btnCards, btnNoted, btnSettings, btnSent, btnMissed,
             btnFaults, btnUsed>>

BtnOff == [at |-> "off", card |-> 0, event |-> [type |-> "none", req |-> 0]]

BtnGone == [BtnOff EXCEPT !.at = "gone"]

BtnReads == [BtnOff EXCEPT !.at = "idle"]

BtnIdle == [at |-> "idle", card |-> 0, then |-> 0]

BtnNothing == [r \in 1 .. BtnMaxAsks |-> 0]

BtnAsks == IF btnBound = BtnNone THEN 0 ELSE btnRun[btnBound].ask

BtnAttached == btnOwner = "im" /\ btnReader.at \in {"idle", "shows"}

\* _assert_idle refuses while the conversation's runtime works.
BtnBusy == btnBound # BtnNone /\ btnReader.at # "gone" /\ btnRun[btnBound].runs

(***************************************************************************)
(* Cards                                                                   *)
(***************************************************************************)

\* A card on its way: its buttons are registered, for the session selected now.
BtnNew(kind, req) == [kind |-> kind, req |-> req, for |-> btnBound, state |-> "sending"]

\* Buttons are taken out of c.actions: a card on its way arrives without any.
BtnDrop(cards, dropped) ==
    [i \in DOMAIN cards |->
        IF i \notin dropped THEN cards[i]
        ELSE [cards[i] EXCEPT !.state = IF @ = "sending" THEN "lost" ELSE IF @ = "live" THEN "gone" ELSE @]]

\* The platform took card i; its buttons get the message id, or the failure
\* takes them back.
BtnArrived(i) == [btnCards EXCEPT ![i].state = IF @ = "sending" THEN "live" ELSE "gone"]

BtnFailed(i) == [btnCards EXCEPT ![i].state = "gone"]

(***************************************************************************)
(* The sessions                                                            *)
(***************************************************************************)

btnChatVars == <<btnBound, btnReader, btnHandler, btnCards, btnNoted, btnSettings,
                 btnSent, btnMissed, btnFaults>>

\* The attached reader gets what session s publishes.
BtnPublish(s, events) ==
    btnEvents' = IF s = btnBound /\ BtnAttached THEN btnEvents \o events ELSE btnEvents

BtnEvent(type, req) == [type |-> type, req |-> req]

BtnTurn(s) ==
    /\ ~btnRun[s].runs
    /\ btnTurns < BtnMaxTurns
    /\ btnTurns' = btnTurns + 1
    /\ btnRun' = [btnRun EXCEPT ![s].runs = TRUE]
    /\ UNCHANGED <<btnChatVars, btnOwner, btnAsked, btnEvents, btnUsed>>

BtnAsk(s) ==
    /\ btnRun[s].runs /\ btnRun[s].ask = 0
    /\ btnAsked < BtnMaxAsks
    /\ btnAsked' = btnAsked + 1
    /\ btnRun' = [btnRun EXCEPT ![s].ask = btnAsked']
    /\ BtnPublish(s, <<BtnEvent("state", btnAsked'), BtnEvent("ask", btnAsked')>>)
    /\ UNCHANGED <<btnChatVars, btnOwner, btnTurns, btnUsed>>

\* The request is over: answered, cancelled, or with its turn.
BtnAskEnds(s) ==
    /\ btnRun[s].ask # 0
    /\ btnRun' = [btnRun EXCEPT ![s].ask = 0]
    /\ BtnPublish(s, <<BtnEvent("state", 0)>>)
    /\ UNCHANGED <<btnChatVars, btnOwner, btnTurns, btnAsked, btnUsed>>

BtnTurnEnds(s) ==
    /\ btnRun[s].runs /\ btnRun[s].ask = 0
    /\ btnRun' = [btnRun EXCEPT ![s].runs = FALSE]
    /\ BtnPublish(s, <<BtnEvent("end", 0)>>)
    /\ UNCHANGED <<btnChatVars, btnOwner, btnTurns, btnAsked, btnUsed>>

BtnSettingsReply ==
    /\ btnSettings = "asked" /\ BtnAttached
    /\ btnSettings' = "answered"
    /\ btnEvents' = Append(btnEvents, BtnEvent("settings", 0))
    /\ UNCHANGED <<btnBound, btnOwner, btnRun, btnTurns, btnAsked, btnReader, btnHandler, btnCards,
                   btnNoted, btnSent, btnMissed, btnFaults, btnUsed>>

\* The other front end takes the session, or goes.
BtnElsewhere ==
    /\ btnUsed.other < BtnMaxOther
    /\ btnUsed' = [btnUsed EXCEPT !.other = @ + 1]
    /\ \/ /\ BtnAttached /\ btnOwner' = "other"
          /\ btnEvents' = Append(btnEvents, BtnEvent("replaced", 0))
       \/ btnOwner = "other" /\ btnOwner' = "left" /\ UNCHANGED btnEvents
    /\ UNCHANGED <<btnChatVars, btnRun, btnTurns, btnAsked>>

(***************************************************************************)
(* The reader                                                              *)
(***************************************************************************)

btnHandlerVars == <<btnBound, btnOwner, btnRun, btnTurns, btnAsked, btnHandler, btnSent, btnUsed>>

\* _interaction: a request that is not noted is shown.
BtnReadRequest ==
    /\ btnReader.at = "idle" /\ btnEvents # <<>>
    /\ LET e == Head(btnEvents)
       IN  /\ e.type \in {"state", "ask"} /\ e.req # 0
           /\ btnNoted[e.req] = 0
           /\ Len(btnCards) < BtnMaxCards
           /\ btnCards' = Append(btnCards, BtnNew("ask", e.req))
           /\ btnReader' = [at |-> "shows", card |-> Len(btnCards'), event |-> e]
    /\ btnEvents' = Tail(btnEvents)
    /\ UNCHANGED <<btnHandlerVars, btnNoted, btnSettings, btnMissed, btnFaults>>

\* The noted requests that event e says are over.
BtnStale(noted, e) ==
    {r \in DOMAIN noted :
        noted[r] # 0 /\ CASE e.type = "state" -> r # e.req
                          [] e.type \in {"end", "replaced"} -> TRUE
                          [] OTHER -> FALSE}

\* _resolve, request after request: a failed update ends it after the first.
BtnResolve(cards, noted, stale) ==
    \/ /\ btnNoted' = [r \in DOMAIN noted |-> IF r \in stale THEN 0 ELSE noted[r]]
       /\ btnCards' = BtnDrop(cards, {noted[r] : r \in stale})
       /\ UNCHANGED btnFaults
    \/ /\ btnFaults < BtnMaxFaults
       /\ btnFaults' = btnFaults + 1
       /\ \E r \in stale :
            /\ btnNoted' = [noted EXCEPT ![r] = 0]
            /\ btnCards' = BtnDrop(cards, {noted[r]})

\* Every other event: it ends the cards of requests that are over, and the
\* takeover ends the reader.
BtnReadOther ==
    /\ btnReader.at = "idle" /\ btnEvents # <<>>
    /\ LET e == Head(btnEvents)
       IN  /\ e.type # "settings"
           /\ e.req # 0 => btnNoted[e.req] # 0
           /\ BtnResolve(btnCards, btnNoted, BtnStale(btnNoted, e))
           /\ btnReader' = IF e.type = "replaced" THEN BtnOff ELSE btnReader
    /\ btnEvents' = Tail(btnEvents)
    /\ UNCHANGED <<btnHandlerVars, btnSettings, btnMissed>>

\* _settings: shown if they were asked for and the session is still ours.
BtnReadSettings ==
    /\ btnReader.at = "idle" /\ btnEvents # <<>>
    /\ Head(btnEvents).type = "settings"
    /\ IF btnSettings # "no" /\ btnOwner = "im"
       THEN /\ Len(btnCards) < BtnMaxCards
            /\ btnCards' = Append(btnCards, BtnNew("model", 0))
            /\ btnReader' = [at |-> "shows", card |-> Len(btnCards'), event |-> Head(btnEvents)]
       ELSE UNCHANGED <<btnCards, btnReader>>
    /\ btnSettings' = "no"
    /\ btnEvents' = Tail(btnEvents)
    /\ UNCHANGED <<btnHandlerVars, btnNoted, btnMissed, btnFaults>>

\* The reader's card is there: the request is noted and the event's other
\* requests end; a card that lost its buttons is left at that.
BtnReaderShown ==
    LET i == btnReader.card
        e == btnReader.event
    IN  /\ btnReader.at = "shows"
        /\ IF btnCards[i].kind = "ask"
           THEN LET noted == [btnNoted EXCEPT ![e.req] = i]
                IN  BtnResolve(BtnArrived(i), noted, BtnStale(noted, e))
           ELSE btnCards' = BtnArrived(i) /\ UNCHANGED <<btnNoted, btnFaults>>
        /\ btnReader' = BtnReads
        /\ UNCHANGED <<btnHandlerVars, btnEvents, btnSettings, btnMissed>>

BtnReaderFails ==
    /\ btnReader.at = "shows"
    /\ btnFaults < BtnMaxFaults
    /\ btnFaults' = btnFaults + 1
    /\ btnCards' = BtnFailed(btnReader.card)
    /\ btnMissed' = btnMissed \cup {btnReader.event.req}
    /\ btnReader' = BtnReads
    /\ UNCHANGED <<btnHandlerVars, btnEvents, btnNoted, btnSettings>>

(***************************************************************************)
(* Commands                                                                *)
(***************************************************************************)

btnWorldVars == <<btnRun, btnTurns, btnAsked>>

\* c.actions.clear(), after the reader was cancelled.
BtnCleared == [i \in DOMAIN btnCards |-> [btnCards[i] EXCEPT !.state = "gone"]]

\* _detach, and what every opening does first.
BtnLetGo ==
    /\ btnReader' = BtnGone
    /\ btnEvents' = <<>>
    /\ btnNoted' = BtnNothing
    /\ btnSettings' = "no"

\* _open succeeds: the reader starts anew, and a pending request is shown.  The
\* action of card i goes on afterwards.
BtnOpening(s, i) ==
    /\ btnBound' = s /\ btnOwner' = "im"
    /\ btnReader' = BtnReads /\ btnEvents' = <<>>
    /\ btnNoted' = BtnNothing /\ btnSettings' = "no"
    /\ IF btnRun[s].ask = 0
       THEN /\ btnCards' = BtnCleared
            /\ btnHandler' = IF i = 0 THEN BtnIdle ELSE [at |-> "acts", card |-> 0, then |-> i]
       ELSE /\ Len(btnCards) < BtnMaxCards
            /\ btnCards' = Append(BtnCleared, [BtnNew("ask", btnRun[s].ask) EXCEPT !.for = s])
            /\ btnHandler' = [at |-> "shows", card |-> Len(btnCards'), then |-> i]
    /\ UNCHANGED btnFaults

\* It does not: the other front end holds the session, or the opening failed.
BtnOpenRefused(s) ==
    /\ \/ s = btnBound /\ btnOwner = "other" /\ UNCHANGED btnFaults
       \/ btnFaults < BtnMaxFaults /\ btnFaults' = btnFaults + 1
    /\ btnBound' = s
    /\ btnOwner' = IF s = btnBound THEN btnOwner ELSE "left"
    /\ BtnLetGo
    /\ btnCards' = BtnCleared
    /\ UNCHANGED btnHandler

BtnOpen(s, i) ==
    \/ ~(s = btnBound /\ btnOwner = "other") /\ BtnOpening(s, i)
    \/ BtnOpenRefused(s)

\* A menu: the buttons of the other menus go, and it is sent.
BtnMenu ==
    /\ Len(btnCards) < BtnMaxCards
    /\ btnCards' = Append(BtnDrop(btnCards, {i \in DOMAIN btnCards : btnCards[i].kind # "ask"}), BtnNew("menu", 0))
    /\ btnHandler' = [at |-> "shows", card |-> Len(btnCards'), then |-> 0]

\* / and the other menus, /model, /permissions, /takeover, /new, and a text that
\* answers a question.
BtnCommand ==
    /\ btnHandler.at = "idle"
    /\ btnUsed.moves < BtnMaxMoves
    /\ btnUsed' = [btnUsed EXCEPT !.moves = @ + 1]
    /\ \/ /\ BtnMenu
          /\ UNCHANGED <<btnBound, btnOwner, btnReader, btnEvents, btnNoted, btnSettings,
                         btnSent, btnFaults>>
       \/ /\ BtnAttached /\ ~BtnBusy
          /\ btnSettings' = "asked"
          /\ UNCHANGED <<btnBound, btnOwner, btnReader, btnEvents, btnNoted, btnCards,
                         btnHandler, btnSent, btnFaults>>
       \/ /\ BtnAttached
          /\ Len(btnCards) < BtnMaxCards
          /\ btnCards' = Append(btnCards, BtnNew("permission", 0))
          /\ btnHandler' = [at |-> "shows", card |-> Len(btnCards'), then |-> 0]
          /\ UNCHANGED <<btnBound, btnOwner, btnReader, btnEvents, btnNoted, btnSettings,
                         btnSent, btnFaults>>
       \/ /\ btnBound # BtnNone
          /\ BtnOpening(btnBound, 0)
          /\ UNCHANGED btnSent
       \/ /\ ~BtnBusy
          /\ \E s \in BtnSessions \ {btnBound} : BtnOpen(s, 0)
          /\ UNCHANGED btnSent
       \/ /\ BtnAttached /\ BtnAsks # 0
          /\ btnSent' = btnSent \cup {[kind |-> "ask", req |-> BtnAsks, asked |-> BtnAsks,
                                       for |-> btnBound, to |-> btnBound]}
          /\ BtnResolve(btnCards, btnNoted, {BtnAsks} \cap {r \in DOMAIN btnNoted : btnNoted[r] # 0})
          /\ UNCHANGED <<btnBound, btnOwner, btnReader, btnEvents, btnSettings, btnHandler>>
    /\ UNCHANGED <<btnWorldVars, btnMissed>>

\* The command's card is there: a request is noted, and an action goes on.
BtnHandlerShown ==
    LET i == btnHandler.card
    IN  /\ btnHandler.at = "shows"
        /\ btnCards' = BtnArrived(i)
        /\ btnNoted' = IF btnCards[i].kind = "ask"
                       THEN [btnNoted EXCEPT ![btnCards[i].req] = i] ELSE btnNoted
        /\ btnHandler' = IF btnHandler.then = 0 THEN BtnIdle ELSE [btnHandler EXCEPT !.at = "acts"]
        /\ UNCHANGED <<btnBound, btnOwner, btnWorldVars, btnEvents, btnReader, btnSettings,
                       btnSent, btnMissed, btnFaults, btnUsed>>

BtnHandlerFails ==
    LET i == btnHandler.card
    IN  /\ btnHandler.at = "shows"
        /\ btnFaults < BtnMaxFaults
        /\ btnFaults' = btnFaults + 1
        /\ btnCards' = BtnFailed(i)
        /\ btnMissed' = btnMissed \cup {btnCards[i].req}
        /\ btnHandler' = BtnIdle
        /\ UNCHANGED <<btnBound, btnOwner, btnWorldVars, btnEvents, btnReader, btnNoted,
                       btnSettings, btnSent, btnUsed>>

(***************************************************************************)
(* Presses                                                                 *)
(***************************************************************************)

\* Mutant: any request of the session will do.
BtnFitsAny(i) ==
    /\ btnOwner = "im"
    /\ btnCards[i].for = btnBound
    /\ btnCards[i].kind = "ask" => BtnAsks # 0
    /\ btnCards[i].kind = "model" => ~BtnBusy

\* What _action checks before it sends: the session is the card's, it asks what
\* the card shows, and its model changes between turns only.
BtnFits(i) ==
    /\ btnOwner = "im"
    /\ btnCards[i].for = btnBound
    /\ btnCards[i].kind = "ask" => BtnAsks = btnCards[i].req
    /\ btnCards[i].kind = "model" => ~BtnBusy

\* It is sent and the card's buttons go, or an error says why not.
BtnCarryOut(i) ==
    IF BtnFits(i)
    THEN /\ btnSent' = btnSent \cup {[kind |-> btnCards[i].kind, req |-> btnCards[i].req,
                                      asked |-> BtnAsks, for |-> btnCards[i].for, to |-> btnBound]}
         /\ btnCards' = BtnDrop(btnCards, {i})
    ELSE UNCHANGED <<btnSent, btnCards>>

\* A press of a request's or a setting's button: it needs the session, which is
\* opened again if its reader has ended.  A press whose button is gone, which
\* the user may still try, is answered by a card and changes nothing.
BtnHandlePress(i) ==
    /\ btnHandler.at = "idle"
    /\ btnCards[i].kind # "menu" /\ btnCards[i].state = "live"
    /\ IF btnReader.at \in {"off", "gone"}
       THEN BtnOpen(btnBound, i) /\ UNCHANGED btnSent
       ELSE /\ BtnCarryOut(i)
            /\ UNCHANGED <<btnBound, btnOwner, btnEvents, btnReader, btnHandler, btnNoted,
                           btnSettings, btnFaults>>
    /\ UNCHANGED <<btnWorldVars, btnMissed, btnUsed>>

\* The action goes on once the session is open.
BtnGoesOn ==
    /\ btnHandler.at = "acts"
    /\ BtnCarryOut(btnHandler.then)
    /\ btnHandler' = BtnIdle
    /\ UNCHANGED <<btnBound, btnOwner, btnWorldVars, btnEvents, btnReader, btnNoted,
                   btnSettings, btnMissed, btnFaults, btnUsed>>

\* A menu's button: another session, or another workspace and its menu.
BtnPick(i) ==
    /\ btnHandler.at = "idle"
    /\ btnCards[i].kind = "menu" /\ btnCards[i].state = "live"
    /\ \/ /\ BtnBusy
          /\ UNCHANGED <<btnBound, btnOwner, btnEvents, btnReader, btnHandler, btnCards,
                         btnNoted, btnSettings, btnFaults>>
       \/ /\ ~BtnBusy
          /\ \E s \in BtnSessions : BtnOpen(s, 0)
       \/ /\ ~BtnBusy
          /\ btnBound' = BtnNone /\ btnOwner' = "left"
          /\ BtnLetGo
          /\ Len(btnCards) < BtnMaxCards
          /\ btnCards' = Append(BtnCleared, [BtnNew("menu", 0) EXCEPT !.for = BtnNone])
          /\ btnHandler' = [at |-> "shows", card |-> Len(btnCards'), then |-> 0]
          /\ UNCHANGED btnFaults
    /\ UNCHANGED <<btnWorldVars, btnSent, btnMissed, btnUsed>>

BtnInit ==
    /\ btnBound \in BtnSessions \cup {BtnNone}
    /\ btnOwner = "left"
    /\ btnRun = [s \in BtnSessions |-> [runs |-> FALSE, ask |-> 0]]
    /\ btnTurns = 0 /\ btnAsked = 0
    /\ btnEvents = <<>>
    /\ btnReader = BtnGone
    /\ btnHandler = BtnIdle
    /\ btnCards = <<>>
    /\ btnNoted = BtnNothing
    /\ btnSettings = "no"
    /\ btnSent = {} /\ btnMissed = {}
    /\ btnFaults = 0
    /\ btnUsed = [moves |-> 0, other |-> 0]

BtnNext ==
    \/ \E s \in BtnSessions : BtnTurn(s) \/ BtnAsk(s) \/ BtnAskEnds(s) \/ BtnTurnEnds(s)
    \/ BtnSettingsReply \/ BtnElsewhere
    \/ BtnReadRequest \/ BtnReadOther \/ BtnReadSettings \/ BtnReaderShown \/ BtnReaderFails
    \/ BtnCommand \/ BtnHandlerShown \/ BtnHandlerFails \/ BtnGoesOn
    \/ \E i \in DOMAIN btnCards : BtnHandlePress(i) \/ BtnPick(i)

BtnSpec == BtnInit /\ [][BtnNext]_btnVars

(***************************************************************************)
(* Properties                                                              *)
(***************************************************************************)

\* A button acts on what its card was about: an answer goes to the session that
\* was shown asking, while it asks that very thing, and a setting to the session
\* it was opened for, however late the button is pressed (_action).
BtnTrue ==
    \A x \in btnSent : x.for = x.to /\ (x.kind = "ask" => x.asked = x.req)

\* What the session asks can be answered: when the conversation is attached and
\* at rest, the request has a card with buttons, unless it was answered already
\* or its card could not be sent (_interaction, _resolve, _open).
BtnAnswerable ==
    (BtnAttached /\ btnReader.at = "idle" /\ btnEvents = <<>> /\ btnHandler.at = "idle"
        /\ BtnAsks # 0) =>
        \/ \E i \in DOMAIN btnCards :
              btnCards[i].kind = "ask" /\ btnCards[i].state = "live" /\ btnCards[i].req = BtnAsks
        \/ \E x \in btnSent : x.kind = "ask" /\ x.req = BtnAsks
        \/ BtnAsks \in btnMissed

\* The buttons of the cards are sound (mobile/controller.py, the two above).
BtnSound == BtnTrue /\ BtnAnswerable
=============================================================================
