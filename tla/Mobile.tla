-------------------------------- MODULE Mobile --------------------------------
(***************************************************************************)
(* The mobile controller (interfaces/mobile/controller.py), its durable    *)
(* inbox (bindings.py) and the transport that feeds it (feishu.py), for    *)
(* one conversation.                                                       *)
(*                                                                         *)
(* The platform may deliver a message twice; the transport's process may   *)
(* die and reconnect; the host may die and restart.  A message's record is *)
(* written when it is received, again with its turn id or its control      *)
(* before anything is sent, and again afterwards.  One handler runs at a   *)
(* time (the conversation's lock) but runtimes, their events and the other *)
(* front end move while it awaits.  A restart and a reconnect replay the   *)
(* records that are not completed, beside whatever the platform delivers.  *)
(* A question answered by text takes the same path as a steer and is       *)
(* modelled by it.                                                         *)
(***************************************************************************)
EXTENDS Naturals, Sequences, FiniteSets, SequencesExt

CONSTANTS
    MobMessages,    \* the messages the user sends
    MobKinds,       \* MobKinds[m]: what m may be, of the four kinds below
    MobAgain,       \* the messages the platform may deliver twice
    MobSessions,    \* the sessions the conversation may be bound to
    MobNone,        \* no turn, no control, no handler
    MobKeep,        \* how many completed records are kept (1000 in the code)
    MobMaxFaults,   \* bound on restarts, reconnects and runtime deaths
    MobMaxOther     \* bound on what the other front end does

ASSUME MobAssumption ==
    /\ MobKinds \in [MobMessages -> SUBSET {"text", "file", "new", "takeover"}]
    /\ MobAgain \subseteq MobMessages
    /\ MobNone \notin MobMessages \cup MobSessions
    /\ MobKeep \in Nat /\ MobMaxFaults \in Nat /\ MobMaxOther \in Nat

VARIABLES
    mobKind,       \* mobKind[m]: the kind of message m
    mobInbox,      \* the messages the transport has queued for the conversation
    mobSent,       \* mobSent[m]: how often the platform has delivered m
    mobRecords,    \* mobRecords[m]: the record of m, last one if it was dropped
    mobOrder,      \* the messages whose record is kept, in insertion order
    mobReplay,     \* the messages a recovery has still to replay
    mobBound,      \* the session the conversation is bound to
    mobAt,         \* the handler: a message and a step, or idle
    mobRun,        \* mobRun[s]: the runtime's liveness, owner and turn
    mobJournal,    \* mobJournal[s]: the turns begun, as the journal has them
    mobEvents,     \* the ended turns whose event the reader has not handled
    mobControls,   \* the controls sent: message and turn
    mobTold,       \* the messages a card was sent about: refused or ended
    mobAgain,      \* mobAgain[m]: how often m got a record after one was dropped
    mobFaults, mobOther

mobVars == <<mobKind, mobInbox, mobSent, mobRecords, mobOrder, mobReplay, mobBound, mobAt,
             mobRun, mobJournal, mobEvents, mobControls, mobTold, mobAgain,
             mobFaults, mobOther>>

MobIdle == [msg |-> MobNone, step |-> "idle"]

MobDead == [alive |-> FALSE, owner |-> "none", turn |-> MobNone, begun |-> FALSE]

MobRecord == [status |-> "received", turn |-> MobNone, control |-> MobNone]

\* The turn a message asks for, and the one the other front end starts.
MobTurn(m) == <<"im", m, mobAgain[m]>>

MobOther == <<"gui", MobNone, 0>>

MobRunning(s) == mobRun[s].alive /\ mobRun[s].turn # MobNone

\* The reader of the conversation is attached to session s.
MobReads(s) == s = mobBound /\ mobRun[s].alive /\ mobRun[s].owner = "im"

(***************************************************************************)
(* The records                                                             *)
(***************************************************************************)

MobKept(m) == m \in ToSet(mobOrder)

\* The records as _write leaves them: beyond the last MobKeep completed ones
\* the oldest are dropped.
MobDropped(records) ==
    LET done == SelectSeq(mobOrder, LAMBDA m : records[m].status = "completed")
    IN  IF Len(done) <= MobKeep THEN {} ELSE ToSet(SubSeq(done, 1, Len(done) - MobKeep))

MobStore(records) ==
    /\ mobRecords' = records
    /\ mobOrder' = SelectSeq(mobOrder, LAMBDA m : m \notin MobDropped(records))

MobMark(m, status) == MobStore([mobRecords EXCEPT ![m].status = status])

MobDone == mobAt' = MobIdle

\* Mutant: no card.
MobRefuseSilently(m) ==
    /\ MobMark(m, "completed")
    /\ MobDone
    /\ UNCHANGED mobTold

\* The handler ends with a card that says why nothing was done, and the record
\* is completed (ValueError) or left for the next recovery (OSError,
\* RuntimeError).
MobRefuse(m) ==
    /\ MobMark(m, "completed")
    /\ mobTold' = mobTold \cup {m}
    /\ MobDone

MobLeave(m) ==
    /\ MobDone
    /\ UNCHANGED <<mobRecords, mobOrder, mobTold>>

(***************************************************************************)
(* Delivery                                                                *)
(***************************************************************************)

\* The platform delivers a message, at least once and possibly again.
MobDeliver(m) ==
    /\ mobSent[m] < IF m \in MobAgain THEN 2 ELSE 1
    /\ mobSent' = [mobSent EXCEPT ![m] = @ + 1]
    /\ mobInbox' = Append(mobInbox, m)
    /\ UNCHANGED <<mobRecords, mobOrder, mobReplay, mobBound, mobAt, mobRun,
                   mobJournal, mobEvents, mobControls, mobTold, mobAgain,
                   mobFaults, mobOther>>

\* The lock is taken for message m: a new message gets a record, a completed
\* one is left alone.
MobBegin(m) ==
    /\ mobAt = MobIdle
    /\ IF MobKept(m)
       THEN UNCHANGED <<mobRecords, mobOrder, mobAgain>>
       ELSE /\ mobRecords' = [mobRecords EXCEPT ![m] = MobRecord]
            /\ mobOrder' = Append(mobOrder, m)
            /\ mobAgain' = [mobAgain EXCEPT
                    ![m] = @ + IF mobRecords[m].status = "none" THEN 0 ELSE 1]
    /\ mobAt' = IF MobKept(m) /\ mobRecords[m].status = "completed"
                THEN MobIdle ELSE [msg |-> m, step |-> "received"]
    /\ UNCHANGED <<mobSent, mobBound, mobRun, mobJournal, mobEvents, mobControls,
                   mobTold, mobFaults, mobOther>>

MobHandle ==
    /\ mobInbox # <<>>
    /\ MobBegin(Head(mobInbox))
    /\ mobInbox' = Tail(mobInbox)
    /\ UNCHANGED mobReplay

MobReplayNext ==
    /\ mobReplay # <<>>
    /\ MobBegin(Head(mobReplay))
    /\ mobReplay' = Tail(mobReplay)
    /\ UNCHANGED mobInbox

(***************************************************************************)
(* A message that was already under way                                    *)
(***************************************************************************)

MobHandlerVars == <<mobInbox, mobSent, mobReplay, mobAgain, mobFaults, mobOther>>

\* _attached: a runtime that died is opened again; one the other front end
\* holds is not taken.
MobAttachable(s) == ~mobRun[s].alive \/ mobRun[s].owner # "gui"

MobAttached(s) ==
    IF mobRun[s].alive
    THEN [mobRun EXCEPT ![s].owner = "im"]
    ELSE [mobRun EXCEPT ![s] = [MobDead EXCEPT !.alive = TRUE, !.owner = "im"]]

\* The control of an earlier attempt goes only to the turn it was meant for.
MobRecoverControl(m) ==
    LET c == mobRecords[m].control
        attached == c.session = mobBound /\ mobRun[mobBound].alive /\ MobAttachable(mobBound)
    IN  /\ mobAt = [msg |-> m, step |-> "received"]
        /\ c # MobNone
        /\ mobRun' = IF attached THEN MobAttached(mobBound) ELSE mobRun
        /\ IF attached /\ mobRun[mobBound].turn = c.turn
           THEN /\ mobControls' = Append(mobControls, [msg |-> m, turn |-> c.turn])
                /\ MobMark(m, "completed")
                /\ MobDone
                /\ UNCHANGED mobTold
           ELSE MobRefuse(m) /\ UNCHANGED mobControls
        /\ UNCHANGED MobHandlerVars
        /\ UNCHANGED <<mobBound, mobJournal, mobEvents>>

\* The prepared turn is the runtime's, or the journal has it.
MobSubmittedLive(m) ==
    LET s == mobRecords[m].turn
    IN  s # MobNone /\ mobRun[s].alive /\ mobRun[s].turn = MobTurn(m)

MobSubmittedStored(m) ==
    LET s == mobRecords[m].turn
    IN  s # MobNone /\ MobTurn(m) \in ToSet(mobJournal[s])

\* A live turn of the bound session is followed again, or, when the other
\* front end holds the session, given up with a card.
MobSubmitted(m) ==
    LET s == mobRecords[m].turn
    IN  /\ mobAt = [msg |-> m, step |-> "received"]
        /\ mobRecords[m].control = MobNone
        /\ \/ /\ MobSubmittedLive(m) /\ s # mobBound
              /\ MobMark(m, "submitted") /\ MobDone /\ UNCHANGED <<mobRun, mobTold>>
           \/ /\ MobSubmittedLive(m) /\ s = mobBound /\ MobAttachable(s)
              /\ mobRun' = MobAttached(s)
              /\ MobMark(m, "submitted") /\ MobDone /\ UNCHANGED mobTold
           \/ /\ MobSubmittedLive(m) /\ s = mobBound /\ ~MobAttachable(s)
              /\ MobRefuse(m) /\ UNCHANGED mobRun
           \/ /\ ~MobSubmittedLive(m) /\ MobSubmittedStored(m)
              /\ MobMark(m, "completed") /\ MobDone /\ UNCHANGED <<mobRun, mobTold>>
        /\ UNCHANGED MobHandlerVars
        /\ UNCHANGED <<mobBound, mobJournal, mobEvents, mobControls>>

\* Mutant: the session is not asked whether it has the message.
MobFreshUnchecked(m) ==
    /\ mobAt = [msg |-> m, step |-> "received"]
    /\ mobRecords[m].control = MobNone

\* Neither holds: the message is handled as if it were new.
MobFresh(m) ==
    /\ mobAt = [msg |-> m, step |-> "received"]
    /\ mobRecords[m].control = MobNone
    /\ ~MobSubmittedLive(m)
    /\ ~MobSubmittedStored(m)

(***************************************************************************)
(* A new message                                                           *)
(***************************************************************************)

\* The session is held elsewhere, cannot be opened, was changed or is busy: the
\* user is told, and only a failed opening leaves the message for later.
MobInputRefused(m) ==
    LET s == mobBound
        retry == mobRecords[m].turn
    IN  /\ MobFresh(m)
        /\ mobKind[m] \in {"text", "file"}
        /\ \/ /\ \/ ~MobAttachable(s)
                 \/ retry \notin {MobNone, s}
                 \/ (retry # MobNone \/ mobKind[m] = "file") /\ MobRunning(s)
              /\ MobRefuse(m)
           \/ /\ ~mobRun[s].alive
              /\ MobLeave(m)
        /\ UNCHANGED MobHandlerVars
        /\ UNCHANGED <<mobBound, mobRun, mobJournal, mobEvents, mobControls>>

\* A text for a running turn becomes a control: it is recorded, sent and
\* completed without a pause, or the send raises and it stays recorded.
MobSteer(m) ==
    LET s == mobBound
        control == [session |-> s, turn |-> mobRun[s].turn]
    IN  /\ MobFresh(m)
        /\ mobKind[m] = "text"
        /\ mobRecords[m].turn = MobNone
        /\ MobAttachable(s) /\ MobRunning(s)
        /\ mobRun' = MobAttached(s)
        /\ \/ /\ mobControls' = Append(mobControls, [msg |-> m, turn |-> mobRun[s].turn])
              /\ MobStore([mobRecords EXCEPT ![m].control = control,
                                             ![m].status = "completed"])
              /\ MobDone
              /\ UNCHANGED mobTold
           \/ /\ MobStore([mobRecords EXCEPT ![m].control = control])
              /\ MobDone
              /\ UNCHANGED <<mobControls, mobTold>>
        /\ UNCHANGED MobHandlerVars
        /\ UNCHANGED <<mobBound, mobJournal, mobEvents>>

\* Nothing runs: the turn id is recorded before the receipt and the download.
MobPrepare(m) ==
    LET s == mobBound
    IN  /\ MobFresh(m)
        /\ mobKind[m] \in {"text", "file"}
        /\ mobRecords[m].turn \in {MobNone, s}
        /\ MobAttachable(s) /\ ~MobRunning(s)
        /\ mobRun' = MobAttached(s)
        /\ MobStore([mobRecords EXCEPT ![m].turn = s])
        /\ mobAt' = [msg |-> m, step |-> "prepared"]
        /\ UNCHANGED MobHandlerVars
        /\ UNCHANGED <<mobBound, mobJournal, mobEvents, mobControls, mobTold>>

\* The session is still the conversation's: the turn is sent and the record
\* marked.  Taken meanwhile, it is refused; a failed download, send or mark
\* leaves the record as it is.
MobSubmit(m) ==
    LET s == mobRecords[m].turn
    IN  /\ mobAt = [msg |-> m, step |-> "prepared"]
        /\ \/ /\ mobRun[s].owner = "im" /\ mobRun[s].alive
              /\ mobRun' = [mobRun EXCEPT ![s].turn = MobTurn(m), ![s].begun = FALSE]
              /\ \/ MobMark(m, "submitted") /\ MobDone /\ UNCHANGED mobTold
                 \/ MobLeave(m)
           \/ mobRun[s].owner # "im" /\ MobRefuse(m) /\ UNCHANGED mobRun
           \/ MobLeave(m) /\ UNCHANGED mobRun
        /\ UNCHANGED MobHandlerVars
        /\ UNCHANGED <<mobBound, mobJournal, mobEvents, mobControls>>

\* /new binds another session unless a turn runs; /takeover takes the bound one.
MobCommand(m) ==
    /\ MobFresh(m)
    /\ mobKind[m] \in {"new", "takeover"}
    /\ \/ /\ mobKind[m] = "new" /\ MobReads(mobBound) /\ MobRunning(mobBound)
          /\ MobRefuse(m)
          /\ UNCHANGED <<mobBound, mobRun, mobEvents>>
       \/ \E s \in MobSessions :
            /\ IF mobKind[m] = "new"
               THEN s # mobBound /\ ~(MobReads(mobBound) /\ MobRunning(mobBound))
               ELSE s = mobBound
            /\ mobBound' = s
            /\ mobRun' = MobAttached(s)
            /\ mobEvents' = <<>>
            /\ \/ MobMark(m, "completed") /\ MobDone /\ UNCHANGED mobTold
               \/ MobLeave(m)
    /\ UNCHANGED MobHandlerVars
    /\ UNCHANGED <<mobJournal, mobControls>>

(***************************************************************************)
(* The runtimes, the reader and the other front end                        *)
(***************************************************************************)

MobRuntimeVars == <<mobInbox, mobSent, mobReplay, mobBound, mobAt, mobControls,
                    mobTold, mobAgain>>

\* A submitted turn begins: the journal has it from then on.
MobTurnBegins(s) ==
    /\ MobRunning(s) /\ ~mobRun[s].begun
    /\ mobRun' = [mobRun EXCEPT ![s].begun = TRUE]
    /\ mobJournal' = [mobJournal EXCEPT ![s] = Append(@, mobRun[s].turn)]
    /\ UNCHANGED MobRuntimeVars
    /\ UNCHANGED <<mobRecords, mobOrder, mobEvents, mobFaults, mobOther>>

\* It ends, or fails before it begins; the reader, if attached, gets the event.
MobTurnEnds(s) ==
    /\ MobRunning(s)
    /\ mobRun' = [mobRun EXCEPT ![s].turn = MobNone, ![s].begun = FALSE]
    /\ mobEvents' = IF MobReads(s) THEN Append(mobEvents, mobRun[s].turn) ELSE mobEvents
    /\ UNCHANGED MobRuntimeVars
    /\ UNCHANGED <<mobJournal, mobRecords, mobOrder, mobFaults, mobOther>>

\* The reader finishes the record of the turn and tells the user.
MobReadEnd ==
    /\ mobEvents # <<>>
    /\ LET owners == {m \in ToSet(mobOrder) :
                         mobRecords[m].turn # MobNone /\ MobTurn(m) = Head(mobEvents)}
       IN  IF owners = {}
           THEN UNCHANGED <<mobRecords, mobOrder, mobTold>>
           ELSE \E m \in owners :
                   MobMark(m, "completed") /\ mobTold' = mobTold \cup {m}
    /\ mobEvents' = Tail(mobEvents)
    /\ UNCHANGED <<mobInbox, mobSent, mobReplay, mobBound, mobAt, mobRun, mobJournal,
                   mobControls, mobAgain, mobFaults, mobOther>>

\* The other front end takes a session, starts a turn in it or leaves it.
MobElsewhere(s) ==
    /\ mobOther < MobMaxOther
    /\ mobOther' = mobOther + 1
    /\ mobRun[s].alive
    /\ \/ /\ mobRun[s].owner # "gui"
          /\ mobRun' = [mobRun EXCEPT ![s].owner = "gui"]
          /\ mobEvents' = IF s = mobBound THEN <<>> ELSE mobEvents
       \/ /\ mobRun[s].owner = "gui" /\ ~MobRunning(s)
          /\ mobRun' = [mobRun EXCEPT ![s].turn = MobOther, ![s].begun = FALSE]
          /\ UNCHANGED mobEvents
       \/ /\ mobRun[s].owner = "gui"
          /\ mobRun' = [mobRun EXCEPT ![s].owner = "none"]
          /\ UNCHANGED mobEvents
    /\ UNCHANGED MobRuntimeVars
    /\ UNCHANGED <<mobJournal, mobRecords, mobOrder, mobFaults>>

(***************************************************************************)
(* Faults                                                                  *)
(***************************************************************************)

MobUnfinished == SelectSeq(mobOrder, LAMBDA m : mobRecords[m].status # "completed")

\* The bridge dies under a session.
MobRuntimeDies(s) ==
    /\ mobFaults < MobMaxFaults
    /\ mobFaults' = mobFaults + 1
    /\ mobRun[s].alive
    /\ mobRun' = [mobRun EXCEPT ![s] = MobDead]
    /\ mobEvents' = IF s = mobBound THEN <<>> ELSE mobEvents
    /\ UNCHANGED MobRuntimeVars
    /\ UNCHANGED <<mobJournal, mobRecords, mobOrder, mobOther>>

\* The transport's process died: once its deliveries are handled it reconnects
\* and replays what is not completed.
MobReconnect ==
    /\ mobFaults < MobMaxFaults
    /\ mobFaults' = mobFaults + 1
    /\ mobInbox = <<>> /\ mobAt = MobIdle /\ mobReplay = <<>>
    /\ mobReplay' = MobUnfinished
    /\ UNCHANGED <<mobInbox, mobSent, mobBound, mobAt, mobControls, mobTold, mobRun,
                   mobJournal, mobEvents, mobRecords, mobOrder, mobAgain, mobOther>>

\* The host dies with its runtimes and restarts: the records and the binding
\* are what is on disk.
MobRestart ==
    /\ mobFaults < MobMaxFaults
    /\ mobFaults' = mobFaults + 1
    /\ mobInbox' = <<>>
    /\ mobAt' = MobIdle
    /\ mobRun' = [s \in MobSessions |-> MobDead]
    /\ mobEvents' = <<>>
    /\ mobReplay' = MobUnfinished
    /\ UNCHANGED <<mobSent, mobBound, mobControls, mobTold, mobJournal, mobRecords,
                   mobOrder, mobAgain, mobOther>>

MobInit ==
    /\ mobKind \in {k \in [MobMessages -> UNION {MobKinds[m] : m \in MobMessages}] :
                      \A m \in MobMessages : k[m] \in MobKinds[m]}
    /\ mobInbox = <<>>
    /\ mobSent = [m \in MobMessages |-> 0]
    /\ mobRecords = [m \in MobMessages |-> [MobRecord EXCEPT !.status = "none"]]
    /\ mobOrder = <<>>
    /\ mobReplay = <<>>
    /\ mobBound = CHOOSE s \in MobSessions : TRUE
    /\ mobAt = MobIdle
    /\ mobRun = [s \in MobSessions |-> MobDead]
    /\ mobJournal = [s \in MobSessions |-> <<>>]
    /\ mobEvents = <<>>
    /\ mobControls = <<>>
    /\ mobTold = {}
    /\ mobAgain = [m \in MobMessages |-> 0]
    /\ mobFaults = 0
    /\ mobOther = 0

MobHandlerStep(m) ==
    /\ mobAt.msg = m
    /\ \/ MobRecoverControl(m)
       \/ MobSubmitted(m)
       \/ MobInputRefused(m)
       \/ MobSteer(m)
       \/ MobPrepare(m)
       \/ MobSubmit(m)
       \/ MobCommand(m)

MobStep ==
    \/ \E m \in MobMessages : MobDeliver(m) \/ MobHandlerStep(m)
    \/ MobHandle
    \/ MobReplayNext
    \/ \E s \in MobSessions :
          MobTurnBegins(s) \/ MobTurnEnds(s) \/ MobElsewhere(s) \/ MobRuntimeDies(s)
    \/ MobReadEnd
    \/ MobReconnect
    \/ MobRestart

MobNext == MobStep /\ UNCHANGED mobKind

MobSpec == MobInit /\ [][MobNext]_mobVars

(***************************************************************************)
(* Properties                                                              *)
(***************************************************************************)

MobTurnsOf(m) ==
    {x \in MobSessions \X (1 .. 2 * Cardinality(MobMessages) + MobMaxOther) :
        /\ x[2] \in DOMAIN mobJournal[x[1]]
        /\ mobJournal[x[1]][x[2]][2] = m}

MobControlsOf(m) == {i \in DOMAIN mobControls : mobControls[i].msg = m}

\* However often a message is delivered and replayed, over restarts, reconnects,
\* takeovers and dying runtimes, it begins one turn or sends one control at
\* most, as long as its record is kept (receive_message: the turn id is recorded
\* before it is sent, and a turn the journal has is not sent again).
MobOneEffect ==
    \A m \in MobMessages :
        Cardinality(MobTurnsOf(m)) + Cardinality(MobControlsOf(m)) <= 1 + mobAgain[m]

\* A completed text was not lost: its turn began, its control was sent, or the
\* user was told (receive_message, _recover_control, finish_turn).
MobNoSilentLoss ==
    \A m \in MobMessages :
        (mobRecords[m].status = "completed" /\ mobKind[m] \in {"text", "file"}) =>
            m \in mobTold \/ MobTurnsOf(m) # {} \/ MobControlsOf(m) # {}

\* The mobile controller is sound: a message acts at most once, and none is lost
\* in silence (mobile/controller.py, the two above).
MobSound == MobOneEffect /\ MobNoSilentLoss
=============================================================================
