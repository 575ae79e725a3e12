---------------------------- MODULE BridgeChannels ----------------------------
(***************************************************************************)
(* The channels between a frontend host and its Bridge process: BridgeProcess  *)
(* and BridgeChannel (interfaces/bridge_process.py) in the host,           *)
(* BridgeServer (interfaces/bridge/server.py) with one thread per channel  *)
(* in the process, and the two pipes between them.                         *)
(*                                                                         *)
(* A channel id can be used again.  Uses are numbered, and so are the      *)
(* Bridge objects of the server: both numbers are history only, messages   *)
(* carry the id.  The commands of a session are one kind, its events are   *)
(* numbered (EventStream).                                                 *)
(***************************************************************************)
EXTENDS Integers, Sequences, SequencesExt, FiniteSets

CONSTANTS
    Channels,       \* channel ids
    MaxOpens,       \* uses of a channel id
    MaxCommands,    \* commands sent
    MaxFatals,      \* commands that make a Bridge fail
    MaxCrashes,     \* process failures
    LateCommands    \* whether hosts use a channel they closed or were told is closed

ASSUME BoundsAssumption == {MaxOpens, MaxCommands, MaxFatals, MaxCrashes} \subseteq Nat
ASSUME LateAssumption == LateCommands \in BOOLEAN

VARIABLES
    uses,       \* uses of each channel id so far
    channels,   \* BridgeProcess._channels: the use registered, or 0
    finished,   \* uses whose _closed event is set
    asked,      \* uses for which close_channel was sent
    got,        \* events delivered to each use
    host,       \* "ready", "closing" (_closing) or "error" (_error is set)
    stdin, stdout,
    proc,       \* "up", "closing" (BridgeServer.close) or "exited"
    serving,    \* BridgeServer._channels: number of the Bridge, or 0
    threads,    \* threads of _serve_channel, each [id, phase]
    queue,      \* Bridge._messages
    events,     \* events emitted by each Bridge
    protocolError,   \* whether serve raised ProtocolError
    commands, fatals, crashes

hostVars == <<uses, channels, finished, asked, got, host>>
procVars == <<proc, serving, threads, queue, events, protocolError>>
counters == <<commands, fatals, crashes>>
vars == <<hostVars, procVars, counters, stdin, stdout>>

Uses == 1..MaxOpens

Init ==
    /\ uses = [c \in Channels |-> 0]
    /\ channels = [c \in Channels |-> 0]
    /\ finished = [c \in Channels |-> {}]
    /\ asked = [c \in Channels |-> {}]
    /\ got = [c \in Channels |-> [u \in Uses |-> <<>>]]
    /\ host = "ready"
    /\ stdin = <<>> /\ stdout = <<>>
    /\ proc = "up"
    /\ serving = [c \in Channels |-> 0]
    /\ threads = [c \in Channels |-> {}]
    /\ queue = [c \in Channels |-> <<>>]
    /\ events = [c \in Channels |-> 0]
    /\ protocolError = FALSE
    /\ commands = 0 /\ fatals = 0 /\ crashes = 0

-----------------------------------------------------------------------------
(* The host.                                                               *)

\* BridgeProcess.send; a write to a process that has exited is lost.
Send(type, c, u) == stdin' = Append(stdin, [type |-> type, id |-> c, use |-> u])

\* open_channel, and the open_session the registry sends at once.
OpenChannel(c) ==
    /\ host = "ready"
    /\ channels[c] = 0
    /\ uses[c] < MaxOpens
    /\ uses' = [uses EXCEPT ![c] = @ + 1]
    /\ channels' = [channels EXCEPT ![c] = uses[c] + 1]
    /\ Send("open_session", c, uses[c] + 1)
    /\ UNCHANGED <<finished, asked, got, host, stdout, procVars, counters>>

\* BridgeChannel.send for a command of the session; it checks nothing itself.
Command(c, u) ==
    /\ host = "ready"
    /\ commands < MaxCommands
    /\ u \in 1..uses[c]
    /\ u \in asked[c] \cup finished[c] => LateCommands
    /\ commands' = commands + 1
    /\ Send("command", c, u)
    /\ UNCHANGED <<hostVars, stdout, procVars, fatals, crashes>>

\* BridgeChannel.close: asks once; it returns when the use is finished.
CloseChannel(c, u) ==
    /\ host = "ready"
    /\ u \in 1..uses[c] /\ u \notin finished[c] \cup asked[c]
    /\ asked' = [asked EXCEPT ![c] = @ \cup {u}]
    /\ Send("close_channel", c, u)
    /\ UNCHANGED <<uses, channels, finished, got, host, stdout, procVars, counters>>

\* BridgeProcess.close; EOF follows the shutdown message.
Close ==
    /\ host = "ready"
    /\ host' = "closing"
    /\ stdin' = Append(stdin, [type |-> "shutdown"])
    /\ UNCHANGED <<uses, channels, finished, asked, got, stdout, procVars, counters>>

\* One message of _dispatch.
DispatchEvent ==
    /\ host # "error"
    /\ stdout # <<>> /\ Head(stdout).type = "channel_event"
    /\ stdout' = Tail(stdout)
    /\ LET m == Head(stdout) IN
       got' = IF channels[m.id] = 0 THEN got
              ELSE [got EXCEPT ![m.id][channels[m.id]] = Append(@, <<m.bridge, m.n>>)]
    /\ UNCHANGED <<uses, channels, finished, asked, host, stdin, procVars, counters>>

\* finish is idempotent.
Finish(c, us) == finished' = [finished EXCEPT ![c] = @ \cup us]

DispatchClosed ==
    /\ host # "error"
    /\ stdout # <<>> /\ Head(stdout).type = "channel_closed"
    /\ stdout' = Tail(stdout)
    /\ LET c == Head(stdout).id IN
       /\ channels' = [channels EXCEPT ![c] = 0]
       /\ Finish(c, {channels[c]} \ {0})
    /\ UNCHANGED <<uses, asked, got, host, stdin, procVars, counters>>

\* Mutant: channels that are open when the process dies are not finished.
DispatchEndsQuietly ==
    /\ host # "error"
    /\ \/ stdout # <<>> /\ Head(stdout).type = "fatal"
       \/ stdout = <<>> /\ proc = "exited"
    /\ host' = "error"
    /\ channels' = [c \in Channels |-> 0]
    /\ UNCHANGED <<uses, finished, asked, got, stdin, stdout, procVars, counters>>

\* A top-level fatal, or the end of output: every channel is finished.
DispatchEnds ==
    /\ host # "error"
    /\ \/ stdout # <<>> /\ Head(stdout).type = "fatal"
       \/ stdout = <<>> /\ proc = "exited"
    /\ host' = "error"
    /\ finished' = [c \in Channels |-> finished[c] \cup ({channels[c]} \ {0})]
    /\ channels' = [c \in Channels |-> 0]
    /\ UNCHANGED <<uses, asked, got, stdin, stdout, procVars, counters>>

-----------------------------------------------------------------------------
(* The process.                                                            *)

Emit(m) == stdout' = Append(stdout, m)

Known(c) == serving[c] # 0

TakeInput == proc = "up" /\ stdin # <<>> /\ stdin' = Tail(stdin)

\* serve: open_session on an unknown channel starts a Bridge and its thread.
ServeOpen ==
    /\ TakeInput
    /\ LET m == Head(stdin) IN
       /\ m.type = "open_session"
       /\ ~Known(m.id)
       /\ serving' = [serving EXCEPT ![m.id] = m.use]
       /\ threads' = [threads EXCEPT ![m.id] = @ \cup {[id |-> m.use, phase |-> "serve"]}]
       /\ queue' = [queue EXCEPT ![m.id] = <<"command">>]
       /\ events' = [events EXCEPT ![m.id] = 0]
    /\ UNCHANGED <<hostVars, proc, protocolError, counters, stdout>>

\* serve: a command for a known channel is queued by Bridge.submit.
ServeCommand ==
    /\ TakeInput
    /\ LET m == Head(stdin) IN
       /\ m.type \in {"open_session", "command"}
       /\ Known(m.id)
       /\ queue' = [queue EXCEPT ![m.id] = Append(@, "command")]
    /\ UNCHANGED <<hostVars, proc, serving, threads, events, protocolError, counters, stdout>>

\* serve: any other command for an unknown channel raises ProtocolError out of
\* serve; the entry point reports it and closes the server.
ServeUnknown ==
    /\ TakeInput
    /\ Head(stdin).type = "command"
    /\ ~Known(Head(stdin).id)
    /\ protocolError' = TRUE
    /\ Emit([type |-> "fatal"])
    /\ proc' = "closing"
    /\ queue' = [c \in Channels |-> Append(queue[c], "stop")]
    /\ UNCHANGED <<hostVars, serving, threads, events, counters>>

ServeClose ==
    /\ TakeInput
    /\ LET m == Head(stdin) IN
       /\ m.type = "close_channel"
       /\ \/ /\ Known(m.id)
             /\ queue' = [queue EXCEPT ![m.id] = Append(@, "stop")]
             /\ UNCHANGED stdout
          \/ /\ ~Known(m.id)
             /\ Emit([type |-> "channel_closed", id |-> m.id])
             /\ UNCHANGED queue
    /\ UNCHANGED <<hostVars, proc, serving, threads, events, protocolError, counters>>

\* shutdown: serve returns, close stops every channel and joins the threads.
ServeShutdown ==
    /\ TakeInput
    /\ Head(stdin).type = "shutdown"
    /\ proc' = "closing"
    /\ queue' = [c \in Channels |-> Append(queue[c], "stop")]
    /\ UNCHANGED <<hostVars, serving, threads, events, protocolError, counters, stdout>>

Exit ==
    /\ proc = "closing"
    /\ \A c \in Channels : threads[c] = {}
    /\ proc' = "exited"
    /\ UNCHANGED <<hostVars, serving, threads, queue, events, protocolError, counters, stdin, stdout>>

\* The process is killed (_kill after the timeout) or dies.
ProcessDies ==
    /\ crashes < MaxCrashes /\ proc # "exited"
    /\ crashes' = crashes + 1
    /\ proc' = "exited"
    /\ threads' = [c \in Channels |-> {}]
    /\ UNCHANGED <<hostVars, serving, queue, events, protocolError, commands, fatals, stdin, stdout>>

-----------------------------------------------------------------------------
(* A thread of _serve_channel; t.phase is "serve" or "close" (Bridge.close). *)

InPhase(c, phase) == {t \in threads[c] : t.phase = phase}

EmitEvent(c, t) ==
    /\ events' = [events EXCEPT ![c] = @ + 1]
    /\ Emit([type |-> "channel_event", id |-> c, bridge |-> t.id, n |-> events[c] + 1])

\* A command is executed and reported.
BridgeWorks(c) ==
    \E t \in InPhase(c, "serve") :
        /\ queue[c] # <<>> /\ Head(queue[c]) = "command"
        /\ queue' = [queue EXCEPT ![c] = Tail(@)]
        /\ EmitEvent(c, t)
        /\ UNCHANGED <<hostVars, proc, serving, threads, protocolError, counters, stdin>>

LeaveServe(c, t) == threads' = [threads EXCEPT ![c] = (@ \ {t}) \cup {[t EXCEPT !.phase = "close"]}]

\* A command raises: the channel's fatal event, then Bridge.close.
BridgeFails(c) ==
    \E t \in InPhase(c, "serve") :
        /\ fatals < MaxFatals
        /\ fatals' = fatals + 1
        /\ queue[c] # <<>> /\ Head(queue[c]) = "command"
        /\ queue' = [queue EXCEPT ![c] = Tail(@)]
        /\ EmitEvent(c, t)
        /\ LeaveServe(c, t)
        /\ UNCHANGED <<hostVars, proc, serving, protocolError, commands, crashes, stdin>>

\* Mutant: the channel is forgotten, and reported closed, before Bridge.close.
BridgeStopsEarly(c) ==
    \E t \in InPhase(c, "serve") :
        /\ queue[c] # <<>> /\ Head(queue[c]) = "stop"
        /\ queue' = [queue EXCEPT ![c] = Tail(@)]
        /\ LeaveServe(c, t)
        /\ serving' = [serving EXCEPT ![c] = 0]
        /\ Emit([type |-> "channel_closed", id |-> c])
        /\ UNCHANGED <<hostVars, proc, events, protocolError, counters, stdin>>

BridgeStops(c) ==
    \E t \in InPhase(c, "serve") :
        /\ queue[c] # <<>> /\ Head(queue[c]) = "stop"
        /\ queue' = [queue EXCEPT ![c] = Tail(@)]
        /\ LeaveServe(c, t)
        /\ UNCHANGED <<hostVars, proc, serving, events, protocolError, counters, stdin, stdout>>

\* Mutant: the last event is written after channel_closed.
ChannelEndsTooSoon(c) ==
    \E t \in InPhase(c, "close") :
        /\ threads' = [threads EXCEPT ![c] = @ \ {t}]
        /\ serving' = [serving EXCEPT ![c] = 0]
        /\ stdout' = stdout \o <<[type |-> "channel_closed", id |-> c],
                                 [type |-> "channel_event", id |-> c, bridge |-> t.id,
                                  n |-> events[c] + 1]>>
        /\ UNCHANGED <<hostVars, proc, queue, events, protocolError, counters, stdin>>

\* The Journal has been released: the channel is forgotten and its end reported.
ChannelEnds(c) ==
    \E t \in InPhase(c, "close") :
        /\ threads' = [threads EXCEPT ![c] = @ \ {t}]
        /\ serving' = [serving EXCEPT ![c] = 0]
        /\ Emit([type |-> "channel_closed", id |-> c])
        /\ UNCHANGED <<hostVars, proc, queue, events, protocolError, counters, stdin>>

Next ==
    \/ Close \/ DispatchEvent \/ DispatchClosed \/ DispatchEnds
    \/ ServeOpen \/ ServeCommand \/ ServeUnknown \/ ServeClose \/ ServeShutdown
    \/ Exit \/ ProcessDies
    \/ \E c \in Channels :
         \/ OpenChannel(c)
         \/ \E u \in Uses : Command(c, u) \/ CloseChannel(c, u)
         \/ BridgeWorks(c) \/ BridgeFails(c) \/ BridgeStops(c) \/ ChannelEnds(c)

Spec == Init /\ [][Next]_vars

\* Both readers and every thread go on; nothing forces anyone to open or send.
FairSpec ==
    /\ Spec
    /\ WF_vars(DispatchEvent) /\ WF_vars(DispatchClosed) /\ WF_vars(DispatchEnds)
    /\ WF_vars(ServeOpen) /\ WF_vars(ServeCommand) /\ WF_vars(ServeUnknown)
    /\ WF_vars(ServeClose) /\ WF_vars(ServeShutdown) /\ WF_vars(Exit)
    /\ \A c \in Channels : /\ WF_vars(BridgeWorks(c)) /\ WF_vars(BridgeStops(c))
                           /\ WF_vars(ChannelEnds(c))

-----------------------------------------------------------------------------
(* Properties.                                                             *)

\* A use of a channel gets the events of one Bridge, without a gap and in order,
\* and a channel id never has two: the pop of _serve_channel is the last step of a
\* Bridge, so a session's Journal has one owner.
EventsInOrder ==
    /\ \A c \in Channels : Cardinality(threads[c]) <= 1
    /\ \A c \in Channels : \A u \in Uses : \A i \in 2..Len(got[c][u]) :
          /\ got[c][u][i][1] = got[c][u][i - 1][1]
          /\ got[c][u][i][2] = got[c][u][i - 1][2] + 1

\* While no Bridge has failed, nothing of a use that the host has been told is
\* closed runs or will be started, also when closing races with commands and with
\* the next use of the id.
CleanCloseIsFinal ==
    host = "ready" /\ fatals = 0 =>
        \A c \in Channels : \A u \in finished[c] :
            /\ \A t \in threads[c] : t.id # u
            /\ \A i \in DOMAIN stdin : stdin[i].type = "open_session" /\ stdin[i].id = c
                                          => stdin[i].use # u

\* What happens to one channel leaves the process and the others alone.
OthersContinue == ~protocolError

\* close() returns, whatever fails and also when the process dies first: a use
\* that is asked to close is finished, and BridgeProcess.close ends the process
\* and leaves no channel.
CloseReturns ==
    /\ \A c \in Channels : []<>(asked[c] \subseteq finished[c])
    /\ host = "closing" ~> proc = "exited" /\ \A c \in Channels : channels[c] = 0

\* A channel is sound: each use sees the events of one Bridge in order, and a
\* clean close is its last (bridge_process.py, server.py, the two above).
ChannelsSound == EventsInOrder /\ CleanCloseIsFinal
=============================================================================
