------------------------------ MODULE McpClients ------------------------------
(***************************************************************************)
(* McpClientManager (agent_core/mcp/manager.py): one thread connects the   *)
(* configured servers, publishes their tools and serves one tool call at a *)
(* time from a queue; tool threads put requests and wait with a timeout of *)
(* their own; the owner of the manager closes it at any time.              *)
(*                                                                         *)
(* Names are reduced to what qualified_tool_name keeps of them: McpToken   *)
(* maps servers and remote tools to tokens, and different names may share  *)
(* one.                                                                    *)
(***************************************************************************)
EXTENDS Integers, Sequences, FiniteSets

CONSTANTS
    McpServers,     \* the enabled servers, as a sequence in configuration order
    McpOffers,      \* the sets of remote tools that a server may list
    McpToken,       \* [Range(McpServers) \cup McpRemote -> tokens]
    McpCalls        \* tool calls; each is made at most once

McpStop == "stop"
McpNone == "none"
McpRemote == UNION McpOffers
McpRange == {McpServers[i] : i \in 1..Len(McpServers)}

ASSUME McpAssumption ==
    /\ McpServers \in Seq(DOMAIN McpToken)
    /\ \A i, j \in 1..Len(McpServers) : McpServers[i] = McpServers[j] => i = j
    /\ McpRemote \subseteq DOMAIN McpToken
    /\ McpCalls \cap {McpStop, McpNone} = {}

VARIABLES
    mcpThread,      \* place of the manager thread
    mcpReady, mcpClosing,        \* the two events
    mcpInterrupt,   \* task.cancel was scheduled on the manager's loop
    mcpOutcome,     \* per server: pending, failed or listed, and the tools it listed
    mcpOpen,        \* servers with a connection
    mcpNext,        \* the server whose outcome is taken next
    mcpSessions, mcpOrigins,     \* sessions and _tool_origins
    mcpQueue, mcpServing,        \* _requests; the request the manager works on
    mcpExecuting,   \* calls the servers are working on
    mcpCall,        \* per call: its place, its tool and whether it was cancelled
    mcpBox,         \* per call: whether its result queue holds something
    mcpCloser       \* place of the owner in close()

mcpVars == <<mcpThread, mcpReady, mcpClosing, mcpInterrupt, mcpOutcome, mcpOpen, mcpNext,
             mcpSessions, mcpOrigins, mcpQueue, mcpServing, mcpExecuting, mcpCall, mcpBox, mcpCloser>>
mcpCatalogVars == <<mcpNext, mcpSessions, mcpOrigins>>
mcpCallerVars == <<mcpCall, mcpBox>>

McpInit ==
    /\ mcpThread = "unstarted" /\ mcpReady = FALSE /\ mcpClosing = FALSE /\ mcpInterrupt = FALSE
    /\ mcpOutcome = [s \in McpRange |-> [state |-> "pending", tools |-> {}]] /\ mcpOpen = {}
    /\ mcpNext = 1 /\ mcpSessions = {} /\ mcpOrigins = <<>>
    /\ mcpQueue = <<>> /\ mcpServing = McpNone /\ mcpExecuting = {}
    /\ mcpCall = [c \in McpCalls |-> [at |-> "idle", tool |-> <<>>, cancelled |-> FALSE]]
    /\ mcpBox = [c \in McpCalls |-> FALSE]
    /\ mcpCloser = "open"

-----------------------------------------------------------------------------
(* start, _run_thread and _run: the thread is alive before its task exists.  *)
McpStart ==
    /\ mcpThread = "unstarted" /\ mcpCloser = "open" /\ McpServers # <<>>
    /\ mcpThread' = "starting"
    /\ UNCHANGED <<mcpReady, mcpClosing, mcpInterrupt, mcpOutcome, mcpOpen, mcpCatalogVars, mcpQueue,
                   mcpServing, mcpExecuting, mcpCallerVars, mcpCloser>>

McpRun ==
    /\ mcpThread = "starting"
    /\ IF mcpClosing
         THEN mcpThread' = "dead" /\ mcpReady' = TRUE /\ UNCHANGED mcpOpen
         ELSE mcpThread' = "connecting" /\ mcpOpen' = McpRange /\ UNCHANGED mcpReady
    /\ UNCHANGED <<mcpClosing, mcpInterrupt, mcpOutcome, mcpCatalogVars, mcpQueue, mcpServing,
                   mcpExecuting, mcpCallerVars, mcpCloser>>

(* _start_server and _discover_tools within the startup budget of the server;*)
(* a server that fails is closed at once and does not hold up the others.    *)
McpServerStarts(s, tools) ==
    /\ mcpThread = "connecting" /\ mcpOutcome[s].state = "pending"
    /\ mcpOutcome' = [mcpOutcome EXCEPT ![s] = [state |-> "listed", tools |-> tools]]
    /\ UNCHANGED <<mcpThread, mcpReady, mcpClosing, mcpInterrupt, mcpOpen, mcpCatalogVars, mcpQueue,
                   mcpServing, mcpExecuting, mcpCallerVars, mcpCloser>>

McpServerFails(s) ==
    /\ mcpThread = "connecting" /\ mcpOutcome[s].state = "pending"
    /\ mcpOutcome' = [mcpOutcome EXCEPT ![s].state = "failed"]
    /\ mcpOpen' = mcpOpen \ {s}
    /\ UNCHANGED <<mcpThread, mcpReady, mcpClosing, mcpInterrupt, mcpCatalogVars, mcpQueue,
                   mcpServing, mcpExecuting, mcpCallerVars, mcpCloser>>

McpQualified(s, t) == <<McpToken[s], McpToken[t]>>

\* Mutant: no name is compared.
McpDistinctNot(origins, s, tools) == TRUE

(* Whether a server's tools can be added: no qualified name twice.           *)
McpDistinct(origins, s, tools) ==
    /\ \A t, u \in tools : McpQualified(s, t) = McpQualified(s, u) => t = u
    /\ \A t \in tools : McpQualified(s, t) \notin DOMAIN origins

McpJoin(origins, s, tools) ==
    [q \in DOMAIN origins \cup {McpQualified(s, t) : t \in tools} |->
        IF q \in DOMAIN origins THEN origins[q]
        ELSE <<s, CHOOSE t \in tools : McpQualified(s, t) = q>>]

(* The second half of _serve's start: the outcomes are taken in configuration*)
(* order, whatever order the servers answered in.  No await is in the loop.  *)
McpGathered ==
    /\ mcpThread = "connecting" /\ \A s \in McpRange : mcpOutcome[s].state # "pending"
    /\ mcpThread' = "collecting"
    /\ UNCHANGED <<mcpReady, mcpClosing, mcpInterrupt, mcpOutcome, mcpOpen, mcpCatalogVars, mcpQueue,
                   mcpServing, mcpExecuting, mcpCallerVars, mcpCloser>>

(* A server that listed its tools joins, unless a name is taken.             *)
McpCollect ==
    /\ mcpThread = "collecting" /\ mcpNext <= Len(McpServers)
    /\ LET s == McpServers[mcpNext]  tools == mcpOutcome[s].tools
       IN IF mcpOutcome[s].state = "listed" /\ McpDistinct(mcpOrigins, s, tools)
            THEN /\ mcpSessions' = mcpSessions \cup {s}
                 /\ mcpOrigins' = McpJoin(mcpOrigins, s, tools)
            ELSE UNCHANGED <<mcpSessions, mcpOrigins>>
    /\ mcpNext' = mcpNext + 1
    /\ UNCHANGED <<mcpThread, mcpReady, mcpClosing, mcpInterrupt, mcpOutcome, mcpOpen, mcpQueue,
                   mcpServing, mcpExecuting, mcpCallerVars, mcpCloser>>

McpPublish ==
    /\ mcpThread = "collecting" /\ mcpNext > Len(McpServers)
    /\ mcpReady' = TRUE /\ mcpThread' = "serving"
    /\ UNCHANGED <<mcpClosing, mcpInterrupt, mcpOutcome, mcpOpen, mcpCatalogVars, mcpQueue, mcpServing,
                   mcpExecuting, mcpCallerVars, mcpCloser>>

(* A scheduled task.cancel interrupts the start, or the wait for a request.  *)
McpInterrupted ==
    /\ mcpInterrupt /\ mcpThread \in {"connecting", "serving"} /\ mcpServing = McpNone
    /\ mcpThread' = "unwinding" /\ mcpInterrupt' = FALSE
    /\ UNCHANGED <<mcpReady, mcpClosing, mcpOutcome, mcpOpen, mcpCatalogVars, mcpQueue, mcpServing,
                   mcpExecuting, mcpCallerVars, mcpCloser>>

(* The exit stack closes every connection; then the thread ends.             *)
McpUnwind ==
    /\ mcpThread = "unwinding"
    /\ mcpOpen' = {} /\ mcpReady' = TRUE /\ mcpThread' = "dead"
    /\ UNCHANGED <<mcpClosing, mcpInterrupt, mcpOutcome, mcpCatalogVars, mcpQueue, mcpServing,
                   mcpExecuting, mcpCallerVars, mcpCloser>>

-----------------------------------------------------------------------------
(* call_tool: a call that finds the manager open is put in the queue, where  *)
(* the stop of a close may already be.                                       *)
McpCallTool(c, q) ==
    /\ mcpCall[c].at = "idle" /\ mcpReady /\ q \in DOMAIN mcpOrigins
    /\ mcpCall' = [mcpCall EXCEPT ![c].at = IF mcpClosing THEN "refused" ELSE "checked",
                                  ![c].tool = q]
    /\ UNCHANGED <<mcpThread, mcpReady, mcpClosing, mcpInterrupt, mcpOutcome, mcpOpen, mcpCatalogVars,
                   mcpQueue, mcpServing, mcpExecuting, mcpBox, mcpCloser>>

McpPut(c) ==
    /\ mcpCall[c].at = "checked"
    /\ mcpCall' = [mcpCall EXCEPT ![c].at = "waiting"]
    /\ mcpQueue' = Append(mcpQueue, c)
    /\ UNCHANGED <<mcpThread, mcpReady, mcpClosing, mcpInterrupt, mcpOutcome, mcpOpen, mcpCatalogVars,
                   mcpServing, mcpExecuting, mcpBox, mcpCloser>>

McpReturn(c) ==
    /\ mcpCall[c].at = "waiting" /\ mcpBox[c]
    /\ mcpCall' = [mcpCall EXCEPT ![c].at = "answered"]
    /\ UNCHANGED <<mcpThread, mcpReady, mcpClosing, mcpInterrupt, mcpOutcome, mcpOpen, mcpCatalogVars,
                   mcpQueue, mcpServing, mcpExecuting, mcpBox, mcpCloser>>

(* The caller's own timeout; its request stays where it is.                  *)
McpGiveUp(c) ==
    /\ mcpCall[c].at = "waiting" /\ ~mcpBox[c]
    /\ mcpCall' = [mcpCall EXCEPT ![c].at = "timed out"]
    /\ UNCHANGED <<mcpThread, mcpReady, mcpClosing, mcpInterrupt, mcpOutcome, mcpOpen, mcpCatalogVars,
                   mcpQueue, mcpServing, mcpExecuting, mcpBox, mcpCloser>>

McpCancelCall(c) ==
    /\ mcpCall[c].at \in {"checked", "waiting"} /\ ~mcpCall[c].cancelled
    /\ mcpCall' = [mcpCall EXCEPT ![c].cancelled = TRUE]
    /\ UNCHANGED <<mcpThread, mcpReady, mcpClosing, mcpInterrupt, mcpOutcome, mcpOpen, mcpCatalogVars,
                   mcpQueue, mcpServing, mcpExecuting, mcpBox, mcpCloser>>

(* The loop of _serve takes a request or the stop.                           *)
McpTake ==
    /\ mcpThread = "serving" /\ mcpServing = McpNone /\ mcpQueue # <<>>
    /\ IF Head(mcpQueue) = McpStop
         THEN mcpThread' = "unwinding" /\ UNCHANGED mcpServing
         ELSE mcpServing' = Head(mcpQueue) /\ UNCHANGED mcpThread
    /\ mcpQueue' = Tail(mcpQueue)
    /\ UNCHANGED <<mcpReady, mcpClosing, mcpInterrupt, mcpOutcome, mcpOpen, mcpCatalogVars,
                   mcpExecuting, mcpCallerVars, mcpCloser>>

McpAbort == mcpClosing \/ mcpCall[mcpServing].cancelled

(* _call looks at the two flags before it awaits the server.                 *)
McpBegin ==
    /\ mcpServing # McpNone /\ mcpServing \notin mcpExecuting /\ ~McpAbort
    /\ mcpExecuting' = mcpExecuting \cup {mcpServing}
    /\ UNCHANGED <<mcpThread, mcpReady, mcpClosing, mcpInterrupt, mcpOutcome, mcpOpen, mcpCatalogVars,
                   mcpQueue, mcpServing, mcpCallerVars, mcpCloser>>

\* Mutant: the call is answered and its task left running.
McpAnswerLeaves ==
    /\ mcpServing # McpNone
    /\ mcpServing \in mcpExecuting \/ McpAbort
    /\ mcpBox' = [mcpBox EXCEPT ![mcpServing] = TRUE]
    /\ mcpServing' = McpNone
    /\ UNCHANGED <<mcpThread, mcpReady, mcpClosing, mcpInterrupt, mcpOutcome, mcpOpen, mcpCatalogVars,
                   mcpQueue, mcpExecuting, mcpCall, mcpCloser>>

(* The server answered, the call timed out, or a flag was seen: the task is  *)
(* cancelled and awaited before the request is answered.  A scheduled       *)
(* task.cancel that arrives during the call is answered to the caller too.   *)
McpAnswer ==
    /\ mcpServing # McpNone
    /\ mcpServing \in mcpExecuting \/ McpAbort
    /\ mcpExecuting' = mcpExecuting \ {mcpServing}
    /\ mcpBox' = [mcpBox EXCEPT ![mcpServing] = TRUE]
    /\ mcpServing' = McpNone
    /\ mcpInterrupt' \in {mcpInterrupt, FALSE}
    /\ UNCHANGED <<mcpThread, mcpReady, mcpClosing, mcpOutcome, mcpOpen, mcpCatalogVars,
                   mcpQueue, mcpCall, mcpCloser>>

-----------------------------------------------------------------------------
\* Mutant: nothing wakes the manager that waits for a request.
McpCloseSilently ==
    /\ mcpCloser = "open"
    /\ mcpCloser' = IF mcpThread \in {"unstarted", "dead"} THEN "closed" ELSE "stopping"
    /\ mcpClosing' = (mcpCloser' = "stopping")
    /\ UNCHANGED <<mcpThread, mcpReady, mcpInterrupt, mcpOutcome, mcpOpen, mcpCatalogVars, mcpQueue,
                   mcpServing, mcpExecuting, mcpCallerVars>>

(* close: also called by wait_ready when the start is cancelled, fails or    *)
(* takes too long.  The join gives up after five seconds.                    *)
McpClose ==
    /\ mcpCloser = "open"
    /\ IF mcpThread \in {"unstarted", "dead"}
         THEN mcpCloser' = "closed" /\ UNCHANGED <<mcpClosing, mcpQueue>>
         ELSE /\ mcpCloser' = "stopping"
              /\ mcpClosing' = TRUE
              /\ mcpQueue' = Append(mcpQueue, McpStop)
    /\ UNCHANGED <<mcpThread, mcpReady, mcpInterrupt, mcpOutcome, mcpOpen, mcpCatalogVars, mcpServing,
                   mcpExecuting, mcpCallerVars>>

McpCloseInterrupts ==
    /\ mcpCloser = "stopping"
    /\ mcpInterrupt' = (~mcpReady /\ mcpThread \in {"connecting", "collecting"})
    /\ mcpCloser' = "joining"
    /\ UNCHANGED <<mcpThread, mcpReady, mcpClosing, mcpOutcome, mcpOpen, mcpCatalogVars, mcpQueue,
                   mcpServing, mcpExecuting, mcpCallerVars>>

McpJoined ==
    /\ mcpCloser = "joining"
    /\ mcpCloser' = IF mcpThread = "dead" THEN "closed" ELSE "left"
    /\ UNCHANGED <<mcpThread, mcpReady, mcpClosing, mcpInterrupt, mcpOutcome, mcpOpen, mcpCatalogVars,
                   mcpQueue, mcpServing, mcpExecuting, mcpCallerVars>>

McpManagerStep ==
    \/ McpRun \/ McpGathered \/ McpCollect \/ McpPublish \/ McpInterrupted \/ McpUnwind
    \/ McpTake \/ McpBegin \/ McpAnswer
    \/ \E s \in McpRange : McpServerFails(s) \/ \E tools \in McpOffers : McpServerStarts(s, tools)

McpCloserStep == McpCloseInterrupts \/ McpJoined

McpCallerStep(c) == McpPut(c) \/ McpReturn(c) \/ McpGiveUp(c)

McpNext ==
    \/ McpStart \/ McpManagerStep \/ McpClose \/ McpCloserStep
    \/ \E c \in McpCalls :
          McpCallerStep(c) \/ McpCancelCall(c) \/ \E q \in DOMAIN mcpOrigins : McpCallTool(c, q)

(* Threads run; a start and a call end within their configured budgets.      *)
McpFairness ==
    /\ WF_mcpVars(McpManagerStep) /\ WF_mcpVars(McpCloserStep)
    /\ \A c \in McpCalls : WF_mcpVars(McpCallerStep(c))

McpSpec == McpInit /\ [][McpNext]_mcpVars /\ McpFairness

-----------------------------------------------------------------------------
(* resolve_role_tools: what a sub-agent role gets of one server's tools when *)
(* it lists some of them to be used, or some to be left out.  A reference to *)
(* a tool the catalog lacks is an error and gives the role nothing.          *)
McpServerTools(s) == {q \in DOMAIN mcpOrigins : mcpOrigins[q][1] = s}

McpRoleTools(s, listed, whitelist) ==
    LET remote == {mcpOrigins[q][2] : q \in McpServerTools(s)}
    IN IF ~(listed \subseteq remote) THEN {}
       ELSE {q \in McpServerTools(s) : (mcpOrigins[q][2] \in listed) = whitelist}

(* A qualified name leads to the one server and remote tool it was made from,*)
(* although different names can be normalised to the same one, that server   *)
(* has a session, and a role that leaves a tool out never gets it, under     *)
(* whatever name it is offered.                                              *)
McpRoutes ==
    /\ \A q \in DOMAIN mcpOrigins :
         LET s == mcpOrigins[q][1]  t == mcpOrigins[q][2]
         IN /\ s \in mcpSessions /\ q = McpQualified(s, t) /\ t \in mcpOutcome[s].tools
            /\ \A other \in mcpSessions : \A u \in mcpOutcome[other].tools :
                 McpQualified(other, u) = q => <<other, u>> = <<s, t>>
    /\ \A s \in McpRange : \A listed \in SUBSET McpRemote :
         /\ \A q \in McpRoleTools(s, listed, FALSE) : mcpOrigins[q][2] \notin listed
         /\ McpRoleTools(s, listed, TRUE) \cap McpRoleTools(s, listed, FALSE) = {}

(* Once close has seen the manager's thread end, no server is working on a   *)
(* call and no connection is open: nothing a turn started outlives the plane.*)
McpCloseIsQuiet == mcpCloser = "closed" => mcpExecuting = {} /\ mcpOpen = {}

(* Every tool call returns to its thread, also one that was put in the queue *)
(* behind the stop of a close, and the manager's thread ends after a close,  *)
(* whatever it was doing.                                                    *)
McpReturns ==
    /\ \A c \in McpCalls : mcpCall[c].at = "checked" ~> mcpCall[c].at \in {"answered", "timed out"}
    /\ mcpClosing ~> mcpThread = "dead"

\* The manager is sound: a call reaches the tool its name was given for, and a
\* closed manager runs nothing (mcp/manager.py, the two above).
McpSound == McpRoutes /\ McpCloseIsQuiet
=============================================================================
