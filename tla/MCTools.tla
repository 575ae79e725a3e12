------------------------------ MODULE MCTools ------------------------------
(***************************************************************************)
(* The work of a model call, for TLC: a tool batch, MCP servers, commands  *)
(* with their approvals and hooks, and the stream of the response.  The    *)
(* components share no variable, so one instance explores them side by     *)
(* side: `part` is the component that moves, the others rest in an initial *)
(* state and owe no step.                                                  *)
(***************************************************************************)
EXTENDS ToolBatch, McpClients, Execution, ModelStream

VARIABLE part

\* Two servers whose names sanitize alike, three tools of which two do.
MCServers == <<"a", "b">>
MCToken == [x \in {"a", "b", "t", "u", "v"} |->
              CASE x \in {"a", "b"} -> "s" [] x \in {"t", "u"} -> "t" [] OTHER -> x]

MCScope == [c \in ExeCalls |-> IF c = "main" THEN "default" ELSE "host"]

MCInit ==
    /\ part \in {"batch", "mcp", "commands", "stream"}
    /\ McpInit /\ StrInit
    /\ (part # "stream" => strSent.api = "chat")
    /\ BatchInit /\ (part # "batch" => mode = "sequential")
    /\ ExeInit /\ (part # "commands" => exePreset = "full_access")

MCBatch == part = "batch" /\ BatchNext
           /\ UNCHANGED <<part, mcpVars, exeVars, strVars>>
MCMcp == part = "mcp" /\ McpNext
         /\ UNCHANGED <<part, batchVars, exeVars, strVars>>
MCCommands == part = "commands" /\ ExeNext
              /\ UNCHANGED <<part, batchVars, mcpVars, strVars>>
MCStream == part = "stream" /\ StrNext
            /\ UNCHANGED <<part, batchVars, mcpVars, exeVars>>

MCNext == MCBatch \/ MCMcp \/ MCCommands \/ MCStream

\* The fairness of each component, owed by the one that moves.
MCFairness ==
    /\ \A c \in Calls : WF_batchVars(part = "batch" /\ WorkerEnds(c))
    /\ WF_batchVars(part = "batch" /\ BatchThread)
    /\ WF_mcpVars(part = "mcp" /\ McpManagerStep) /\ WF_mcpVars(part = "mcp" /\ McpCloserStep)
    /\ \A c \in McpCalls : WF_mcpVars(part = "mcp" /\ McpCallerStep(c))
    /\ \A c \in ExeCalls : WF_exeVars(part = "commands" /\ ExeStep(c))
    /\ WF_exeVars(part = "commands" /\ ExeWake)
    /\ WF_strVars(part = "stream" /\ StrCreate)
    /\ WF_strVars(part = "stream" /\ strStopped /\ StrReadFails)
    /\ WF_strVars(part = "stream" /\ (StrPublish \/ StrPublishStopped \/ StrClose))
    /\ WF_strVars(part = "stream" /\ (StrPoll \/ StrCheck))

MCSpec ==
    /\ MCInit
    /\ [][MCNext]_<<part, batchVars, mcpVars, exeVars, strVars>>
    /\ MCFairness
=============================================================================
