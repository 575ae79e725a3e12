-------------------------------- MODULE Plan --------------------------------
(***************************************************************************)
(* The session's plan: the `update_plan` tool                              *)
(* (agent_core/tools/builtin/update_plan.py), PlanManager and its          *)
(* conversions (agent_core/plan.py), the journal event that makes a        *)
(* revision durable (Session.set_plan), the callback that publishes it and *)
(* the page or terminal that shows it.  The runtime may stop at any moment *)
(* and reopen the session from its journal; a client may lose its          *)
(* connection and get the current plan again with the state it reattaches  *)
(* to.                                                                     *)
(*                                                                         *)
(* A step's title is left out: it is checked like its id and never         *)
(* compared.  An outcome is absent, blank, a text or too long.             *)
(***************************************************************************)
EXTENDS Naturals, Sequences, FiniteSets

CONSTANTS
    PlanGoals,       \* goals the model may state
    PlanIds,         \* step ids, the blank one apart
    PlanOutcomes,    \* outcomes it may write: among absent, blank, text, long
    PlanMaxSteps,    \* bound: steps of one call
    PlanMaxUpdates,  \* bound: accepted updates
    PlanMaxFaults    \* bound: journal failures, stops of the runtime, lost connections

VARIABLES
    planJournal,   \* the last plan_updated event on disk, as written; <<>>: none
    planSession,   \* Session.plan; <<>>: none, or the runtime is down
    planUp,        \* the runtime has the session open
    planWire,      \* plans published and not yet received by the client
    planClient,    \* [on: attached, shown: the plan on display]
    planIds,       \* plan ids issued
    planUpdates,
    planFaults

planVars == <<planJournal, planSession, planUp, planWire, planClient, planIds,
              planUpdates, planFaults>>

PlanBlank == "blank"
PlanStatuses == {"pending", "in_progress", "completed", "blocked"}

\* Steps as the model may write them.
PlanArguments ==
    UNION {[1..n -> [id : PlanIds \cup {PlanBlank}, status : PlanStatuses \cup {"other"},
                     outcome : PlanOutcomes]] : n \in 0..PlanMaxSteps}

-----------------------------------------------------------------------------
(* Steps and snapshots.                                                    *)

\* PlanStep.__post_init__, its checks and its normalisation.
PlanStepValid(s) ==
    /\ s.id # PlanBlank
    /\ s.status \in PlanStatuses
    /\ s.outcome # "long"
    /\ s.outcome = "text" => s.status \in {"completed", "blocked"}

PlanStep(s) == [s EXCEPT !.outcome = IF @ = "blank" THEN "absent" ELSE @]

\* UpdatePlanTool.execute, the checks over all the steps.
PlanAccepts(steps) ==
    /\ steps # <<>>
    /\ \A i \in DOMAIN steps : PlanStepValid(steps[i])
    /\ \A i, j \in DOMAIN steps : steps[i].id = steps[j].id => i = j
    /\ Cardinality({i \in DOMAIN steps : steps[i].status = "in_progress"}) <= 1

\* The step tuples that execute builds from the arguments it accepts; and that
\* there are arguments it refuses.
PlanAccepted ==
    {[i \in DOMAIN a |-> PlanStep(a[i])] : a \in {b \in PlanArguments : PlanAccepts(b)}}
PlanSomeRefused == \E a \in PlanArguments : ~PlanAccepts(a)

\* plan_snapshot_to_dict: an absent outcome is no field of the record.
PlanToDict(p) ==
    [p EXCEPT !.steps = [i \in DOMAIN @ |->
        IF @[i].outcome = "absent" THEN [id |-> @[i].id, status |-> @[i].status] ELSE @[i]]]

\* plan_snapshot_from_dict: value.get("outcome"), through PlanStep again.
PlanFromDict(d) ==
    [d EXCEPT !.steps = [i \in DOMAIN @ |->
        PlanStep([id |-> @[i].id, status |-> @[i].status,
                  outcome |-> IF "outcome" \in DOMAIN @[i] THEN @[i].outcome ELSE "absent"])]]

\* PlanSnapshot.is_active.
PlanActive(p) == \E i \in DOMAIN p.steps : p.steps[i].status # "completed"

\* visiblePlan: a finished plan is not shown.
PlanVisible(plan) == IF plan # <<>> /\ PlanActive(plan[1]) THEN plan ELSE <<>>

\* PlanManager.update, the snapshot it builds: a new goal starts a new plan.
PlanRevised(goal, steps) ==
    IF planSession = <<>> \/ planSession[1].goal # goal
    THEN [id |-> planIds + 1, goal |-> goal, revision |-> 1, steps |-> steps]
    ELSE [id |-> planSession[1].id, goal |-> goal,
          revision |-> planSession[1].revision + 1, steps |-> steps]

-----------------------------------------------------------------------------
(* The runtime.                                                            *)

PlanInit ==
    /\ planJournal = <<>> /\ planSession = <<>> /\ planUp = TRUE
    /\ planWire = <<>> /\ planClient = [on |-> TRUE, shown |-> <<>>]
    /\ planIds = 0 /\ planUpdates = 0 /\ planFaults = 0

\* A call the checks refuse raises before anything changed.
PlanRefused ==
    /\ planUp
    /\ PlanSomeRefused
    /\ UNCHANGED planVars

\* Mutant: the plan is published, then written.
PlanUpdateShowsFirst(goal, steps, written, lives) ==
    LET p == PlanRevised(goal, steps) IN
    /\ planUp /\ planUpdates < PlanMaxUpdates
    /\ ~written \/ ~lives => planFaults < PlanMaxFaults
    /\ planIds' = IF p.id > planIds THEN p.id ELSE planIds
    /\ planJournal' = IF written THEN <<PlanToDict(p)>> ELSE planJournal
    /\ planSession' = IF written THEN <<PlanFromDict(PlanToDict(p))>> ELSE planSession
    /\ planWire' = IF planClient.on THEN Append(planWire, <<p>>) ELSE planWire
    /\ planUpdates' = planUpdates + 1
    /\ planFaults' = IF written /\ lives THEN planFaults ELSE planFaults + 1
    /\ UNCHANGED <<planUp, planClient>>

\* UpdatePlanTool.execute and PlanManager.update, under its lock.  set_plan
\* writes the event first: when the sink raises, nothing is applied and nothing
\* published; when the process stops behind the write, nothing is published.
PlanUpdate(goal, steps, written, lives) ==
    LET p == PlanRevised(goal, steps) IN
    /\ planUp /\ planUpdates < PlanMaxUpdates
    /\ ~written \/ ~lives => planFaults < PlanMaxFaults
    /\ planIds' = IF p.id > planIds THEN p.id ELSE planIds
    /\ planJournal' = IF written THEN <<PlanToDict(p)>> ELSE planJournal
    /\ planSession' = IF ~lives THEN <<>>
                      ELSE IF written THEN <<PlanFromDict(PlanToDict(p))>> ELSE planSession
    /\ planWire' = IF lives /\ written /\ planClient.on THEN Append(planWire, <<p>>) ELSE planWire
    /\ planUp' = lives
    /\ planClient' = [planClient EXCEPT !.on = @ /\ lives]
    /\ planUpdates' = planUpdates + 1
    /\ planFaults' = IF written /\ lives THEN planFaults ELSE planFaults + 1

\* The runtime opens the session again: Session.apply_event over its journal.
PlanReopen ==
    /\ ~planUp
    /\ planUp' = TRUE
    /\ planSession' = IF planJournal = <<>> THEN <<>> ELSE <<PlanFromDict(planJournal[1])>>
    /\ UNCHANGED <<planJournal, planWire, planClient, planIds, planUpdates, planFaults>>

-----------------------------------------------------------------------------
(* The client.                                                             *)

\* plan_updated.
PlanReceive ==
    /\ planWire # <<>>
    /\ planClient' = [planClient EXCEPT !.shown = PlanVisible(Head(planWire))]
    /\ planWire' = Tail(planWire)
    /\ UNCHANGED <<planJournal, planSession, planUp, planIds, planUpdates, planFaults>>

\* The connection is lost with what it carried.
PlanDrop ==
    /\ planClient.on /\ planFaults < PlanMaxFaults
    /\ planClient' = [planClient EXCEPT !.on = FALSE]
    /\ planWire' = <<>>
    /\ planFaults' = planFaults + 1
    /\ UNCHANGED <<planJournal, planSession, planUp, planIds, planUpdates>>

\* The client reattaches: the state it gets carries the session's plan.
PlanAttach ==
    /\ planUp /\ ~planClient.on /\ planWire = <<>>
    /\ planClient' = [on |-> TRUE, shown |-> PlanVisible(planSession)]
    /\ UNCHANGED <<planJournal, planSession, planUp, planWire, planIds, planUpdates, planFaults>>

PlanNext ==
    \/ PlanRefused
    \/ \E goal \in PlanGoals, steps \in PlanAccepted, written, lives \in BOOLEAN :
          PlanUpdate(goal, steps, written, lives)
    \/ PlanReopen \/ PlanReceive \/ PlanDrop \/ PlanAttach

PlanSpec == PlanInit /\ [][PlanNext]_planVars

-----------------------------------------------------------------------------
(* What the plan promises.                                                 *)

(***************************************************************************)
(* The plan on display is durable: at every moment, whatever was refused,  *)
(* failed to be written or was cut by a stop, the journal holds that plan  *)
(* at that revision or a later one, or a later plan.  So reopening never   *)
(* takes the user back behind what they saw.  And a client with nothing in *)
(* flight shows exactly the session's plan, which is exactly what the      *)
(* journal reads back as.                                                  *)
(***************************************************************************)
PlanNeverBack ==
    /\ planClient.shown # <<>> =>
          LET s == planClient.shown[1] IN
          /\ planJournal # <<>>
          /\ \/ planJournal[1].id > s.id
             \/ planJournal[1].id = s.id /\ planJournal[1].revision >= s.revision
    /\ planUp => planSession = IF planJournal = <<>> THEN <<>>
                               ELSE <<PlanFromDict(planJournal[1])>>
    /\ planUp /\ planClient.on /\ planWire = <<>> =>
          planClient.shown = PlanVisible(planSession)

=============================================================================
