------------------------------ MODULE Sidecars ------------------------------
(***************************************************************************)
(* Seven parts that share no state with one another, checked side by side: *)
(* a behaviour is one of theirs, picked at the start; the variables of the *)
(* other parts are idle, in an initial state where there is only one.      *)
(***************************************************************************)
EXTENDS EventLedger

CONSTANTS
    Records, RecordDays, MaxOperations,                         \* SemanticLineage
    Objects, MaxReleases, MaxTime, LastValid,                   \* KnowledgeReplay
    Week, Horizon, VoidGap, ForecastDays,                       \* Forecasts
    Asker, CallCap, BudgetDays,                                 \* ModelBudget
    Row, Tab,                                                   \* LabelSession
    Entities, EdgeIds, MaxHops, MaxPaths, MaxExpansions         \* ExposurePaths

LineageConstants == Records \in Nat /\ RecordDays \in Nat /\ MaxOperations \in Nat
ReplayConstants ==
    Objects \in Nat /\ MaxReleases \in Nat /\ MaxTime \in Nat \ {0} /\ LastValid \in Nat
ForecastConstants ==
    Week \in Nat \ {0} /\ Horizon \in Nat \ {0} /\ VoidGap \in Nat /\ ForecastDays \in Nat
BudgetConstants == CallCap \in Nat /\ BudgetDays \in Nat \ {0}
PathsConstants ==
    /\ Entities \in Nat \ {0} /\ EdgeIds \in Nat
    /\ MaxHops \in Nat /\ MaxPaths \in Nat /\ MaxExpansions \in Nat

ASSUME LineageAssumption == LineageConstants
ASSUME ReplayAssumption == ReplayConstants
ASSUME ForecastAssumption == ForecastConstants
ASSUME BudgetAssumption == BudgetConstants
ASSUME PathsAssumption == PathsConstants

VARIABLES
    part,
    kind, supersedes, start, end, operations,
    time, records, releases, closed,
    today, missing, spike, registry, committed, waiting, run,
    date, ledger, locked, step, state, reserved, emptied,
    store, shown, request, handled, lock,
    edge, entries, queue, found, expansions, answer

Lineage == INSTANCE SemanticLineage WITH LastDay <- RecordDays
Replay == INSTANCE KnowledgeReplay
Forecast == INSTANCE Forecasts WITH LastDay <- ForecastDays, gaps <- missing
Budget == INSTANCE ModelBudget WITH LastDay <- BudgetDays, today <- date
Labels == INSTANCE LabelSession
Paths == INSTANCE ExposurePaths

lineageVars == <<kind, supersedes, start, end, operations>>
replayVars == <<time, records, releases, closed>>
forecastVars == <<today, missing, spike, registry, committed, waiting, run>>
budgetVars == <<date, ledger, locked, step, state, reserved, emptied>>
labelsVars == <<store, shown, request, handled, lock>>
pathsVars == <<edge, entries, queue, found, expansions, answer>>
allVars == <<part, vars, lineageVars, replayVars, forecastVars, budgetVars,
             labelsVars, pathsVars>>

SidecarsInit ==
    /\ part \in {"ledger", "lineage", "replay", "forecast", "budget", "labels", "paths"}
    /\ Init /\ Budget!Init /\ Labels!Init
    /\ IF part = "lineage" THEN Lineage!Init
       ELSE kind = 0 /\ supersedes = 0 /\ start = 0 /\ end = 0 /\ operations = 0
    /\ IF part = "replay" THEN Replay!Init
       ELSE time = 0 /\ records = 0 /\ releases = 0 /\ closed = 0
    /\ IF part = "forecast" THEN Forecast!Init
       ELSE /\ today = 0 /\ missing = 0 /\ spike = 0 /\ registry = 0
            /\ committed = 0 /\ waiting = 0 /\ run = 0
    /\ IF part = "paths" THEN Paths!Init
       ELSE /\ edge = 0 /\ entries = 0 /\ queue = 0 /\ found = 0
            /\ expansions = 0 /\ answer = 0

SidecarsNext ==
    /\ UNCHANGED part
    /\ \/ /\ part = "ledger" /\ Next
          /\ UNCHANGED <<lineageVars, replayVars, forecastVars, budgetVars, labelsVars, pathsVars>>
       \/ /\ part = "lineage" /\ Lineage!Next
          /\ UNCHANGED <<vars, replayVars, forecastVars, budgetVars, labelsVars, pathsVars>>
       \/ /\ part = "replay" /\ Replay!Next
          /\ UNCHANGED <<vars, lineageVars, forecastVars, budgetVars, labelsVars, pathsVars>>
       \/ /\ part = "forecast" /\ Forecast!Next
          /\ UNCHANGED <<vars, lineageVars, replayVars, budgetVars, labelsVars, pathsVars>>
       \/ /\ part = "budget" /\ Budget!Next
          /\ UNCHANGED <<vars, lineageVars, replayVars, forecastVars, labelsVars, pathsVars>>
       \/ /\ part = "labels" /\ Labels!Next
          /\ UNCHANGED <<vars, lineageVars, replayVars, forecastVars, budgetVars, pathsVars>>
       \/ /\ part = "paths" /\ Paths!Next
          /\ UNCHANGED <<vars, lineageVars, replayVars, forecastVars, budgetVars, labelsVars>>

SidecarsSpec == SidecarsInit /\ [][SidecarsNext]_allVars

-----------------------------------------------------------------------------
(* The parts' properties, each explained in its module.  The ledger's are  *)
(* EventLedger's own.                                                      *)

(* event_semantic_lineage.py: every accepted archive can be replayed.      *)
ReplayAnswers == part = "lineage" => Lineage!ReplayAnswers

(* event_semantic_lineage.py: one version of a lineage is active, where    *)
(* operations decide or the base is in order.                              *)
OneVersionActive == part = "lineage" => Lineage!OneVersionActive

(* event_ledger_extension.py: one version of an event is in force.         *)
OneVersionInForce == part = "replay" => Replay!OneVersionInForce

(* knowledge_replay.py: only a release indexed late changes what a past    *)
(* cutoff answers.                                                         *)
AnswersStay == [][part = "replay" => Replay!AnswersKept]_allVars

(* forecasts.py: a grade is the one its whole window gives.                *)
GradesCoverTheWindow == part = "forecast" => Forecast!GradesCoverTheWindow

(* forecasts.py: a forecast on main is never revised.                      *)
ForecastsStand == [][part = "forecast" => Forecast!ForecastsKept]_allVars

(* assistant_router.py: no day licenses more calls than its cap.           *)
DayWithinCap == Budget!DayWithinCap

(* label_session.py: no ruling is changed or lost.                         *)
RulingsStay == [][Labels!RulingsKept]_allVars

(* exposure_graph.py: the paths are all there, or the answer says not.     *)
AnswerIsExact == part = "paths" => Paths!AnswerIsExact
=============================================================================
