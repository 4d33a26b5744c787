----------------------------- MODULE Forecasts -----------------------------
(***************************************************************************)
(* The weekly forecast questions (src/src/forecasts.py) in the daily lane: *)
(* a run generates the questions of the next Monday's window in the        *)
(* checkout it was triggered on, grades the windows that have closed, and  *)
(* publish_push.sh rebases the registry onto main.  The registry is not    *)
(* among the derived paths a rebase settles for the run.                   *)
(*                                                                         *)
(* One channel; probabilities are functions of the day a question was      *)
(* generated on and of the last day it had seen.                           *)
(***************************************************************************)
EXTENDS Integers, FiniteSets

CONSTANTS
    Week,          \* days from one Monday to the next (7)
    Horizon,       \* days of a window (14)
    VoidGap,       \* missing days a window may have (4)
    LastDay        \* bound: the last day; windows that close by then are asked for

VARIABLES
    today,         \* the UTC date
    gaps,          \* days the series has no value for
    spike,         \* days above the registered threshold
    registry,      \* validation/forecast_questions.json on main
    committed,     \* window -> the day its question reached main, 0 if none
    waiting,       \* the pending run: the registry in the commit it will check out
    run            \* the run in progress

vars == <<today, gaps, spike, registry, committed, waiting, run>>

Day == 1..LastDay
Window == {d \in Day : d % Week = 0 /\ d + Horizon <= LastDay}     \* from a Monday
Span(w) == w..(w + Horizon - 1)

\* asOf: the last day of the series the question was computed from.
NoQuestion == [generated |-> 0, asOf |-> 0, outcome |-> "none"]
Open(day, last) == [generated |-> day, asOf |-> last, outcome |-> "open"]
Empty == [w \in Window |-> NoQuestion]
Registered(qs) == {w \in Window : qs[w] # NoQuestion}

NoRun == [step |-> "none", base |-> Empty, work |-> Empty]

Init ==
    /\ today = Week + 2                  \* the first day with a scored week behind it
    /\ gaps \in {a..b : a \in Day, b \in Day} /\ Cardinality(gaps) <= VoidGap + 1   \* bound: one outage
    /\ spike = {d \in Day : d % (Horizon + 1) = 0}
    /\ registry = Empty /\ committed = [w \in Window |-> 0]
    /\ waiting = NoRun /\ run = NoRun

-----------------------------------------------------------------------------
(* The experiment.                                                         *)

\* The registered input is the change over a week: both of its days are scored.
Scored(last) == last - Week >= 1 /\ {last, last - Week} \cap gaps = {}

NextWindow(day) == (day \div Week + 1) * Week

Generate(qs, day, last) ==
    LET w == NextWindow(day)
    IN  IF w \notin Window \/ w \in Registered(qs) \/ ~Scored(last) THEN qs
        ELSE [qs EXCEPT ![w] = Open(day, last)]

\* (Faulty variant: a window is graded when its last day opens.)
MaturedEarly(w, last) == w + Horizon - 2 <= last

Matured(w, last) == w + Horizon - 1 <= last

\* What the registration says of a closed window.
Outcome(w, last) ==
    LET seen == {d \in Span(w) : d <= last} \ gaps
    IN  IF Cardinality(seen) < Horizon - VoidGap THEN "void"
        ELSE IF seen \cap spike # {} THEN "yes" ELSE "no"

Grade(qs, last) ==
    [w \in Window |->
        IF qs[w].outcome = "open" /\ Matured(w, last)
        THEN [qs[w] EXCEPT !.outcome = Outcome(w, last)]
        ELSE qs[w]]

-----------------------------------------------------------------------------
(* The lane.                                                               *)

\* A new run replaces the one that waits; its checkout is main's of this moment.
Trigger ==
    /\ waiting' = [NoRun EXCEPT !.step = "queued", !.base = registry]
    /\ UNCHANGED <<today, gaps, spike, registry, committed, run>>

Starts ==
    /\ run.step = "none" /\ waiting.step = "queued"
    /\ run' = waiting /\ waiting' = NoRun
    /\ UNCHANGED <<today, gaps, spike, registry, committed>>

\* main: the series ends on the last closed day, or earlier in a backlog.
Runs(last) ==
    /\ run.step = "queued"
    /\ run' = [run EXCEPT !.step = "ran",
                          !.work = Grade(Generate(run.base, today, last), last)]
    /\ UNCHANGED <<today, gaps, spike, registry, committed, waiting>>

\* One entry, three ways.
Rebased(w) == IF run.work[w] = run.base[w] THEN registry[w] ELSE run.work[w]

Touched(qs) == {w \in Window : qs[w] # run.base[w]}

\* (Faulty variant: validation/ counts as a derived path, settled for the run.)
ConflictSettled == FALSE

\* Both sides changed the same entry differently, or both appended at the end.
Conflict ==
    \/ \E w \in Touched(registry) \cap Touched(run.work) : registry[w] # run.work[w]
    \/ LET New(qs) == Registered(qs) \ Registered(run.base)
       IN  New(registry) # {} /\ New(run.work) # {} /\ New(registry) # New(run.work)

Pushes ==
    /\ run.step = "ran" /\ ~Conflict
    /\ registry' = [w \in Window |-> Rebased(w)]
    /\ committed' = [w \in Window |->
                        IF committed[w] = 0 /\ w \in Registered(registry') THEN today
                        ELSE committed[w]]
    /\ run' = NoRun
    /\ UNCHANGED <<today, gaps, spike, waiting>>

\* A conflict aborts all five attempts; a kill or a red gate loses the run too.
Lost ==
    /\ run.step # "none"
    /\ run' = NoRun
    /\ UNCHANGED <<today, gaps, spike, registry, committed, waiting>>

Midnight ==
    /\ today < LastDay     \* bound: LastDay
    /\ today' = today + 1
    /\ UNCHANGED <<gaps, spike, registry, committed, waiting, run>>

Next ==
    \/ Trigger \/ Starts \/ Pushes \/ Lost \/ Midnight
    \/ \E last \in {today - 2, today - 1} : last >= 1 /\ Runs(last)

Spec == Init /\ [][Next]_vars

-----------------------------------------------------------------------------
(* Properties.                                                             *)

ForecastsKept ==
    \A w \in Registered(registry) :
        /\ registry'[w].generated = registry[w].generated
        /\ registry'[w].asOf = registry[w].asOf
        /\ registry[w].outcome # "open" => registry'[w] = registry[w]

(* However runs queue, overlap and rebase, a forecast that reached main is *)
(* never revised: its day and its inputs stay, and a graded one keeps its  *)
(* grade.  A run on a stale checkout registers the same window again from  *)
(* later data; only the conflict keeps its forecast off main.              *)
ForecastsStand == [][ForecastsKept]_vars

(* A grade is the one the whole window gives, whichever run graded it and  *)
(* however far behind its series was.                                      *)
GradesCoverTheWindow ==
    \A w \in Registered(registry) :
        registry[w].outcome # "open" => registry[w].outcome = Outcome(w, w + Horizon - 1)

(* forecast_registration.json, cadence: "a question whose commit timestamp *)
(* is not before its window start is void and recorded as void".           *)
LateQuestionIsVoid ==
    \A w \in Registered(registry) :
        committed[w] >= w => registry[w].outcome \in {"open", "void"}
=============================================================================
