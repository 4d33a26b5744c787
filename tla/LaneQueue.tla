----------------------------- MODULE LaneQueue -----------------------------
(***************************************************************************)
(* The concurrency group igrm-pipeline-v3, which serialises morning.yml    *)
(* and daily.yml, and everything that feeds it: crons that may be dropped, *)
(* the watchdog (watchdog.yml), the guarantor step of nowcast.yml and the  *)
(* successor that a morning run dispatches (dispatch_morning_successor.py).*)
(* GitHub runs one job of the group and keeps at most one pending: a newer *)
(* pending run evicts the older one.  Runs are folded into their effect on *)
(* the day of record; SharedPipeline and FinalPublication open them.       *)
(***************************************************************************)
EXTENDS Integers

CONSTANT MaxDay          \* bound: the last calendar day; its clock then cycles

ASSUME MaxDayAssumption == MaxDay \in Nat \ {0, 1}

VARIABLES
    today,       \* the UTC date
    clock,       \* the part of the day: which triggers can fire
    crons,       \* the daily crons left in it
    latest,      \* docs/data/latest.json's date on main
    running,     \* the run that holds the group
    pending,     \* the run that waits for it
    watch        \* the watchdog shot in flight

vars == <<today, clock, crons, latest, running, pending, watch>>

Clock == {"window", "daytime", "evening"}

\* 00:07 and 00:51; 15:23.  A request by hand or by .trigger/backfill counts as
\* one of them.
DailyCrons(part) == CASE part = "window" -> 2 [] part = "daytime" -> 1 [] OTHER -> 0
Kind == {"none", "morning", "daily"}

\* pin: what latest.json said in the commit the run will check out; target: the
\* day a morning run published and may have a successor for, 0 before that.
Run == [kind : Kind, pin : 0..MaxDay, now : 0..MaxDay, target : 0..MaxDay]
NoRun == [kind |-> "none", pin |-> 0, now |-> 0, target |-> 0]
Triggered(kind) == [NoRun EXCEPT !.kind = kind, !.pin = latest]

WatchStep == {"idle", "stale", "clear", "sent"}
Watch == [step : WatchStep, blind : BOOLEAN, overtaken : BOOLEAN]
NoShot == [step |-> "idle", blind |-> FALSE, overtaken |-> FALSE]

Init ==
    /\ today = 2 /\ clock = "window" /\ crons = DailyCrons("window")
    /\ latest = 0
    /\ running = NoRun /\ pending = NoRun
    /\ watch = NoShot

-----------------------------------------------------------------------------
(* The group.                                                              *)

\* A new run takes the pending place, whoever held it; a morning run created
\* behind the watchdog's count overtakes it.
Queue(kind) ==
    /\ pending' = Triggered(kind)
    /\ watch' = [watch EXCEPT !.overtaken = @ \/ (kind = "morning" /\ watch.step = "clear")]
    /\ UNCHANGED <<today, clock, latest>>

\* The pending run gets the free group, and sees the date it starts on.
Starts ==
    /\ running.kind = "none" /\ pending.kind # "none"
    /\ running' = [pending EXCEPT !.now = today]
    /\ pending' = NoRun
    /\ UNCHANGED <<today, clock, crons, latest, watch>>

Leave(day) ==
    /\ latest' = day
    /\ running' = NoRun
    /\ UNCHANGED <<today, clock, crons, pending, watch>>

\* A kill, a refusal, a red gate, or nothing to do.
Fails == running.kind # "none" /\ Leave(latest)

-----------------------------------------------------------------------------
(* What a run publishes.                                                   *)

\* (Faulty variant: the morning lane asks for D-1 only, as the daily does.)
NextTargetYesterday(measured, now) == now - 1

\* The first unpublished day; lost days are BacklogOrder's business.
NextTarget(measured, now) == measured + 1

Stale == latest # today - 1

\* The morning run publishes the ordered next target of main's tip.
MorningPublishes ==
    LET t == NextTarget(latest, running.now)
    IN  /\ running.kind = "morning" /\ running.target = 0
        /\ t <= running.now - 1 /\ t = latest + 1
        /\ latest' = t
        /\ running' = [running EXCEPT !.target = t]
        /\ UNCHANGED <<today, clock, crons, pending, watch>>

\* (Faulty variant: the day published is compared with the date, not with
\* the last closed day.)
CeilingReachedLate(run) == run.target = run.now

CeilingReached(run) == run.target = run.now - 1

\* authorize: main moved, and what it serves is the day this run published.
Authorized(run) == latest = run.target

\* The last step of the job: the successor becomes the pending run.
MorningContinues ==
    /\ running.kind = "morning" /\ running.target # 0
    /\ ~CeilingReached(running) /\ Authorized(running)
    /\ Queue("morning")
    /\ running' = NoRun
    /\ UNCHANGED crons

\* The daily job works on the commit of its trigger and acquires D-1: in a
\* backlog D-1 is not the ordered next target, and the job refuses.
DailyPublishes ==
    /\ running.kind = "daily"
    /\ running.pin + 1 = running.now - 1
    /\ Leave(running.now - 1)

-----------------------------------------------------------------------------
(* Triggers.  A cron shot that GitHub drops is a shot not taken.           *)

MorningCron == clock = "window" /\ Queue("morning") /\ UNCHANGED <<running, crons>>

DailyCron ==
    /\ crons > 0
    /\ crons' = crons - 1
    /\ Queue("daily") /\ UNCHANGED running

\* nowcast.yml: no look at the queue before the dispatch.
Guarantor == Stale /\ Queue("morning") /\ UNCHANGED <<running, crons>>
EveningGuarantor == clock = "evening" /\ Guarantor

-----------------------------------------------------------------------------
(* The watchdog: its own group lets one shot run at a time.                *)

WatchGoes(next) ==
    /\ watch' = next
    /\ UNCHANGED <<today, clock, crons, latest, running, pending>>

WatchdogChecks ==
    /\ watch.step = "idle" /\ clock = "window" /\ Stale
    /\ WatchGoes([NoShot EXCEPT !.step = "stale"])

\* (Faulty variant: only runs in progress are counted.)
MorningRunExistsRunning == running.kind = "morning"

MorningRunExists == "morning" \in {running.kind, pending.kind}

\* A run holds a place in the queue: stand down.
WatchdogStandsDown ==
    /\ watch.step = "stale" /\ MorningRunExists
    /\ WatchGoes(NoShot)

\* No run was seen; a request that failed counts as none.
WatchdogClears ==
    /\ watch.step = "stale"
    /\ \/ ~MorningRunExists /\ WatchGoes([watch EXCEPT !.step = "clear"])
       \/ WatchGoes([watch EXCEPT !.step = "clear", !.blind = TRUE])

\* 204 with or without a run behind it, or a rejection.
WatchdogDispatches ==
    /\ watch.step = "clear"
    /\ \/ /\ pending' = Triggered("morning")
          /\ watch' = [watch EXCEPT !.step = "sent"]
          /\ UNCHANGED <<today, clock, crons, latest, running>>
       \/ WatchGoes([watch EXCEPT !.step = "sent"])
       \/ WatchGoes(NoShot)

\* The shot found its run, or reported that there is none.
WatchdogVerifies == watch.step = "sent" /\ WatchGoes(NoShot)

-----------------------------------------------------------------------------
(* The clock.  Job caps bound what may still hold the group: a daily job   *)
(* of the afternoon is over by the last guarantor shots of the evening     *)
(* (15:23 and four hours, against 21:43 and 23:43), and a run that waits   *)
(* for a free group starts before the next part of the day.                *)

Settled == running.kind = "none" => pending.kind = "none"
NoDaily == running.kind # "daily" /\ pending.kind # "daily"

\* A run sees at most one midnight.
ClockMoves ==
    /\ Settled
    /\ \/ clock = "window" /\ clock' = "daytime" /\ UNCHANGED today
       \/ clock = "daytime" /\ NoDaily /\ clock' = "evening" /\ UNCHANGED today
       \/ /\ clock = "evening" /\ clock' = "window"
          /\ running.kind # "none" => running.now = today
          /\ today' = IF today < MaxDay THEN today + 1 ELSE today  \* bound: MaxDay
    /\ crons' = DailyCrons(clock')
    /\ UNCHANGED <<latest, running, pending, watch>>

Next ==
    \/ ClockMoves
    \/ MorningCron \/ DailyCron \/ Guarantor
    \/ Starts \/ Fails \/ MorningPublishes \/ MorningContinues \/ DailyPublishes
    \/ WatchdogChecks \/ WatchdogStandsDown \/ WatchdogClears
    \/ WatchdogDispatches \/ WatchdogVerifies

Spec == Init /\ [][Next]_vars

(***************************************************************************)
(* The clock moves, the group starts what waits for it, and every job ends *)
(* (timeout-minutes).  Not every evening shot is dropped, and not every    *)
(* morning run that has a day to publish fails.  Nothing else is fair:     *)
(* crons, watchdog and successor may all be lost, and the daily runs may   *)
(* evict every morning run of the window.  Without the evening shots the   *)
(* property below fails: each night's daily crons evict what waits.        *)
(***************************************************************************)
LiveSpec ==
    /\ Spec
    /\ WF_vars(ClockMoves) /\ WF_vars(Starts) /\ WF_vars(Fails)
    /\ SF_vars(EveningGuarantor) /\ SF_vars(MorningPublishes)

-----------------------------------------------------------------------------
(* Properties.                                                             *)

TypeOK ==
    /\ today \in 2..MaxDay /\ clock \in Clock /\ crons \in 0..2 /\ latest \in 0..(today - 1)
    /\ running \in Run /\ pending \in Run
    /\ watch \in Watch

(* watchdog.yml:102-105: once a run exists, pressing the button again      *)
(* destroys it.  A shot about to dispatch therefore finds no morning run   *)
(* to evict, unless the run was created after the shot's own count or the  *)
(* count was never answered.                                               *)
WatchdogSparesTheQueue ==
    watch.step = "clear" /\ ~watch.blind /\ ~watch.overtaken
        => pending.kind # "morning"

(* A successor is only dispatched while its date still has a closed day to *)
(* publish: the chain cannot keep the group busy once the backlog is empty.*)
SuccessorHasWork ==
    [][MorningContinues => latest < running.now - 1]_vars

(* Dropped crons, evictions, stale checkouts of the daily job and failed   *)
(* runs delay a closed day; they never keep it from being published.       *)
ClosedDayIsPublished ==
    \A d \in 1..MaxDay : d < today ~> latest >= d
=============================================================================
