--------------------------- MODULE SharedPipeline ---------------------------
(***************************************************************************)
(* The two workflows that write the finalized record, on the lane they     *)
(* share: morning.yml (FinalPublication) and daily.yml.  Both belong to    *)
(* one concurrency group, which runs one job at a time and keeps at most   *)
(* one job pending.  The daily job works on the commit main had when it    *)
(* was triggered (actions/checkout takes github.sha), acquires D-1 of the  *)
(* date it wakes on, and publishes through publish_push.sh: a rebase onto  *)
(* whatever main is by then, in which its own version of every conflicting *)
(* path under docs/ and data/raw/ wins.                                    *)
(***************************************************************************)
EXTENDS FinalPublication

VARIABLES
    lane,        \* which workflow holds the concurrency group
    pending,     \* the commit the pending daily job will check out, 0 if none
    daily        \* the daily job that holds the lane

dailyVars == <<lane, pending, daily>>
allVars == <<vars, dailyVars>>

Lane == {"free", "morning", "daily"}
DailyStep == {"acquire", "pipeline", "settled"}
Daily ==
    [step : DailyStep, pin : Nat, now : Nat, failed : BOOLEAN, work : Tree]

Idle(tree) ==
    [step |-> "acquire", pin |-> 0, now |-> 0, failed |-> FALSE, work |-> tree]

SharedInit ==
    /\ Init
    /\ lane = "free"
    /\ pending = 0
    /\ daily = Idle(history[1])

Target == daily.now - 1
Pinned == history[daily.pin]

-----------------------------------------------------------------------------
(* The concurrency group.                                                  *)

\* A cron, a dispatch or a push to .trigger/backfill; a newer pending job
\* replaces an older one.
DailyTriggered ==
    /\ pending' = Len(history)
    /\ UNCHANGED <<vars, lane, daily>>

\* A morning job took the one pending place.
DailyEvicted ==
    /\ pending # 0
    /\ pending' = 0
    /\ UNCHANGED <<vars, lane, daily>>

DailyStarts ==
    /\ lane = "free" /\ pending # 0
    /\ lane' = "daily"
    /\ pending' = 0
    /\ daily' = [step |-> "acquire", pin |-> pending, now |-> today,
                 failed |-> FALSE, work |-> history[pending]]
    /\ UNCHANGED vars

MorningStarts ==
    /\ lane = "free" /\ pending = 0
    /\ lane' = "morning"
    /\ UNCHANGED <<vars, pending, daily>>

\* The guard finds the backlog complete, or the job dies before it.
MorningSkips ==
    /\ lane = "morning" /\ phase = "idle"
    /\ lane' = "free"
    /\ UNCHANGED <<vars, pending, daily>>

MorningSteps ==
    /\ lane = "morning"
    /\ RunStep
    /\ lane' = IF phase' = "idle" THEN "free" ELSE "morning"
    /\ UNCHANGED <<pending, daily>>

-----------------------------------------------------------------------------
(* acquire_target in the daily job.                                        *)

Running(step) == lane = "daily" /\ daily.step = step

DailyGoes(step, failed, tree) ==
    /\ daily' = [daily EXCEPT !.step = step, !.failed = failed, !.work = tree]
    /\ UNCHANGED <<vars, lane, pending>>

DailyRecords(status) ==
    RecordStatus(daily.work, Target, status, daily.pin, NoReceipt)

\* The target is what the checkout already serves: acknowledge it, or refuse
\* when its proof does not hold.
DailyAlreadyServed ==
    /\ Running("acquire") /\ daily.work.latest = Target
    /\ IF PublicProven(SubSeq(history, 1, daily.pin), daily.work, Target)
       THEN DailyGoes("pipeline", FALSE, DailyRecords("already_finalized"))
       ELSE DailyGoes("settled", TRUE,
                DailyRecords(IF Target = LegacyDay
                             THEN "legacy_proof_limited" ELSE "acquisition_failed"))

DailyAcquirable ==
    /\ Running("acquire") /\ daily.work.latest # Target
    /\ IsNextTarget(Target, daily.work.latest, daily.work.legacyBound,
                    daily.work.ledger, daily.now)

DailyAcquires ==
    /\ DailyAcquirable
    /\ CandidatePreparable(daily.work, Target)
    /\ DailyGoes("pipeline", FALSE,
                 BundlePrefix(daily.work, Target, daily.pin, BundleSize))

\* A refusal, or a kill that leaves a part of the bundle.
DailyAcquireFails ==
    /\ DailyAcquirable
    /\ \/ \E status \in {"source_unavailable", "acquisition_failed"} :
            DailyGoes("settled", TRUE, DailyRecords(status))
       \/ /\ CandidatePreparable(daily.work, Target)
          /\ \E k \in 1..BundleSize :
                DailyGoes("settled", TRUE,
                          BundlePrefix(daily.work, Target, daily.pin, k))

\* The checkout's ordered target is another day, or a step before failed.
DailyRefusesEarly ==
    /\ Running("acquire")
    /\ DailyGoes("settled", TRUE, daily.work)

-----------------------------------------------------------------------------
(* run_daily, and everything the job does after it.                        *)

\* No unpublished day: only the derived outputs are refreshed.
DailyDerivesOnly ==
    /\ Running("pipeline")
    /\ BacklogComplete(daily.work.latest, daily.work.legacyBound,
                       daily.work.ledger, daily.now)
    /\ DailyGoes("settled", FALSE, daily.work)

DailyScored == [daily.work EXCEPT !.latest = Target]

DailyPublishes ==
    /\ Running("pipeline")
    /\ IsNextTarget(Target, daily.work.latest, daily.work.legacyBound,
                    daily.work.ledger, daily.now)
    /\ Finalizable(DailyScored, Pinned, daily.pin, Target)
    /\ DailyGoes("settled", FALSE, MarkFinalized(DailyScored, Target))

\* run_daily, the audit or any other required step fails, at any point.
DailyFails ==
    /\ Running("pipeline")
    /\ \E tree \in {daily.work, DailyScored, MarkFinalized(DailyScored, Target)} :
            DailyGoes("settled", TRUE, tree)

-----------------------------------------------------------------------------
(* stage_daily_outputs.sh and publish_push.sh.                             *)

\* After a failed step every contract path goes back to the checkout.
Staged(pinned, mine, failed) ==
    IF failed THEN pinned ELSE mine

\* (Faulty variant: the whole tree of the replayed commit is taken.)
RebasedWholesale(checkout, upstream, mine) == mine

\* One path after the rebase of a commit from checkout onto upstream: a path
\* both sides changed conflicts, and the replayed commit's version is taken.
Rebased(checkout, upstream, mine) == IF mine = checkout THEN upstream ELSE mine

RebasedTree(checkout, upstream, mine) ==
    [latest  |-> Rebased(checkout.latest, upstream.latest, mine.latest),
     store   |-> Rebased(checkout.store, upstream.store, mine.store),
     prov    |-> Rebased(checkout.prov, upstream.prov, mine.prov),
     cache   |-> upstream.cache \cup (mine.cache \ checkout.cache),
     receipt |-> [d \in Day |->
                    Rebased(checkout.receipt[d], upstream.receipt[d], mine.receipt[d])],
     ledger  |-> [d \in Day |->
                    Rebased(checkout.ledger[d], upstream.ledger[d], mine.ledger[d])],
     marker  |-> Rebased(checkout.marker, upstream.marker, mine.marker),
     inputs  |-> upstream.inputs,
     legacyBound |-> upstream.legacyBound]

DailyEnds ==
    /\ lane' = "free"
    /\ daily' = Idle(history[1])

DailyPushes ==
    /\ Running("settled")
    /\ Len(history) < MaxCommits                         \* bound: MaxCommits
    /\ history' = Append(history,
            RebasedTree(Pinned, Tip, Staged(Pinned, daily.work, daily.failed)))
    /\ DailyEnds
    /\ UNCHANGED <<today, phase, run, work, pending>>

\* The gate is red, five attempts lose, or the job cap ends the job.
DailyDies ==
    /\ lane = "daily"
    /\ DailyEnds
    /\ UNCHANGED <<vars, pending>>

-----------------------------------------------------------------------------
\* A daily job sees at most one midnight as well: its cap is four hours.
TimePasses ==
    /\ lane = "daily" => daily.now = today
    /\ Tick
    /\ UNCHANGED dailyVars

SharedNext ==
    \/ TimePasses
    \/ ForeignPush /\ UNCHANGED dailyVars
    \/ DailyTriggered \/ DailyEvicted \/ DailyStarts
    \/ MorningStarts \/ MorningSkips \/ MorningSteps
    \/ DailyAlreadyServed \/ DailyAcquires \/ DailyAcquireFails \/ DailyRefusesEarly
    \/ DailyDerivesOnly \/ DailyPublishes \/ DailyFails
    \/ DailyPushes \/ DailyDies

SharedSpec == SharedInit /\ [][SharedNext]_allVars

-----------------------------------------------------------------------------
(* Properties.                                                             *)

(* The number of record never moves back: however stale the checkout of a  *)
(* daily job, the day its push leaves on main is not older than the one it *)
(* found there.                                                            *)
RecordNeverRegresses ==
    [][Tip.latest <= history'[Len(history')].latest]_allVars

(* Whatever a killed or failed daily job left in its checkout, and whatever *)
(* it acknowledged, the marker on main is the legacy one, a refusal, or    *)
(* the pointer to a receipt main holds: the damage of 2026-08-19.          *)
MarkerIsProofOrRefusal ==
    LET m == Tip.marker
    IN  \/ m.status = "legacy_proof_limited"
        \/ m.code # "none" /\ m.pin = NoReceipt
        \/ m.status = "finalized" /\ m.pin # NoReceipt /\ m.pin = Tip.receipt[m.target]

(* What record_status says of it (final_publication.py:1113): a finalized   *)
(* marker carrying its receipt IS the proof pointer for an immutable        *)
(* published day.  So while the inputs are those the receipt names, the     *)
(* proof holds.                                                            *)
FinalizedMarkerIsProof == LastFinalProvable
=============================================================================
