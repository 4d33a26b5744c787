---------------------------- MODULE BacklogOrder ----------------------------
(***************************************************************************)
(* The ordered publication pointer of src/src/final_publication.py: which  *)
(* day the next publication commit may carry, and when a missing day is a  *)
(* disclosed gap rather than a hole.  Days are numbered; day 0 stands for  *)
(* the registered legacy day (2026-08-09), the last one published before   *)
(* the contract.  Only constant-level operators live here, so that every   *)
(* state machine of the project reads the same pointer.                    *)
(***************************************************************************)
EXTENDS Integers

CONSTANT MaxDay          \* the last calendar day of the model

ASSUME MaxDayAssumption == MaxDay \in Nat

Day == 0..MaxDay
LegacyDay == 0

(***************************************************************************)
(* Refusal reasons.  A reason code determines its stage and its public     *)
(* state (_REFUSAL_REASONS), so the stage is not stored beside it.         *)
(***************************************************************************)
Stage == {"source", "pipeline", "audit", "derived"}

ReasonCode ==
    {"source_unavailable", "source_acquisition_failed",
     "pipeline_validation_failed", "audit_validation_failed",
     "derived_validation_failed"}

DefaultCode(stage) ==
    CASE stage = "source"   -> "source_acquisition_failed"
      [] stage = "pipeline" -> "pipeline_validation_failed"
      [] stage = "audit"    -> "audit_validation_failed"
      [] stage = "derived"  -> "derived_validation_failed"

(***************************************************************************)
(* The refusal ledger has at most one file per day: a reason code and the  *)
(* day its first identical disclosure was generated.                       *)
(***************************************************************************)
NoEntry == [code |-> "none", on |-> 0]
Entry == [code : ReasonCode \cup {"none"}, on : Nat]
Ledger == [Day -> Entry]
EmptyLedger == [d \in Day |-> NoEntry]

\* (Faulty variant: the first disclosure of a day stands whatever its code.)
DiscloseOnce(l, t, code, on) ==
    IF l[t].code # "none" THEN l ELSE [l EXCEPT ![t] = [code |-> code, on |-> on]]

\* record_pipeline_failed's ledger write: an identical disclosure keeps its
\* bytes, the timestamp of the first one included.
Disclose(l, t, code, on) ==
    IF l[t].code = code THEN l ELSE [l EXCEPT ![t] = [code |-> code, on |-> on]]

\* (Faulty variant: any disclosure licenses the skip, a retryable defect of the
\* run included.)
LostSourceDisclosedAny(ledger, d) == ledger[d].code # "none"

\* Entry of the day exists, is of the source stage, and carries the one code
\* that licenses a skip.
LostSourceDisclosed(ledger, d) == ledger[d].code = "source_acquisition_failed"

\* Every day strictly between the last published day and the target is a
\* disclosed lost-source day.
PrefixGapDisclosed(ledger, last, target) ==
    \A d \in Day : last < d /\ d < target => LostSourceDisclosed(ledger, d)

\* (Faulty variant: the running day is taken for a closed one.)
RequiredTargetToday(now) == now

RequiredTarget(now) == now - 1

\* The pointer may walk past d only when its loss is disclosed and d is at
\* least one full day older than D-1.
Crossable(ledger, now, d) == LostSourceDisclosed(ledger, d) /\ d <= now - 2

\* (Faulty variant: the pointer advances by one disclosed day, not past every
\* consecutive one.)
IsNextTargetOneStep(t, latest, legacyBound, ledger, now) ==
    IF latest = LegacyDay /\ ~legacyBound
    THEN t = LegacyDay
    ELSE /\ latest < t
         /\ t <= RequiredTarget(now)
         /\ t = IF Crossable(ledger, now, latest + 1) THEN latest + 2 ELSE latest + 1

(***************************************************************************)
(* required_next_target: the legacy day until its verification receipt is  *)
(* bound; otherwise the first day after the latest published one, at or    *)
(* below D-1, that the walk cannot cross.  The code returns None when      *)
(* there is no such day.                                                   *)
(***************************************************************************)
IsNextTarget(t, latest, legacyBound, ledger, now) ==
    IF latest = LegacyDay /\ ~legacyBound
    THEN t = LegacyDay
    ELSE /\ latest < t
         /\ t <= RequiredTarget(now)
         /\ ~Crossable(ledger, now, t)
         /\ \A d \in Day : latest < d /\ d < t => Crossable(ledger, now, d)

BacklogComplete(latest, legacyBound, ledger, now) ==
    ~\E t \in Day : IsNextTarget(t, latest, legacyBound, ledger, now)
=============================================================================
