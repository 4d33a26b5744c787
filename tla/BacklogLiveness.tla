-------------------------- MODULE BacklogLiveness --------------------------
(***************************************************************************)
(* Whether the ordered backlog keeps moving when a provider day is lost    *)
(* for good.  The source keeps each day's files for a while and then drops *)
(* them (src/src/fetch_ngrams.py reads a temporary window); a day it has   *)
(* dropped answers every later acquisition the same way.  Runs are folded  *)
(* into their one effect on main; MissCode is the code under which such a  *)
(* run discloses the dropped day.                                          *)
(***************************************************************************)
EXTENDS OrderedBacklog

CONSTANT MissCode

ASSUME MissCodeAssumption ==
    MissCode \in {"source_unavailable", "source_acquisition_failed"}

VARIABLE lost                \* days whose files the provider has dropped

allVars == <<vars, lost>>

\* The provider drops a closed day, for ever.  Of a day main has published or
\* passed nobody asks again.
ProviderDrops(d) ==
    /\ latest < d /\ d < today
    /\ lost' = lost \cup {d}
    /\ UNCHANGED vars

BindsLegacy == BindLegacy /\ UNCHANGED lost

Publishes == \E t \in Day \ lost : PublishFinal(t) /\ UNCHANGED lost

\* A new disclosure carries today's date: the date decides nothing here, so
\* one written just before midnight is not told apart.
RefusesToday(t, code) ==
    /\ PublishRefusal(t, code)
    /\ ledger'[t].on \in {ledger[t].on, today}
    /\ UNCHANGED lost

\* compute_day finds nothing, or raises: the source step refuses.
RefusesLost == \E t \in lost : RefusesToday(t, MissCode)

\* A retryable defect of the run itself: a later stage fails, or the source step
\* of a day the provider still serves is killed or raises, which discloses it
\* under the code of a lost one.
RefusesDefect ==
    \E t \in Day, code \in {"source_acquisition_failed", "pipeline_validation_failed"} :
        RefusesToday(t, code)

LiveInit == Init /\ lost = {}

LiveNext ==
    \/ Tick /\ UNCHANGED lost
    \/ \E d \in Day : ProviderDrops(d)
    \/ BindsLegacy
    \/ Publishes
    \/ RefusesLost
    \/ RefusesDefect

(***************************************************************************)
(* The clock moves; three crons, the successor dispatch and the watchdog   *)
(* keep starting runs, so a run that can publish or disclose its target    *)
(* eventually does.  Defects of a run and the provider's losses are not    *)
(* fair: they may never happen.                                            *)
(***************************************************************************)
LiveSpec ==
    /\ LiveInit /\ [][LiveNext]_allVars
    /\ WF_allVars(Tick /\ UNCHANGED lost)
    /\ WF_allVars(BindsLegacy)
    /\ WF_allVars(Publishes)
    /\ WF_allVars(RefusesLost)

Settled(d) == d \in published \/ LostSourceDisclosed(ledger, d)

(* Every closed day is settled for good in the end, however many lost days  *)
(* in a row lie before it: published, or on record as a failed acquisition  *)
(* that no later run may take up or reword.  The day is old enough for      *)
(* every run in flight to see it as aged.                                   *)
EveryDayIsSettled ==
    \A d \in Day \ {LegacyDay} : d <= today - 3 ~> []Settled(d)

(* What required_next_target's docstring says of the walk (lines 296-299): *)
(* it exists because without it "one permanently lost provider day         *)
(* livelocks every later publication".  So a day the provider still serves *)
(* is not kept waiting for ever by a lost one before it.                   *)
LostDayNeverLivelocks ==
    \A d \in Day \ {LegacyDay} :
        d <= today - 3 /\ d \notin lost ~> d \in lost \/ Settled(d)
=============================================================================
