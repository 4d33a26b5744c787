----------------------- MODULE FinalPublicationProofs -----------------------
(***************************************************************************)
(* The morning lane, and the lane it shares with the daily job, proved for *)
(* every number of days, commits and input versions.                       *)
(***************************************************************************)
EXTENDS SharedPipeline, TLAPS

-----------------------------------------------------------------------------
(* Types of the contract's operators.                                      *)

LEMMA RecordStatusType ==
    ASSUME NEW tree \in Tree, NEW t \in Day, NEW status \in MarkerStatus,
           NEW base \in Nat, NEW pin \in Receipt
    PROVE  RecordStatus(tree, t, status, base, pin) \in Tree
  BY DEF RecordStatus, Tree, Marker

LEMMA NoReceiptType == NoReceipt \in Receipt
  BY InputVersionsAssumption DEF NoReceipt, Receipt

LEMMA BundleType ==
    ASSUME NEW tree \in Tree, NEW t \in Day, NEW base \in Nat, NEW k \in Nat
    PROVE  BundlePrefix(tree, t, base, k) \in Tree
<1> DEFINE r == [base |-> base, inputs |-> tree.inputs]
           m == [target |-> t, status |-> "target_ready", base |-> base, pin |-> r,
                 latest |-> tree.latest, code |-> "none"]
<1>1. r \in Receipt
  BY InputVersionsAssumption DEF Tree, Receipt, Inputs
<1>2. m \in Marker
  BY <1>1 DEF Marker, MarkerStatus, Tree
<1>3. [tree.receipt EXCEPT ![t] = r] \in [Day -> Receipt]
  BY <1>1 DEF Tree
<1> QED
  BY <1>1, <1>2, <1>3 DEF BundlePrefix, Tree

LEMMA MarkFinalizedType ==
    ASSUME NEW tree \in Tree, NEW t \in Day
    PROVE  MarkFinalized(tree, t) \in Tree
<1>1. tree.receipt[t].base \in Nat /\ tree.marker.pin \in Receipt
  BY DEF Tree, Marker, Receipt
<1> QED
  BY <1>1, RecordStatusType DEF MarkFinalized, MarkerStatus

LEMMA StageCode ==
    ASSUME NEW prior \in Marker, NEW t \in Day, NEW stage \in Stage
    PROVE  /\ ReasonCodeFor(prior, t, stage) \in ReasonCode
           /\ StateOf(ReasonCodeFor(prior, t, stage)) \in MarkerStatus
  BY DEF ReasonCodeFor, DefaultCode, Stage, ReasonCode, StateOf, MarkerStatus

LEMMA DiscloseType ==
    ASSUME NEW l \in Ledger, NEW t \in Day, NEW code \in ReasonCode, NEW on \in Nat
    PROVE  /\ Disclose(l, t, code, on) \in Ledger
           /\ \A d \in Day \ {t} : Disclose(l, t, code, on)[d] = l[d]
  BY DEF Disclose, Ledger, Entry

LEMMA RefusalTreeType ==
    ASSUME NEW parent \in Tree, NEW w \in Tree, NEW t \in Day, NEW stage \in Stage,
           NEW base \in Nat, NEW on \in Nat
    PROVE  RefusalTree(parent, w, t, stage, base, on) \in Tree
<1> DEFINE tree == [parent EXCEPT !.marker = w.marker]
           code == ReasonCodeFor(tree.marker, t, stage)
<1>1. tree \in Tree
  BY DEF Tree
<1>2. code \in ReasonCode /\ StateOf(code) \in MarkerStatus
  BY <1>1, StageCode DEF Tree
<1>3. DisclosedLatest(tree, t) \in Day
  BY <1>1 DEF DisclosedLatest, Tree, Marker
<1>4. Disclose(tree.ledger, t, code, on) \in Ledger
  BY <1>1, <1>2, DiscloseType DEF Tree
<1> QED
  BY <1>1, <1>2, <1>3, <1>4, NoReceiptType
     DEF RefusalTree, RecordPipelineFailed, Tree, Marker

-----------------------------------------------------------------------------
(* Type correctness.                                                       *)

LEMMA LegacyTreeType ==
    ASSUME NEW i \in Inputs, NEW bound \in BOOLEAN
    PROVE  LegacyTree(i, bound) \in Tree
<1>1. LegacyDay \in Day
  BY MaxDayAssumption DEF LegacyDay, Day
<1>2. EmptyLedger \in Ledger
  BY DEF EmptyLedger, NoEntry, Ledger, Entry
<1> QED
  BY <1>1, <1>2, NoReceiptType DEF LegacyTree, Tree, Marker, MarkerStatus

LEMMA HistoryTypes ==
    ASSUME TypeOK
    PROVE  /\ Len(history) \in Nat \ {0}
           /\ \A i \in 1..Len(history) : history[i] \in Tree
           /\ Tip \in Tree
           /\ phase # "idle" => Base \in Tree
  BY DEF TypeOK, Tip, Base

LEMMA RunTypes ==
    ASSUME TypeOK
    PROVE  /\ run.target \in Day /\ run.now \in Nat /\ run.base \in Nat
           /\ run.failed \in Stage \cup {"none"}
           /\ today \in Nat
           /\ \A stage \in Stage : [run EXCEPT !.failed = stage] \in Run
  BY MaxDayAssumption DEF TypeOK, Run

LEMMA EndRunType ==
    ASSUME TypeOK, EndRun
    PROVE  phase' \in Phase /\ run' \in Run /\ work' \in Tree /\ phase' = "idle"
<1>1. NoRun \in Run
  BY MaxDayAssumption DEF NoRun, Run, Day, LegacyDay
<1> QED
  BY <1>1, HistoryTypes DEF EndRun, Phase

THEOREM InitType == Init => TypeOK
<1> SUFFICES ASSUME Init PROVE TypeOK
  OBVIOUS
<1>1. PICK i \in Inputs, bound \in BOOLEAN : history = <<LegacyTree(i, bound)>>
  BY DEF Init
<1>2. history \in Seq(Tree) /\ Len(history) > 0 /\ history[1] \in Tree
  BY <1>1, LegacyTreeType
<1>3. NoRun \in Run
  BY MaxDayAssumption DEF NoRun, Run, Day, LegacyDay
<1> QED
  BY <1>2, <1>3, MaxDayAssumption DEF Init, TypeOK, Phase

\* The steps that only move the run on.
LEMMA StageType ==
    ASSUME TypeOK, NEW stage \in Stage, FailStage(stage), phase # "idle",
           work' \in Tree, UNCHANGED <<today, history>>
    PROVE  TypeOK'
<1>1. run' \in Run /\ run'.base = run.base /\ run'.now = run.now /\ phase' \in Phase
  BY RunTypes DEF FailStage, Phase, TypeOK, Run
<1> QED
  BY <1>1 DEF TypeOK

THEOREM StepType == TypeOK /\ [Next]_vars => TypeOK'
<1> SUFFICES ASSUME TypeOK, [Next]_vars PROVE TypeOK'
  OBVIOUS
<1> USE HistoryTypes, RunTypes
<1>1. CASE Tick
  BY <1>1, MaxDayAssumption DEF Tick, TypeOK
<1>2. CASE ForeignPush
  <2>1. PICK i \in Inputs : history' = Append(history, [Tip EXCEPT !.inputs = i])
    BY <1>2 DEF ForeignPush
  <2>2. [Tip EXCEPT !.inputs = i] \in Tree
    BY DEF Tree
  <2> QED
    BY <1>2, <2>1, <2>2 DEF ForeignPush, TypeOK
<1>3. CASE Guard
  <2>1. PICK t \in Day : run' = [target |-> t, now |-> today,
                                 base |-> Len(history), failed |-> "none"]
    BY <1>3 DEF Guard
  <2> QED
    BY <1>3, <2>1, MaxDayAssumption DEF Guard, TypeOK, Run, Phase
<1>4. CASE Abort
  BY <1>4, EndRunType DEF Abort, TypeOK
<1>5. CASE VerifyLegacy
  <2>1. [work EXCEPT !.legacyBound = TRUE] \in Tree
    BY DEF TypeOK, Tree
  <2>2. CASE FailStage("source") /\ UNCHANGED work
    BY <1>5, <2>2, StageType DEF VerifyLegacy, TypeOK, Stage
  <2>3. CASE ~(FailStage("source") /\ UNCHANGED work)
    BY <1>5, <2>1, <2>3 DEF VerifyLegacy, TypeOK, Phase
  <2> QED
    BY <2>2, <2>3
<1>7. CASE AcquireReady
  <2>1. BundlePrefix(work, run.target, run.base, BundleSize) \in Tree
    BY BundleType DEF TypeOK, BundleSize
  <2> QED
    BY <1>7, <2>1 DEF AcquireReady, Acquiring, TypeOK, Phase
<1>8. ASSUME NEW status \in {"source_unavailable", "acquisition_failed"},
             NEW k \in 0..BundleSize, AcquireRefused(status, k)
      PROVE  TypeOK'
  <2> DEFINE left == [BundlePrefix(work, run.target, run.base, k) EXCEPT !.marker = work.marker]
  <2>1. BundlePrefix(work, run.target, run.base, k) \in Tree
    BY BundleType DEF TypeOK, BundleSize
  <2>2. left \in Tree
    BY <2>1 DEF TypeOK, Tree
  <2>3. RecordStatus(left, run.target, status, run.base, NoReceipt) \in Tree
    BY <2>2, RecordStatusType, NoReceiptType DEF MarkerStatus
  <2> QED
    BY <1>8, <2>3, StageType DEF AcquireRefused, Acquiring, TypeOK, Stage
<1>9. ASSUME NEW k \in 0..BundleSize, AcquireKilled(k) PROVE TypeOK'
  <2>1. BundlePrefix(work, run.target, run.base, k) \in Tree
    BY BundleType DEF TypeOK, BundleSize
  <2> QED
    BY <1>9, <2>1, StageType DEF AcquireKilled, Acquiring, TypeOK, Stage
<1>10. Scored \in Tree /\ MarkFinalized(Scored, run.target) \in Tree
  <2>1. Scored \in Tree
    BY DEF Scored, TypeOK, Tree
  <2> QED
    BY <2>1, MarkFinalizedType
<1>11. CASE PipelineDone
  BY <1>10, <1>11 DEF PipelineDone, TypeOK, Phase
<1>12. CASE PipelineFailed
  BY <1>10, <1>12, StageType DEF PipelineFailed, TypeOK, Stage
<1>13. CASE AuditPasses \/ DerivedPasses
  BY <1>13 DEF AuditPasses, DerivedPasses, StagePasses, TypeOK, Phase
<1>14. CASE AuditFails \/ DerivedFails
  BY <1>14, StageType DEF AuditFails, DerivedFails, StageFails, TypeOK, Stage
<1>15. CASE MakeCandidate
  <2>1. run.failed \in Stage =>
            RefusalTree(Base, work, run.target, run.failed, run.base, today) \in Tree
    BY <1>15, RefusalTreeType DEF MakeCandidate, TypeOK
  <2>2. work' \in Tree
    BY <1>15, <2>1 DEF MakeCandidate, TypeOK
  <2> QED
    BY <1>15, <2>2 DEF MakeCandidate, TypeOK, Phase
<1>16. CASE GateGreen \/ CheckRemote
  BY <1>16 DEF GateGreen, CheckRemote, TypeOK, Phase
<1>17. CASE Push
  <2>1. run.base = Len(history) /\ SubSeq(history, 1, run.base) = history
    BY <1>17 DEF Push, RemoteIsBase, TypeOK
  <2>2. history' = Append(history, work)
    BY <1>17, <2>1 DEF Push
  <2> QED
    BY <1>17, <2>2, EndRunType DEF Push, TypeOK
<1>18. CASE UNCHANGED vars
  BY <1>18 DEF vars, TypeOK
<1> QED
  BY <1>1, <1>2, <1>3, <1>4, <1>5, <1>7, <1>8, <1>9, <1>11, <1>12, <1>13,
     <1>14, <1>15, <1>16, <1>17, <1>18
     DEF Next, RunStep, Acquire

(* Every variable stays in its domain. *)
THEOREM TypeCorrect == Spec => []TypeOK
  BY InitType, StepType, PTL DEF Spec

-----------------------------------------------------------------------------
(* The run stays rooted in its frozen base.                                *)

\* mark_finalized on the scored bundle is the base plus one published day.
LEMMA FinalizedBundle ==
    ASSUME NEW tree \in Tree, NEW t \in Day, NEW base \in Nat
    PROVE  MarkFinalized([BundlePrefix(tree, t, base, BundleSize) EXCEPT !.latest = t], t)
                = FinalTree(tree, t, base)
<1> DEFINE r == [base |-> base, inputs |-> tree.inputs]
           m == [target |-> t, status |-> "target_ready", base |-> base, pin |-> r,
                 latest |-> tree.latest, code |-> "none"]
           b == [tree EXCEPT !.latest = t, !.cache = @ \cup {t}, !.store = @ \cup {t},
                             !.prov = @ \cup {t},
                             !.receipt = [@ EXCEPT ![t] = r], !.marker = m]
<1> DEFINE whole == [tree EXCEPT !.cache = @ \cup {t}, !.store = @ \cup {t},
                                !.prov = @ \cup {t},
                                !.receipt = [@ EXCEPT ![t] = r], !.marker = m]
<1>0. BundlePrefix(tree, t, base, BundleSize) = whole
  BY DEF BundlePrefix, BundleSize
<1>1. [BundlePrefix(tree, t, base, BundleSize) EXCEPT !.latest = t] = b
  <2>1. [whole EXCEPT !.latest = t] = b
    BY DEF Tree
  <2> QED
    BY <1>0, <2>1
<1>2. b.receipt[t] = r /\ b.marker = m /\ b.latest = t
  BY DEF Tree
<1>3. ~ProtectedFinal(b.marker, t)
  BY <1>2 DEF ProtectedFinal
<1>4. RecordStatus(b, t, "finalized", base, r)
        = [b EXCEPT !.marker = [target |-> t, status |-> "finalized", base |-> base,
                                pin |-> r, latest |-> t, code |-> "none"]]
  BY <1>2, <1>3 DEF RecordStatus
<1>5. @ = FinalTree(tree, t, base)
  BY DEF FinalTree, Tree
<1>6. MarkFinalized(b, t) = RecordStatus(b, t, "finalized", base, r)
  BY <1>2 DEF MarkFinalized
<1> QED
  BY <1>1, <1>4, <1>5, <1>6

\* A step that leaves the history and the clock alone cannot move the base.
LEMMA FailedStageRooted ==
    ASSUME TypeOK, RunRooted, phase # "idle", NEW stage \in Stage, FailStage(stage),
           UNCHANGED <<today, history>>
    PROVE  RunRooted'
<1>1. /\ run'.target = run.target /\ run'.now = run.now /\ run'.base = run.base
      /\ run'.failed = stage /\ phase' = "settled"
  BY DEF FailStage, TypeOK, Run
<1>2. Base' = Base /\ ~Clean'
  BY <1>1 DEF Base, Clean, Stage
<1> QED
  BY <1>1, <1>2 DEF RunRooted, Clean, OnFinalPath, Stepping, Built

LEMMA EndedRunRooted == ASSUME EndRun PROVE RunRooted'
  BY DEF EndRun, RunRooted

THEOREM StepRooted == TypeOK /\ RunRooted /\ [Next]_vars => RunRooted'
<1> SUFFICES ASSUME TypeOK, RunRooted, [Next]_vars PROVE RunRooted'
  OBVIOUS
<1> USE RunTypes
<1>1. CASE Tick
  <2>1. Base' = Base
    BY <1>1 DEF Tick, Base
  <2>2. phase # "idle" => today' <= run.now + 1 /\ today <= today'
    BY <1>1 DEF Tick
  <2> QED
    BY <1>1, <2>1, <2>2
       DEF Tick, RunRooted, Clean, OnFinalPath, Stepping, Built
<1>2. CASE ForeignPush
  <2>1. phase # "idle" => Base' = Base
    BY <1>2 DEF ForeignPush, Base, TypeOK
  <2> QED
    BY <1>2, <2>1 DEF ForeignPush, RunRooted, Clean, OnFinalPath, Stepping, Built
<1>3. CASE Guard
  <2>1. PICK t \in Day :
            /\ IsNextTarget(t, Tip.latest, Tip.legacyBound, Tip.ledger, today)
            /\ run' = [target |-> t, now |-> today, base |-> Len(history),
                       failed |-> "none"]
    BY <1>3 DEF Guard
  <2>2. Base' = Tip /\ work' = Tip /\ phase' = "acquire" /\ today' = today
    BY <1>3, <2>1 DEF Guard, Base, Tip
  <2> QED
    BY <2>1, <2>2 DEF RunRooted, Clean, OnFinalPath, Stepping, Built
<1>4. CASE Abort
  BY <1>4, EndedRunRooted DEF Abort
<1>5. CASE VerifyLegacy
  <2>1. CASE FailStage("source") /\ UNCHANGED work
    BY <1>5, <2>1, FailedStageRooted DEF VerifyLegacy, Stage
  <2>2. CASE ~(FailStage("source") /\ UNCHANGED work)
    BY <1>5, <2>2
       DEF VerifyLegacy, RunRooted, Base, Clean, OnFinalPath, Stepping, Built
  <2> QED
    BY <2>1, <2>2
<1>7. CASE AcquireReady
  BY <1>7 DEF AcquireReady, Acquiring, RunRooted, Base, Clean, OnFinalPath,
              Stepping, Built
<1>8. ASSUME NEW status \in {"source_unavailable", "acquisition_failed"},
             NEW k \in 0..BundleSize, AcquireRefused(status, k)
      PROVE  RunRooted'
  BY <1>8, FailedStageRooted DEF AcquireRefused, Acquiring, Stage
<1>9. ASSUME NEW k \in 0..BundleSize, AcquireKilled(k) PROVE RunRooted'
  BY <1>9, FailedStageRooted DEF AcquireKilled, Acquiring, Stage
<1>11. CASE PipelineDone
  <2>1. work' = FinalTree(Base, run.target, run.base)
    BY <1>11, FinalizedBundle, HistoryTypes
       DEF PipelineDone, Scored, RunRooted
  <2> QED
    BY <1>11, <2>1
       DEF PipelineDone, RunRooted, Base, Clean, OnFinalPath, Stepping, Built
<1>12. CASE PipelineFailed
  BY <1>12, FailedStageRooted DEF PipelineFailed, Stage
<1>13. CASE AuditPasses \/ DerivedPasses
  BY <1>13 DEF AuditPasses, DerivedPasses, StagePasses, RunRooted, Base, Clean,
               OnFinalPath, Stepping, Built
<1>14. CASE AuditFails \/ DerivedFails
  BY <1>14, FailedStageRooted DEF AuditFails, DerivedFails, StageFails, Stage
<1>15. CASE MakeCandidate
  <2>1. Base' = Base /\ phase' = "candidate" /\ UNCHANGED <<run, today>>
    BY <1>15 DEF MakeCandidate, Base
  <2>2. ASSUME run.failed # "none"
        PROVE  \E code \in ReasonCode, on \in run.now..today :
                    work'.ledger = Disclose(Base.ledger, run.target, code, on)
    <3> DEFINE tree == [Base EXCEPT !.marker = work.marker]
               code == ReasonCodeFor(tree.marker, run.target, run.failed)
    <3>1. Base \in Tree /\ work' = RefusalTree(Base, work, run.target, run.failed, run.base, today)
      BY <1>15, <2>2, HistoryTypes DEF MakeCandidate
    <3>2. code \in ReasonCode
      BY <2>2, <3>1, StageCode DEF TypeOK, Tree
    <3>3. work'.ledger = Disclose(Base.ledger, run.target, code, today)
      BY <3>1 DEF RefusalTree, RecordPipelineFailed, Tree
    <3>4. today \in run.now..today
      BY <1>15 DEF MakeCandidate, TypeOK
    <3> QED
      BY <3>2, <3>3, <3>4
  <2> QED
    BY <1>15, <2>1, <2>2
       DEF MakeCandidate, RunRooted, Clean, OnFinalPath, Stepping, Built
<1>16. CASE GateGreen \/ CheckRemote
  BY <1>16 DEF GateGreen, CheckRemote, RunRooted, Base, Clean, OnFinalPath,
               Stepping, Built
<1>17. CASE Push
  BY <1>17, EndedRunRooted DEF Push
<1>18. CASE UNCHANGED vars
  BY <1>18 DEF vars, RunRooted, Base, Clean, OnFinalPath, Stepping, Built
<1> QED
  BY <1>1, <1>2, <1>3, <1>4, <1>5, <1>7, <1>8, <1>9, <1>11, <1>12, <1>13,
     <1>14, <1>15, <1>16, <1>17, <1>18
     DEF Next, RunStep, Acquire

(* A run stays rooted in the commit and the date it froze. *)
THEOREM RunsRooted == Spec => []RunRooted
<1>1. Init => RunRooted
  BY DEF Init, RunRooted
<1> QED
  BY <1>1, StepRooted, TypeCorrect, PTL DEF Spec

-----------------------------------------------------------------------------
(* What a push appends.                                                    *)

LEMMA PushAppends ==
    ASSUME TypeOK, RunRooted, Push
    PROVE  /\ run.base = Len(history) /\ Base = Tip
           /\ history' = Append(history, work)
           /\ Tip' = work
           /\ IsNextTarget(run.target, Tip.latest, Tip.legacyBound, Tip.ledger, run.now)
           /\ OnFinalPath => /\ CandidatePreparable(Tip, run.target)
                             /\ work = FinalTree(Tip, run.target, Len(history))
           /\ Clean /\ ~OnFinalPath => work = [Tip EXCEPT !.legacyBound = TRUE]
           /\ ~Clean => ReleaseRefusalOk(Tip, work, Len(history), run.target)
<1>1. run.base = Len(history) /\ SubSeq(history, 1, run.base) = history
  BY DEF Push, RemoteIsBase, TypeOK
<1>2. Base = Tip /\ history' = Append(history, work)
  BY <1>1 DEF Push, Base, Tip
<1>3. Tip' = work
  BY <1>2 DEF Tip, TypeOK
<1>4. phase = "checked" /\ ReleaseOk
  BY DEF Push
<1>5. ~Clean => ReleaseRefusalOk(Tip, work, Len(history), run.target)
  BY <1>1, <1>2, <1>4 DEF ReleaseOk, Class, Clean
<1> QED
  BY <1>1, <1>2, <1>3, <1>4, <1>5 DEF RunRooted, Stepping, OnFinalPath

\* A run can only append, and only Push and ForeignPush do.
LEMMA OthersKeepMain ==
    ASSUME [Next]_vars, ~ForeignPush, ~Push
    PROVE  UNCHANGED history
  BY DEF Next, RunStep, Acquire, Tick, Guard, Abort, EndRun, VerifyLegacy,
         AcquireReady, AcquireRefused, AcquireKilled,
         PipelineDone, PipelineFailed, AuditPasses, AuditFails, DerivedPasses,
         DerivedFails, StagePasses, StageFails, MakeCandidate, GateGreen,
         CheckRemote, vars

LEMMA ClockSteps ==
    ASSUME [Next]_vars, ~Tick
    PROVE  UNCHANGED today
<1>1. CASE Acquire
  BY <1>1 DEF Acquire, VerifyLegacy, AcquireReady, AcquireRefused,
              AcquireKilled
<1>2. CASE ~Acquire
  BY <1>2 DEF Next, RunStep, ForeignPush, Guard, Abort, PipelineDone, PipelineFailed,
              AuditPasses, AuditFails, DerivedPasses, DerivedFails, StagePasses,
              StageFails, MakeCandidate, GateGreen, CheckRemote, Push, vars
<1> QED
  BY <1>1, <1>2

LEMMA AppendedTree ==
    ASSUME TypeOK, NEW tree \in Tree, history' = Append(history, tree)
    PROVE  /\ Len(history') = Len(history) + 1
           /\ Tip' = tree
           /\ \A i \in 1..Len(history) : history'[i] = history[i]
           /\ history'[Len(history) + 1] = tree
  BY DEF TypeOK, Tip

-----------------------------------------------------------------------------
(* The public record is ordered and closed.                                *)

\* The pointer's walk and the prefix test agree on what a gap is.
LEMMA TargetAboveLatest ==
    ASSUME NEW tree \in Tree, NEW t \in Day, NEW now \in Int, t # LegacyDay,
           IsNextTarget(t, tree.latest, tree.legacyBound, tree.ledger, now)
    PROVE  tree.latest < t /\ t < now
  BY DEF IsNextTarget, RequiredTarget, Day, LegacyDay

LEMMA FinalTreeOrdered ==
    ASSUME NEW tree \in Tree, NEW t \in Day, NEW base \in Nat \ {0}, t # LegacyDay,
           OrderedTree(tree), CandidatePreparable(tree, t), tree.latest < t
    PROVE  OrderedTree(FinalTree(tree, t, base))
<1> DEFINE new == FinalTree(tree, t, base)
           r == [base |-> base, inputs |-> tree.inputs]
<1>1. /\ new.latest = t /\ new.store = tree.store \cup {t}
      /\ new.prov = tree.prov \cup {t} /\ new.cache = tree.cache \cup {t}
      /\ new.receipt = [tree.receipt EXCEPT ![t] = r] /\ new.ledger = tree.ledger
  BY DEF FinalTree, Tree
<1>2. tree.store \in SUBSET Day /\ tree.latest \in Day /\ tree.receipt \in [Day -> Receipt]
  BY DEF Tree
<1>3. \A d \in Day : d <= d
  BY DEF Day
<1>4. IsLast(new.latest, new.store)
  BY <1>1, <1>2, <1>3 DEF OrderedTree, IsLast, CandidatePreparable, Day
<1>5. new.prov = new.store /\ new.store \subseteq new.cache
  BY <1>1 DEF OrderedTree
<1>6. \A d \in Day \ {LegacyDay} : d \in new.store <=> new.receipt[d] # NoReceipt
  <2>1. r # NoReceipt
    BY DEF NoReceipt
  <2> QED
    BY <1>1, <1>2, <2>1 DEF OrderedTree
<1>7. ASSUME NEW d \in Day, d < new.latest, d \notin new.store
      PROVE  new.ledger[d].code = "source_acquisition_failed"
  <2>1. d # tree.latest
    BY <1>1, <1>7 DEF OrderedTree, IsLast
  <2>2. CASE d < tree.latest
    BY <1>1, <1>7, <2>2 DEF OrderedTree
  <2>3. CASE tree.latest < d
    BY <1>1, <1>7, <2>3 DEF CandidatePreparable, PrefixGapDisclosed, LostSourceDisclosed
  <2> QED
    BY <1>2, <2>1, <2>2, <2>3 DEF Day
<1> QED
  BY <1>4, <1>5, <1>6, <1>7 DEF OrderedTree

LEMMA RefusalOrdered ==
    ASSUME NEW parent \in Tree, NEW cand \in Tree, NEW t \in Day, NEW base \in Nat,
           OrderedTree(parent), ReleaseRefusalOk(parent, cand, base, t)
    PROVE  /\ OrderedTree(cand)
           /\ parent.latest < t
           /\ \A d \in Day \ {t} : cand.ledger[d] = parent.ledger[d]
           /\ cand.store = parent.store /\ cand.latest = parent.latest
           /\ cand.receipt = parent.receipt /\ cand.legacyBound = parent.legacyBound
           /\ cand.inputs = parent.inputs
<1>1. parent.latest < t
  BY DEF ReleaseRefusalOk, RefusalMarkerOk
<1>2. /\ cand.store = parent.store /\ cand.prov = parent.prov
      /\ cand.cache = parent.cache /\ cand.latest = parent.latest
      /\ cand.receipt = parent.receipt /\ cand.legacyBound = parent.legacyBound
      /\ cand.inputs = parent.inputs
      /\ cand.ledger = [parent.ledger EXCEPT ![t] = cand.ledger[t]]
  BY DEF ReleaseRefusalOk, Tree
<1>3. \A d \in Day \ {t} : cand.ledger[d] = parent.ledger[d]
  BY <1>2 DEF Tree, Ledger
<1>4. \A d \in Day : d < parent.latest => cand.ledger[d] = parent.ledger[d]
  BY <1>1, <1>3 DEF Tree, Day
<1> QED
  BY <1>1, <1>2, <1>3, <1>4 DEF OrderedTree

LEMMA SameContractOrdered ==
    ASSUME NEW tree \in Tree, OrderedTree(tree), NEW i \in Inputs
    PROVE  /\ OrderedTree([tree EXCEPT !.inputs = i])
           /\ OrderedTree([tree EXCEPT !.legacyBound = TRUE])
  BY DEF OrderedTree, Tree

THEOREM StepOrdered ==
    TypeOK /\ RunRooted /\ MainOrdered /\ [Next]_vars => MainOrdered'
<1> SUFFICES ASSUME TypeOK, RunRooted, MainOrdered, [Next]_vars PROVE MainOrdered'
  OBVIOUS
<1> USE HistoryTypes, RunTypes
<1>0. OrderedTree(Tip)
  BY DEF MainOrdered, Tip
<1>1. ASSUME NEW tree \in Tree, history' = Append(history, tree), OrderedTree(tree)
      PROVE  MainOrdered'
  <2>1. \A i \in 1..Len(history') : i \in 1..Len(history) \/ i = Len(history) + 1
    BY <1>1, AppendedTree
  <2> QED
    BY <1>1, <2>1, AppendedTree DEF MainOrdered
<1>2. CASE ForeignPush
  <2>1. PICK i \in Inputs : history' = Append(history, [Tip EXCEPT !.inputs = i])
    BY <1>2 DEF ForeignPush
  <2>2. [Tip EXCEPT !.inputs = i] \in Tree
    BY DEF Tree
  <2> QED
    BY <1>0, <1>1, <2>1, <2>2, SameContractOrdered
<1>3. CASE Push
  <2>1. work \in Tree
    BY DEF TypeOK
  <2>2. CASE OnFinalPath
    BY <1>0, <1>1, <1>3, <2>1, <2>2, PushAppends, FinalTreeOrdered, TargetAboveLatest
       DEF OnFinalPath
  <2>3. CASE Clean /\ ~OnFinalPath
    BY <1>0, <1>1, <1>3, <2>1, <2>3, PushAppends, SameContractOrdered
       DEF Tree
  <2>4. CASE ~Clean
    BY <1>0, <1>1, <1>3, <2>1, <2>4, PushAppends, RefusalOrdered
  <2> QED
    BY <2>2, <2>3, <2>4
<1>4. CASE UNCHANGED history
  BY <1>4 DEF MainOrdered
<1> QED
  BY <1>2, <1>3, <1>4, OthersKeepMain

(* No commit of main has a hole, for any number of days, commits, foreign  *)
(* pushes, kills and rollbacks.                                            *)
THEOREM MainStaysOrdered == Spec => []MainOrdered
<1>1. Init => MainOrdered
  <2> SUFFICES ASSUME Init PROVE MainOrdered
    OBVIOUS
  <2>1. PICK i \in Inputs, bound \in BOOLEAN : history = <<LegacyTree(i, bound)>>
    BY DEF Init
  <2>2. OrderedTree(LegacyTree(i, bound))
    BY DEF LegacyTree, OrderedTree, IsLast, Day, LegacyDay
  <2> QED
    BY <2>1, <2>2 DEF MainOrdered
<1> QED
  BY <1>1, StepOrdered, RunsRooted, TypeCorrect, PTL DEF Spec

(* Main never carries the running day or a later one. *)
THEOREM MainStaysClosed == Spec => []OnlyClosedDays
<1>1. Init => OnlyClosedDays
  <2> SUFFICES ASSUME Init PROVE OnlyClosedDays
    OBVIOUS
  <2>1. PICK i \in Inputs, bound \in BOOLEAN : history = <<LegacyTree(i, bound)>>
    BY DEF Init
  <2> QED
    BY <2>1 DEF Init, OnlyClosedDays, Tip, LegacyTree, LegacyDay
<1>2. TypeOK /\ RunRooted /\ OnlyClosedDays /\ [Next]_vars => OnlyClosedDays'
  <2> SUFFICES ASSUME TypeOK, RunRooted, OnlyClosedDays, [Next]_vars
               PROVE  OnlyClosedDays'
    OBVIOUS
  <2> USE HistoryTypes, RunTypes
  <2>0. /\ today' >= today /\ today' \in Nat
        /\ ForeignPush \/ Push => today' = today
    <3>1. CASE Tick
      BY <3>1 DEF Tick, ForeignPush, Push, EndRun
    <3>2. CASE ~Tick
      BY <3>2, ClockSteps
    <3> QED
      BY <3>1, <3>2
  <2>1. CASE ForeignPush
    <3>1. PICK i \in Inputs : history' = Append(history, [Tip EXCEPT !.inputs = i])
      BY <2>1 DEF ForeignPush
    <3>2. Tip'.store = Tip.store
      <4>1. [Tip EXCEPT !.inputs = i] \in Tree
        BY DEF Tree
      <4>2. [Tip EXCEPT !.inputs = i].store = Tip.store
        BY DEF Tree
      <4> QED
        BY <3>1, <4>1, <4>2, AppendedTree
    <3> QED
      BY <2>0, <2>1, <3>2 DEF OnlyClosedDays
  <2>2. CASE Push
    <3>1. \A d \in Tip'.store : d \in Tip.store \/ (OnFinalPath /\ d = run.target)
      <4>1. CASE OnFinalPath
        <5>1. FinalTree(Tip, run.target, Len(history)).store = Tip.store \cup {run.target}
          BY DEF FinalTree, Tree
        <5> QED
          BY <2>2, <4>1, <5>1, PushAppends
      <4>2. CASE Clean /\ ~OnFinalPath
        BY <2>2, <4>2, PushAppends DEF Tree
      <4>3. CASE ~Clean
        BY <2>2, <4>3, PushAppends DEF ReleaseRefusalOk, Tree
      <4> QED
        BY <4>1, <4>2, <4>3
    <3>2. OnFinalPath => run.target < run.now /\ run.now <= today
      <4>1. run.now \in 1..today
        BY <2>2 DEF TypeOK, Push
      <4> QED
        BY <2>2, <4>1, PushAppends, TargetAboveLatest DEF OnFinalPath
    <3> QED
      BY <2>0, <2>2, <3>1, <3>2 DEF OnlyClosedDays, Day
  <2>3. CASE UNCHANGED history
    BY <2>0, <2>3 DEF OnlyClosedDays, Tip, Tree, Day
  <2> QED
    BY <2>1, <2>2, <2>3, OthersKeepMain
<1> QED
  BY <1>1, <1>2, RunsRooted, TypeCorrect, PTL DEF Spec

(* No push removes or replaces a commit of main. *)
THEOREM MainOnlyGrows == Spec => MainNeverRewritten
<1>1. TypeOK /\ RunRooted /\ [Next]_vars
        => [SubSeq(history', 1, Len(history)) = history]_vars
  <2> SUFFICES ASSUME TypeOK, RunRooted, [Next]_vars
               PROVE  SubSeq(history', 1, Len(history)) = history
    OBVIOUS
  <2>1. history \in Seq(Tree)
    BY DEF TypeOK
  <2>2. CASE \E tree \in Tree : history' = Append(history, tree)
    BY <2>1, <2>2
  <2>3. CASE UNCHANGED history
    BY <2>1, <2>3
  <2>4. CASE ForeignPush
    <3>1. PICK i \in Inputs : history' = Append(history, [Tip EXCEPT !.inputs = i])
      BY <2>4 DEF ForeignPush
    <3>2. [Tip EXCEPT !.inputs = i] \in Tree
      BY HistoryTypes DEF Tree
    <3> QED
      BY <2>2, <3>1, <3>2
  <2>5. CASE Push
    BY <2>2, <2>5, PushAppends DEF TypeOK
  <2> QED
    BY <2>3, <2>4, <2>5, OthersKeepMain
<1> QED
  BY <1>1, RunsRooted, TypeCorrect, PTL DEF Spec, MainNeverRewritten

-----------------------------------------------------------------------------
(* Receipts.                                                               *)

\* A receipt once on main stays as it is.
ReceiptsKept ==
    \A d \in Day, i \in 1..Len(history) : \A j \in i..Len(history) :
        history[i].receipt[d] # NoReceipt => history[j].receipt[d] = history[i].receipt[d]

LEMMA IntroductionsKept ==
    ASSUME TypeOK, NEW tree \in Tree, NEW d \in Day,
           tree.receipt[d] # NoReceipt => Tip.receipt[d] # NoReceipt
    PROVE  Introductions(Append(history, tree), d) = Introductions(history, d)
<1> DEFINE h == Append(history, tree)
           n == Len(history)
<1>1. n \in Nat \ {0} /\ Len(h) = n + 1 /\ h[n + 1] = tree
      /\ \A i \in 1..n : h[i] = history[i]
  BY DEF TypeOK
<1>2. ASSUME NEW i \in 1..(n + 1)
      PROVE  i \in Introductions(h, d) <=> i \in Introductions(history, d)
  <2>1. CASE i \in 1..n
    <3>1. h[i] = history[i] /\ (i > 1 => h[i - 1] = history[i - 1])
      BY <1>1, <2>1
    <3> QED
      BY <1>1, <2>1, <3>1 DEF Introductions
  <2>2. CASE i = n + 1
    <3>1. h[i] = tree /\ i > 1 /\ h[i - 1] = Tip
      BY <1>1, <2>2 DEF Tip
    <3>2. i \notin Introductions(history, d)
      BY <1>1, <2>2 DEF Introductions
    <3>3. i \notin Introductions(h, d)
      BY <3>1 DEF Introductions
    <3> QED
      BY <3>2, <3>3
  <2> QED
    BY <1>1, <2>1, <2>2
<1>3. Introductions(h, d) \subseteq 1..(n + 1) /\ Introductions(history, d) \subseteq 1..(n + 1)
  BY <1>1 DEF Introductions
<1> QED
  BY <1>2, <1>3

LEMMA IntroducedHere ==
    ASSUME TypeOK, NEW tree \in Tree, NEW d \in Day, tree.receipt[d] # NoReceipt,
           \A i \in 1..Len(history) : history[i].receipt[d] = NoReceipt
    PROVE  Introductions(Append(history, tree), d) = {Len(history) + 1}
<1> DEFINE h == Append(history, tree)
           n == Len(history)
<1>1. n \in Nat \ {0} /\ Len(h) = n + 1 /\ h[n + 1] = tree
      /\ \A i \in 1..n : h[i] = history[i]
  BY DEF TypeOK
<1>2. \A i \in 1..n : i \notin Introductions(h, d)
  BY <1>1 DEF Introductions
<1>3. n + 1 \in Introductions(h, d)
  <2>1. n + 1 > 1 /\ h[n + 1 - 1] = history[n]
    BY <1>1
  <2> QED
    BY <1>1, <2>1 DEF Introductions
<1> QED
  BY <1>1, <1>2, <1>3 DEF Introductions

\* A commit that leaves the receipts alone, and one that adds a single receipt
\* rooted in its parent, both keep every receipt rooted.
LEMMA SameReceipts ==
    ASSUME TypeOK, ReceiptsRooted, ReceiptsKept, NEW tree \in Tree,
           history' = Append(history, tree), tree.receipt = Tip.receipt
    PROVE  ReceiptsRooted' /\ ReceiptsKept'
<1> DEFINE n == Len(history)
<1>1. /\ n \in Nat \ {0} /\ Len(history') = n + 1 /\ history'[n + 1] = tree
      /\ \A i \in 1..n : history'[i] = history[i]
      /\ history[n] = Tip
  BY AppendedTree DEF TypeOK, Tip
<1>2. \A d \in Day : Introductions(history', d) = Introductions(history, d)
  BY IntroductionsKept
<1>3. ReceiptsRooted'
  <2> SUFFICES ASSUME NEW d \in Day, NEW i \in 1..(n + 1),
                      history'[i].receipt[d] # NoReceipt
               PROVE  RootedReceipt(history', d, i)
    BY <1>1 DEF ReceiptsRooted
  <2>1. PICK j \in 1..n : j <= i /\ history'[i].receipt = history[j].receipt
    <3>1. CASE i \in 1..n
      BY <1>1, <3>1
    <3>2. CASE i = n + 1
      BY <1>1, <3>2
    <3> QED
      BY <1>1, <3>1, <3>2
  <2>2. PICK p \in 1..(j - 1) :
            /\ Introductions(history, d) = {p + 1}
            /\ history[j].receipt[d] = [base |-> p, inputs |-> history[p].inputs]
    BY <2>1 DEF ReceiptsRooted, RootedReceipt
  <2>3. p \in 1..(i - 1) /\ history'[p] = history[p]
    BY <1>1, <2>1
  <2> QED
    BY <1>2, <2>1, <2>2, <2>3 DEF RootedReceipt
<1>4. ReceiptsKept'
  <2> SUFFICES ASSUME NEW d \in Day, NEW i \in 1..(n + 1), NEW j \in i..(n + 1),
                      history'[i].receipt[d] # NoReceipt
               PROVE  history'[j].receipt[d] = history'[i].receipt[d]
    BY <1>1 DEF ReceiptsKept
  <2>1. CASE j \in 1..n
    <3>1. i \in 1..n /\ j \in i..n
      BY <1>1, <2>1
    <3> QED
      BY <1>1, <2>1, <3>1 DEF ReceiptsKept
  <2>2. CASE j = n + 1 /\ i \in 1..n
    <3>1. history'[j].receipt[d] = history[n].receipt[d]
      BY <1>1, <2>2
    <3>2. history[n].receipt[d] = history[i].receipt[d]
      <4>1. n \in i..n /\ history[i].receipt[d] # NoReceipt
        BY <1>1, <2>2
      <4> QED
        BY <2>2, <4>1 DEF ReceiptsKept
    <3> QED
      BY <1>1, <2>2, <3>1, <3>2
  <2>3. CASE j = n + 1 /\ i = n + 1
    BY <2>3
  <2> QED
    BY <1>1, <2>1, <2>2, <2>3
<1> QED
  BY <1>3, <1>4

LEMMA OneMoreReceipt ==
    ASSUME TypeOK, ReceiptsRooted, ReceiptsKept, NEW tree \in Tree, NEW t \in Day,
           history' = Append(history, tree), Tip.receipt[t] = NoReceipt,
           tree.receipt = [Tip.receipt EXCEPT
                ![t] = [base |-> Len(history), inputs |-> Tip.inputs]]
    PROVE  ReceiptsRooted' /\ ReceiptsKept'
<1> DEFINE n == Len(history)
           r == [base |-> n, inputs |-> Tip.inputs]
<1>1. /\ n \in Nat \ {0} /\ Len(history') = n + 1 /\ history'[n + 1] = tree
      /\ \A i \in 1..n : history'[i] = history[i] /\ history[i] \in Tree
      /\ history[n] = Tip /\ Tip \in Tree
  BY AppendedTree, HistoryTypes DEF TypeOK, Tip
<1>2. tree.receipt[t] = r /\ r # NoReceipt
      /\ \A d \in Day \ {t} : tree.receipt[d] = Tip.receipt[d]
  BY <1>1 DEF Tree, NoReceipt
<1>3. \A i \in 1..n : history[i].receipt[t] = NoReceipt
  <2> SUFFICES ASSUME NEW i \in 1..n, history[i].receipt[t] # NoReceipt PROVE FALSE
    OBVIOUS
  <2>1. n \in i..n
    BY <1>1
  <2>2. history[n].receipt[t] = history[i].receipt[t]
    BY <2>1 DEF ReceiptsKept
  <2> QED
    BY <1>1, <2>2
<1>4. Introductions(history', t) = {n + 1}
  BY <1>2, <1>3, IntroducedHere
<1>5. \A d \in Day \ {t} : Introductions(history', d) = Introductions(history, d)
  BY <1>2, IntroductionsKept
<1>6. ReceiptsRooted'
  <2> SUFFICES ASSUME NEW d \in Day, NEW i \in 1..(n + 1),
                      history'[i].receipt[d] # NoReceipt
               PROVE  RootedReceipt(history', d, i)
    BY <1>1 DEF ReceiptsRooted
  <2>1. CASE d = t
    <3>1. i = n + 1
      BY <1>1, <1>3, <2>1
    <3>2. n \in 1..(i - 1) /\ history'[n].inputs = Tip.inputs
      BY <1>1, <3>1
    <3> QED
      BY <1>1, <1>2, <1>4, <2>1, <3>1, <3>2 DEF RootedReceipt
  <2>2. CASE d # t
    <3>1. PICK j \in 1..n : j <= i /\ history'[i].receipt[d] = history[j].receipt[d]
      <4>1. CASE i \in 1..n
        BY <1>1, <4>1
      <4>2. CASE i = n + 1
        <5>1. history'[i] = tree /\ n \in 1..n /\ n <= i
          BY <1>1, <4>2
        <5>2. tree.receipt[d] = history[n].receipt[d]
          BY <1>1, <1>2, <2>2
        <5> QED
          BY <5>1, <5>2
      <4> QED
        BY <1>1, <4>1, <4>2
    <3>2. PICK p \in 1..(j - 1) :
              /\ Introductions(history, d) = {p + 1}
              /\ history[j].receipt[d] = [base |-> p, inputs |-> history[p].inputs]
      BY <3>1 DEF ReceiptsRooted, RootedReceipt
    <3>3. p \in 1..(i - 1) /\ history'[p] = history[p]
      BY <1>1, <3>1
    <3> QED
      BY <1>5, <2>2, <3>1, <3>2, <3>3 DEF RootedReceipt
  <2> QED
    BY <2>1, <2>2
<1>7. ReceiptsKept'
  <2> SUFFICES ASSUME NEW d \in Day, NEW i \in 1..(n + 1), NEW j \in i..(n + 1),
                      history'[i].receipt[d] # NoReceipt
               PROVE  history'[j].receipt[d] = history'[i].receipt[d]
    BY <1>1 DEF ReceiptsKept
  <2>1. CASE j \in 1..n
    <3>1. i \in 1..n /\ j \in i..n
      BY <1>1, <2>1
    <3> QED
      BY <1>1, <2>1, <3>1 DEF ReceiptsKept
  <2>2. CASE j = n + 1 /\ i \in 1..n
    <3>1. d # t
      BY <1>1, <1>3, <2>2
    <3>2. history[n].receipt[d] = history[i].receipt[d]
      <4>1. n \in i..n /\ history[i].receipt[d] # NoReceipt
        BY <1>1, <2>2
      <4> QED
        BY <2>2, <4>1 DEF ReceiptsKept
    <3> QED
      BY <1>1, <1>2, <2>2, <3>1, <3>2
  <2>3. CASE j = n + 1 /\ i = n + 1
    BY <2>3
  <2> QED
    BY <1>1, <2>1, <2>2, <2>3
<1> QED
  BY <1>6, <1>7

THEOREM StepReceipts ==
    /\ TypeOK /\ RunRooted /\ MainOrdered /\ ReceiptsRooted /\ ReceiptsKept
    /\ [Next]_vars
    => ReceiptsRooted' /\ ReceiptsKept'
<1> SUFFICES ASSUME TypeOK, RunRooted, MainOrdered, ReceiptsRooted, ReceiptsKept,
                    [Next]_vars
             PROVE  ReceiptsRooted' /\ ReceiptsKept'
  OBVIOUS
<1> USE HistoryTypes, RunTypes
<1>1. CASE ForeignPush
  <2>1. PICK i \in Inputs : history' = Append(history, [Tip EXCEPT !.inputs = i])
    BY <1>1 DEF ForeignPush
  <2>2. [Tip EXCEPT !.inputs = i] \in Tree /\ [Tip EXCEPT !.inputs = i].receipt = Tip.receipt
    BY DEF Tree
  <2> QED
    BY <2>1, <2>2, SameReceipts
<1>2. CASE Push
  <2>1. work \in Tree /\ history' = Append(history, work)
    BY <1>2, PushAppends DEF TypeOK
  <2>2. CASE OnFinalPath
    <3>1. work = FinalTree(Tip, run.target, Len(history))
      BY <1>2, <2>2, PushAppends
    <3>2. work.receipt = [Tip.receipt EXCEPT
                ![run.target] = [base |-> Len(history), inputs |-> Tip.inputs]]
      BY <3>1 DEF FinalTree, Tree
    <3>3. Tip.latest < run.target
      BY <1>2, <2>2, PushAppends, TargetAboveLatest DEF OnFinalPath
    <3>4. OrderedTree(Tip)
      BY DEF MainOrdered, Tip
    <3>5. run.target \notin Tip.store
      BY <3>3, <3>4 DEF OrderedTree, IsLast, Day, Tree
    <3>6. Tip.receipt[run.target] = NoReceipt
      BY <2>2, <3>4, <3>5 DEF OrderedTree, OnFinalPath
    <3> QED
      BY <2>1, <3>2, <3>6, OneMoreReceipt
  <2>3. CASE Clean /\ ~OnFinalPath
    BY <1>2, <2>1, <2>3, PushAppends, SameReceipts DEF Tree
  <2>4. CASE ~Clean
    <3>1. work.receipt = Tip.receipt
      BY <1>2, <2>4, PushAppends DEF ReleaseRefusalOk, Tree
    <3> QED
      BY <2>1, <3>1, SameReceipts
  <2> QED
    BY <2>2, <2>3, <2>4
<1>3. CASE UNCHANGED history
  BY <1>3 DEF ReceiptsRooted, ReceiptsKept, RootedReceipt
<1> QED
  BY <1>1, <1>2, <1>3, OthersKeepMain

(* Every published receipt stays rooted in the parent of its introduction. *)
THEOREM ReceiptsStayRooted == Spec => [](ReceiptsRooted /\ ReceiptsKept)
<1>1. Init => ReceiptsRooted /\ ReceiptsKept
  <2> SUFFICES ASSUME Init PROVE ReceiptsRooted /\ ReceiptsKept
    OBVIOUS
  <2>1. PICK i \in Inputs, bound \in BOOLEAN : history = <<LegacyTree(i, bound)>>
    BY DEF Init
  <2>2. Len(history) = 1 /\ \A d \in Day : history[1].receipt[d] = NoReceipt
    BY <2>1 DEF LegacyTree
  <2> QED
    BY <2>2 DEF ReceiptsRooted, ReceiptsKept
<1> QED
  BY <1>1, StepReceipts, RunsRooted, MainStaysOrdered, TypeCorrect, PTL DEF Spec

-----------------------------------------------------------------------------
(* What a run builds it can release.                                       *)

\* A marker on main names an earlier commit as its base and is never one of
\* a run in progress; the marker a run works on remembers the published day
\* of the run's base.
MarkersRooted ==
    \A i \in 1..Len(history) :
        history[i].marker.base < i /\ history[i].marker.status # "target_ready"

MarkerRemembers ==
    phase # "idle" /\ work.marker.status = "target_ready" =>
        work.marker.latest = Base.latest

\* The refusal a run has built passes its release proof, and its marker
\* repeats the code of the ledger entry.
RefusalReleasable ==
    Built /\ ~Clean /\ run.target # LegacyDay =>
        /\ ReleaseRefusalOk(Base, work, run.base, run.target)
        /\ work.ledger[run.target].code = work.marker.code

RunDiscloses == MarkersRooted /\ MarkerRemembers /\ RefusalReleasable

LEMMA RecordedStatus ==
    ASSUME NEW tree \in Tree, NEW t \in Day, NEW status, NEW base, NEW pin,
           status # "target_ready",
           RecordStatus(tree, t, status, base, pin).marker.status = "target_ready"
    PROVE  RecordStatus(tree, t, status, base, pin).marker = tree.marker
  BY DEF RecordStatus, Tree

LEMMA BundleMarker ==
    ASSUME NEW tree \in Tree, NEW t, NEW base, NEW k \in Nat
    PROVE  LET m == BundlePrefix(tree, t, base, k).marker
           IN  m = tree.marker \/ m.latest = tree.latest
  BY DEF BundlePrefix, Tree

LEMMA RefusalStatus ==
    ASSUME NEW parent \in Tree, NEW w \in Tree, NEW t, NEW stage, NEW base, NEW on
    PROVE  RefusalTree(parent, w, t, stage, base, on).marker.status # "target_ready"
<1> DEFINE tree == [parent EXCEPT !.marker = w.marker]
           code == ReasonCodeFor(tree.marker, t, stage)
<1>1. tree \in Tree
  BY DEF Tree
<1>2. RefusalTree(parent, w, t, stage, base, on).marker.status = StateOf(code)
  BY <1>1 DEF RefusalTree, RecordPipelineFailed, Tree
<1>3. StateOf(code) # "target_ready"
  BY DEF StateOf
<1> QED
  BY <1>2, <1>3

LEMMA BuiltRefusal ==
    ASSUME NEW parent \in Tree, NEW w \in Tree, NEW t \in Day, NEW stage \in Stage,
           NEW base \in Nat, NEW on \in Nat, parent.latest < t,
           parent.marker.base < base,
           w.marker.status = "target_ready" => w.marker.latest = parent.latest
    PROVE  LET cand == RefusalTree(parent, w, t, stage, base, on)
           IN  /\ ReleaseRefusalOk(parent, cand, base, t)
               /\ cand.ledger[t].code = cand.marker.code
               /\ cand.marker.status # "target_ready"
<1> DEFINE tree == [parent EXCEPT !.marker = w.marker]
           code == ReasonCodeFor(tree.marker, t, stage)
           cand == RefusalTree(parent, w, t, stage, base, on)
           m == [target |-> t, status |-> StateOf(code), base |-> base, pin |-> NoReceipt,
                 latest |-> DisclosedLatest(tree, t), code |-> code]
           l == Disclose(parent.ledger, t, code, on)
<1>1. tree \in Tree /\ tree.marker = w.marker /\ tree.latest = parent.latest
      /\ tree.ledger = parent.ledger
  BY DEF Tree
<1>2. code \in ReasonCode /\ StateOf(code) \in MarkerStatus
  BY <1>1, StageCode DEF Tree
<1>3. cand = [parent EXCEPT !.marker = m, !.ledger = l]
  BY <1>1 DEF RefusalTree, RecordPipelineFailed, Tree
<1>4. cand.marker = m /\ cand.ledger = l
  BY <1>3 DEF Tree
<1>5. DisclosedLatest(tree, t) = parent.latest
  BY <1>1 DEF DisclosedLatest
<1>6. l = [parent.ledger EXCEPT ![t] = l[t]] /\ l[t].code = code
  BY <1>2 DEF Disclose, Tree, Ledger
<1>7. cand.marker # parent.marker
  BY <1>4 DEF Tree, Marker
<1>8. cand = [parent EXCEPT !.marker = cand.marker,
                            !.ledger = [@ EXCEPT ![t] = cand.ledger[t]]]
  BY <1>3, <1>4, <1>6 DEF Tree
<1>9. RefusalMarkerOk(cand.marker, parent, base, t)
  BY <1>2, <1>4, <1>5 DEF RefusalMarkerOk
<1>10. StateOf(code) # "target_ready"
  BY DEF StateOf
<1> QED
  BY <1>4, <1>6, <1>7, <1>8, <1>9, <1>10 DEF ReleaseRefusalOk

\* The run's own steps, one by one, for the marker it carries.
LEMMA StepRemembers ==
    ASSUME TypeOK, RunRooted, MarkersRooted, MarkerRemembers, [Next]_vars
    PROVE  MarkerRemembers'
<1> USE HistoryTypes, RunTypes
<1>0. work \in Tree /\ Tip \in Tree
  BY DEF TypeOK
<1>1. CASE Tick
  BY <1>1 DEF Tick, MarkerRemembers, Base
<1>2. CASE ForeignPush
  <2>1. phase # "idle" => Base' = Base
    BY <1>2 DEF ForeignPush, Base, TypeOK
  <2> QED
    BY <1>2, <2>1 DEF ForeignPush, MarkerRemembers
<1>3. CASE Guard
  <2>1. work' = Tip /\ Tip.marker.status # "target_ready"
    BY <1>3 DEF Guard, MarkersRooted, Tip
  <2> QED
    BY <2>1 DEF MarkerRemembers
<1>4. CASE Abort \/ Push
  BY <1>4 DEF Abort, Push, EndRun, MarkerRemembers
<1>5. ASSUME phase # "idle", run'.base = run.base, UNCHANGED history,
             \/ work'.marker.status # "target_ready"
             \/ work'.marker = work.marker
             \/ work'.marker.latest = Base.latest
      PROVE  MarkerRemembers'
  BY <1>5 DEF MarkerRemembers, Base
<1>6. \A stage \in Stage : FailStage(stage) => run'.base = run.base
  BY DEF FailStage, TypeOK, Run
<1>7. CASE VerifyLegacy
  <2>1. [work EXCEPT !.legacyBound = TRUE].marker = work.marker
    BY <1>0 DEF Tree
  <2> QED
    BY <1>5, <1>6, <1>7, <2>1 DEF VerifyLegacy, Stage
<1>9. Acquiring => work = Base
  BY DEF Acquiring, RunRooted
<1>10. CASE AcquireReady
  <2>1. LET m == work'.marker IN m = work.marker \/ m.latest = work.latest
    BY <1>0, <1>10, BundleMarker DEF AcquireReady, BundleSize
  <2> QED
    BY <1>5, <1>9, <1>10, <2>1 DEF AcquireReady, Acquiring
<1>11. ASSUME NEW status \in {"source_unavailable", "acquisition_failed"},
              NEW k \in 0..BundleSize, AcquireRefused(status, k)
       PROVE  MarkerRemembers'
  <2> DEFINE left == [BundlePrefix(work, run.target, run.base, k) EXCEPT
                          !.marker = work.marker]
             recorded == RecordStatus(left, run.target, status, run.base, NoReceipt)
  <2>1. left \in Tree /\ left.marker = work.marker
    <3>1. BundlePrefix(work, run.target, run.base, k) \in Tree
      BY <1>0, BundleType DEF BundleSize
    <3> QED
      BY <1>0, <3>1 DEF Tree
  <2>2. recorded.marker.status = "target_ready" => recorded.marker = work.marker
    <3>1. run.target \in Day /\ status # "target_ready"
      OBVIOUS
    <3> HIDE DEF left
    <3> QED
      BY <2>1, <3>1, RecordedStatus
  <2>3. work' = recorded /\ FailStage("source") /\ phase # "idle" /\ UNCHANGED history
    BY <1>11 DEF AcquireRefused, Acquiring
  <2>4. run'.base = run.base
    BY <1>6, <2>3 DEF Stage
  <2> QED
    BY <1>5, <2>2, <2>3, <2>4
<1>12. ASSUME NEW k \in 0..BundleSize, AcquireKilled(k) PROVE MarkerRemembers'
  <2>1. LET m == work'.marker IN m = work.marker \/ m.latest = work.latest
    BY <1>0, <1>12, BundleMarker DEF AcquireKilled, BundleSize
  <2> QED
    BY <1>5, <1>6, <1>9, <1>12, <2>1 DEF AcquireKilled, Acquiring, Stage
<1>13. /\ Scored \in Tree /\ Scored.marker = work.marker
       /\ LET m == MarkFinalized(Scored, run.target).marker
          IN  m.status = "target_ready" => m = work.marker
  <2>1. Scored \in Tree /\ Scored.marker = work.marker
    BY <1>0 DEF Scored, Tree
  <2> QED
    BY <2>1, RecordedStatus DEF MarkFinalized
<1>14. CASE PipelineDone
  BY <1>5, <1>13, <1>14 DEF PipelineDone
<1>15. CASE PipelineFailed
  BY <1>5, <1>6, <1>13, <1>15 DEF PipelineFailed, Stage
<1>16. CASE AuditPasses \/ DerivedPasses \/ GateGreen \/ CheckRemote
  BY <1>16 DEF AuditPasses, DerivedPasses, StagePasses, GateGreen, CheckRemote,
               MarkerRemembers, Base
<1>17. CASE AuditFails \/ DerivedFails
  BY <1>5, <1>6, <1>17 DEF AuditFails, DerivedFails, StageFails, Stage
<1>18. CASE MakeCandidate
  <2>1. CASE run.failed = "none"
    BY <1>5, <1>18, <2>1 DEF MakeCandidate
  <2>2. CASE run.failed # "none"
    <3>1. work' = RefusalTree(Base, work, run.target, run.failed, run.base, today)
      BY <1>18, <2>2 DEF MakeCandidate
    <3>2. work'.marker.status # "target_ready"
      BY <1>0, <1>18, <3>1, RefusalStatus DEF MakeCandidate
    <3> QED
      BY <1>5, <1>18, <3>2 DEF MakeCandidate
  <2> QED
    BY <2>1, <2>2
<1>19. CASE UNCHANGED vars
  BY <1>19 DEF vars, MarkerRemembers, Base
<1> QED
  BY <1>1, <1>2, <1>3, <1>4, <1>7, <1>10, <1>11, <1>12, <1>14, <1>15, <1>16,
     <1>17, <1>18, <1>19 DEF Next, RunStep, Acquire

LEMMA StepReleasable ==
    ASSUME TypeOK, RunRooted, RunDiscloses, [Next]_vars
    PROVE  RefusalReleasable'
<1> USE HistoryTypes, RunTypes
<1>1. CASE MakeCandidate
  <2> SUFFICES ASSUME run.failed # "none", run.target # LegacyDay
               PROVE  RefusalReleasable'
    BY <1>1 DEF MakeCandidate, RefusalReleasable, Clean
  <2>1. /\ work' = RefusalTree(Base, work, run.target, run.failed, run.base, today)
        /\ phase # "idle" /\ Base' = Base /\ UNCHANGED run
    BY <1>1 DEF MakeCandidate, Base
  <2>2. Base.latest < run.target
    BY <2>1, TargetAboveLatest DEF RunRooted
  <2>3. Base.marker.base < run.base
    BY <2>1 DEF MarkersRooted, RunDiscloses, TypeOK, Base
  <2>4. work.marker.status = "target_ready" => work.marker.latest = Base.latest
    BY <2>1 DEF MarkerRemembers, RunDiscloses
  <2>5. work \in Tree /\ run.failed \in Stage
    BY DEF TypeOK
  <2> QED
    BY <2>1, <2>2, <2>3, <2>4, <2>5, BuiltRefusal DEF RefusalReleasable
<1>2. CASE ~MakeCandidate
  <2>1. Built' => Built /\ UNCHANGED <<run, work>> /\ Base' = Base
    <3>1. CASE Tick \/ UNCHANGED vars
      BY <3>1 DEF Tick, Built, Base, vars
    <3>2. CASE ForeignPush
      BY <3>2 DEF ForeignPush, Built, Base, TypeOK
    <3>3. CASE GateGreen \/ CheckRemote
      BY <3>3 DEF GateGreen, CheckRemote, Built, Base
    <3>4. CASE ~(Tick \/ UNCHANGED vars \/ ForeignPush \/ GateGreen \/ CheckRemote)
      BY <1>2, <3>4
         DEF Next, RunStep, Acquire, Guard, Abort, EndRun, VerifyLegacy,
             AcquireReady, AcquireRefused, AcquireKilled,
             FailStage, PipelineDone, PipelineFailed, AuditPasses, AuditFails,
             DerivedPasses, DerivedFails, StagePasses, StageFails, Push, Built
    <3> QED
      BY <3>1, <3>2, <3>3, <3>4
  <2> QED
    BY <2>1 DEF RunDiscloses, RefusalReleasable, Clean
<1> QED
  BY <1>1, <1>2

LEMMA StepMarkers ==
    ASSUME TypeOK, RunRooted, MarkersRooted, [Next]_vars
    PROVE  MarkersRooted'
<1> USE HistoryTypes, RunTypes
<1>1. ASSUME NEW tree \in Tree, history' = Append(history, tree),
             tree.marker.base <= Len(history), tree.marker.status # "target_ready"
      PROVE  MarkersRooted'
  <2>1. \A i \in 1..Len(history') : i \in 1..Len(history) \/ i = Len(history) + 1
    BY <1>1, AppendedTree
  <2>2. tree.marker.base < Len(history) + 1
    BY <1>1 DEF Tree, Marker
  <2> QED
    BY <1>1, <2>1, <2>2, AppendedTree DEF MarkersRooted
<1>2. Tip.marker.base <= Len(history) /\ Tip.marker.status # "target_ready"
  BY DEF MarkersRooted, Tip, Tree, Marker
<1>3. CASE ForeignPush
  <2>1. PICK i \in Inputs : history' = Append(history, [Tip EXCEPT !.inputs = i])
    BY <1>3 DEF ForeignPush
  <2>2. [Tip EXCEPT !.inputs = i] \in Tree
        /\ [Tip EXCEPT !.inputs = i].marker = Tip.marker
    BY DEF Tree
  <2> QED
    BY <1>1, <1>2, <2>1, <2>2
<1>4. CASE Push
  <2>1. work \in Tree /\ history' = Append(history, work)
    BY <1>4, PushAppends DEF TypeOK
  <2>2. CASE OnFinalPath
    <3>1. work = FinalTree(Tip, run.target, Len(history))
      BY <1>4, <2>2, PushAppends
    <3>2. work.marker.base = Len(history) /\ work.marker.status = "finalized"
      BY <3>1 DEF FinalTree, Tree
    <3> QED
      BY <1>1, <2>1, <3>2
  <2>3. CASE Clean /\ ~OnFinalPath
    <3>1. work.marker = Tip.marker
      BY <1>4, <2>3, PushAppends DEF Tree
    <3> QED
      BY <1>1, <1>2, <2>1, <3>1
  <2>4. CASE ~Clean
    <3>1. work.marker.base = Len(history) /\ work.marker.status # "target_ready"
      BY <1>4, <2>4, PushAppends DEF ReleaseRefusalOk, RefusalMarkerOk, StateOf
    <3> QED
      BY <1>1, <2>1, <3>1
  <2> QED
    BY <2>2, <2>3, <2>4
<1>5. CASE UNCHANGED history
  BY <1>5 DEF MarkersRooted
<1> QED
  BY <1>3, <1>4, <1>5, OthersKeepMain

LEMMA RunsDisclose == Spec => []RunDiscloses
<1>1. Init => RunDiscloses
  <2> SUFFICES ASSUME Init PROVE RunDiscloses
    OBVIOUS
  <2>1. PICK i \in Inputs, bound \in BOOLEAN : history = <<LegacyTree(i, bound)>>
    BY DEF Init
  <2>2. MarkersRooted
    BY <2>1 DEF MarkersRooted, LegacyTree
  <2> QED
    BY <2>2 DEF Init, RunDiscloses, MarkerRemembers, RefusalReleasable, Built
<1>2. TypeOK /\ RunRooted /\ RunDiscloses /\ [Next]_vars => RunDiscloses'
  BY StepMarkers, StepRemembers, StepReleasable DEF RunDiscloses
<1> QED
  BY <1>1, <1>2, RunsRooted, TypeCorrect, PTL DEF Spec

LEMMA BuiltFinal ==
    ASSUME TypeOK, MainOrdered, ReceiptsKept, NEW n \in 1..Len(history),
           NEW t \in Day, t # LegacyDay, history[n].latest < t,
           CandidatePreparable(history[n], t)
    PROVE  ReleaseFinalOk(SubSeq(history, 1, n), FinalTree(history[n], t, n), t)
<1> DEFINE parent == history[n]
           h == SubSeq(history, 1, n)
           cand == FinalTree(parent, t, n)
           lineage == Append(h, cand)
           r == [base |-> n, inputs |-> parent.inputs]
<1>1. parent \in Tree /\ OrderedTree(parent) /\ n \in Nat \ {0}
  BY HistoryTypes DEF MainOrdered
<1>2. /\ cand.latest = t /\ cand.store = parent.store \cup {t}
      /\ cand.prov = parent.prov \cup {t} /\ cand.cache = parent.cache \cup {t}
      /\ cand.receipt = [parent.receipt EXCEPT ![t] = r]
      /\ cand.ledger = parent.ledger /\ cand.inputs = parent.inputs
      /\ cand.marker = [target |-> t, status |-> "finalized", base |-> n, pin |-> r,
                        latest |-> t, code |-> "none"]
  BY <1>1 DEF FinalTree, Tree
<1>3. cand.receipt[t] = r /\ r # NoReceipt
  BY <1>1, <1>2 DEF Tree, NoReceipt
<1>4. /\ Len(lineage) = n + 1 /\ lineage[n + 1] = cand /\ lineage[n] = parent
      /\ \A i \in 1..n : lineage[i] = history[i]
  <2>1. h \in Seq(Tree) /\ Len(h) = n /\ \A i \in 1..n : h[i] = history[i]
    BY <1>1 DEF TypeOK
  <2> QED
    BY <1>1, <2>1
<1>5. \A i \in 1..n : history[i].receipt[t] = NoReceipt
  <2> SUFFICES ASSUME NEW i \in 1..n, history[i].receipt[t] # NoReceipt PROVE FALSE
    OBVIOUS
  <2>1. parent.receipt[t] # NoReceipt
    <3>1. n \in i..Len(history) /\ i \in 1..Len(history)
      BY HistoryTypes
    <3> QED
      BY <3>1 DEF ReceiptsKept
  <2>2. t \in parent.store
    BY <1>1, <2>1 DEF OrderedTree
  <2> QED
    BY <1>1, <2>2 DEF OrderedTree, IsLast, Tree, Day
<1>6. Introductions(lineage, t) = {n + 1}
  <2> HIDE DEF lineage, h, cand, r, parent
  <2>1. \A i \in 1..n : lineage[i].receipt[t] = NoReceipt
    BY <1>4, <1>5
  <2>2. lineage[n + 1].receipt[t] # NoReceipt
    BY <1>3, <1>4
  <2>3. n \in Nat \ {0} /\ Len(lineage) = n + 1
    BY <1>4, HistoryTypes
  <2>4. (n + 1) - 1 \in 1..n /\ \A i \in 1..(n + 1) : i \in 1..n \/ i = n + 1
    BY <2>3
  <2> QED
    BY <2>1, <2>2, <2>3, <2>4 DEF Introductions
<1>7. CommittedReceiptParent(lineage, cand, n)
  <2>1. cand.marker.target = t /\ cand.marker.pin = r /\ cand.marker.base = n
    BY <1>2
  <2>2. n < Len(lineage) /\ n > 0 /\ cand.receipt[t] = lineage[n + 1].receipt[t]
    BY <1>1, <1>4
  <2> QED
    BY <1>3, <1>6, <2>1, <2>2 DEF CommittedReceiptParent
<1>8. IsLast(t, cand.store) /\ IsLast(t, cand.prov)
  BY <1>1, <1>2 DEF CandidatePreparable, IsLast, Tree, Day
<1>9. cand.store \ {t} = parent.store /\ cand.prov \ {t} = parent.prov
  BY <1>1, <1>2 DEF CandidatePreparable, Tree, Day
<1>10. PrefixReaches(parent.store, cand.ledger, t) /\ PrefixReaches(parent.prov, cand.ledger, t)
  BY <1>2 DEF CandidatePreparable
<1>11. PromotionReceiptValid(cand, lineage[n], n, t, "finalized")
  BY <1>2, <1>3, <1>4, <1>8, <1>9, <1>10 DEF PromotionReceiptValid
<1>12. PublicProven(lineage, cand, t)
  BY <1>1, <1>2, <1>4, <1>7, <1>11 DEF PublicProven
<1> QED
  BY <1>2, <1>12 DEF ReleaseFinalOk

(* What the lane builds it can release: only the gate or a moved remote    *)
(* keeps a run that built a candidate from publishing or disclosing.       *)
THEOREM BuildsReleasable == Spec => []CandidateReleasable
<1>1. TypeOK /\ RunRooted /\ MainOrdered /\ ReceiptsKept /\ RunDiscloses
        => CandidateReleasable
  <2> SUFFICES ASSUME TypeOK, RunRooted, MainOrdered, ReceiptsKept, RunDiscloses, Built
               PROVE  ReleaseOk \/ (run.target = LegacyDay /\ run.failed # "none")
    BY DEF CandidateReleasable
  <2> USE HistoryTypes, RunTypes
  <2>1. /\ phase # "idle" /\ ~Stepping /\ run.base \in 1..Len(history)
        /\ IsNextTarget(run.target, Base.latest, Base.legacyBound, Base.ledger, run.now)
    BY DEF Built, Stepping, RunRooted, TypeOK
  <2>2. CASE OnFinalPath
    <3>1. /\ work = FinalTree(Base, run.target, run.base)
          /\ CandidatePreparable(Base, run.target)
      BY <2>1, <2>2 DEF RunRooted, Stepping
    <3>2. Base.latest < run.target /\ run.target # LegacyDay
      BY <2>1, <2>2, TargetAboveLatest DEF OnFinalPath
    <3>3. ReleaseFinalOk(SubSeq(history, 1, run.base), work, run.target)
      BY <2>1, <3>1, <3>2, BuiltFinal DEF Base
    <3> QED
      BY <2>2, <3>3 DEF ReleaseOk, Class, OnFinalPath, Clean
  <2>3. CASE Clean /\ ~OnFinalPath
    <3>1. work = [Base EXCEPT !.legacyBound = TRUE] /\ run.target = LegacyDay
      BY <2>1, <2>3 DEF RunRooted, OnFinalPath
    <3>2. ~Base.legacyBound
      BY <2>1, <3>1 DEF IsNextTarget, Tree, Day, LegacyDay
    <3> QED
      BY <2>3, <3>1, <3>2 DEF ReleaseOk, Class, ReleaseVerificationOk, Clean
  <2>4. CASE ~Clean
    BY <2>4 DEF RunDiscloses, RefusalReleasable, ReleaseOk, Class, Clean
  <2> QED
    BY <2>2, <2>3, <2>4
<1> QED
  BY <1>1, RunsDisclose, RunsRooted, MainStaysOrdered, ReceiptsStayRooted, TypeCorrect, PTL

-----------------------------------------------------------------------------
(* What the marker on main says.                                           *)

(* A refused day never reads as published. *)
THEOREM RefusalsTellTruth == Spec => []RefusalTellsTruth
<1>1. Init => RefusalTellsTruth
  <2> SUFFICES ASSUME Init PROVE RefusalTellsTruth
    OBVIOUS
  <2>1. PICK i \in Inputs, bound \in BOOLEAN : history = <<LegacyTree(i, bound)>>
    BY DEF Init
  <2> QED
    BY <2>1 DEF RefusalTellsTruth, Tip, LegacyTree
<1>2. TypeOK /\ RunRooted /\ RunDiscloses /\ RefusalTellsTruth /\ [Next]_vars
        => RefusalTellsTruth'
  <2> SUFFICES ASSUME TypeOK, RunRooted, RunDiscloses, RefusalTellsTruth, [Next]_vars
               PROVE  RefusalTellsTruth'
    OBVIOUS
  <2> USE HistoryTypes, RunTypes
  <2>1. ASSUME Tip'.marker = Tip.marker, Tip'.latest = Tip.latest,
               Tip'.ledger = Tip.ledger
        PROVE  RefusalTellsTruth'
    BY <2>1 DEF RefusalTellsTruth
  <2>2. CASE ForeignPush
    <3>1. PICK i \in Inputs : history' = Append(history, [Tip EXCEPT !.inputs = i])
      BY <2>2 DEF ForeignPush
    <3>2. [Tip EXCEPT !.inputs = i] \in Tree
      BY DEF Tree
    <3>3. Tip' = [Tip EXCEPT !.inputs = i]
      BY <3>1, <3>2, AppendedTree
    <3> QED
      BY <2>1, <3>3 DEF Tree
  <2>3. CASE Push
    <3>1. Tip' = work /\ Built /\ work \in Tree /\ Base = Tip /\ run.base = Len(history)
      BY <2>3, PushAppends DEF Push, Built, TypeOK
    <3>2. CASE OnFinalPath
      <4>0. work = FinalTree(Tip, run.target, Len(history))
        BY <2>3, <3>2, PushAppends
      <4>1. work.marker.code = "none"
        BY <4>0 DEF FinalTree, Tree
      <4> QED
        BY <3>1, <4>1 DEF RefusalTellsTruth
    <3>3. CASE Clean /\ ~OnFinalPath
      <4>1. work = [Tip EXCEPT !.legacyBound = TRUE]
        BY <2>3, <3>3, PushAppends
      <4> QED
        BY <2>1, <3>1, <4>1 DEF Tree
    <3>4. CASE ~Clean
      <4>1. ReleaseRefusalOk(Tip, work, Len(history), run.target)
        BY <2>3, <3>4, PushAppends
      <4>2. /\ work.marker.target = run.target /\ work.marker.latest < run.target
            /\ work.marker.latest = Tip.latest /\ work.latest = Tip.latest
        BY <4>1 DEF ReleaseRefusalOk, RefusalMarkerOk, Tree
      <4>3. run.target # LegacyDay
        BY <4>2 DEF Tree, Day, LegacyDay
      <4>4. work.ledger[run.target].code = work.marker.code
        BY <3>1, <3>4, <4>3 DEF RunDiscloses, RefusalReleasable
      <4> QED
        BY <3>1, <4>2, <4>4 DEF RefusalTellsTruth
    <3> QED
      BY <3>2, <3>3, <3>4
  <2>4. CASE UNCHANGED history
    BY <2>1, <2>4 DEF Tip
  <2> QED
    BY <2>2, <2>3, <2>4, OthersKeepMain
<1> QED
  BY <1>1, <1>2, RunsDisclose, RunsRooted, TypeCorrect, PTL DEF Spec

\* A finalized marker is the one its day was published with.
FinalMarkerRooted ==
    LET m == Tip.marker
    IN  m.status = "finalized" =>
            /\ m.target = Tip.latest /\ m.target # LegacyDay
            /\ m.base \in 1..(Len(history) - 1)
            /\ m.pin = Tip.receipt[m.target] /\ m.pin.base = m.base
            /\ Tip.store \ {m.target} = history[m.base].store

THEOREM StepFinalMarker ==
    TypeOK /\ RunRooted /\ FinalMarkerRooted /\ [Next]_vars => FinalMarkerRooted'
<1> SUFFICES ASSUME TypeOK, RunRooted, FinalMarkerRooted, [Next]_vars
             PROVE  FinalMarkerRooted'
  OBVIOUS
<1> USE HistoryTypes, RunTypes
<1>1. ASSUME NEW tree \in Tree, history' = Append(history, tree),
             tree.marker = Tip.marker, tree.latest = Tip.latest,
             tree.receipt = Tip.receipt, tree.store = Tip.store
      PROVE  FinalMarkerRooted'
  <2>1. /\ Tip' = tree /\ Len(history') = Len(history) + 1
        /\ \A i \in 1..Len(history) : history'[i] = history[i]
    BY <1>1, AppendedTree
  <2> QED
    BY <1>1, <2>1 DEF FinalMarkerRooted
<1>2. CASE ForeignPush
  <2>1. PICK i \in Inputs : history' = Append(history, [Tip EXCEPT !.inputs = i])
    BY <1>2 DEF ForeignPush
  <2>2. [Tip EXCEPT !.inputs = i] \in Tree
    BY DEF Tree
  <2> QED
    BY <1>1, <2>1, <2>2 DEF Tree
<1>3. CASE Push
  <2>1. work \in Tree /\ history' = Append(history, work)
    BY <1>3, PushAppends DEF TypeOK
  <2>2. CASE OnFinalPath
    <3> DEFINE t == run.target
               n == Len(history)
               r == [base |-> n, inputs |-> Tip.inputs]
    <3>1. work = FinalTree(Tip, t, n) /\ CandidatePreparable(Tip, t) /\ t # LegacyDay
      BY <1>3, <2>2, PushAppends DEF OnFinalPath
    <3>2. /\ work.latest = t /\ work.store = Tip.store \cup {t}
          /\ work.receipt = [Tip.receipt EXCEPT ![t] = r]
          /\ work.marker = [target |-> t, status |-> "finalized", base |-> n, pin |-> r,
                            latest |-> t, code |-> "none"]
      BY <3>1 DEF FinalTree, Tree
    <3>3. work.receipt[t] = r
      BY <3>2 DEF Tree
    <3>4. work.store \ {t} = Tip.store
      BY <3>1, <3>2 DEF CandidatePreparable, Tree, Day
    <3>5. /\ Tip' = work /\ Len(history') = n + 1 /\ history'[n] = Tip
          /\ n \in 1..(Len(history') - 1)
      BY <2>1, AppendedTree DEF Tip
    <3>6. /\ work.marker.target = t /\ work.marker.base = n /\ work.marker.pin = r
          /\ r.base = n
      BY <3>2
    <3>7. work.receipt[work.marker.target] = r /\ work.store \ {work.marker.target} = Tip.store
      BY <3>3, <3>4, <3>6
    <3> QED
      BY <3>1, <3>2, <3>5, <3>6, <3>7 DEF FinalMarkerRooted
  <2>3. CASE Clean /\ ~OnFinalPath
    BY <1>1, <1>3, <2>1, <2>3, PushAppends DEF Tree
  <2>4. CASE ~Clean
    <3>1. Tip' = work /\ work.marker.status # "finalized"
      BY <1>3, <2>4, PushAppends DEF ReleaseRefusalOk, RefusalMarkerOk, StateOf
    <3> QED
      BY <3>1 DEF FinalMarkerRooted
  <2> QED
    BY <2>2, <2>3, <2>4
<1>4. CASE UNCHANGED history
  BY <1>4 DEF FinalMarkerRooted, Tip
<1> QED
  BY <1>2, <1>3, <1>4, OthersKeepMain

(* The last published final can be proved from main alone while nobody     *)
(* changes the inputs and no later marker replaces its marker.             *)
THEOREM LastFinalStaysProvable == Spec => []LastFinalProvable
<1>1. Init => FinalMarkerRooted
  <2> SUFFICES ASSUME Init PROVE FinalMarkerRooted
    OBVIOUS
  <2>1. PICK i \in Inputs, bound \in BOOLEAN : history = <<LegacyTree(i, bound)>>
    BY DEF Init
  <2> QED
    BY <2>1 DEF FinalMarkerRooted, Tip, LegacyTree
<1>2. TypeOK /\ MainOrdered /\ ReceiptsRooted /\ ReceiptsKept /\ FinalMarkerRooted
        => LastFinalProvable
  <2> SUFFICES ASSUME TypeOK, MainOrdered, ReceiptsRooted, ReceiptsKept,
                      FinalMarkerRooted, Tip.marker.status = "finalized",
                      Tip.inputs = Tip.receipt[Tip.latest].inputs
               PROVE  PublicProven(history, Tip, Tip.latest)
    BY DEF LastFinalProvable
  <2> USE HistoryTypes
  <2> DEFINE t == Tip.latest
             n == Len(history)
             p == Tip.marker.base
  <2>1. /\ Tip.marker.target = t /\ t # LegacyDay /\ p \in 1..(n - 1)
        /\ Tip.marker.pin = Tip.receipt[t] /\ Tip.receipt[t].base = p
        /\ Tip.store \ {t} = history[p].store
    BY DEF FinalMarkerRooted
  <2>2. t \in Day /\ OrderedTree(Tip) /\ n \in 1..n /\ history[n] = Tip
    BY DEF MainOrdered, Tip, Tree
  <2>3. p \in 1..n /\ p + 1 \in 1..n /\ n \in (p + 1)..n /\ history[p] \in Tree
        /\ OrderedTree(history[p])
    BY <2>1 DEF MainOrdered
  <2>4. Tip.receipt[t] # NoReceipt
    BY <2>1, <2>2 DEF OrderedTree, IsLast
  <2>5. PICK q \in 1..(n - 1) :
            /\ Introductions(history, t) = {q + 1}
            /\ Tip.receipt[t] = [base |-> q, inputs |-> history[q].inputs]
    BY <2>2, <2>4 DEF ReceiptsRooted, RootedReceipt
  <2>6. q = p
    BY <2>1, <2>5
  <2>7. history[p + 1].receipt[t] # NoReceipt
    BY <2>5, <2>6 DEF Introductions
  <2>8. Tip.receipt[t] = history[p + 1].receipt[t]
    BY <2>2, <2>3, <2>7 DEF ReceiptsKept
  <2>9. CommittedReceiptParent(history, Tip, p)
    BY <2>1, <2>4, <2>5, <2>6, <2>8 DEF CommittedReceiptParent
  <2>10. Tip.inputs = history[p].inputs
    BY <2>5, <2>6
  <2>11. /\ t \in Tip.cache \cap Tip.prov /\ IsLast(t, Tip.store) /\ IsLast(t, Tip.prov)
         /\ Tip.prov \ {t} = history[p].prov
    BY <2>1, <2>2, <2>3 DEF OrderedTree, IsLast
  <2>12. PrefixReaches(history[p].store, Tip.ledger, t)
    <3> DEFINE last == history[p].latest
    <3>1. last \in history[p].store /\ IsLast(last, history[p].store) /\ last \in Day
      BY <2>3 DEF OrderedTree, IsLast, Tree
    <3>2. ASSUME NEW d \in Day, last < d, d < t PROVE LostSourceDisclosed(Tip.ledger, d)
      <4>1. d \notin history[p].store
        BY <3>1, <3>2 DEF IsLast, Day
      <4>2. d \notin Tip.store
        BY <2>1, <2>2, <3>2, <4>1 DEF Day
      <4> QED
        BY <2>2, <3>2, <4>2 DEF OrderedTree, LostSourceDisclosed
    <3> QED
      BY <3>1, <3>2 DEF PrefixReaches, PrefixGapDisclosed
  <2>13. PrefixReaches(history[p].prov, Tip.ledger, t)
    BY <2>3, <2>12 DEF OrderedTree
  <2>14. PromotionReceiptValid(Tip, history[p], p, t, "finalized")
    BY <2>1, <2>4, <2>10, <2>11, <2>12, <2>13 DEF PromotionReceiptValid
  <2> QED
    BY <2>3, <2>9, <2>14 DEF PublicProven
<1> QED
  BY <1>1, <1>2, StepFinalMarker, RunsRooted, MainStaysOrdered, ReceiptsStayRooted,
     TypeCorrect, PTL DEF Spec

-----------------------------------------------------------------------------
(* Refinement.                                                             *)

\* The instance carries its own copy of BacklogOrder's operators.
LEMMA SamePointer ==
    /\ Backlog!Day = Day /\ Backlog!LegacyDay = LegacyDay
    /\ Backlog!ReasonCode = ReasonCode /\ Backlog!EmptyLedger = EmptyLedger
    /\ \A l \in Ledger, t \in Day, code \in ReasonCode, on \in Nat :
            Backlog!Disclose(l, t, code, on) = Disclose(l, t, code, on)
    /\ \A t, last, bound, l, now :
            Backlog!IsNextTarget(t, last, bound, l, now)
                <=> IsNextTarget(t, last, bound, l, now)
<1>1. /\ Backlog!Day = Day /\ Backlog!LegacyDay = LegacyDay
      /\ Backlog!ReasonCode = ReasonCode /\ Backlog!EmptyLedger = EmptyLedger
  BY DEF Backlog!Day, Day, Backlog!LegacyDay, LegacyDay, Backlog!ReasonCode, ReasonCode,
         Backlog!EmptyLedger, EmptyLedger, Backlog!NoEntry, NoEntry
<1>2. \A l \in Ledger, t \in Day, code \in ReasonCode, on \in Nat :
            Backlog!Disclose(l, t, code, on) = Disclose(l, t, code, on)
  BY DEF Backlog!Disclose, Disclose
<1>3. \A t, last, bound, l, now :
            Backlog!IsNextTarget(t, last, bound, l, now)
                <=> IsNextTarget(t, last, bound, l, now)
  BY <1>1 DEF Backlog!IsNextTarget, IsNextTarget, Backlog!Crossable, Crossable,
         Backlog!LostSourceDisclosed, LostSourceDisclosed,
         Backlog!RequiredTarget, RequiredTarget
<1> QED
  BY <1>1, <1>2, <1>3

LEMMA PushRefines ==
    ASSUME TypeOK, RunRooted, Push
    PROVE  Backlog!Next
<1> USE HistoryTypes, RunTypes
<1>1. /\ UNCHANGED today /\ Tip' = work /\ phase = "checked"
  BY PushAppends DEF Push
<1>2. run.now \in {today, today - 1} /\ run.now \in 1..today
  BY <1>1 DEF RunRooted, TypeOK
<1>3. Backlog!Targeted(run.target)
  BY <1>2, PushAppends, SamePointer DEF Backlog!Targeted
<1>4. CASE OnFinalPath
  <2>1. work = FinalTree(Tip, run.target, Len(history))
    BY <1>4, PushAppends
  <2>2. /\ work.latest = run.target /\ work.store = Tip.store \cup {run.target}
        /\ work.ledger = Tip.ledger /\ work.legacyBound = Tip.legacyBound
    BY <2>1 DEF FinalTree, Tree
  <2>3. Tip.latest < run.target
    BY <1>4, PushAppends, TargetAboveLatest DEF OnFinalPath
  <2>4. Backlog!PublishFinal(run.target)
    BY <1>1, <1>3, <2>2, <2>3 DEF Backlog!PublishFinal, Tree, Day
  <2> QED
    BY <2>4, SamePointer DEF Backlog!Next
<1>5. CASE Clean /\ ~OnFinalPath
  <2>1. work = [Tip EXCEPT !.legacyBound = TRUE] /\ run.target = LegacyDay
    BY <1>5, PushAppends DEF OnFinalPath
  <2>2. Backlog!BindLegacy
    BY <1>1, <1>3, <2>1, SamePointer DEF Backlog!BindLegacy, Tree
  <2> QED
    BY <2>2 DEF Backlog!Next
<1>6. CASE ~Clean
  <2>1. ReleaseRefusalOk(Tip, work, Len(history), run.target) /\ Base = Tip
    BY <1>6, PushAppends
  <2>2. /\ Tip.latest < run.target
        /\ work.latest = Tip.latest /\ work.store = Tip.store
        /\ work.legacyBound = Tip.legacyBound
    BY <2>1 DEF ReleaseRefusalOk, RefusalMarkerOk, Tree
  <2>3. PICK code \in ReasonCode, on \in run.now..today :
            work.ledger = Disclose(Tip.ledger, run.target, code, on)
    BY <1>1, <1>6, <2>1 DEF RunRooted, Built
  <2>4. on \in {today, today - 1}
    BY <1>2
  <2>5. Backlog!PublishRefusal(run.target, code)
    <3>1. on \in Nat /\ Tip.ledger \in Ledger
      BY <1>2 DEF Tree
    <3>2. work.ledger = Backlog!Disclose(Tip.ledger, run.target, code, on)
      BY <2>3, <3>1, SamePointer
    <3> QED
      BY <1>1, <1>3, <2>2, <2>4, <3>2 DEF Backlog!PublishRefusal
  <2> QED
    BY <2>5, SamePointer DEF Backlog!Next
<1> QED
  BY <1>4, <1>5, <1>6

(* The lane implements the ordered backlog: whatever is killed, rolled     *)
(* back, raced or refused, what main shows is a run of OrderedBacklog.     *)
THEOREM LaneImplementsBacklog == Spec => ImplementsBacklog
<1>1. Init => Backlog!Init
  <2> SUFFICES ASSUME Init PROVE Backlog!Init
    OBVIOUS
  <2>1. PICK i \in Inputs, bound \in BOOLEAN : history = <<LegacyTree(i, bound)>>
    BY DEF Init
  <2> QED
    BY <2>1, SamePointer DEF Init, Backlog!Init, Tip, LegacyTree
<1>2. TypeOK /\ RunRooted /\ [Next]_vars => [Backlog!Next]_(Backlog!vars)
  <2> SUFFICES ASSUME TypeOK, RunRooted, [Next]_vars
               PROVE  Backlog!Next \/ UNCHANGED Backlog!vars
    OBVIOUS
  <2> USE HistoryTypes
  <2>1. CASE ForeignPush
    <3>1. PICK i \in Inputs : history' = Append(history, [Tip EXCEPT !.inputs = i])
      BY <2>1 DEF ForeignPush
    <3>2. [Tip EXCEPT !.inputs = i] \in Tree
      BY DEF Tree
    <3>3. Tip' = [Tip EXCEPT !.inputs = i]
      BY <3>1, <3>2, AppendedTree
    <3> QED
      BY <2>1, <3>3 DEF ForeignPush, Backlog!vars, Tree
  <2>2. CASE Push
    BY <2>2, PushRefines
  <2>3. CASE Tick
    BY <2>3 DEF Tick, Backlog!Next, Backlog!Tick, Tip
  <2>4. CASE ~ForeignPush /\ ~Push /\ ~Tick
    BY <2>4, OthersKeepMain, ClockSteps DEF Backlog!vars, Tip
  <2> QED
    BY <2>1, <2>2, <2>3, <2>4
<1> QED
  BY <1>1, <1>2, RunsRooted, TypeCorrect, PTL DEF Spec, ImplementsBacklog, Backlog!Spec

-----------------------------------------------------------------------------
(* The shared lane.                                                        *)

\* What a commit says of its base names an earlier commit, although a daily
\* job computed it on a checkout that may be far behind.
Backward ==
    \A i \in 1..Len(history) :
        /\ history[i].marker.base < i
        /\ \A d \in Day : history[i].receipt[d].base < i

\* A day the daily job has finalized on its own checkout.
OwnFinal ==
    LET m == daily.work.marker
    IN  /\ m.status = "finalized" /\ m.base = daily.pin
        /\ m.pin # NoReceipt /\ m.pin.base = daily.pin
        /\ m.pin = daily.work.receipt[m.target]

\* What the job's checkout may show: its own day or the one it started from,
\* and no receipt of a later commit.
OnCheckout(tree) ==
    /\ tree.latest \in {Pinned.latest, Target}
    /\ \A d \in Day : tree.receipt[d].base <= daily.pin

DailyRooted ==
    lane = "daily" =>
        /\ daily.pin \in 1..Len(history) /\ daily.now \in 1..today
        /\ Tip.latest < daily.now
        /\ OnCheckout(daily.work)
        /\ daily.step = "acquire" => daily.work = Pinned
        /\ daily.step = "pipeline" =>
                \/ daily.work = Pinned
                \/ IsNextTarget(Target, daily.work.latest, daily.work.legacyBound,
                                daily.work.ledger, daily.now)
        /\ daily.step = "settled" /\ ~daily.failed => daily.work = Pinned \/ OwnFinal

SharedInv ==
    /\ TypeOK /\ RunRooted /\ Backward
    /\ Tip.latest < today
    /\ lane \in Lane /\ pending \in 0..Len(history) /\ daily \in Daily
    /\ lane # "morning" => phase = "idle"
    /\ DailyRooted

LEMMA TreeDates ==
    ASSUME NEW tree \in Tree
    PROVE  /\ tree.latest \in Day /\ tree.latest \in Nat
           /\ tree.marker.base \in Nat /\ tree.marker.target \in Day
           /\ \A d \in Day : tree.receipt[d].base \in Nat
<1>1. tree.latest \in Day /\ tree.marker \in Marker /\ tree.receipt \in [Day -> Receipt]
  BY DEF Tree
<1>2. \A d \in Day : tree.receipt[d] \in Receipt
  BY <1>1
<1> QED
  BY <1>1, <1>2 DEF Day, Marker, Receipt

\* One step of the morning lane, or of its environment.
LEMMA MainStep ==
    ASSUME TypeOK, RunRooted, Backward, Tip.latest < today, [Next]_vars
    PROVE  /\ TypeOK' /\ RunRooted' /\ Backward' /\ Tip'.latest < today'
           /\ Tip.latest <= Tip'.latest /\ (~Push => Tip'.latest = Tip.latest)
           /\ MarkerIsProofOrRefusal => MarkerIsProofOrRefusal'
           /\ Len(history) <= Len(history')
           /\ \A i \in 1..Len(history) : history'[i] = history[i]
<1> USE HistoryTypes, RunTypes
<1>0. TypeOK' /\ RunRooted'
  BY StepType, StepRooted
<1>1. today' \in Nat /\ today <= today'
  <2>1. CASE Tick
    BY <2>1 DEF Tick
  <2>2. CASE ~Tick
    BY <2>2, ClockSteps
  <2> QED
    BY <2>1, <2>2
<1>2. /\ Tip.latest \in Day /\ Tip.marker.base < Len(history)
      /\ \A d \in Day : Tip.receipt[d].base < Len(history)
  BY DEF Backward, Tip, Tree
<1>3. ASSUME NEW tree \in Tree, history' = Append(history, tree),
             tree.marker.base <= Len(history),
             \A d \in Day : tree.receipt[d].base <= Len(history)
      PROVE  /\ Backward' /\ Tip' = tree /\ Len(history) <= Len(history')
             /\ \A i \in 1..Len(history) : history'[i] = history[i]
  <2>1. \A i \in 1..Len(history') : i \in 1..Len(history) \/ i = Len(history) + 1
    BY <1>3, AppendedTree
  <2>2. /\ tree.marker.base < Len(history) + 1
        /\ \A d \in Day : tree.receipt[d].base < Len(history) + 1
    BY <1>3, TreeDates
  <2> QED
    BY <1>3, <2>1, <2>2, AppendedTree DEF Backward
<1>4. ASSUME NEW tree \in Tree, history' = Append(history, tree),
             tree.marker = Tip.marker, tree.receipt = Tip.receipt, tree.latest = Tip.latest
      PROVE  /\ Backward' /\ Tip'.latest = Tip.latest /\ Len(history) <= Len(history')
             /\ \A i \in 1..Len(history) : history'[i] = history[i]
             /\ MarkerIsProofOrRefusal => MarkerIsProofOrRefusal'
  <2>1. /\ Tip.marker.base <= Len(history)
        /\ \A d \in Day : Tip.receipt[d].base <= Len(history)
    BY <1>2, TreeDates
  <2>2. /\ Backward' /\ Tip' = tree /\ Len(history) <= Len(history')
        /\ \A i \in 1..Len(history) : history'[i] = history[i]
    BY <1>3, <1>4, <2>1
  <2> QED
    BY <1>4, <2>2 DEF MarkerIsProofOrRefusal
<1>5. CASE ForeignPush
  <2>1. PICK v \in Inputs : history' = Append(history, [Tip EXCEPT !.inputs = v])
    BY <1>5 DEF ForeignPush
  <2> DEFINE tree == [Tip EXCEPT !.inputs = v]
  <2>2. tree \in Tree /\ tree.marker = Tip.marker /\ tree.receipt = Tip.receipt
        /\ tree.latest = Tip.latest
    BY DEF Tree
  <2>3. /\ Backward' /\ Tip'.latest = Tip.latest /\ Len(history) <= Len(history')
        /\ \A i \in 1..Len(history) : history'[i] = history[i]
        /\ MarkerIsProofOrRefusal => MarkerIsProofOrRefusal'
    <3> HIDE DEF tree
    <3> QED
      BY <1>4, <2>1, <2>2 DEF tree
  <2> QED
    BY <1>0, <1>1, <1>2, <2>3 DEF Day
<1>6. CASE Push
  <2>1. work \in Tree /\ history' = Append(history, work)
    BY <1>6, PushAppends DEF TypeOK
  <2>2. CASE OnFinalPath
    <3> DEFINE t == run.target
               n == Len(history)
               r == [base |-> n, inputs |-> Tip.inputs]
    <3>1. work = FinalTree(Tip, t, n)
      BY <1>6, <2>2, PushAppends
    <3>2. /\ work.latest = t
          /\ work.receipt = [Tip.receipt EXCEPT ![t] = r]
          /\ work.marker = [target |-> t, status |-> "finalized", base |-> n, pin |-> r,
                            latest |-> t, code |-> "none"]
      BY <3>1 DEF FinalTree, Tree
    <3>3. work.receipt[t] = r /\ r # NoReceipt /\ r.base = n
          /\ \A d \in Day \ {t} : work.receipt[d] = Tip.receipt[d]
      BY <3>2 DEF Tree, NoReceipt
    <3>4. /\ work.marker.base = n /\ work.marker.status = "finalized"
          /\ work.marker.target = t /\ work.marker.pin = r
      BY <3>2
    <3>5. \A d \in Day : work.receipt[d].base <= n
      <4>1. \A d \in Day : Tip.receipt[d].base \in Nat /\ n \in Nat
        BY TreeDates
      <4> QED
        BY <1>2, <3>3, <4>1
    <3>6. Tip.latest < t /\ t < run.now /\ run.now <= today
      <4>1. run.now \in 1..today
        BY <1>6 DEF TypeOK, Push
      <4> QED
        BY <1>6, <2>2, <4>1, PushAppends, TargetAboveLatest DEF OnFinalPath
    <3>7. /\ Backward' /\ Tip' = work /\ Len(history) <= Len(history')
          /\ \A i \in 1..Len(history) : history'[i] = history[i]
      BY <1>3, <2>1, <3>4, <3>5
    <3>8. MarkerIsProofOrRefusal'
      BY <3>3, <3>4, <3>7 DEF MarkerIsProofOrRefusal
    <3> QED
      BY <1>0, <1>1, <1>2, <1>6, <3>2, <3>6, <3>7, <3>8 DEF Day
  <2>3. CASE Clean /\ ~OnFinalPath
    <3>1. /\ work.marker = Tip.marker /\ work.receipt = Tip.receipt
          /\ work.latest = Tip.latest
      BY <1>6, <2>3, PushAppends DEF Tree
    <3> QED
      BY <1>0, <1>1, <1>2, <1>4, <2>1, <3>1 DEF Day
  <2>4. CASE ~Clean
    <3>1. ReleaseRefusalOk(Tip, work, Len(history), run.target)
      BY <1>6, <2>4, PushAppends
    <3>2. work.receipt = Tip.receipt /\ work.latest = Tip.latest
      BY <3>1 DEF ReleaseRefusalOk, Tree
    <3>3. /\ work.marker.base = Len(history) /\ work.marker.pin = NoReceipt
          /\ work.marker.code # "none"
      BY <3>1 DEF ReleaseRefusalOk, RefusalMarkerOk, ReasonCode
    <3>4. \A d \in Day : work.receipt[d].base <= Len(history)
      BY <1>2, <3>2 DEF Tree, Receipt
    <3>5. /\ Backward' /\ Tip' = work /\ Len(history) <= Len(history')
          /\ \A i \in 1..Len(history) : history'[i] = history[i]
      BY <1>3, <2>1, <3>3, <3>4
    <3> QED
      BY <1>0, <1>1, <1>2, <1>6, <3>2, <3>3, <3>5 DEF Day, MarkerIsProofOrRefusal
  <2> QED
    BY <2>2, <2>3, <2>4
<1>7. CASE UNCHANGED history
  BY <1>0, <1>1, <1>2, <1>7 DEF Backward, Tip, Day, MarkerIsProofOrRefusal
<1> QED
  BY <1>5, <1>6, <1>7, OthersKeepMain

LEMMA KeptDaily ==
    ASSUME SharedInv, TypeOK', Tip'.latest = Tip.latest, today <= today',
           Len(history) <= Len(history'),
           \A i \in 1..Len(history) : history'[i] = history[i],
           UNCHANGED <<lane, daily>>
    PROVE  DailyRooted'
<1> SUFFICES ASSUME lane = "daily" PROVE DailyRooted'
  BY DEF DailyRooted
<1>1. Pinned' = Pinned /\ Target' = Target
  BY DEF SharedInv, DailyRooted, Pinned, Target
<1>2. daily.pin \in 1..Len(history') /\ daily.now \in 1..today'
  BY HistoryTypes DEF SharedInv, DailyRooted, TypeOK
<1> QED
  BY <1>1, <1>2 DEF SharedInv, DailyRooted, OnCheckout, OwnFinal

\* A step of the daily job that stays in its checkout.
LEMMA DailyStays ==
    ASSUME SharedInv, lane = "daily", NEW step \in DailyStep, NEW failed \in BOOLEAN,
           NEW tree \in Tree, DailyGoes(step, failed, tree),
           OnCheckout(tree), step # "acquire",
           step = "pipeline" =>
                \/ tree = Pinned
                \/ IsNextTarget(Target, tree.latest, tree.legacyBound, tree.ledger, daily.now),
           step = "settled" /\ ~failed => tree = Pinned \/ OwnFinal'
    PROVE  SharedInv'
<1>1. /\ daily' \in Daily /\ daily'.step = step /\ daily'.failed = failed
      /\ daily'.work = tree /\ daily'.pin = daily.pin /\ daily'.now = daily.now
  BY DEF DailyGoes, SharedInv, Daily
<1>2. UNCHANGED <<vars, lane, pending>>
  BY DEF DailyGoes
<1>3. Pinned' = Pinned /\ Target' = Target /\ Tip' = Tip
  BY <1>1, <1>2 DEF Pinned, Target, Tip, vars
<1>4. DailyRooted'
  BY <1>1, <1>2, <1>3 DEF SharedInv, DailyRooted, OnCheckout, vars
<1>5. TypeOK' /\ RunRooted' /\ Backward'
  <2>1. [Next]_vars
    BY <1>2
  <2> QED
    BY <2>1, MainStep DEF SharedInv
<1> QED
  BY <1>1, <1>2, <1>3, <1>4, <1>5 DEF SharedInv, vars

LEMMA DailyTypes ==
    ASSUME SharedInv, lane = "daily"
    PROVE  /\ Target \in Day /\ daily.now = Target + 1 /\ daily.pin \in Nat
           /\ daily.work \in Tree /\ Pinned \in Tree /\ Pinned.latest \in Day
           /\ Tip \in Tree /\ Tip.latest <= Target
<1>1. TypeOK /\ DailyRooted /\ daily \in Daily
  BY DEF SharedInv
<1>2. daily.now \in 1..today /\ today \in 1..(MaxDay + 1) /\ daily.pin \in 1..Len(history)
  BY <1>1 DEF DailyRooted, TypeOK
<1>3. Target \in Day /\ daily.now = Target + 1
  BY <1>2, MaxDayAssumption DEF Target, Day
<1>4. Pinned \in Tree /\ Tip \in Tree
  BY <1>1, <1>2, HistoryTypes DEF Pinned
<1> QED
  BY <1>1, <1>2, <1>3, <1>4 DEF DailyRooted, Daily, Tree, Day

LEMMA RecordKeeps ==
    ASSUME NEW tree \in Tree, NEW t \in Day, NEW status \in MarkerStatus,
           NEW base \in Nat, NEW pin \in Receipt
    PROVE  /\ RecordStatus(tree, t, status, base, pin) \in Tree
           /\ RecordStatus(tree, t, status, base, pin).latest = tree.latest
           /\ RecordStatus(tree, t, status, base, pin).receipt = tree.receipt
  BY RecordStatusType DEF RecordStatus, Tree

LEMMA DailyFinalTree ==
    ASSUME SharedInv, lane = "daily"
    PROVE  /\ DailyScored \in Tree /\ OnCheckout(DailyScored)
           /\ MarkFinalized(DailyScored, Target) \in Tree
           /\ OnCheckout(MarkFinalized(DailyScored, Target))
<1>1. /\ DailyScored \in Tree /\ DailyScored.latest = Target
      /\ DailyScored.receipt = daily.work.receipt
  BY DailyTypes DEF DailyScored, Tree
<1>2. DailyScored.receipt[Target].base \in Nat /\ DailyScored.marker.pin \in Receipt
  BY <1>1, DailyTypes DEF Tree, Marker, Receipt
<1>3. LET f == MarkFinalized(DailyScored, Target)
      IN  f \in Tree /\ f.latest = Target /\ f.receipt = daily.work.receipt
  <2> DEFINE scored == DailyScored
  <2>1. /\ scored \in Tree /\ scored.latest = Target /\ scored.receipt = daily.work.receipt
        /\ scored.receipt[Target].base \in Nat /\ scored.marker.pin \in Receipt
        /\ Target \in Day /\ "finalized" \in MarkerStatus
    BY <1>1, <1>2, DailyTypes DEF MarkerStatus
  <2> HIDE DEF scored
  <2>2. LET f == MarkFinalized(scored, Target)
        IN  f \in Tree /\ f.latest = Target /\ f.receipt = daily.work.receipt
    BY <2>1, RecordKeeps DEF MarkFinalized
  <2> QED
    BY <2>2 DEF scored
<1>4. OnCheckout(daily.work)
  BY DEF SharedInv, DailyRooted
<1> QED
  BY <1>1, <1>3, <1>4 DEF OnCheckout

\* acquire_target and run_daily in the daily job's checkout.
LEMMA DailyJobStep ==
    ASSUME SharedInv,
           \/ DailyAlreadyServed \/ DailyAcquires \/ DailyAcquireFails
           \/ DailyRefusesEarly \/ DailyDerivesOnly \/ DailyPublishes \/ DailyFails
    PROVE  SharedInv' /\ UNCHANGED vars
<1>0. lane = "daily" /\ UNCHANGED vars
  <2>1. lane = "daily"
    BY DEF DailyAlreadyServed, DailyAcquires, DailyAcquireFails, DailyAcquirable,
           DailyRefusesEarly, DailyDerivesOnly, DailyPublishes, DailyFails, Running
  <2>2. \E step, failed, tree : DailyGoes(step, failed, tree)
    <3>1. CASE DailyAlreadyServed \/ DailyAcquires \/ DailyRefusesEarly
      BY <3>1 DEF DailyAlreadyServed, DailyAcquires, DailyRefusesEarly
    <3>2. CASE DailyAcquireFails
      BY <3>2 DEF DailyAcquireFails
    <3>3. CASE DailyDerivesOnly \/ DailyPublishes \/ DailyFails
      BY <3>3 DEF DailyDerivesOnly, DailyPublishes, DailyFails
    <3> QED
      BY <3>1, <3>2, <3>3
  <2> QED
    BY <2>1, <2>2 DEF DailyGoes
<1> USE DailyTypes
<1>3. OnCheckout(daily.work)
  BY <1>0 DEF SharedInv, DailyRooted
<1>1. \A status \in MarkerStatus :
        DailyRecords(status) \in Tree /\ OnCheckout(DailyRecords(status))
  BY <1>0, <1>3, RecordKeeps, NoReceiptType DEF DailyRecords, OnCheckout
<1>2. ASSUME NEW k \in 1..BundleSize
      PROVE  LET b == BundlePrefix(daily.work, Target, daily.pin, k)
             IN  /\ b \in Tree /\ OnCheckout(b) /\ b.latest = daily.work.latest
                 /\ b.ledger = daily.work.ledger
                 /\ b.legacyBound = daily.work.legacyBound
  <2> DEFINE b == BundlePrefix(daily.work, Target, daily.pin, k)
             r == [base |-> daily.pin, inputs |-> daily.work.inputs]
  <2>1. k \in Nat
    BY DEF BundleSize
  <2>2. /\ b.latest = daily.work.latest /\ b.ledger = daily.work.ledger
        /\ b.legacyBound = daily.work.legacyBound
        /\ b.receipt \in {daily.work.receipt, [daily.work.receipt EXCEPT ![Target] = r]}
    BY <1>0 DEF BundlePrefix, Tree
  <2>3. \A d \in Day : b.receipt[d] \in {daily.work.receipt[d], r}
    BY <1>0, <2>2 DEF Tree
  <2>4. \A d \in Day : b.receipt[d].base <= daily.pin
    BY <1>0, <1>3, <2>3 DEF OnCheckout
  <2>5. b \in Tree
    BY <1>0, <2>1, BundleType
  <2> QED
    BY <1>3, <2>2, <2>4, <2>5 DEF OnCheckout
<1>4. \A tree \in Tree :
        DailyGoes("settled", TRUE, tree) /\ OnCheckout(tree) => SharedInv'
  BY <1>0, DailyStays DEF DailyStep
<1>5. CASE DailyAlreadyServed
  <2>1. CASE PublicProven(SubSeq(history, 1, daily.pin), daily.work, Target)
    <3>1. ProtectedFinal(daily.work.marker, Target)
      BY <2>1 DEF PublicProven, CommittedReceiptParent, PromotionReceiptValid, ProtectedFinal
    <3>2. DailyRecords("already_finalized") = daily.work
      BY <3>1 DEF DailyRecords, RecordStatus
    <3>3. daily.work = Pinned
      BY <1>0, <1>5 DEF DailyAlreadyServed, Running, SharedInv, DailyRooted
    <3>4. DailyGoes("pipeline", FALSE, daily.work)
      BY <1>5, <2>1, <3>2 DEF DailyAlreadyServed
    <3> QED
      BY <1>0, <1>3, <3>3, <3>4, DailyStays DEF DailyStep
  <2>2. CASE ~PublicProven(SubSeq(history, 1, daily.pin), daily.work, Target)
    <3>1. PICK status \in {"legacy_proof_limited", "acquisition_failed"} :
            DailyGoes("settled", TRUE, DailyRecords(status))
      BY <1>5, <2>2 DEF DailyAlreadyServed
    <3> QED
      BY <1>0, <1>1, <1>4, <3>1 DEF MarkerStatus
  <2> QED
    BY <2>1, <2>2
<1>6. CASE DailyAcquires
  <2> DEFINE b == BundlePrefix(daily.work, Target, daily.pin, BundleSize)
  <2>1. BundleSize \in 1..BundleSize
    BY DEF BundleSize
  <2>2. /\ b \in Tree /\ OnCheckout(b) /\ b.latest = daily.work.latest /\ b.ledger = daily.work.ledger
        /\ b.legacyBound = daily.work.legacyBound
    BY <1>2, <2>1
  <2>3. daily.work = Pinned
        /\ IsNextTarget(Target, daily.work.latest, daily.work.legacyBound,
                        daily.work.ledger, daily.now)
    BY <1>0, <1>6
       DEF DailyAcquires, DailyAcquirable, Running, SharedInv, DailyRooted
  <2>4. DailyGoes("pipeline", FALSE, b)
    BY <1>6 DEF DailyAcquires
  <2> HIDE DEF b
  <2> QED
    BY <1>0, <2>2, <2>3, <2>4, DailyStays DEF DailyStep
<1>7. CASE DailyAcquireFails
  <2>1. PICK tree \in Tree : /\ DailyGoes("settled", TRUE, tree)
                             /\ OnCheckout(tree)
    <3>1. CASE \E status \in {"source_unavailable", "acquisition_failed"} :
                  DailyGoes("settled", TRUE, DailyRecords(status))
      BY <1>1, <3>1 DEF MarkerStatus
    <3>2. CASE \E k \in 1..BundleSize :
                  DailyGoes("settled", TRUE,
                            BundlePrefix(daily.work, Target, daily.pin, k))
      BY <1>2, <3>2
    <3> QED
      BY <1>7, <3>1, <3>2 DEF DailyAcquireFails
  <2> QED
    BY <1>0, <1>3, <1>4, <2>1
<1>8. CASE DailyRefusesEarly
  BY <1>0, <1>3, <1>4, <1>8 DEF DailyRefusesEarly
<1>9. CASE DailyDerivesOnly
  <2>1. DailyGoes("settled", FALSE, daily.work) /\ daily.step = "pipeline"
    BY <1>9 DEF DailyDerivesOnly, Running
  <2>2. daily.work = Pinned
    <3>1. ~IsNextTarget(Target, daily.work.latest, daily.work.legacyBound,
                        daily.work.ledger, daily.now)
      BY <1>0, <1>9 DEF DailyDerivesOnly, BacklogComplete
    <3> QED
      BY <1>0, <2>1, <3>1 DEF SharedInv, DailyRooted
  <2> QED
    BY <1>0, <1>3, <2>1, <2>2, DailyStays DEF DailyStep
<1>10. CASE DailyPublishes
  <2> DEFINE r == DailyScored.receipt[Target]
             f == MarkFinalized(DailyScored, Target)
             m == [target |-> Target, status |-> "finalized", base |-> r.base,
                   pin |-> DailyScored.marker.pin, latest |-> DailyScored.latest,
                   code |-> "none"]
  <2>1. /\ r # NoReceipt /\ r.base = daily.pin /\ DailyScored.marker.pin = r
        /\ DailyScored.marker.status = "target_ready"
    BY <1>10 DEF DailyPublishes, Finalizable, PromotionReceiptValid
  <2>2. f = [DailyScored EXCEPT !.marker = m]
    BY <2>1 DEF MarkFinalized, RecordStatus, ProtectedFinal
  <2>3. f.marker = m /\ f.receipt = DailyScored.receipt
    BY <1>0, <2>2, DailyFinalTree DEF Tree
  <2>4. DailyGoes("settled", FALSE, f)
    BY <1>10 DEF DailyPublishes
  <2>5. daily'.work = f /\ daily'.pin = daily.pin
    BY <2>4 DEF DailyGoes, SharedInv, Daily
  <2>6. OwnFinal'
    BY <2>1, <2>3, <2>5 DEF OwnFinal
  <2>7. f \in Tree /\ OnCheckout(f)
    BY <1>0, DailyFinalTree
  <2> HIDE DEF f
  <2> QED
    BY <1>0, <2>4, <2>6, <2>7, DailyStays DEF DailyStep
<1>11. CASE DailyFails
  <2>1. PICK tree \in {daily.work, DailyScored, MarkFinalized(DailyScored, Target)} :
            DailyGoes("settled", TRUE, tree)
    BY <1>11 DEF DailyFails
  <2> QED
    BY <1>0, <1>3, <1>4, <2>1, DailyFinalTree
<1> QED
  BY <1>0, <1>5, <1>6, <1>7, <1>8, <1>9, <1>10, <1>11

LEMMA IdleType == ASSUME TypeOK PROVE Idle(history[1]) \in Daily
  BY HistoryTypes DEF Idle, Daily, DailyStep

LEMMA RebasedType ==
    ASSUME NEW checkout \in Tree, NEW upstream \in Tree, NEW mine \in Tree
    PROVE  RebasedTree(checkout, upstream, mine) \in Tree
<1>1. [d \in Day |-> Rebased(checkout.receipt[d], upstream.receipt[d], mine.receipt[d])]
        \in [Day -> Receipt]
  BY DEF Rebased, Tree
<1>2. [d \in Day |-> Rebased(checkout.ledger[d], upstream.ledger[d], mine.ledger[d])]
        \in Ledger
  BY DEF Rebased, Tree, Ledger
<1>3. upstream.cache \cup (mine.cache \ checkout.cache) \in SUBSET Day
  BY DEF Tree
<1>4. /\ Rebased(checkout.latest, upstream.latest, mine.latest) \in Day
      /\ Rebased(checkout.store, upstream.store, mine.store) \in SUBSET Day
      /\ Rebased(checkout.prov, upstream.prov, mine.prov) \in SUBSET Day
      /\ Rebased(checkout.marker, upstream.marker, mine.marker) \in Marker
  BY DEF Rebased, Tree
<1> QED
  BY <1>1, <1>2, <1>3, <1>4 DEF RebasedTree, Tree

\* What the push of a stale checkout leaves on main.
LEMMA DailyPushStep ==
    ASSUME SharedInv, DailyPushes
    PROVE  /\ SharedInv' /\ Tip.latest <= Tip'.latest
           /\ MarkerIsProofOrRefusal => MarkerIsProofOrRefusal'
<1> DEFINE n == Len(history)
           mine == Staged(Pinned, daily.work, daily.failed)
           tree == RebasedTree(Pinned, Tip, mine)
<1> USE HistoryTypes
<1>0. TypeOK /\ RunRooted /\ Backward /\ DailyRooted /\ daily \in Daily
  BY DEF SharedInv
<1>1. /\ lane = "daily" /\ daily.step = "settled" /\ phase = "idle"
      /\ history' = Append(history, tree) /\ lane' = "free"
      /\ daily' = Idle(history[1]) /\ UNCHANGED <<today, phase, run, work, pending>>
  BY DEF DailyPushes, Running, DailyEnds, SharedInv
<1>2. /\ Pinned \in Tree /\ Tip \in Tree /\ daily.work \in Tree /\ Target \in Day
      /\ daily.pin \in 1..n /\ n \in Nat \ {0} /\ Tip.latest <= Target
  BY <1>0, <1>1, DailyTypes DEF DailyRooted
<1>3. mine \in Tree /\ (mine = Pinned \/ (mine = daily.work /\ OwnFinal))
  BY <1>0, <1>1, <1>2 DEF Staged, DailyRooted, Daily
<1>4. tree \in Tree
  BY <1>2, <1>3, RebasedType
<1>5. /\ tree.latest = Rebased(Pinned.latest, Tip.latest, mine.latest)
      /\ tree.marker = Rebased(Pinned.marker, Tip.marker, mine.marker)
      /\ \A d \in Day : tree.receipt[d]
                = Rebased(Pinned.receipt[d], Tip.receipt[d], mine.receipt[d])
  BY DEF RebasedTree
<1> HIDE DEF mine, tree
<1>6. Tip.latest <= tree.latest /\ tree.latest < today
  <2>1. tree.latest \in {Tip.latest, Target}
    BY <1>0, <1>1, <1>3, <1>5 DEF Rebased, DailyRooted, OnCheckout
  <2>2. Target < today /\ Tip.latest < today
    BY <1>0, <1>1, <1>2 DEF DailyRooted, SharedInv, Target, TypeOK, Day
  <2> QED
    BY <1>2, <2>1, <2>2 DEF Tree, Day
<1>7. /\ Pinned.marker.base < daily.pin /\ Tip.marker.base < n
      /\ \A d \in Day : Pinned.receipt[d].base < daily.pin /\ Tip.receipt[d].base < n
  BY <1>0, <1>2 DEF Backward, Pinned, Tip
<1>8. MarkerIsProofOrRefusal =>
        \/ tree.marker.status = "legacy_proof_limited"
        \/ tree.marker.code # "none" /\ tree.marker.pin = NoReceipt
        \/ /\ tree.marker.status = "finalized" /\ tree.marker.pin # NoReceipt
           /\ tree.marker.pin = tree.receipt[tree.marker.target]
  <2>1. CASE mine = Pinned
    <3>1. tree.marker = Tip.marker /\ \A d \in Day : tree.receipt[d] = Tip.receipt[d]
      BY <1>5, <2>1 DEF Rebased
    <3>2. Tip.marker.target \in Day
      BY <1>2 DEF Tree, Marker
    <3> QED
      BY <3>1, <3>2 DEF MarkerIsProofOrRefusal
  <2>2. CASE mine = daily.work /\ OwnFinal
    <3> DEFINE m == daily.work.marker
    <3>1. /\ m.status = "finalized" /\ m.base = daily.pin /\ m.pin # NoReceipt
          /\ m.pin.base = daily.pin /\ m.pin = daily.work.receipt[m.target]
          /\ m.target \in Day
      BY <1>2, <2>2 DEF OwnFinal, Tree, Marker
    <3>2. tree.marker = m
      <4>1. m # Pinned.marker
        BY <1>2, <1>7, <3>1
      <4> QED
        BY <1>5, <2>2, <4>1 DEF Rebased
    <3>3. tree.receipt[m.target] = m.pin
      <4>1. Pinned.receipt[m.target] # m.pin
        BY <1>2, <1>7, <3>1
      <4> QED
        BY <1>5, <2>2, <3>1, <4>1 DEF Rebased
    <3> QED
      BY <3>1, <3>2, <3>3
  <2> QED
    BY <1>3, <2>1, <2>2
<1>9. /\ Tip' = tree /\ Len(history') = n + 1 /\ history'[n + 1] = tree
      /\ \A i \in 1..n : history'[i] = history[i]
  BY <1>0, <1>1, <1>4, AppendedTree
<1>10. Backward'
  <2>1. tree.marker.base < n + 1
    <3>1. Pinned.marker.base \in Nat /\ Tip.marker.base \in Nat
      BY <1>2, TreeDates
    <3>2. mine.marker.base <= n
      BY <1>2, <1>3, <1>7, <3>1 DEF OwnFinal
    <3>3. tree.marker \in {Tip.marker, mine.marker}
      BY <1>5 DEF Rebased
    <3>4. mine.marker.base \in Nat
      BY <1>3, TreeDates
    <3> QED
      BY <1>2, <1>7, <3>1, <3>2, <3>3, <3>4
  <2>2. ASSUME NEW d \in Day PROVE tree.receipt[d].base < n + 1
    <3>1. tree.receipt[d] \in {Tip.receipt[d], mine.receipt[d]}
      BY <1>5 DEF Rebased
    <3>2. Tip.receipt[d].base \in Nat /\ mine.receipt[d].base \in Nat
      BY <1>2, <1>3, TreeDates
    <3>3. mine.receipt[d].base <= n
      <4>1. Pinned.receipt[d].base \in Nat /\ daily.pin <= n /\ daily.pin \in Nat
        BY <1>2, TreeDates
      <4>2. daily.work.receipt[d].base <= daily.pin
        BY <1>0, <1>1 DEF DailyRooted, OnCheckout
      <4> QED
        BY <1>2, <1>3, <1>7, <3>2, <4>1, <4>2
    <3> QED
      BY <1>2, <1>7, <3>1, <3>2, <3>3
  <2>3. \A i \in 1..Len(history') : i \in 1..n \/ i = n + 1
    BY <1>2, <1>9
  <2>4. ASSUME NEW i \in 1..n
        PROVE  /\ history[i].marker.base < i
               /\ \A d \in Day : history[i].receipt[d].base < i
    BY <1>0 DEF Backward
  <2> QED
    BY <1>9, <2>1, <2>2, <2>3, <2>4 DEF Backward
<1>11. TypeOK'
  BY <1>0, <1>1, <1>4 DEF TypeOK
<1>12. RunRooted' /\ DailyRooted'
  BY <1>1 DEF RunRooted, DailyRooted
<1>13. daily' \in Daily /\ pending' \in 0..Len(history')
  BY <1>0, <1>1, <1>9, IdleType DEF SharedInv
<1>14. SharedInv'
  BY <1>1, <1>6, <1>9, <1>10, <1>11, <1>12, <1>13 DEF SharedInv, Lane
<1> QED
  BY <1>6, <1>8, <1>9, <1>14 DEF MarkerIsProofOrRefusal

THEOREM StepShared ==
    SharedInv /\ [SharedNext]_allVars
        => /\ SharedInv' /\ Tip.latest <= Tip'.latest
           /\ MarkerIsProofOrRefusal => MarkerIsProofOrRefusal'
<1> SUFFICES ASSUME SharedInv, [SharedNext]_allVars
             PROVE  /\ SharedInv' /\ Tip.latest <= Tip'.latest
                    /\ MarkerIsProofOrRefusal => MarkerIsProofOrRefusal'
  OBVIOUS
<1> USE HistoryTypes
<1>0. /\ TypeOK /\ RunRooted /\ Backward /\ Tip.latest < today /\ Tip.latest \in Day
      /\ DailyRooted /\ daily \in Daily /\ lane \in Lane
  BY DEF SharedInv, Tree
<1>1. ASSUME UNCHANGED vars
      PROVE  /\ TypeOK' /\ RunRooted' /\ Backward' /\ Tip'.latest < today'
             /\ Tip' = Tip /\ Tip.latest <= Tip'.latest
             /\ MarkerIsProofOrRefusal => MarkerIsProofOrRefusal'
  BY <1>0, <1>1, MainStep DEF vars, Tip
<1>2. ASSUME [Next]_vars, ~Push, lane' = lane, UNCHANGED <<pending, daily>>,
             today <= today', lane # "morning" => phase' = "idle"
      PROVE  /\ SharedInv' /\ Tip.latest <= Tip'.latest
             /\ MarkerIsProofOrRefusal => MarkerIsProofOrRefusal'
  <2>1. /\ TypeOK' /\ RunRooted' /\ Backward' /\ Tip'.latest < today'
        /\ Tip'.latest = Tip.latest /\ Len(history) <= Len(history')
        /\ \A i \in 1..Len(history) : history'[i] = history[i]
        /\ MarkerIsProofOrRefusal => MarkerIsProofOrRefusal'
    BY <1>0, <1>2, MainStep
  <2>2. DailyRooted'
    BY <1>2, <2>1, KeptDaily
  <2>3. pending' \in 0..Len(history')
    BY <1>2, <2>1 DEF SharedInv, TypeOK
  <2> QED
    BY <1>0, <1>2, <2>1, <2>2, <2>3 DEF SharedInv, Day
<1>3. CASE TimePasses
  <2>1. Tick /\ UNCHANGED dailyVars
    BY <1>3 DEF TimePasses
  <2>2. ~Push /\ today <= today' /\ phase' = phase
    BY <1>0, <2>1 DEF Tick, Push, TypeOK
  <2> QED
    BY <1>2, <2>1, <2>2 DEF Next, dailyVars, SharedInv
<1>4. CASE ForeignPush /\ UNCHANGED dailyVars
  <2>2. CASE ~Push
    BY <1>0, <1>2, <1>4, <2>2 DEF Next, ForeignPush, dailyVars, SharedInv, TypeOK
  <2>3. CASE Push
    BY <1>4, <2>3 DEF ForeignPush, Push, EndRun
  <2> QED
    BY <2>2, <2>3
<1>5. CASE DailyTriggered \/ DailyEvicted
  <2>1. UNCHANGED <<vars, lane, daily>> /\ pending' \in 0..Len(history)
    BY <1>0, <1>5 DEF DailyTriggered, DailyEvicted
  <2>2. DailyRooted'
    BY <1>0, <2>1, <1>1, KeptDaily DEF vars, TypeOK
  <2> QED
    BY <1>0, <1>1, <2>1, <2>2 DEF SharedInv, vars
<1>6. CASE DailyStarts
  <2>1. /\ lane = "free" /\ pending # 0 /\ lane' = "daily" /\ pending' = 0
        /\ UNCHANGED vars
        /\ daily' = [step |-> "acquire", pin |-> pending, now |-> today,
                     failed |-> FALSE, work |-> history[pending]]
    BY <1>6 DEF DailyStarts
  <2>2. pending \in 1..Len(history) /\ history[pending] \in Tree /\ today \in Nat
    BY <1>0, <2>1, RunTypes DEF SharedInv
  <2>3. daily' \in Daily
    BY <2>1, <2>2 DEF Daily, DailyStep
  <2>4. Pinned' = history[pending] /\ Tip' = Tip
    BY <2>1 DEF Pinned, Tip, vars
  <2>5. \A d \in Day : history[pending].receipt[d].base <= pending
    BY <1>0, <2>2, TreeDates DEF Backward
  <2>6. DailyRooted'
    BY <1>0, <2>1, <2>2, <2>4, <2>5 DEF DailyRooted, OnCheckout, vars, TypeOK
  <2> QED
    BY <1>1, <2>1, <2>2, <2>3, <2>6 DEF SharedInv, Lane, vars
<1>7. CASE MorningStarts \/ MorningSkips
  <2>1. /\ UNCHANGED <<vars, pending, daily>> /\ lane' \in {"morning", "free"}
        /\ phase = "idle"
    BY <1>7 DEF MorningStarts, MorningSkips, SharedInv
  <2>2. DailyRooted'
    BY <2>1 DEF DailyRooted
  <2> QED
    BY <1>1, <2>1, <2>2 DEF SharedInv, Lane, vars
<1>8. CASE MorningSteps
  <2>1. /\ RunStep /\ lane = "morning" /\ UNCHANGED <<pending, daily>>
        /\ lane' = IF phase' = "idle" THEN "free" ELSE "morning"
    BY <1>8 DEF MorningSteps
  <2>2. /\ TypeOK' /\ RunRooted' /\ Backward' /\ Tip'.latest < today'
        /\ Tip.latest <= Tip'.latest /\ Len(history) <= Len(history')
        /\ MarkerIsProofOrRefusal => MarkerIsProofOrRefusal'
    BY <1>0, <2>1, MainStep DEF Next
  <2>3. DailyRooted'
    BY <2>1 DEF DailyRooted
  <2>4. pending' \in 0..Len(history')
    BY <2>1, <2>2 DEF SharedInv, TypeOK
  <2> QED
    BY <1>0, <2>1, <2>2, <2>3, <2>4 DEF SharedInv, Lane
<1>9. CASE \/ DailyAlreadyServed \/ DailyAcquires \/ DailyAcquireFails
           \/ DailyRefusesEarly \/ DailyDerivesOnly \/ DailyPublishes \/ DailyFails
  BY <1>1, <1>9, DailyJobStep
<1>10. CASE DailyPushes
  BY <1>10, DailyPushStep
<1>11. CASE DailyDies
  <2>1. lane' = "free" /\ daily' \in Daily /\ UNCHANGED <<vars, pending>> /\ phase = "idle"
    BY <1>0, <1>11, IdleType DEF DailyDies, DailyEnds, SharedInv
  <2>2. DailyRooted'
    BY <2>1 DEF DailyRooted
  <2> QED
    BY <1>1, <2>1, <2>2 DEF SharedInv, Lane, vars
<1>12. CASE UNCHANGED allVars
  <2>1. UNCHANGED <<vars, lane, pending, daily>>
    BY <1>12 DEF allVars, dailyVars
  <2>2. DailyRooted'
    BY <1>0, <1>1, <2>1, KeptDaily DEF vars, TypeOK
  <2> QED
    BY <1>1, <2>1, <2>2 DEF SharedInv, vars
<1> QED
  BY <1>3, <1>4, <1>5, <1>6, <1>7, <1>8, <1>9, <1>10, <1>11, <1>12 DEF SharedNext

LEMMA SharedInitially == SharedInit => SharedInv /\ MarkerIsProofOrRefusal
<1> SUFFICES ASSUME SharedInit PROVE SharedInv /\ MarkerIsProofOrRefusal
  OBVIOUS
<1>1. TypeOK /\ RunRooted
  BY InitType DEF SharedInit, Init, RunRooted
<1>2. PICK i \in Inputs, bound \in BOOLEAN : history = <<LegacyTree(i, bound)>>
  BY DEF SharedInit, Init
<1>3. Len(history) = 1 /\ history[1] = LegacyTree(i, bound) /\ Tip = LegacyTree(i, bound)
  BY <1>2 DEF Tip
<1>4. Backward /\ Tip.latest < today /\ MarkerIsProofOrRefusal
  BY <1>3 DEF Backward, LegacyTree, NoReceipt, LegacyDay, MarkerIsProofOrRefusal,
              SharedInit, Init
<1> QED
  BY <1>1, <1>3, <1>4, IdleType DEF SharedInit, Init, SharedInv, DailyRooted, Lane

(* Whatever a stale, failed or killed daily job pushes, the marker on main *)
(* is the legacy one, a refusal, or the pointer to a receipt main holds.   *)
THEOREM MarkerStaysMeaningful == SharedSpec => []MarkerIsProofOrRefusal
  BY SharedInitially, StepShared, PTL DEF SharedSpec

(* However long a daily job waited on its checkout, its push never moves   *)
(* the day of record back.                                                 *)
THEOREM RecordMovesForward == SharedSpec => RecordNeverRegresses
<1>1. SharedInv /\ [SharedNext]_allVars
        => [Tip.latest <= history'[Len(history')].latest]_allVars
  BY StepShared DEF Tip
<1> QED
  BY <1>1, SharedInitially, StepShared, PTL DEF SharedSpec, RecordNeverRegresses
=============================================================================
