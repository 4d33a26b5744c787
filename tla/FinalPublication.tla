-------------------------- MODULE FinalPublication --------------------------
(***************************************************************************)
(* The morning contract lane: .github/workflows/morning.yml drives         *)
(* src/src/final_publication.py and src/scripts/publish_final_cas.sh.      *)
(* One run at a time (the concurrency group) freezes a base commit and a   *)
(* contract day, acquires the day's frame, scores, audits and derives it,  *)
(* builds one candidate commit on the frozen base, gates it and pushes it  *)
(* by compare-and-swap.  Everybody else who pushes to main appears as      *)
(* ForeignPush, at any moment; time passes at any moment.                  *)
(***************************************************************************)
EXTENDS FinalContract

CONSTANT MaxCommits          \* bound: main is not extended past this length

ASSUME MaxCommitsAssumption == MaxCommits \in Nat \ {0}

VARIABLES
    today,       \* the UTC date
    history,     \* the trees of main, oldest first; a commit is its index
    phase,       \* what the active run does next
    run,         \* what the active run froze, and the stage that failed
    work         \* its checkout, then its candidate tree

vars == <<today, history, phase, run, work>>

Phase == {"idle", "acquire", "pipeline", "audit", "derived", "settled",
          "candidate", "gated", "checked"}
Run == [target : Day, now : Nat, base : Nat, failed : Stage \cup {"none"}]
NoRun == [target |-> LegacyDay, now |-> 0, base |-> 0, failed |-> "none"]

Tip == history[Len(history)]
Base == history[run.base]

LegacyTree(i, bound) ==
    [latest |-> LegacyDay, store |-> {LegacyDay}, prov |-> {LegacyDay},
     cache |-> {LegacyDay}, receipt |-> [d \in Day |-> NoReceipt],
     ledger |-> EmptyLedger,
     marker |-> [target |-> LegacyDay, status |-> "legacy_proof_limited",
                 base |-> 0, pin |-> NoReceipt, latest |-> LegacyDay,
                 code |-> "none"],
     inputs |-> i, legacyBound |-> bound]

Init ==
    /\ today = 1
    /\ \E i \in Inputs, bound \in BOOLEAN : history = <<LegacyTree(i, bound)>>
    /\ phase = "idle"
    /\ run = NoRun
    /\ work = history[1]

-----------------------------------------------------------------------------
(* The environment.                                                        *)

\* A run sees at most one midnight: its job cap is ninety minutes.
Tick ==
    /\ today <= MaxDay                                       \* bound: MaxDay
    /\ phase # "idle" => run.now = today
    /\ today' = today + 1
    /\ UNCHANGED <<history, phase, run, work>>

\* Another workflow or a developer pushes to main; it may change the inputs
\* but no contract path.
ForeignPush ==
    /\ Len(history) < MaxCommits                         \* bound: MaxCommits
    /\ \E i \in Inputs : history' = Append(history, [Tip EXCEPT !.inputs = i])
    /\ UNCHANGED <<today, phase, run, work>>

-----------------------------------------------------------------------------
(* The guard freezes the contract day and the fetched remote tip.          *)

Guard ==
    /\ phase = "idle"
    /\ Len(history) < MaxCommits                         \* bound: MaxCommits
    /\ \E t \in Day :
        /\ IsNextTarget(t, Tip.latest, Tip.legacyBound, Tip.ledger, today)
        /\ ~(t = LegacyDay /\ t = RequiredTarget(today))   \* proven: skip
        /\ run' = [target |-> t, now |-> today, base |-> Len(history), failed |-> "none"]
    /\ phase' = "acquire"
    /\ work' = Tip
    /\ UNCHANGED <<today, history>>

\* The job ends without a push: a red gate, a refused proof, the job cap.  A
\* run whose preflight tests were red ends here too: the gate runs the same
\* tests on its refusal.
EndRun ==
    /\ phase' = "idle"
    /\ run' = NoRun
    /\ work' = history[1]

Abort ==
    /\ phase # "idle"
    /\ EndRun
    /\ UNCHANGED <<today, history>>

-----------------------------------------------------------------------------
(* The source step.                                                        *)

FailStage(stage) ==
    /\ run' = [run EXCEPT !.failed = stage]
    /\ phase' = "settled"

VerifyLegacy ==
    /\ phase = "acquire" /\ run.target = LegacyDay
    /\ \/ /\ work' = [work EXCEPT !.legacyBound = TRUE]
          /\ phase' = "settled"
          /\ UNCHANGED run
       \/ FailStage("source") /\ UNCHANGED work
    /\ UNCHANGED <<today, history>>

Acquiring == phase = "acquire" /\ run.target # LegacyDay

AcquireReady ==
    /\ Acquiring
    /\ CandidatePreparable(work, run.target)
    /\ work' = BundlePrefix(work, run.target, run.base, BundleSize)
    /\ phase' = "pipeline"
    /\ UNCHANGED <<today, history, run>>

\* The rights decision does not cover the day, no frame, an exception, a partial
\* frame, or a bundle write that failed; leftover writes are those whose
\* rollback failed too.
AcquireRefused(status, k) ==
    /\ Acquiring
    /\ k > 0 => status = "acquisition_failed" /\ CandidatePreparable(work, run.target)
    /\ LET left == [BundlePrefix(work, run.target, run.base, k) EXCEPT !.marker = work.marker]
       IN  work' = RecordStatus(left, run.target, status, run.base, NoReceipt)
    /\ FailStage("source")
    /\ UNCHANGED <<today, history>>

\* timeout --signal=TERM: no rollback runs.
AcquireKilled(k) ==
    /\ Acquiring
    /\ k > 0 => CandidatePreparable(work, run.target)
    /\ work' = BundlePrefix(work, run.target, run.base, k)
    /\ FailStage("source")
    /\ UNCHANGED <<today, history>>

Acquire ==
    \/ VerifyLegacy
    \/ AcquireReady
    \/ \E status \in {"source_unavailable", "acquisition_failed"}, k \in 0..BundleSize :
            AcquireRefused(status, k)
    \/ \E k \in 0..BundleSize : AcquireKilled(k)

-----------------------------------------------------------------------------
(* run_daily --final-only, the audit and the derived lanes.                *)

PipelineReady ==
    /\ IsNextTarget(run.target, work.latest, work.legacyBound, work.ledger, run.now)
    /\ PromotionReceiptValid(work, Base, run.base, run.target, "target_ready")

Scored == [work EXCEPT !.latest = run.target]

PipelineDone ==
    /\ phase = "pipeline"
    /\ PipelineReady
    /\ Finalizable(Scored, Base, run.base, run.target)
    /\ work' = MarkFinalized(Scored, run.target)
    /\ phase' = "audit"
    /\ UNCHANGED <<today, history, run>>

\* It fails before it writes, after the site outputs, or is killed after the
\* finalized marker.
PipelineFailed ==
    /\ phase = "pipeline"
    /\ work' \in {work, Scored, MarkFinalized(Scored, run.target)}
    /\ FailStage("pipeline")
    /\ UNCHANGED <<today, history>>

StagePasses(stage, next) ==
    /\ phase = stage
    /\ phase' = next
    /\ UNCHANGED <<today, history, run, work>>

StageFails(stage) ==
    /\ phase = stage
    /\ FailStage(stage)
    /\ UNCHANGED <<today, history, work>>

AuditPasses == StagePasses("audit", "derived")
DerivedPasses == StagePasses("derived", "settled")
AuditFails == StageFails("audit")
DerivedFails == StageFails("derived")

-----------------------------------------------------------------------------
(* publish_final_cas.sh.                                                   *)

Class ==
    IF run.failed # "none" THEN "refusal"
    ELSE IF run.target = LegacyDay THEN "verification" ELSE "final"

\* A final or a verification commits the run's tree; a refusal is rebuilt on
\* the base, provided the target is still the ordered one of its own day.
MakeCandidate ==
    /\ phase = "settled"
    /\ \/ run.failed = "none" /\ UNCHANGED work
       \/ /\ run.failed # "none"
          /\ IsNextTarget(run.target, Base.latest, Base.legacyBound, Base.ledger,
                          run.target + 1)
          /\ work' = RefusalTree(Base, work, run.target, run.failed, run.base, today)
    /\ phase' = "candidate"
    /\ UNCHANGED <<today, history, run>>

GateGreen ==
    /\ phase = "candidate"
    /\ phase' = "gated"
    /\ UNCHANGED <<today, history, run, work>>

RemoteIsBase(h, base) == Len(h) = base

CheckRemote ==
    /\ phase = "gated"
    /\ RemoteIsBase(history, run.base)
    /\ phase' = "checked"
    /\ UNCHANGED <<today, history, run, work>>

ReleaseOk ==
    CASE Class = "final" ->
            ReleaseFinalOk(SubSeq(history, 1, run.base), work, run.target)
      [] Class = "verification" ->
            ReleaseVerificationOk(Base, work, run.target)
      [] Class = "refusal" ->
            ReleaseRefusalOk(Base, work, run.base, run.target)

\* (Faulty variant: a rejected push is rebased onto the new tip.)
PushRebased ==
    /\ phase = "checked"
    /\ ReleaseOk
    /\ history' = Append(history, [work EXCEPT !.inputs = Tip.inputs])
    /\ EndRun
    /\ UNCHANGED today

\* The candidate's only parent is the base, so the remote accepts the push
\* exactly when the base still is the tip.
Push ==
    /\ phase = "checked"
    /\ ReleaseOk
    /\ RemoteIsBase(history, run.base)
    /\ history' = Append(SubSeq(history, 1, run.base), work)
    /\ EndRun
    /\ UNCHANGED today

-----------------------------------------------------------------------------
RunStep ==
    \/ Guard \/ Abort \/ Acquire
    \/ PipelineDone \/ PipelineFailed
    \/ AuditPasses \/ AuditFails \/ DerivedPasses \/ DerivedFails
    \/ MakeCandidate \/ GateGreen \/ CheckRemote \/ Push

Next == Tick \/ ForeignPush \/ RunStep

Spec == Init /\ [][Next]_vars

-----------------------------------------------------------------------------
(* Properties.                                                             *)

(* Every variable stays in its domain; the run's frozen base is a commit.  *)
TypeOK ==
    /\ today \in 1..(MaxDay + 1)
    /\ history \in Seq(Tree) /\ Len(history) > 0
    /\ phase \in Phase
    /\ run \in Run
    /\ phase # "idle" => run.base \in 1..Len(history) /\ run.now \in 1..today
    /\ work \in Tree

\* The public record of one commit is ordered: one row per published day in
\* store, provenance and cache, a receipt for each of them but the legacy
\* day, and for every day passed over a published lost-source disclosure.
OrderedTree(tree) ==
    /\ IsLast(tree.latest, tree.store)
    /\ tree.prov = tree.store
    /\ tree.store \subseteq tree.cache
    /\ \A d \in Day \ {LegacyDay} : d \in tree.store <=> tree.receipt[d] # NoReceipt
    /\ \A d \in Day : d < tree.latest /\ d \notin tree.store =>
            tree.ledger[d].code = "source_acquisition_failed"

\* What a run that passed every step commits: the base plus one day.
FinalTree(tree, t, base) ==
    LET r == [base |-> base, inputs |-> tree.inputs]
    IN  [tree EXCEPT
            !.latest = t, !.cache = @ \cup {t}, !.store = @ \cup {t},
            !.prov = @ \cup {t}, !.receipt = [@ EXCEPT ![t] = r],
            !.marker = [target |-> t, status |-> "finalized", base |-> base,
                        pin |-> r, latest |-> t, code |-> "none"]]

Built == phase \in {"candidate", "gated", "checked"}
Stepping == phase \in {"acquire", "pipeline"}
Clean == run.failed = "none"
OnFinalPath == Clean /\ run.target # LegacyDay

(* Whatever main does meanwhile, a run stays rooted in the commit it froze: *)
(* its target is the ordered one of that commit and date, a tree without a  *)
(* failed step is that commit plus exactly one day (or the legacy receipt), *)
(* and a refusal discloses the target under the date of the run.            *)
RunRooted ==
    phase # "idle" =>
        /\ IsNextTarget(run.target, Base.latest, Base.legacyBound, Base.ledger, run.now)
        /\ today <= run.now + 1
        /\ phase = "acquire" => Clean /\ work = Base
        /\ phase = "pipeline" =>
                /\ OnFinalPath
                /\ work = BundlePrefix(Base, run.target, run.base, BundleSize)
        /\ phase \in {"audit", "derived"} => OnFinalPath
        /\ phase # "acquire" /\ OnFinalPath => CandidatePreparable(Base, run.target)
        /\ ~Stepping /\ OnFinalPath => work = FinalTree(Base, run.target, run.base)
        /\ ~Stepping /\ Clean /\ ~OnFinalPath => work = [Base EXCEPT !.legacyBound = TRUE]
        /\ Built /\ ~Clean =>
                \E code \in ReasonCode, on \in run.now..today :
                    work.ledger = Disclose(Base.ledger, run.target, code, on)

(* No commit of main ever has a hole: the three layers of contiguity       *)
(* (pointer, store, provenance) agree, whatever killed, rolled back or     *)
(* raced the runs before it.                                               *)
MainOrdered == \A i \in 1..Len(history) : OrderedTree(history[i])

RootedReceipt(h, d, i) ==
    \E p \in 1..(i - 1) :
        /\ Introductions(h, d) = {p + 1}
        /\ h[i].receipt[d] = [base |-> p, inputs |-> h[p].inputs]

(* A published receipt names as its base exactly the parent of the commit  *)
(* that introduced it and that parent's inputs, and its bytes never change *)
(* afterwards: the fact _committed_receipt_parent relies on.               *)
ReceiptsRooted ==
    \A d \in Day : \A i \in 1..Len(history) :
        history[i].receipt[d] # NoReceipt => RootedReceipt(history, d, i)

(* As long as nobody changes the inputs the last published final stays     *)
(* provable from the tip alone, until a later day's marker replaces its    *)
(* marker.                                                                 *)
LastFinalProvable ==
    Tip.marker.status = "finalized" =>
        \/ PublicProven(history, Tip, Tip.latest)
        \/ Tip.inputs # Tip.receipt[Tip.latest].inputs

(* What the lane builds it can release: of a settled run's candidate, only *)
(* the gate or a moved remote can stop a refusal, and of a final only      *)
(* those.  A candidate that its own release proof rejects would silence    *)
(* the lane, with nothing published and nothing disclosed.                 *)
CandidateReleasable ==
    Built =>
        ReleaseOk \/ (run.target = LegacyDay /\ run.failed # "none")

(* A refused day never reads as published: while the marker on main is a   *)
(* refusal, the number of record it names is the one main serves.          *)
RefusalTellsTruth ==
    Tip.marker.code # "none" =>
        /\ Tip.marker.latest = Tip.latest
        /\ Tip.marker.target > Tip.latest
        /\ Tip.ledger[Tip.marker.target].code = Tip.marker.code

(* Main never names the running day or a later one, although the run that  *)
(* published it read the clock long before.                                *)
OnlyClosedDays == \A d \in Tip.store : d < today

(* Every commit anybody pushed to main stays in its history: a run that    *)
(* lost the race to another push never writes over it.                     *)
MainNeverRewritten ==
    [][SubSeq(history', 1, Len(history)) = history]_vars

(* The lane implements the ordered backlog: a push is one publication, one *)
(* refusal, one legacy binding, or invisible.                              *)
Backlog == INSTANCE OrderedBacklog WITH
    latest <- Tip.latest, published <- Tip.store, legacyBound <- Tip.legacyBound, ledger <- Tip.ledger

ImplementsBacklog == Backlog!Spec
=============================================================================
