---------------------------- MODULE FinalContract ----------------------------
(***************************************************************************)
(* The finalized-publication contract of src/src/final_publication.py as   *)
(* operators on trees: what one acquisition writes, what a promotion       *)
(* receipt proves against a frozen parent commit, what a value-free        *)
(* refusal may change, and what the release proof demands of a candidate.  *)
(* A tree is the contract-relevant content of a checkout of main; bytes    *)
(* are abstracted to what the code compares:                               *)
(*   latest       the day of docs/data/latest.json and history.json        *)
(*   store, prov  the days with a row in gdelt_volume.csv, provenance.csv  *)
(*   cache        the days with a file in ngram_days                       *)
(*   receipt      per day, the transform receipt: the parent commit it was *)
(*                acquired on and the version of the inputs it hashes      *)
(*   inputs       the version of dictionaries, matcher, calibration,       *)
(*                profile and rights files                                 *)
(*   marker       final_publication_status.json                            *)
(*   ledger       final_publication_refusals, see BacklogOrder             *)
(*   legacyBound  the legacy day's verification receipt exists             *)
(* A commit is its position in the linear history of main.                 *)
(***************************************************************************)
EXTENDS BacklogOrder, Sequences

CONSTANT InputVersions       \* how many versions of the inputs are modelled

ASSUME InputVersionsAssumption == InputVersions \in Nat \ {0}

Inputs == 1..InputVersions

Receipt == [base : Nat, inputs : 0..InputVersions]
NoReceipt == [base |-> 0, inputs |-> 0]

MarkerStatus ==
    {"legacy_proof_limited", "target_ready", "finalized", "already_finalized",
     "source_unavailable", "acquisition_failed", "pipeline_failed"}

Marker ==
    [target : Day, status : MarkerStatus, base : Nat, pin : Receipt,
     latest : Day, code : ReasonCode \cup {"none"}]

Tree ==
    [latest : Day, store : SUBSET Day, prov : SUBSET Day, cache : SUBSET Day,
     receipt : [Day -> Receipt], ledger : Ledger, marker : Marker,
     inputs : Inputs, legacyBound : BOOLEAN]

IsLast(d, days) == d \in days /\ \A e \in days : e <= d

\* The rows end at the target's predecessor, or at an earlier day with every
\* day between disclosed.
PrefixReaches(days, ledger, t) ==
    \E last \in days : IsLast(last, days) /\ PrefixGapDisclosed(ledger, last, t)

-----------------------------------------------------------------------------
(* record_status and the acquisition bundle.                               *)

ProtectedFinal(marker, t) ==
    marker.target = t /\ marker.status = "finalized" /\ marker.pin # NoReceipt

\* (Faulty variant: an acknowledgment overwrites the finalized marker, the
\* incident of 2026-08-19.)
RecordStatusUnprotected(tree, t, status, base, pin) ==
    [tree EXCEPT !.marker =
        [target |-> t, status |-> status, base |-> base, pin |-> pin,
         latest |-> tree.latest, code |-> "none"]]

RecordStatus(tree, t, status, base, pin) ==
    IF ProtectedFinal(tree.marker, t)
    THEN tree
    ELSE [tree EXCEPT !.marker =
            [target |-> t, status |-> status, base |-> base, pin |-> pin,
             latest |-> tree.latest, code |-> "none"]]

\* Everything acquire_target checks before it writes the bundle.
CandidatePreparable(tree, t) ==
    /\ PrefixGapDisclosed(tree.ledger, tree.latest, t)
    /\ \A d \in tree.store \cup tree.prov : d < t
    /\ PrefixReaches(tree.store, tree.ledger, t)
    /\ PrefixReaches(tree.prov, tree.ledger, t)

\* The five atomic replacements of _commit_candidate_bundle, in their order;
\* the target_ready marker is the last and makes the bundle visible.
BundleSize == 5

BundlePrefix(tree, t, base, k) ==
    LET r == [base |-> base, inputs |-> tree.inputs]
        upTo(n, new, old) == IF k >= n THEN new ELSE old
    IN  [tree EXCEPT
            !.cache   = upTo(1, @ \cup {t}, @),
            !.store   = upTo(2, @ \cup {t}, @),
            !.prov    = upTo(3, @ \cup {t}, @),
            !.receipt = upTo(4, [@ EXCEPT ![t] = r], @),
            !.marker  = upTo(5, [target |-> t, status |-> "target_ready",
                                 base |-> base, pin |-> r,
                                 latest |-> tree.latest, code |-> "none"], @)]

-----------------------------------------------------------------------------
(* require_promotion_receipt against a parent tree the workflow froze.     *)

PromotionReceiptValid(tree, parent, parentId, t, status) ==
    /\ t \in tree.cache \cap tree.prov
    /\ tree.receipt[t] # NoReceipt
    /\ tree.receipt[t].base = parentId
    /\ tree.receipt[t].inputs = tree.inputs
    /\ tree.inputs = parent.inputs
    /\ tree.marker.base = parentId
    /\ tree.marker.target = t
    /\ tree.marker.status = status
    /\ tree.marker.pin = tree.receipt[t]
    /\ IsLast(t, tree.store) /\ IsLast(t, tree.prov)
    /\ PrefixReaches(parent.store, tree.ledger, t)
    /\ PrefixReaches(parent.prov, tree.ledger, t)
    /\ tree.store \ {t} = parent.store
    /\ tree.prov \ {t} = parent.prov

\* mark_finalized: the marker turns from target_ready to finalized under the
\* same pin, once the receipt holds and the public bytes end at the target.
Finalizable(tree, parent, parentId, t) ==
    /\ tree.marker.pin # NoReceipt
    /\ PromotionReceiptValid(tree, parent, parentId, t, "target_ready")
    /\ tree.latest = t

\* (Faulty variant: the marker keeps the published day target_ready saw.)
MarkFinalizedStale(tree, t) == [tree EXCEPT !.marker.status = "finalized"]

MarkFinalized(tree, t) ==
    RecordStatus(tree, t, "finalized", tree.receipt[t].base, tree.marker.pin)

-----------------------------------------------------------------------------
(* record_pipeline_failed: a value-free refusal of one target.             *)

\* (Faulty variant: a public state nobody registered.)
StateOfUnregistered(code) ==
    CASE code = "source_unavailable"        -> "source_unavailable"
      [] code = "source_acquisition_failed" -> "acquisition_failed"
      [] code = "audit_validation_failed"   -> "audit_failed"
      [] OTHER                              -> "pipeline_failed"

StateOf(code) ==
    CASE code = "source_unavailable"        -> "source_unavailable"
      [] code = "source_acquisition_failed" -> "acquisition_failed"
      [] OTHER                              -> "pipeline_failed"

ReasonCodeFor(prior, t, stage) ==
    IF stage = "source" /\ prior.target = t /\ prior.status = "source_unavailable"
    THEN "source_unavailable"
    ELSE DefaultCode(stage)

\* The published prefix a target_ready marker captured outlives a candidate
\* latest.json; a local finalized marker is never copied.
DisclosedLatest(tree, t) ==
    IF /\ tree.marker.target = t
       /\ tree.marker.status = "target_ready"
       /\ tree.marker.latest # t
    THEN tree.marker.latest
    ELSE tree.latest

\* (Faulty variant: a repeated refusal rewrites the day's ledger file.)
RecordPipelineFailedAnew(tree, t, stage, base, on) ==
    LET code == ReasonCodeFor(tree.marker, t, stage)
    IN  [tree EXCEPT
            !.marker = [target |-> t, status |-> StateOf(code), base |-> base,
                        pin |-> NoReceipt,
                        latest |-> DisclosedLatest(tree, t), code |-> code],
            !.ledger = [@ EXCEPT ![t] = [code |-> code, on |-> on]]]

RecordPipelineFailed(tree, t, stage, base, on) ==
    LET code == ReasonCodeFor(tree.marker, t, stage)
    IN  [tree EXCEPT
            !.marker = [target |-> t, status |-> StateOf(code), base |-> base,
                        pin |-> NoReceipt,
                        latest |-> DisclosedLatest(tree, t), code |-> code],
            !.ledger = Disclose(@, t, code, on)]

\* publish_refusal: a worktree of the frozen base that receives the run's
\* marker and nothing else of its work.  (Faulty variant: the run's own tree.)
RefusalTreeFromWork(parent, work, t, stage, base, on) ==
    RecordPipelineFailed(work, t, stage, base, on)

RefusalTree(parent, work, t, stage, base, on) ==
    RecordPipelineFailed([parent EXCEPT !.marker = work.marker], t, stage, base, on)

-----------------------------------------------------------------------------
(* Proofs read from history.                                               *)

\* git log --diff-filter=A over the receipt's path.
Introductions(h, t) ==
    {i \in 1..Len(h) : /\ h[i].receipt[t] # NoReceipt
                       /\ i > 1 => h[i - 1].receipt[t] = NoReceipt}

\* _committed_receipt_parent returns p for the marker of tree, whose HEAD is
\* the last commit of h: HEAD itself while the candidate is uncommitted, else
\* the parent of the one commit that introduced the receipt.
CommittedReceiptParent(h, tree, p) ==
    LET t == tree.marker.target
    IN  /\ tree.marker.pin # NoReceipt
        /\ tree.marker.base = p
        /\ \/ p = Len(h)
           \/ /\ p < Len(h)
              /\ Introductions(h, t) = {p + 1}
              /\ p > 0
              /\ tree.receipt[t] = h[p + 1].receipt[t]

\* public_status says "finalized" of tree for the day t.
PublicProven(h, tree, t) ==
    /\ tree.latest = t
    /\ \E p \in 1..Len(h) :
        /\ CommittedReceiptParent(h, tree, p)
        /\ PromotionReceiptValid(tree, h[p], p, t, "finalized")

\* The release proof of a final candidate committed on h[base].
ReleaseFinalOk(h, cand, t) ==
    LET lineage == Append(h, cand)
    IN  /\ cand.marker.target = t
        /\ cand.marker.status = "finalized"
        /\ PublicProven(lineage, cand, t)

ReleaseVerificationOk(parent, cand, t) ==
    /\ t = LegacyDay
    /\ ~parent.legacyBound
    /\ cand = [parent EXCEPT !.legacyBound = TRUE]

\* The release proof of a refusal candidate: only the marker and the target's
\* ledger file differ from the parent, and the marker is value-free.
RefusalMarkerOk(m, parent, base, t) ==
    /\ m.code \in ReasonCode
    /\ m.status = StateOf(m.code)
    /\ m.base = base
    /\ m.pin = NoReceipt
    /\ m.target = t
    /\ m.latest < t
    /\ m.latest = parent.latest

ReleaseRefusalOk(parent, cand, base, t) ==
    /\ cand.marker # parent.marker
    /\ cand = [parent EXCEPT !.marker = cand.marker,
                             !.ledger = [@ EXCEPT ![t] = cand.ledger[t]]]
    /\ RefusalMarkerOk(cand.marker, parent, base, t)
=============================================================================
