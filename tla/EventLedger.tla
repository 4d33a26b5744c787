---------------------------- MODULE EventLedger ----------------------------
(***************************************************************************)
(* The global event and episode ledger (src/src/event_ledger.py): the      *)
(* public artifact built from the event stores under a rights gate, and    *)
(* the archive of signed vintages it may append to.  A vintage binds its   *)
(* predecessor, may not drop or launder a published day, and may not be    *)
(* rewritten by any commit that ever touched the archive.                  *)
(*                                                                         *)
(* Digests are the values they digest.  A day's row is a number, 0 when    *)
(* there is none.  The dyad, state, world and episode files are taken to   *)
(* reconcile with the daily store: while they do not, every build is       *)
(* refused and nothing is written, which is a step not taken.  The clock   *)
(* ticks twice a day, so that two steps can share a date.                  *)
(***************************************************************************)
EXTENDS Integers, Sequences, FiniteSets

CONSTANTS
    Value,         \* what a day's row can say
    LastDay,       \* bound: the last calendar day an event row can have
    MaxClock,      \* bound: ticks
    MaxVintages,   \* bound: vintages in the archive
    MaxCommits     \* bound: commits that touch the archive

VARIABLES
    clock,         \* the verifier's wall clock
    rows,          \* daily store: day -> row value
    gaps,          \* the unavailable-days register
    rights,        \* review_due of the four approved source decisions, 0 when not approved
    statement,     \* the release statement a human has signed, None if none
    commits,       \* archive and public file of each commit, oldest first
    working,       \* the archive in the worktree: vintages in their order
    public         \* docs/data/event_ledger.json

inputs == <<rows, gaps, rights>>
vars == <<clock, rows, gaps, rights, statement, commits, working, public>>

Day == 1..LastDay
Date(c) == c \div 2
None == <<>>

-----------------------------------------------------------------------------
(* The candidate: _build_candidate.                                        *)

Observed == {d \in Day : rows[d] # 0}
Baseline == {1}            \* the frozen candidate baseline's observed days

\* From its start to the last observed day every day is observed or registered
\* as unavailable, never both; nothing is registered beyond it.
CalendarPartitioned ==
    /\ Observed \cap gaps = {}
    /\ Observed \cup gaps = {d \in Day : \E o \in Observed : d <= o}

CandidateValid ==
    /\ 1 \in Observed /\ Baseline \subseteq Observed
    /\ CalendarPartitioned

FrameEnd == CHOOSE d \in Observed : \A o \in Observed : o <= d

\* The days of the represented calendar; 0 marks a registered gap.
Candidate == [d \in {d \in Day : d <= FrameEnd} |-> rows[d]]

-----------------------------------------------------------------------------
(* The rights gate and the release state.                                  *)

\* Every required source approved by a pinned human signer, its review not due.
Authorized(asOf) == rights >= asOf

\* The gate's report names the date it was evaluated for.
RightsGate(asOf) == [due |-> rights, asOf |-> asOf]

RightsAsOf(at) == IF Date(at) > FrameEnd THEN Date(at) ELSE FrameEnd

State(r) == <<r.series, r.gate>>

\* (Faulty variant: a published day may come back as unavailable.)
NoDayRemoved(old, new) == DOMAIN old \subseteq DOMAIN new

\* _release_delta refuses a candidate that drops a published day or turns an
\* observed one into a gap.
DeltaComputable(old, new) ==
    /\ DOMAIN old \subseteq DOMAIN new
    /\ \A d \in DOMAIN old : old[d] # 0 => new[d] # 0

\* The days the successor's typed delta lists as added or revised.
Delta(old, new) == {d \in DOMAIN new : d \in DOMAIN old => old[d] # new[d]}

-----------------------------------------------------------------------------
(* The archive.                                                            *)

\* (Faulty variant: only the file that is there is compared.)
AppendOnlyTip(parent, head) ==
    /\ Len(head) <= Len(parent) + 1
    /\ \A i \in DOMAIN head \cap DOMAIN parent : head[i] = parent[i]

Continues(earlier, later) ==
    /\ Len(earlier) <= Len(later)
    /\ SubSeq(later, 1, Len(earlier)) = earlier

\* _enforce_archive_transition: nothing removed or rewritten, at most the next
\* sequential vintage added.
Appends(parent, head) == Continues(parent, head) /\ Len(head) <= Len(parent) + 1

\* _validate_archive_append_only: every commit against its parent, then the
\* worktree against HEAD.
Tip == commits[Len(commits)]

CommitsAppendOnly ==
    \A i \in 2..Len(commits) : Appends(commits[i - 1].archive, commits[i].archive)

ArchiveAppendOnly == CommitsAppendOnly /\ Appends(Tip.archive, working)

\* _authorized_history and _verify_authorized_release: each file's signature and
\* digests (intact), predecessor, time and recomputed delta.
Predecessor(archive, i) == IF i = 1 THEN None ELSE archive[i - 1]

ChainLink(prev, r) ==
    /\ r.intact /\ r.pred = prev
    /\ prev # None => r.at > prev.at /\ DeltaComputable(prev.series, r.series)
    /\ r.delta = Delta(IF prev = None THEN <<>> ELSE prev.series, r.series)

HistoryValid == \A i \in 1..Len(working) : ChainLink(Predecessor(working, i), working[i])

Previous == IF working = <<>> THEN None ELSE working[Len(working)]

-----------------------------------------------------------------------------
(* build.  The outcome is an artifact, or Refused when an error is raised. *)

Refused == [kind |-> "refused"]
Blocked(gate) == [kind |-> "blocked", gate |-> gate]
Released(r) == [kind |-> "release", release |-> r]

Unsigned(at, prev) ==
    [series |-> Candidate, gate |-> RightsGate(RightsAsOf(at)), at |-> at, pred |-> prev,
     delta |-> Delta(IF prev = None THEN <<>> ELSE prev.series, Candidate),
     intact |-> TRUE]

\* _verify_release_time and _release_delta.
Releasable(r) ==
    /\ Date(r.at) >= FrameEnd /\ r.at <= clock
    /\ working # <<>> => r.at > Previous.at /\ DeltaComputable(Previous.series, r.series)

\* at: the release time given, -1 for none; signed: the signed statement, if any.
Build(at, signed) ==
    LET gate == RightsGate(IF at = -1 THEN FrameEnd ELSE RightsAsOf(at))
        prev == Previous
        new  == Unsigned(at, prev)
    IN  IF ~ArchiveAppendOnly \/ ~HistoryValid \/ ~CandidateValid THEN Refused
        ELSE IF ~Authorized(gate.asOf) THEN Blocked(gate)
        ELSE IF working # <<>> /\ State(prev) = <<Candidate, gate>> THEN Released(prev)
        ELSE IF at # -1 /\ Releasable(new) /\ signed = new THEN Released(new)
        ELSE Refused

\* write: a second build with the wall clock when the first wants a time.
Refreshed ==
    LET first == Build(-1, None)
    IN  IF first # Refused THEN first ELSE Build(clock, None)

-----------------------------------------------------------------------------
Init ==
    /\ clock = 2 * LastDay + 1
    /\ rows = [d \in Day |-> IF d = 1 THEN CHOOSE v \in Value : TRUE ELSE 0]
    /\ gaps = {}
    /\ rights = 0
    /\ statement = None
    /\ working = <<>>
    /\ public = Blocked([due |-> 0, asOf |-> 1])
    /\ commits = << [archive |-> working, public |-> public] >>

Tick ==
    /\ clock < MaxClock                                       \* bound: MaxClock
    /\ clock' = clock + 1
    /\ UNCHANGED <<inputs, statement, commits, working, public>>

\* An acquisition writes or revises a day's row, or a rebuild drops it.
Acquire(d, v) ==
    /\ d < Date(clock) /\ v # rows[d]
    /\ rows' = [rows EXCEPT ![d] = v]
    /\ UNCHANGED <<clock, gaps, rights, statement, commits, working, public>>

\* Bound: the baseline's days are left alone, for every build refuses them.
Reregister(d) ==
    /\ d \notin Baseline
    /\ gaps' = IF d \in gaps THEN gaps \ {d} ELSE gaps \cup {d}
    /\ UNCHANGED <<clock, rows, rights, statement, commits, working, public>>

\* The source decisions are approved until a review date, or withdrawn.
Decide(due) ==
    /\ rights' = due
    /\ UNCHANGED <<clock, rows, gaps, statement, commits, working, public>>

\* A human signs the statement of the release the inputs would make now.
Sign ==
    /\ statement = None
    /\ CandidateValid /\ rights # 0 /\ Len(working) < MaxVintages           \* bound: MaxVintages
    /\ statement' = Unsigned(clock, Previous)
    /\ UNCHANGED <<clock, inputs, commits, working, public>>

\* _write_immutable: a file that is there keeps its bytes.
Stored(archive, r) ==
    IF \E i \in DOMAIN archive : archive[i] = r THEN archive ELSE Append(archive, r)

\* (Faulty variant: the public file is replaced before the vintage is linked.)
WritesPublicFirst(artifact) ==
    /\ artifact.kind # "refused"
    /\ public' = artifact
    /\ working' \in {working, IF artifact.kind = "release"
                              THEN Stored(working, artifact.release) ELSE working}

\* The vintage is linked into the archive first, then the public file is
\* replaced; a crash may fall between the two.
Writes(artifact) ==
    /\ artifact.kind # "refused"
    /\ working' = IF artifact.kind = "release"
                  THEN Stored(working, artifact.release) ELSE working
    /\ public' \in {public, artifact}

\* python -m src.event_ledger in the morning and daily workflows.
Refresh == Writes(Refreshed) /\ UNCHANGED <<clock, inputs, statement, commits>>

\* The release procedure: build with the signed statement's time, once.
Release ==
    /\ statement # None
    /\ statement' = None
    /\ LET artifact == Build(statement.at, statement)
       IN  IF artifact = Refused THEN UNCHANGED <<working, public>> ELSE Writes(artifact)
    /\ UNCHANGED <<clock, inputs, commits>>

\* A lane commits its worktree; the next one starts from that commit.
Commit ==
    /\ working # Tip.archive \/ public # Tip.public
    /\ Len(commits) < MaxCommits                              \* bound: MaxCommits
    /\ commits' = Append(commits, [archive |-> working, public |-> public])
    /\ UNCHANGED <<clock, inputs, statement, working, public>>

Checkout ==
    /\ working' = Tip.archive /\ public' = Tip.public
    /\ UNCHANGED <<clock, inputs, statement, commits>>

\* A commit by hand deletes the newest vintage, or rewrites it in place.
CommitEdited ==
    /\ Tip.archive # <<>> /\ Len(commits) < MaxCommits        \* bound: MaxCommits
    /\ working' \in {SubSeq(Tip.archive, 1, Len(Tip.archive) - 1),
                     [Tip.archive EXCEPT ![Len(Tip.archive)] =
                                            [@ EXCEPT !.intact = FALSE, !.series = <<>>]]}
    /\ public' = Tip.public
    /\ commits' = Append(commits, [archive |-> working', public |-> public'])
    /\ UNCHANGED <<clock, inputs, statement>>

Next ==
    \/ Tick
    \/ \E d \in Day, v \in Value \cup {0} : Acquire(d, v)
    \/ \E d \in Day : Reregister(d)
    \/ \E due \in {0, Date(MaxClock)} : Decide(due)
    \/ Sign \/ Release \/ Refresh
    \/ Commit \/ Checkout \/ CommitEdited

Spec == Init /\ [][Next]_vars

-----------------------------------------------------------------------------
(* Properties.                                                             *)

(* What the public file shows is a vintage the archive holds, whatever     *)
(* crash fell between the two writes and whatever was checked out since,   *)
(* as long as no commit edited the archive by hand.                        *)
PublicIsArchived ==
    ArchiveAppendOnly /\ public.kind = "release"
        => \E i \in DOMAIN working : working[i] = public.release

(* A day once published as observed is observed in every later vintage,    *)
(* however the stores and the register were rebuilt in between, what was   *)
(* signed when and where a crash fell: unless a commit edited the archive  *)
(* by hand, no chain of releases launders it into an unavailable day.      *)
NothingLaundered ==
    ArchiveAppendOnly =>
        \A i, j \in DOMAIN working : i <= j =>
            \A d \in DOMAIN working[i].series :
                /\ d \in DOMAIN working[j].series
                /\ working[i].series[d] # 0 => working[j].series[d] # 0

CleanStep ==
    public' # public /\ commits' = commits /\ public' # Tip.public =>
        \A i, j \in DOMAIN commits : i <= j => Continues(commits[i].archive, commits[j].archive)

(* An innocent tip cannot hide an earlier rewrite: the public file only    *)
(* changes while every archive ever committed is a prefix of every later   *)
(* one.                                                                    *)
BuiltOnCleanHistory == [][CleanStep]_vars

=============================================================================
