-------------------------- MODULE EventLedgerProofs --------------------------
(***************************************************************************)
(* The archive of event-ledger vintages, for any number of days, values,   *)
(* vintages and commits.  What the three properties say of the worktree    *)
(* has to hold of every commit too, for a checkout may return to the last  *)
(* one; and of both only while no commit edited the archive by hand, which *)
(* is what a build finds out before it writes.                             *)
(***************************************************************************)
EXTENDS EventLedger, TLAPS

IsSequence(s) == \E S : s \in Seq(S)

Same(earlier, later) ==
    Len(earlier) <= Len(later) /\ \A k \in 1..Len(earlier) : later[k] = earlier[k]

Kept(archive) ==
    \A i, j \in 1..Len(archive) : i <= j => DeltaComputable(archive[i].series, archive[j].series)

Shown(artifact, archive) ==
    artifact.kind = "release" => \E i \in 1..Len(archive) : archive[i] = artifact.release

WellFormed ==
    /\ IsSequence(working) /\ IsSequence(commits) /\ Len(commits) \in Nat \ {0}
    /\ \A i \in 1..Len(commits) : IsSequence(commits[i].archive)

CommitsGood ==
    CommitsAppendOnly =>
        /\ \A i \in 1..Len(commits) :
              Kept(commits[i].archive) /\ Shown(commits[i].public, commits[i].archive)
        /\ \A i, j \in 1..Len(commits) : i <= j => Same(commits[i].archive, commits[j].archive)

WorktreeGood == ArchiveAppendOnly => Kept(working) /\ Shown(public, working)

IInv == WellFormed /\ CommitsGood /\ WorktreeGood

-----------------------------------------------------------------------------
(* Sequences.                                                              *)

LEMMA Appended ==
    ASSUME NEW s, IsSequence(s), NEW e
    PROVE  /\ IsSequence(Append(s, e))
           /\ Len(s) \in Nat /\ Len(Append(s, e)) = Len(s) + 1
           /\ \A i \in 1..Len(s) : Append(s, e)[i] = s[i]
           /\ Append(s, e)[Len(s) + 1] = e
<1>1. PICK S : s \in Seq(S)
    BY DEF IsSequence
<1> DEFINE T == S \cup {e}
<1>2. s \in Seq(T)
    <2>1. s \in [1..Len(s) -> S] /\ Len(s) \in Nat
        BY <1>1
    <2>2. s \in [1..Len(s) -> T]
        BY <2>1
    <2> QED BY <2>1, <2>2
<1>3. e \in T
    OBVIOUS
<1>4. Append(s, e) \in Seq(T)
    BY <1>2, <1>3
<1> HIDE DEF T
<1> QED BY <1>2, <1>3, <1>4 DEF IsSequence

LEMMA ContinuesIsSame ==
    ASSUME NEW a, NEW b, IsSequence(a), IsSequence(b)
    PROVE  Continues(a, b) <=> Same(a, b)
<1>1. PICK S : a \in Seq(S)
    BY DEF IsSequence
<1>2. PICK T : b \in Seq(T)
    BY DEF IsSequence
<1>3. Len(a) \in Nat /\ Len(b) \in Nat
    BY <1>1, <1>2
<1>4. CASE Len(a) <= Len(b)
    <2> DEFINE c == SubSeq(b, 1, Len(a))
    <2>1. c \in Seq(T) /\ Len(c) = Len(a) /\ \A k \in 1..Len(a) : c[k] = b[k]
        BY <1>2, <1>3, <1>4
    <2>2. c = a <=> \A k \in 1..Len(a) : c[k] = a[k]
        <3> HIDE DEF c
        <3>1. a = [k \in 1..Len(a) |-> a[k]] /\ c = [k \in 1..Len(a) |-> c[k]]
            BY <1>1, <2>1
        <3> QED BY <3>1
    <2> QED BY <1>4, <2>1, <2>2 DEF Continues, Same
<1>5. CASE ~(Len(a) <= Len(b))
    BY <1>5 DEF Continues, Same
<1> QED BY <1>4, <1>5

LEMMA SameWhole ==
    ASSUME NEW a, NEW b, IsSequence(a), IsSequence(b), Same(a, b), Len(b) = Len(a)
    PROVE  b = a
<1>1. PICK S : a \in Seq(S)
    BY DEF IsSequence
<1>2. PICK T : b \in Seq(T)
    BY DEF IsSequence
<1>3. a = [k \in 1..Len(a) |-> a[k]] /\ b = [k \in 1..Len(a) |-> b[k]]
    BY <1>1, <1>2
<1> QED BY <1>3 DEF Same

-----------------------------------------------------------------------------
(* What a build may write.                                                 *)

LEMMA KeptAppended ==
    ASSUME NEW a, IsSequence(a), Kept(a), NEW r,
           Len(a) > 0 => DeltaComputable(a[Len(a)].series, r.series)
    PROVE  Kept(Append(a, r))
<1> DEFINE b == Append(a, r)
<1>1. /\ Len(a) \in Nat /\ Len(b) = Len(a) + 1
      /\ \A i \in 1..Len(a) : b[i] = a[i]
      /\ b[Len(a) + 1] = r
    BY Appended
<1> HIDE DEF b
<1> SUFFICES ASSUME NEW i \in 1..Len(b), NEW j \in 1..Len(b), i <= j
             PROVE  DeltaComputable(b[i].series, b[j].series)
    BY DEF Kept, b
<1>2. CASE j <= Len(a)
    BY <1>1, <1>2 DEF Kept
<1>3. CASE j = Len(a) + 1 /\ i = Len(a) + 1
    BY <1>1, <1>3 DEF DeltaComputable
<1>4. CASE j = Len(a) + 1 /\ i <= Len(a)
    <2>1. b[i] = a[i] /\ b[j] = r /\ Len(a) > 0
        BY <1>1, <1>4
    <2>2. DeltaComputable(a[i].series, a[Len(a)].series)
        BY <1>1, <1>4 DEF Kept
    <2>3. DeltaComputable(a[Len(a)].series, r.series)
        BY <2>1
    <2> QED BY <2>1, <2>2, <2>3 DEF DeltaComputable
<1> QED BY <1>1, <1>2, <1>3, <1>4

\* A build that is not refused blocks, shows the newest vintage again, or
\* makes a releasable one.
LEMMA BuildOutcome ==
    ASSUME NEW at, NEW signed, Build(at, signed).kind # "refused"
    PROVE  /\ ArchiveAppendOnly
           /\ \/ Build(at, signed).kind = "blocked"
              \/ /\ working # <<>> /\ Build(at, signed).kind = "release"
                 /\ Build(at, signed).release = Previous
              \/ \E r : /\ Releasable(r) /\ Build(at, signed).kind = "release"
                       /\ Build(at, signed).release = r
<1> DEFINE gate == RightsGate(IF at = -1 THEN FrameEnd ELSE RightsAsOf(at))
           new == Unsigned(at, Previous)
           refuses == ~ArchiveAppendOnly \/ ~HistoryValid \/ ~CandidateValid
           again == working # <<>> /\ State(Previous) = <<Candidate, gate>>
           releases == at # -1 /\ Releasable(new) /\ signed = new
<1>1. Build(at, signed) =
        IF refuses THEN Refused
        ELSE IF ~Authorized(gate.asOf) THEN Blocked(gate)
        ELSE IF again THEN Released(Previous)
        ELSE IF releases THEN Released(new)
        ELSE Refused
    BY DEF Build
<1>2. Refused.kind = "refused" /\ Blocked(gate).kind = "blocked"
    BY DEF Refused, Blocked
<1>3. \A r : Released(r).kind = "release" /\ Released(r).release = r
    BY DEF Released
<1>4. again => working # <<>>
    OBVIOUS
<1>5. releases => Releasable(new)
    OBVIOUS
<1>6. ~refuses => ArchiveAppendOnly
    OBVIOUS
<1> HIDE DEF gate, new, refuses, again, releases
<1> QED BY <1>1, <1>2, <1>3, <1>4, <1>5, <1>6

LEMMA WritesKeeps ==
    ASSUME IInv, NEW at, NEW signed, Writes(Build(at, signed)), UNCHANGED commits
    PROVE  IInv'
<1> DEFINE artifact == Build(at, signed)
<1>1. /\ artifact.kind # "refused"
      /\ working' = IF artifact.kind = "release"
                    THEN Stored(working, artifact.release) ELSE working
      /\ public' \in {public, artifact}
    BY DEF Writes
<1>2. ArchiveAppendOnly
    BY <1>1, BuildOutcome
<1>3. IsSequence(working) /\ Kept(working) /\ Shown(public, working)
    BY <1>2 DEF IInv, WellFormed, WorktreeGood
<1>4. IsSequence(working') /\ Kept(working') /\ Shown(public, working')
      /\ Shown(artifact, working')
    <2>1. CASE artifact.kind = "blocked"
        BY <1>1, <1>3, <2>1 DEF Shown
    <2>2. CASE artifact.kind = "release" /\ \E i \in DOMAIN working : working[i] = artifact.release
        <3>1. working' = working
            BY <1>1, <2>2 DEF Stored
        <3>2. DOMAIN working = 1..Len(working)
            BY <1>3 DEF IsSequence
        <3> QED BY <1>3, <2>2, <3>1, <3>2 DEF Shown
    <2>3. CASE artifact.kind = "release" /\ ~\E i \in DOMAIN working : working[i] = artifact.release
        <3> DEFINE r == artifact.release
        <3>1. working' = Append(working, r)
            BY <1>1, <2>3 DEF Stored
        <3>2. IsSequence(working') /\ Len(working) \in Nat /\ Len(working') = Len(working) + 1
              /\ (\A i \in 1..Len(working) : working'[i] = working[i])
              /\ working'[Len(working) + 1] = r
            BY <1>3, <3>1, Appended
        <3>3. Releasable(r)
            <4>1. CASE working # <<>> /\ r = Previous
                <5>1. Len(working) \in DOMAIN working /\ working[Len(working)] = Previous
                    BY <1>3, <4>1 DEF IsSequence, Previous
                <5> QED BY <2>3, <4>1, <5>1
            <4> QED BY <1>1, <2>3, <4>1, BuildOutcome
        <3>4. Len(working) > 0 => DeltaComputable(working[Len(working)].series, r.series)
            <4>1. Len(working) > 0 => working # <<>>
                OBVIOUS
            <4> HIDE DEF r
            <4> QED BY <3>3, <4>1 DEF Releasable, Previous
        <3>5. Kept(working')
            BY <1>3, <3>1, <3>4, KeptAppended
        <3> HIDE DEF r
        <3>6. Shown(public, working')
            BY <1>3, <3>2 DEF Shown
        <3>7. artifact.release = r
            BY DEF r
        <3>8. Shown(artifact, working')
            BY <3>2, <3>7 DEF Shown
        <3> QED BY <3>2, <3>5, <3>6, <3>8
    <2> QED BY <1>1, <2>1, <2>2, <2>3, BuildOutcome
<1>5. Shown(public', working')
    BY <1>1, <1>4
<1>6. WellFormed' /\ CommitsGood'
    BY <1>4 DEF IInv, WellFormed, CommitsGood, CommitsAppendOnly
<1>7. WorktreeGood'
    BY <1>4, <1>5 DEF WorktreeGood, Kept, Shown
<1> QED BY <1>6, <1>7 DEF IInv

-----------------------------------------------------------------------------
(* The invariant.                                                          *)

LEMMA InitIInv == Init => IInv
<1> SUFFICES ASSUME Init PROVE IInv
    OBVIOUS
<1> DEFINE first == [archive |-> working, public |-> public]
<1>1. working = <<>> /\ public.kind = "blocked" /\ commits = <<first>>
    BY DEF Init, Blocked
<1>2. IsSequence(working) /\ Len(working) = 0
    BY <1>1 DEF IsSequence
<1>3. Kept(working) /\ Shown(public, working)
    BY <1>1, <1>2 DEF Kept, Shown
<1>4. first.archive = working /\ first.public = public
    OBVIOUS
<1> HIDE DEF first
<1>5. commits \in Seq({first}) /\ Len(commits) = 1 /\ commits[1] = first
    BY <1>1
<1>6. WellFormed
    <2>1. IsSequence(commits)
        BY <1>5 DEF IsSequence
    <2> QED BY <1>2, <1>4, <1>5, <2>1 DEF WellFormed
<1>7. Same(working, working)
    BY <1>2 DEF Same
<1>8. CommitsGood
    BY <1>3, <1>4, <1>5, <1>7 DEF CommitsGood
<1> QED BY <1>3, <1>6, <1>8 DEF IInv, WorktreeGood

LEMMA TipGood ==
    ASSUME IInv, CommitsAppendOnly
    PROVE  /\ IsSequence(Tip.archive)
           /\ Kept(Tip.archive) /\ Shown(Tip.public, Tip.archive)
           /\ \A i \in 1..Len(commits) : Same(commits[i].archive, Tip.archive)
<1>1. Len(commits) \in 1..Len(commits)
    BY DEF IInv, WellFormed
<1>2. \A i \in 1..Len(commits) : i <= Len(commits)
    BY <1>1
<1> QED BY <1>1, <1>2 DEF IInv, WellFormed, CommitsGood, Tip

LEMMA CheckoutKeeps ==
    ASSUME IInv, Checkout
    PROVE  IInv'
<1>1. working' = Tip.archive /\ public' = Tip.public /\ commits' = commits
    BY DEF Checkout
<1>2. Len(commits) \in 1..Len(commits)
    BY DEF IInv, WellFormed
<1>3. IsSequence(working')
    BY <1>1, <1>2 DEF IInv, WellFormed, Tip
<1>4. WellFormed' /\ CommitsGood'
    BY <1>1, <1>3 DEF IInv, WellFormed, CommitsGood, CommitsAppendOnly
<1>5. CommitsAppendOnly' => CommitsAppendOnly
    BY <1>1 DEF CommitsAppendOnly
<1>6. WorktreeGood'
    BY <1>1, <1>5, TipGood DEF WorktreeGood, ArchiveAppendOnly, Kept, Shown
<1> QED BY <1>4, <1>6 DEF IInv

\* A commit whose archive continues the tip's.
LEMMA CommitKeeps ==
    ASSUME IInv, NEW archive, NEW shown, IsSequence(archive),
           commits' = Append(commits, [archive |-> archive, public |-> shown]),
           working' = archive, public' = shown,
           CommitsAppendOnly /\ Appends(Tip.archive, archive)
               => Kept(archive) /\ Shown(shown, archive)
    PROVE  IInv'
<1> DEFINE new == [archive |-> archive, public |-> shown]
           n == Len(commits)
<1>1. new.archive = archive /\ new.public = shown
    OBVIOUS
<1> HIDE DEF new
<1>2. /\ IsSequence(commits') /\ n \in Nat /\ Len(commits') = n + 1
      /\ \A i \in 1..n : commits'[i] = commits[i]
      /\ commits'[n + 1] = new
    BY Appended DEF IInv, WellFormed, new
<1>3. n \in Nat \ {0} /\ Tip = commits[n]
    BY <1>2 DEF IInv, WellFormed, Tip
<1> HIDE DEF n
<1>4. WellFormed'
    <2>1. \A i \in 1..(n + 1) : IsSequence(commits'[i].archive)
        BY <1>1, <1>2 DEF IInv, WellFormed, n
    <2> QED BY <1>2, <2>1 DEF WellFormed
<1>5. CommitsAppendOnly' => CommitsAppendOnly /\ Appends(Tip.archive, archive)
    <2> SUFFICES ASSUME CommitsAppendOnly'
                 PROVE  CommitsAppendOnly /\ Appends(Tip.archive, archive)
        OBVIOUS
    <2>1. \A i \in 2..(n + 1) : Appends(commits'[i - 1].archive, commits'[i].archive)
        BY <1>2 DEF CommitsAppendOnly
    <2>2. \A i \in 2..n : commits'[i - 1] = commits[i - 1] /\ commits'[i] = commits[i]
        BY <1>2, <1>3
    <2>3. CommitsAppendOnly
        BY <1>3, <2>1, <2>2 DEF CommitsAppendOnly, n
    <2>4. n + 1 \in 2..(n + 1) /\ commits'[(n + 1) - 1] = Tip
        BY <1>2, <1>3
    <2> QED BY <1>1, <1>2, <2>1, <2>3, <2>4
<1>6. ASSUME CommitsAppendOnly'
      PROVE  /\ Kept(archive) /\ Shown(shown, archive)
             /\ \A i \in 1..n : Same(commits[i].archive, archive)
    <2>1. CommitsAppendOnly /\ Continues(Tip.archive, archive)
        BY <1>5, <1>6 DEF Appends
    <2>2. Same(Tip.archive, archive) /\ IsSequence(Tip.archive)
        BY <2>1, TipGood, ContinuesIsSame
    <2>3. \A i \in 1..n : Same(commits[i].archive, Tip.archive) /\ IsSequence(commits[i].archive)
        BY <2>1, TipGood DEF n, IInv, WellFormed
    <2>4. ASSUME NEW i \in 1..n PROVE Same(commits[i].archive, archive)
        <3> DEFINE a == commits[i].archive
                   b == Tip.archive
        <3>1. Same(a, b) /\ Same(b, archive) /\ Len(a) \in Nat /\ Len(b) \in Nat
              /\ Len(archive) \in Nat
            BY <2>2, <2>3 DEF IsSequence
        <3> HIDE DEF a, b
        <3>2. Same(a, archive)
            BY <3>1 DEF Same
        <3> QED BY <3>2 DEF a
    <2> QED BY <1>5, <1>6, <2>4
<1>7. CommitsGood'
    <2> SUFFICES ASSUME CommitsAppendOnly'
                 PROVE  /\ \A i \in 1..(n + 1) : Kept(commits'[i].archive)
                                               /\ Shown(commits'[i].public, commits'[i].archive)
                        /\ \A i, j \in 1..(n + 1) : i <= j
                              => Same(commits'[i].archive, commits'[j].archive)
        BY <1>2 DEF CommitsGood
    <2>1. CommitsAppendOnly
        BY <1>5
    <2>2. \A i \in 1..n : Kept(commits[i].archive) /\ Shown(commits[i].public, commits[i].archive)
        BY <2>1 DEF n, IInv, CommitsGood
    <2>3. \A i, j \in 1..n : i <= j => Same(commits[i].archive, commits[j].archive)
        BY <2>1 DEF n, IInv, CommitsGood
    <2>4. Same(archive, archive)
        BY DEF Same, IsSequence
    <2>5. \A i \in 1..(n + 1) : i \in 1..n \/ i = n + 1
        BY <1>3
    <2> QED BY <1>1, <1>2, <1>3, <1>6, <2>2, <2>3, <2>4, <2>5
<1>8. WorktreeGood'
    <2> SUFFICES ASSUME ArchiveAppendOnly' PROVE Kept(working') /\ Shown(public', working')
        BY DEF WorktreeGood, Kept, Shown
    <2> QED BY <1>6 DEF ArchiveAppendOnly
<1> QED BY <1>4, <1>7, <1>8 DEF IInv

LEMMA CommitEditedKeeps ==
    ASSUME IInv, CommitEdited
    PROVE  IInv'
<1> DEFINE tip == Tip.archive
           shorter == SubSeq(tip, 1, Len(tip) - 1)
           edited == [tip[Len(tip)] EXCEPT !.intact = FALSE, !.series = <<>>]
           rewritten == [tip EXCEPT ![Len(tip)] = edited]
           new == [archive |-> working', public |-> public']
<1>1. /\ tip # <<>> /\ working' \in {shorter, rewritten} /\ public' = Tip.public
      /\ commits' = Append(commits, new)
    BY DEF CommitEdited
<1>2. IsSequence(tip)
    BY DEF IInv, WellFormed, Tip
<1>3. PICK S : tip \in Seq(S)
    BY <1>2 DEF IsSequence
<1> HIDE DEF tip
<1>4. Len(tip) \in Nat \ {0}
    BY <1>1, <1>3
<1>5. IsSequence(shorter) /\ Len(shorter) < Len(tip)
    BY <1>3, <1>4 DEF IsSequence
<1>6. IsSequence(rewritten) /\ Len(rewritten) = Len(tip)
    <2> DEFINE T == S \cup {edited}
    <2>1. tip \in [1..Len(tip) -> T] /\ edited \in T
        BY <1>3
    <2> HIDE DEF edited, T
    <2>2. rewritten \in [1..Len(tip) -> T]
        BY <2>1
    <2> HIDE DEF rewritten
    <2>6. rewritten \in Seq(T) /\ Len(rewritten) = Len(tip)
        BY <1>4, <2>2
    <2> QED BY <2>6 DEF IsSequence
<1> HIDE DEF shorter, rewritten, edited
<1>7. IsSequence(working')
    BY <1>1, <1>5, <1>6
<1>8. CommitsAppendOnly /\ Appends(tip, working') => Kept(working') /\ Shown(public', working')
    <2> SUFFICES ASSUME CommitsAppendOnly, Appends(tip, working')
                 PROVE  Kept(working') /\ Shown(public', working')
        OBVIOUS
    <2>1. Same(tip, working')
        BY <1>2, <1>7, ContinuesIsSame DEF Appends
    <2>2. Len(working') = Len(tip)
        BY <1>1, <1>4, <1>5, <1>6, <2>1 DEF Same
    <2>3. working' = tip
        BY <1>2, <1>7, <2>1, <2>2, SameWhole
    <2> QED BY <1>1, <2>3, TipGood DEF tip
<1> QED BY <1>1, <1>7, <1>8, CommitKeeps DEF tip

LEMMA NextIInv == IInv /\ [Next]_vars => IInv'
<1> SUFFICES ASSUME IInv, [Next]_vars PROVE IInv'
    OBVIOUS
<1>1. CASE UNCHANGED <<commits, working, public>>
    BY <1>1 DEF IInv, WellFormed, CommitsGood, WorktreeGood, ArchiveAppendOnly, CommitsAppendOnly,
        Tip
<1>2. CASE \/ UNCHANGED vars \/ Tick \/ Sign
           \/ \E d \in Day, v \in Value \cup {0} : Acquire(d, v)
           \/ \E d \in Day : Reregister(d)
           \/ \E due \in {0, Date(MaxClock)} : Decide(due)
    BY <1>1, <1>2 DEF vars, inputs, Tick, Sign, Acquire, Reregister, Decide
<1>3. CASE Refresh
    <2>1. \E at, signed : Writes(Build(at, signed))
        <3>1. Refreshed = Build(-1, None) \/ Refreshed = Build(clock, None)
            BY DEF Refreshed
        <3> QED BY <1>3, <3>1 DEF Refresh
    <2> QED BY <1>3, <2>1, WritesKeeps DEF Refresh
<1>4. CASE Release
    <2>1. CASE UNCHANGED <<working, public>>
        BY <1>1, <1>4, <2>1 DEF Release
    <2>2. CASE Writes(Build(statement.at, statement))
        BY <1>4, <2>2, WritesKeeps DEF Release
    <2> QED BY <1>4, <2>1, <2>2 DEF Release
<1>5. CASE Commit
    <2>1. working' = working /\ public' = public
          /\ commits' = Append(commits, [archive |-> working, public |-> public])
        BY <1>5 DEF Commit
    <2>2. IsSequence(working)
        BY DEF IInv, WellFormed
    <2>3. CommitsAppendOnly /\ Appends(Tip.archive, working)
            => Kept(working) /\ Shown(public, working)
        BY DEF IInv, WorktreeGood, ArchiveAppendOnly
    <2> QED BY <2>1, <2>2, <2>3, CommitKeeps
<1> QED BY <1>2, <1>3, <1>4, <1>5, CheckoutKeeps, CommitEditedKeeps DEF Next

LEMMA Invariant == Spec => []IInv
BY InitIInv, NextIInv, PTL DEF Spec

LEMMA WorkingDomain == ASSUME IInv PROVE DOMAIN working = 1..Len(working)
BY DEF IInv, WellFormed, IsSequence

(* event_ledger.py: the public file shows a vintage of the archive, for    *)
(* any crash between the two writes, while no commit edits the archive.    *)
THEOREM PublicStaysArchived == Spec => []PublicIsArchived
<1>1. IInv => PublicIsArchived
    BY WorkingDomain DEF IInv, WorktreeGood, Shown, PublicIsArchived
<1> QED BY <1>1, Invariant, PTL

(* event_ledger.py: no chain of vintages, of whatever length, launders a   *)
(* published day.                                                          *)
THEOREM NothingIsLaundered == Spec => []NothingLaundered
<1>1. IInv => NothingLaundered
    BY WorkingDomain DEF IInv, WorktreeGood, Kept, DeltaComputable, NothingLaundered
<1> QED BY <1>1, Invariant, PTL

(* event_ledger.py: the public file changes on a clean history only, for   *)
(* any number of commits.                                                  *)
THEOREM BuildsOnCleanHistory == Spec => BuiltOnCleanHistory
<1>1. ASSUME IInv, [Next]_vars PROVE CleanStep \/ UNCHANGED vars
    <2> SUFFICES ASSUME Next, public' # public, commits' = commits, public' # Tip.public,
                        NEW i \in DOMAIN commits, NEW j \in DOMAIN commits, i <= j
                 PROVE  Continues(commits[i].archive, commits[j].archive)
        BY <1>1 DEF CleanStep
    <2>1. Refresh \/ Release
        BY DEF Next, Tick, Sign, Acquire, Reregister, Decide, Commit, Checkout, CommitEdited, inputs
    <2>2. \E at, signed : Writes(Build(at, signed))
        BY <2>1 DEF Refresh, Refreshed, Release
    <2>3. ArchiveAppendOnly
        BY <2>2, BuildOutcome DEF Writes
    <2>4. i \in 1..Len(commits) /\ j \in 1..Len(commits)
        BY <1>1 DEF IInv, WellFormed, IsSequence
    <2> QED BY <1>1, <2>3, <2>4, ContinuesIsSame
        DEF ArchiveAppendOnly, IInv, CommitsGood, WellFormed
<1> QED BY <1>1, Invariant, PTL DEF Spec, BuiltOnCleanHistory
=============================================================================
