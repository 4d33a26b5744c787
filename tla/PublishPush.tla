----------------------------- MODULE PublishPush -----------------------------
(***************************************************************************)
(* src/scripts/publish_push.sh, the publisher that fifteen workflows share *)
(* and that several of them run at once.  A lane commits its work on the   *)
(* commit it checked out when it was triggered, then tries up to           *)
(* MaxAttempts times to rebase that commit onto main, refresh the byte     *)
(* manifest, pass the committed gate and push.  Files are Derived (docs/,  *)
(* data/raw/) or Other; the content of a file is the lane or developer who *)
(* wrote it last, and a commit is its parent, its author and its tree.     *)
(***************************************************************************)
EXTENDS Integers, Sequences

CONSTANTS
    Lanes,           \* publishing lanes, each one run of its workflow
    Derived, Other,  \* files inside and outside docs/ and data/raw/
    MaxAttempts,     \* length of the retry loop
    MaxCommits       \* bound: developers do not extend main past this length

ASSUME LanesAssumption == Lanes \cap {"none", "dev"} = {}
ASSUME FilesAssumption == Derived \cap Other = {}
ASSUME AttemptsAssumption == MaxAttempts \in Nat \ {0}
ASSUME BoundAssumption == MaxCommits \in Nat \ {0}

VARIABLES
    main,        \* the commits of the remote branch, oldest first
    pc,          \* what each lane does next, or how it ended
    checkout,    \* the commit it was triggered on
    head,        \* its local HEAD
    memo,        \* LAST_GREEN_COMMIT
    attempt,     \* loop counter
    green        \* auxiliary: per lane, the commits the gate passed

vars == <<main, pc, checkout, head, memo, attempt, green>>

Files == Derived \cup Other
Content == Lanes \cup {"none", "dev"}
Step == {"idle", "pull", "refresh", "gate", "push", "pushed", "refused", "gave_up"}
Ended == {"pushed", "refused", "gave_up"}

\* The manifest lists the bytes of every derived file.
Tree == [files : [Files -> Content], manifest : [Derived -> Content]]
Commit == [parent : Nat, by : Content, tree : Tree]

ManifestOf(files) == [f \in Derived |-> files[f]]

CommitOf(parent, by, files, manifest) ==
    [parent |-> parent, by |-> by, tree |-> [files |-> files, manifest |-> manifest]]

Root ==
    LET files == [f \in Files |-> "none"]
    IN  CommitOf(0, "none", files, ManifestOf(files))

Tip == main[Len(main)]

Init ==
    /\ main = <<Root>>
    /\ pc = [l \in Lanes |-> "idle"]
    /\ checkout = [l \in Lanes |-> 1]
    /\ head = [l \in Lanes |-> Root]
    /\ memo = [l \in Lanes |-> Root]
    /\ attempt = [l \in Lanes |-> 1]
    /\ green = [l \in Lanes |-> {}]

Edited(c, changed, by) == [f \in Files |-> IF f \in changed THEN by ELSE c.tree.files[f]]

\* A direct push to main: it edits files and may forget the manifest.
DeveloperPushes ==
    /\ Len(main) < MaxCommits                            \* bound: MaxCommits
    /\ \E changed \in SUBSET Files \ {{}} :
         LET files == Edited(Tip, changed, "dev")
         IN  \E manifest \in {ManifestOf(files), Tip.tree.manifest} :
                main' = Append(main, CommitOf(Len(main), "dev", files, manifest))
    /\ UNCHANGED <<pc, checkout, head, memo, attempt, green>>

Goes(l, step) == pc' = [pc EXCEPT ![l] = step]

\* The workflow was triggered at commit c, computed its files and calls the
\* script: git commit, or no commit when it changed nothing.
Commits(l) ==
    /\ pc[l] = "idle"
    /\ \E c \in 1..Len(main), changed \in SUBSET Files :
        /\ checkout' = [checkout EXCEPT ![l] = c]
        /\ head' = [head EXCEPT ![l] =
             IF changed = {} THEN main[c]
             ELSE CommitOf(c, l, Edited(main[c], changed, l), main[c].tree.manifest)]
    /\ Goes(l, "pull")
    /\ UNCHANGED <<main, memo, attempt, green>>

\* The lane staged narrower than it wrote: refused before the first rebase.
RefusesUnstaged(l) ==
    /\ pc[l] = "pull" /\ attempt[l] = 1
    /\ Goes(l, "refused")
    /\ UNCHANGED <<main, checkout, head, memo, attempt, green>>

\* "push attempt failed; retrying", or five of them.
AttemptFails(l) ==
    IF attempt[l] = MaxAttempts
    THEN Goes(l, "gave_up") /\ UNCHANGED attempt
    ELSE Goes(l, "pull") /\ attempt' = [attempt EXCEPT ![l] = @ + 1]

-----------------------------------------------------------------------------
(* git pull --rebase origin main                                           *)

Landed(c) == c.parent < Len(main) /\ main[c.parent + 1] = c

\* Both sides changed the file since the candidate's parent.
ConflictsAt(c, f) ==
    LET old == main[c.parent].tree.files[f]
    IN  /\ c.tree.files[f] # old
        /\ Tip.tree.files[f] # old
        /\ c.tree.files[f] # Tip.tree.files[f]

\* (Faulty variant: every path is taken for a derived one.)
ResolvedEverywhere(c) == TRUE

\* Nothing to replay, or every conflict lies in a derived file, which
\* --theirs resolves.
Resolvable(c) == ~Landed(c) => \A f \in Other : ~ConflictsAt(c, f)

\* A file keeps the candidate's content where the candidate changed it.
Replayed(c) ==
    [f \in Files |->
        IF c.tree.files[f] = main[c.parent].tree.files[f]
        THEN Tip.tree.files[f] ELSE c.tree.files[f]]

\* (Faulty variant: a commit that main already holds is replayed again.)
RebasedAgain(c) ==
    IF c.by \notin Lanes THEN Tip
    ELSE IF c.parent = Len(main) THEN c
    ELSE CommitOf(Len(main), c.by, Replayed(c), c.tree.manifest)

\* A commit main already holds is fast-forwarded, one on the tip kept as it
\* is, and any other becomes a new commit with its stale manifest.
Rebased(c) ==
    IF Landed(c) THEN Tip
    ELSE IF c.parent = Len(main) THEN c
    ELSE CommitOf(Len(main), c.by, Replayed(c), c.tree.manifest)

Pulls(l) ==
    /\ pc[l] = "pull"
    /\ Resolvable(head[l])
    /\ head' = [head EXCEPT ![l] = Rebased(@)]
    /\ Goes(l, "refresh")
    /\ UNCHANGED <<main, checkout, memo, attempt, green>>

\* A conflict outside the derived files, or a remote that does not answer:
\* the rebase is aborted and HEAD stays.
PullFails(l) ==
    /\ pc[l] = "pull"
    /\ AttemptFails(l)
    /\ UNCHANGED <<main, checkout, head, memo, green>>

-----------------------------------------------------------------------------
(* refresh_public_api_byte_manifest, gate_candidate                        *)

\* (Faulty variant: the manifest of the lane's checkout is kept.)
KeptManifest(c) == c

\* A HEAD that is upstream's own commit is not amended.
Refreshed(c) ==
    IF Landed(c) THEN c ELSE CommitOf(c.parent, c.by, c.tree.files, ManifestOf(c.tree.files))

Refreshes(l) ==
    /\ pc[l] = "refresh"
    /\ head' = [head EXCEPT ![l] = Refreshed(@)]
    /\ Goes(l, "gate")
    /\ UNCHANGED <<main, checkout, memo, attempt, green>>

\* The generator refuses the tree.
RefreshFails(l) ==
    /\ pc[l] = "refresh"
    /\ Goes(l, "refused")
    /\ UNCHANGED <<main, checkout, head, memo, attempt, green>>

\* (Faulty variant: one green gate counts for the whole run.)
GatedAnyCommit(l) == memo[l] # Root

\* The same commit already passed in this run.
AlreadyGreen(l) == memo[l] # Root /\ memo[l] = head[l]

\* The gate is a verdict on the exact commit, skipped when it is memoized.
Gates(l) ==
    /\ pc[l] = "gate"
    /\ IF AlreadyGreen(l)
       THEN UNCHANGED <<memo, green>>
       ELSE /\ memo' = [memo EXCEPT ![l] = head[l]]
            /\ green' = [green EXCEPT ![l] = @ \cup {head[l]}]
    /\ Goes(l, "push")
    /\ UNCHANGED <<main, checkout, head, attempt>>

GateRefuses(l) ==
    /\ pc[l] = "gate" /\ ~AlreadyGreen(l)
    /\ Goes(l, "refused")
    /\ UNCHANGED <<main, checkout, head, memo, attempt, green>>

-----------------------------------------------------------------------------
(* git push                                                                *)

\* The remote takes a fast-forward only.
Accepts(c) == c.parent = Len(main)

\* (Faulty variant: a push that moves nothing is reported as a success.)
VacuousSuccess(c) == TRUE

\* HEAD is the tip: everything is up to date and the push succeeds.
UpToDate(c) == c = Tip

With(c) == Append(SubSeq(main, 1, c.parent), c)

PushSucceeds(l) ==
    /\ pc[l] = "push"
    /\ \/ Accepts(head[l]) /\ main' = With(head[l])
       \/ UpToDate(head[l]) /\ UNCHANGED main
    /\ Goes(l, "pushed")
    /\ UNCHANGED <<checkout, head, memo, attempt, green>>

\* The remote took the commit and the client lost the answer.
PushAnswerLost(l) ==
    /\ pc[l] = "push" /\ Accepts(head[l])
    /\ main' = With(head[l])
    /\ AttemptFails(l)
    /\ UNCHANGED <<checkout, head, memo, green>>

\* Rejected as no fast-forward, refused by a release-rights hook, or never
\* delivered.
PushFails(l) ==
    /\ pc[l] = "push"
    /\ AttemptFails(l)
    /\ UNCHANGED <<main, checkout, head, memo, green>>

LaneStep(l) ==
    \/ Commits(l) \/ RefusesUnstaged(l)
    \/ Pulls(l) \/ PullFails(l)
    \/ Refreshes(l) \/ RefreshFails(l)
    \/ Gates(l) \/ GateRefuses(l)
    \/ PushSucceeds(l) \/ PushAnswerLost(l) \/ PushFails(l)

\* The job cap kills a lane at any point: it takes no further step.
Next == DeveloperPushes \/ \E l \in Lanes : LaneStep(l)

Spec == Init /\ [][Next]_vars

-----------------------------------------------------------------------------
(* Properties.                                                             *)

TypeOK ==
    /\ main \in Seq(Commit) /\ Len(main) > 0
    /\ pc \in [Lanes -> Step]
    /\ checkout \in [Lanes -> 1..Len(main)]
    /\ head \in [Lanes -> Commit]
    /\ memo \in [Lanes -> Commit]
    /\ attempt \in [Lanes -> 1..MaxAttempts]
    /\ green \in [Lanes -> SUBSET Commit]

Published(l) == {i \in 1..Len(main) : main[i].by = l}

(* "Every push is still preceded by a green gate over exactly the bytes    *)
(* being pushed" (publish_push.sh:185): whatever the rebases, retries and  *)
(* memoized verdicts, a lane's commit on main is one its own gate passed.  *)
OnlyExactlyGated ==
    \A l \in Lanes : \A i \in Published(l) : main[i] \in green[l]

(* A push whose answer was lost is retried, and still a lane's work        *)
(* reaches main at most once.                                              *)
PublishedAtMostOnce == \A l \in Lanes : \A i, j \in Published(l) : i = j

(* The script never exits 0 with the work unpushed: a lane that had work   *)
(* and ended well finds it on main.                                        *)
SuccessIsOnMain ==
    \A l \in Lanes : pc[l] = "pushed" /\ head[l].by = l => Published(l) # {}

(* Outside docs/ and data/raw/ nobody's change is silently resolved away:  *)
(* a lane only replaces the content of such a file that it had checked     *)
(* out, however many rebases its commit went through.                      *)
UpstreamSourceSurvives ==
    \A l \in Lanes : \A i \in Published(l) : \A f \in Other :
        main[i].tree.files[f] # main[i - 1].tree.files[f] =>
            main[i - 1].tree.files[f] = main[checkout[l]].tree.files[f]

(* Each commit a lane publishes carries the manifest of its own bytes, not *)
(* of the tree it was computed on nor of the one it was rebased from.      *)
ManifestDescribesCommit ==
    \A l \in Lanes : \A i \in Published(l) :
        main[i].tree.manifest = ManifestOf(main[i].tree.files)

(* No lane removes or changes a commit that is on main.                    *)
MainNeverRewritten ==
    [][/\ Len(main) <= Len(main')
       /\ \A i \in 1..Len(main) : main'[i] = main[i]]_vars

\* A lane keeps the work it called with: as its HEAD, until main has it.
Brought(l) ==
    IF pc[l] = "idle" THEN "unknown"
    ELSE IF head[l].by = l \/ Published(l) # {} THEN "work" ELSE "no work"

Told(l) ==
    IF pc[l] \notin Ended THEN "nothing" ELSE IF pc[l] = "pushed" THEN "pushed" ELSE "failed"

(* "Never exit 0 with the work unpushed" (publish_push.sh:302): the loop   *)
(* implements a publication in one step.  Lost answers, rebases onto       *)
(* oneself and ends at any attempt neither publish twice nor answer a lane *)
(* "pushed" before its work is there.                                      *)
Publication == INSTANCE AtomicPublication WITH
    log <- [i \in DOMAIN main |-> main[i].by],
    has <- [l \in Lanes |-> Brought(l)],
    told <- [l \in Lanes |-> Told(l)]

ImplementsPublication == Publication!Spec
=============================================================================
