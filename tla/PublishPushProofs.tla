-------------------------- MODULE PublishPushProofs --------------------------
(***************************************************************************)
(* Proofs about PublishPush: for any number of lanes, files and attempts,  *)
(* what a lane leaves on main is one commit, gated as it is, with its own  *)
(* manifest, and no change outside the derived files is lost.              *)
(***************************************************************************)
EXTENDS PublishPush, TLAPS

\* Main is linear: a commit names as its parent the position before its own,
\* and no lane made the first one.
Linear ==
    /\ \A i \in 1..Len(main) : main[i].parent = i - 1
    /\ main[1].by \notin Lanes

\* HEAD is on main, or it is the lane's own commit on some commit of main.
HeadRooted(l) ==
    \/ Landed(head[l])
    \/ head[l].by = l /\ head[l].parent \in 1..Len(main)

\* While the lane has nothing on main, its commit replaces outside the
\* derived files only what it had checked out.
OwnSourceChanges(l) ==
    ~Landed(head[l]) =>
        \A f \in Other :
            \/ head[l].tree.files[f] = main[head[l].parent].tree.files[f]
            \/ main[checkout[l]].tree.files[f] = main[head[l].parent].tree.files[f]

LaneInv(l) ==
    /\ HeadRooted(l)
    /\ OwnSourceChanges(l)
    /\ pc[l] = "idle" => Published(l) = {}
    /\ Published(l) # {} => Landed(head[l])
    /\ memo[l] # Root => memo[l] \in green[l]
    /\ pc[l] = "push" => head[l] \in green[l]
    /\ pc[l] \in {"gate", "push"} /\ ~Landed(head[l]) =>
            head[l].tree.manifest = ManifestOf(head[l].tree.files)

Promises(l) ==
    /\ \A i \in Published(l) : main[i] \in green[l]
    /\ \A i, j \in Published(l) : i = j
    /\ pc[l] = "pushed" /\ head[l].by = l => Published(l) # {}
    /\ \A i \in Published(l) : \A f \in Other :
            main[i].tree.files[f] # main[i - 1].tree.files[f] =>
                main[i - 1].tree.files[f] = main[checkout[l]].tree.files[f]
    /\ \A i \in Published(l) : main[i].tree.manifest = ManifestOf(main[i].tree.files)

IInv == Linear /\ \A l \in Lanes : LaneInv(l) /\ Promises(l)

-----------------------------------------------------------------------------
(* Types.                                                                  *)

LEMMA CommitType ==
  ASSUME NEW p \in Nat, NEW by \in Content, NEW files \in [Files -> Content],
         NEW manifest \in [Derived -> Content]
  PROVE  LET c == CommitOf(p, by, files, manifest)
         IN  /\ c \in Commit
             /\ c.parent = p /\ c.by = by
             /\ c.tree.files = files /\ c.tree.manifest = manifest
  BY DEF CommitOf, Commit, Tree

LEMMA CommitFields ==
  ASSUME NEW c \in Commit
  PROVE  /\ c.parent \in Nat /\ c.by \in Content
         /\ c.tree.files \in [Files -> Content]
         /\ c.tree.manifest \in [Derived -> Content]
  BY DEF Commit, Tree

LEMMA ManifestType ==
  ASSUME NEW files \in [Files -> Content]
  PROVE  ManifestOf(files) \in [Derived -> Content]
  BY DEF ManifestOf, Files

LEMMA RootType == Root \in Commit /\ Root.parent = 0 /\ Root.by = "none"
<1> DEFINE files == [f \in Files |-> "none"]
<1>1. files \in [Files -> Content] /\ "none" \in Content
  BY DEF Content
<1>2. ManifestOf(files) \in [Derived -> Content]
  BY <1>1, ManifestType
<1> HIDE DEF files
<1>3. Root = CommitOf(0, "none", files, ManifestOf(files))
  BY DEF Root, files
<1>4. QED
  BY <1>1, <1>2, <1>3, CommitType

LEMMA TipType ==
  ASSUME TypeOK
  PROVE  Tip \in Commit /\ Tip = main[Len(main)] /\ Len(main) \in Nat \ {0}
  BY DEF TypeOK, Tip

LEMMA EditedType ==
  ASSUME NEW c \in Commit, NEW changed \in SUBSET Files, NEW by \in Content
  PROVE  Edited(c, changed, by) \in [Files -> Content]
  BY CommitFields DEF Edited

LEMMA ReplayedType ==
  ASSUME TypeOK, NEW c \in Commit
  PROVE  Replayed(c) \in [Files -> Content]
  BY TipType, CommitFields DEF Replayed

\* The rebased and refreshed HEAD of a lane is a commit.
LEMMA RebasedType ==
  ASSUME TypeOK, NEW c \in Commit
  PROVE  Rebased(c) \in Commit
<1>1. CommitOf(Len(main), c.by, Replayed(c), c.tree.manifest) \in Commit
  BY TipType, ReplayedType, CommitFields, CommitType
<1>2. QED
  BY <1>1, TipType DEF Rebased

LEMMA RefreshedType ==
  ASSUME NEW c \in Commit
  PROVE  Refreshed(c) \in Commit
<1>1. CommitOf(c.parent, c.by, c.tree.files, ManifestOf(c.tree.files)) \in Commit
  BY ManifestType, CommitFields, CommitType
<1>2. QED
  BY <1>1 DEF Refreshed

\* The commit a push adds.
LEMMA Pushed ==
  ASSUME TypeOK, NEW l \in Lanes, Accepts(head[l])
  PROVE  /\ With(head[l]) = Append(main, head[l])
         /\ With(head[l]) \in Seq(Commit)
         /\ Len(With(head[l])) = Len(main) + 1
<1>1. head[l] \in Commit /\ main \in Seq(Commit)
  BY DEF TypeOK
<1>2. SubSeq(main, 1, Len(main)) = main
  BY <1>1
<1>3. With(head[l]) = Append(main, head[l])
  BY <1>2 DEF Accepts, With
<1>4. QED
  BY <1>1, <1>3

LEMMA AttemptType ==
  ASSUME TypeOK, NEW l \in Lanes, AttemptFails(l)
  PROVE  /\ pc' \in [Lanes -> Step] /\ attempt' \in [Lanes -> 1..MaxAttempts]
         /\ pc' = [pc EXCEPT ![l] = pc'[l]] /\ pc'[l] \in {"gave_up", "pull"}
<1>1. pc \in [Lanes -> Step] /\ attempt \in [Lanes -> 1..MaxAttempts]
  BY DEF TypeOK
<1>2. CASE attempt[l] = MaxAttempts
  BY <1>1, <1>2 DEF AttemptFails, Goes, Step
<1>3. CASE attempt[l] # MaxAttempts
  <2>1. attempt[l] + 1 \in 1..MaxAttempts
    BY <1>1, <1>3, AttemptsAssumption
  <2>2. attempt' = [attempt EXCEPT ![l] = attempt[l] + 1] /\ pc' = [pc EXCEPT ![l] = "pull"]
    BY <1>3 DEF AttemptFails, Goes
  <2>3. QED
    BY <1>1, <2>1, <2>2 DEF Step
<1>4. QED
  BY <1>2, <1>3

\* Every variable stays in its domain.
THEOREM TypeCorrect == Spec => []TypeOK
<1>1. Init => TypeOK
  BY RootType, AttemptsAssumption DEF Init, TypeOK, Step
<1>2. TypeOK /\ [Next]_vars => TypeOK'
  <2> SUFFICES ASSUME TypeOK, [Next]_vars PROVE TypeOK'
    OBVIOUS
  <2>1. CASE DeveloperPushes
    <3>0. PICK changed \in SUBSET Files :
            \E manifest \in {ManifestOf(Edited(Tip, changed, "dev")), Tip.tree.manifest} :
                main' = Append(main, CommitOf(Len(main), "dev", Edited(Tip, changed, "dev"), manifest))
      BY <2>1 DEF DeveloperPushes
    <3>1. PICK manifest \in {ManifestOf(Edited(Tip, changed, "dev")), Tip.tree.manifest} :
            main' = Append(main, CommitOf(Len(main), "dev", Edited(Tip, changed, "dev"), manifest))
      BY <3>0
    <3>2. Edited(Tip, changed, "dev") \in [Files -> Content] /\ "dev" \in Content
      BY TipType, EditedType DEF Content
    <3>3. manifest \in [Derived -> Content]
      BY <3>1, <3>2, TipType, ManifestType, CommitFields
    <3>4. CommitOf(Len(main), "dev", Edited(Tip, changed, "dev"), manifest) \in Commit
      BY <3>2, <3>3, TipType, CommitType
    <3>6. main' \in Seq(Commit) /\ Len(main') = Len(main) + 1
      BY <3>1, <3>4 DEF TypeOK
    <3>7. QED
      BY <2>1, <3>6 DEF TypeOK, DeveloperPushes
  <2>2. ASSUME NEW l \in Lanes, LaneStep(l) PROVE TypeOK'
    <3>1. AttemptFails(l) => pc' \in [Lanes -> Step] /\ attempt' \in [Lanes -> 1..MaxAttempts]
      BY AttemptType
    <3>2. ASSUME NEW s \in Step, Goes(l, s) PROVE pc' \in [Lanes -> Step]
      BY <3>2 DEF Goes, TypeOK
    <3>3. Accepts(head[l]) /\ main' = With(head[l]) =>
            main' \in Seq(Commit) /\ Len(main') = Len(main) + 1
      BY Pushed
    <3>4. CASE Commits(l)
      <4>1. PICK c \in 1..Len(main), changed \in SUBSET Files :
              /\ checkout' = [checkout EXCEPT ![l] = c]
              /\ head' = [head EXCEPT ![l] =
                   IF changed = {} THEN main[c]
                   ELSE CommitOf(c, l, Edited(main[c], changed, l), main[c].tree.manifest)]
        BY <3>4 DEF Commits
      <4>2. main[c] \in Commit /\ c \in Nat /\ l \in Content
        BY DEF TypeOK, Content
      <4>3. CommitOf(c, l, Edited(main[c], changed, l), main[c].tree.manifest) \in Commit
        BY <4>2, EditedType, CommitFields, CommitType
      <4>4. head' \in [Lanes -> Commit] /\ checkout' \in [Lanes -> 1..Len(main)]
        BY <4>1, <4>2, <4>3 DEF TypeOK
      <4>5. QED
        BY <3>4, <3>2, <4>4 DEF Commits, TypeOK, Step
    <3>5. CASE RefusesUnstaged(l)
      BY <3>5, <3>2 DEF RefusesUnstaged, TypeOK, Step
    <3>6. CASE Pulls(l)
      <4>1. Rebased(head[l]) \in Commit
        BY RebasedType DEF TypeOK
      <4>2. QED
        BY <3>6, <3>2, <4>1 DEF Pulls, TypeOK, Step
    <3>7. CASE PullFails(l)
      BY <3>7, <3>1 DEF PullFails, TypeOK
    <3>8. CASE Refreshes(l)
      <4>1. Refreshed(head[l]) \in Commit
        BY RefreshedType DEF TypeOK
      <4>2. QED
        BY <3>8, <3>2, <4>1 DEF Refreshes, TypeOK, Step
    <3>9. CASE RefreshFails(l)
      BY <3>9, <3>2 DEF RefreshFails, TypeOK, Step
    <3>10. CASE Gates(l)
      <4>1. head[l] \in Commit /\ green[l] \in SUBSET Commit
        BY DEF TypeOK
      <4>2. memo' \in [Lanes -> Commit] /\ green' \in [Lanes -> SUBSET Commit]
        <5>1. CASE AlreadyGreen(l)
          BY <3>10, <5>1 DEF Gates, TypeOK
        <5>2. CASE ~AlreadyGreen(l)
          <6>1. /\ memo' = [memo EXCEPT ![l] = head[l]]
                /\ green' = [green EXCEPT ![l] = green[l] \cup {head[l]}]
            BY <3>10, <5>2 DEF Gates
          <6>2. QED
            BY <6>1, <4>1 DEF TypeOK
        <5>3. QED
          BY <5>1, <5>2
      <4>3. pc' \in [Lanes -> Step]
        BY <3>10, <3>2 DEF Gates, Step
      <4>4. QED
        BY <3>10, <4>2, <4>3 DEF Gates, TypeOK
    <3>11. CASE GateRefuses(l)
      BY <3>11, <3>2 DEF GateRefuses, TypeOK, Step
    <3>12. CASE PushSucceeds(l)
      BY <3>12, <3>2, <3>3 DEF PushSucceeds, TypeOK, Step
    <3>13. CASE PushAnswerLost(l)
      BY <3>13, <3>1, <3>3 DEF PushAnswerLost, TypeOK
    <3>14. CASE PushFails(l)
      BY <3>14, <3>1 DEF PushFails, TypeOK
    <3>15. QED
      BY <2>2, <3>4, <3>5, <3>6, <3>7, <3>8, <3>9, <3>10, <3>11, <3>12, <3>13, <3>14
      DEF LaneStep
  <2>3. CASE UNCHANGED vars
    BY <2>3 DEF TypeOK, vars
  <2>4. QED
    BY <2>1, <2>2, <2>3 DEF Next
<1>3. QED
  BY <1>1, <1>2, PTL DEF Spec

-----------------------------------------------------------------------------
(* The inductive invariant.                                                *)

\* What appending a commit to main leaves as it was.
LEMMA AppendKeeps ==
  ASSUME TypeOK, NEW n \in Commit, main' = Append(main, n)
  PROVE  /\ Len(main) \in Nat /\ Len(main') = Len(main) + 1
         /\ main'[Len(main) + 1] = n
         /\ \A i \in 1..Len(main) : main'[i] = main[i]
         /\ main' \in Seq(Commit)
  BY DEF TypeOK

\* A step that leaves main and the state of lane k alone.
LEMMA OtherLaneStays ==
  ASSUME NEW k \in Lanes, LaneInv(k), Promises(k), main' = main,
         pc'[k] = pc[k], checkout'[k] = checkout[k], head'[k] = head[k],
         memo'[k] = memo[k], green'[k] = green[k]
  PROVE  LaneInv(k)' /\ Promises(k)'
  BY DEF LaneInv, Promises, HeadRooted, OwnSourceChanges, Landed, Published

\* Somebody else extends main.
LEMMA OtherLaneSurvivesPush ==
  ASSUME TypeOK, Linear, NEW k \in Lanes, LaneInv(k), Promises(k),
         NEW n \in Commit, n.by # k, main' = Append(main, n),
         pc'[k] = pc[k], checkout'[k] = checkout[k], head'[k] = head[k],
         memo'[k] = memo[k], green'[k] = green[k]
  PROVE  LaneInv(k)' /\ Promises(k)'
<1>1. /\ Len(main) \in Nat /\ Len(main') = Len(main) + 1
      /\ main'[Len(main) + 1] = n
      /\ \A i \in 1..Len(main) : main'[i] = main[i]
  BY AppendKeeps
<1>2. head[k] \in Commit /\ head[k].parent \in Nat /\ checkout[k] \in 1..Len(main)
  BY CommitFields DEF TypeOK
<1>3. Landed(head[k]) => Landed(head[k])'
  BY <1>1, <1>2 DEF Landed
<1>4. Published(k)' = Published(k)
  BY <1>1 DEF Published
<1>5. \A i \in Published(k) : i \in 1..Len(main) /\ i - 1 \in 1..Len(main)
  BY <1>1 DEF Published, Linear
<1>6. HeadRooted(k)'
  <2>1. CASE Landed(head[k])
    BY <2>1, <1>3 DEF HeadRooted
  <2>2. CASE ~Landed(head[k])
    <3>1. head[k].by = k /\ head[k].parent \in 1..Len(main)
      BY <2>2 DEF LaneInv, HeadRooted
    <3>2. QED
      BY <3>1, <1>1 DEF HeadRooted
  <2>3. QED
    BY <2>1, <2>2
<1>7. OwnSourceChanges(k)'
  <2> SUFFICES ASSUME ~Landed(head[k])' PROVE OwnSourceChanges(k)'
    BY DEF OwnSourceChanges
  <2>1. ~Landed(head[k])
    BY <1>3
  <2>2. head[k].parent \in 1..Len(main)
    BY <2>1 DEF LaneInv, HeadRooted
  <2>3. /\ main'[head[k].parent] = main[head[k].parent]
        /\ main'[checkout[k]] = main[checkout[k]]
    BY <1>1, <1>2, <2>2
  <2>4. \A f \in Other :
          \/ head[k].tree.files[f] = main[head[k].parent].tree.files[f]
          \/ main[checkout[k]].tree.files[f] = main[head[k].parent].tree.files[f]
    BY <2>1 DEF LaneInv, OwnSourceChanges
  <2>5. QED
    BY <2>3, <2>4 DEF OwnSourceChanges
<1>8. LaneInv(k)'
  BY <1>3, <1>4, <1>6, <1>7 DEF LaneInv
<1>9. \A i \in Published(k) : main'[i] = main[i] /\ main'[i - 1] = main[i - 1]
  BY <1>1, <1>5
<1>10. main'[checkout[k]] = main[checkout[k]]
  BY <1>1, <1>2
<1>11. Promises(k)'
  <2>1. \A i \in Published(k)' : main'[i] \in green'[k]
    BY <1>4, <1>9 DEF Promises
  <2>2. \A i, j \in Published(k)' : i = j
    BY <1>4 DEF Promises
  <2>3. pc'[k] = "pushed" /\ head'[k].by = k => Published(k)' # {}
    BY <1>4 DEF Promises
  <2>4. ASSUME NEW i \in Published(k)', NEW f \in Other,
               main'[i].tree.files[f] # main'[i - 1].tree.files[f]
        PROVE  main'[i - 1].tree.files[f] = main'[checkout'[k]].tree.files[f]
    <3>1. i \in Published(k) /\ main'[i] = main[i] /\ main'[i - 1] = main[i - 1]
      BY <1>4, <1>9
    <3>2. main[i - 1].tree.files[f] = main[checkout[k]].tree.files[f]
      BY <3>1, <2>4 DEF Promises
    <3>3. QED
      BY <3>1, <3>2, <1>10
  <2>5. \A i \in Published(k)' : main'[i].tree.manifest = ManifestOf(main'[i].tree.files)
    BY <1>4, <1>9 DEF Promises
  <2>6. QED
    BY <2>1, <2>2, <2>3, <2>4, <2>5 DEF Promises
<1>12. QED
  BY <1>8, <1>11

\* A lane's own step that leaves main alone keeps what it promised so far.
LEMMA OwnStepKeepsPromises ==
  ASSUME NEW l \in Lanes, Promises(l), main' = main, green[l] \subseteq green'[l],
         checkout'[l] = checkout[l] \/ Published(l) = {},
         pc'[l] = "pushed" /\ head'[l].by = l => Published(l) # {}
  PROVE  Promises(l)'
<1>1. Published(l)' = Published(l)
  BY DEF Published
<1>2. QED
  BY <1>1 DEF Promises

\* HEAD after a rebase: upstream's tip, or the lane's own commit on it.
LEMMA PullKeepsLane ==
  ASSUME TypeOK, Linear, NEW l \in Lanes, LaneInv(l), Resolvable(head[l]), main' = main,
         head'[l] = Rebased(head[l]), checkout'[l] = checkout[l], memo'[l] = memo[l],
         green'[l] = green[l], pc'[l] = "refresh"
  PROVE  LaneInv(l)'
<1>1. /\ Len(main) \in Nat \ {0} /\ main[Len(main)] = Tip /\ Tip \in Commit
      /\ head[l] \in Commit /\ head[l].parent \in Nat
  BY TipType, CommitFields DEF TypeOK
<1>2. Published(l)' = Published(l)
  BY DEF Published
<1>3. CASE Landed(head[l])
  <2>1. head'[l] = Tip
    BY <1>3 DEF Rebased
  <2>2. Tip.parent = Len(main) - 1
    BY <1>1 DEF Linear
  <2>3. Landed(head[l])'
    BY <2>1, <2>2, <1>1 DEF Landed
  <2>4. QED
    BY <2>3, <1>2 DEF LaneInv, HeadRooted, OwnSourceChanges
<1>4. CASE ~Landed(head[l]) /\ head[l].parent = Len(main)
  <2>1. head'[l] = head[l]
    BY <1>4 DEF Rebased
  <2>2. QED
    BY <2>1, <1>2 DEF LaneInv, HeadRooted, OwnSourceChanges, Landed
<1>5. CASE ~Landed(head[l]) /\ head[l].parent # Len(main)
  <2> DEFINE c == head[l]
  <2>1. c.by = l /\ c.parent \in 1..Len(main) /\ Published(l) = {}
    BY <1>5 DEF LaneInv, HeadRooted
  <2>2. head'[l] = CommitOf(Len(main), c.by, Replayed(c), c.tree.manifest)
    BY <1>5 DEF Rebased
  <2>3. /\ head'[l].parent = Len(main) /\ head'[l].by = l
        /\ head'[l].tree.files = Replayed(c)
    <3>1. /\ Replayed(c) \in [Files -> Content] /\ c.by \in Content
          /\ c.tree.manifest \in [Derived -> Content] /\ Len(main) \in Nat
      BY <1>1, ReplayedType, CommitFields
    <3>2. QED
      BY <2>1, <2>2, <3>1, CommitType
  <2>4. HeadRooted(l)'
    BY <2>1, <2>3, <1>1 DEF HeadRooted
  <2>5. ASSUME NEW f \in Other
        PROVE  \/ Replayed(c)[f] = Tip.tree.files[f]
               \/ main[checkout[l]].tree.files[f] = Tip.tree.files[f]
    <3>1. ~ConflictsAt(c, f)
      BY <1>5 DEF Resolvable
    <3>2. \/ c.tree.files[f] = main[c.parent].tree.files[f]
          \/ main[checkout[l]].tree.files[f] = main[c.parent].tree.files[f]
      BY <1>5 DEF LaneInv, OwnSourceChanges
    <3>3. Replayed(c)[f] = IF c.tree.files[f] = main[c.parent].tree.files[f]
                           THEN Tip.tree.files[f] ELSE c.tree.files[f]
      BY DEF Replayed, Files
    <3>4. QED
      BY <3>1, <3>2, <3>3 DEF ConflictsAt
  <2>6. OwnSourceChanges(l)'
    BY <2>3, <2>5, <1>1 DEF OwnSourceChanges
  <2>7. QED
    BY <2>1, <2>4, <2>6, <1>2 DEF LaneInv
<1>6. QED
  BY <1>3, <1>4, <1>5

LEMMA RefreshKeepsLane ==
  ASSUME TypeOK, NEW l \in Lanes, LaneInv(l), main' = main,
         head'[l] = Refreshed(head[l]), checkout'[l] = checkout[l], memo'[l] = memo[l],
         green'[l] = green[l], pc'[l] = "gate"
  PROVE  LaneInv(l)'
<1>1. head[l] \in Commit
  BY DEF TypeOK
<1>2. Published(l)' = Published(l)
  BY DEF Published
<1>3. CASE Landed(head[l])
  <2>1. head'[l] = head[l]
    BY <1>3 DEF Refreshed
  <2>2. QED
    BY <1>3, <2>1, <1>2 DEF LaneInv, HeadRooted, OwnSourceChanges, Landed
<1>4. CASE ~Landed(head[l])
  <2> DEFINE c == head[l]
  <2>1. c.by = l /\ c.parent \in 1..Len(main) /\ Published(l) = {}
    BY <1>4 DEF LaneInv, HeadRooted
  <2>2. head'[l] = CommitOf(c.parent, c.by, c.tree.files, ManifestOf(c.tree.files))
    BY <1>4 DEF Refreshed
  <2>3. /\ head'[l].parent = c.parent /\ head'[l].by = l
        /\ head'[l].tree.files = c.tree.files
        /\ head'[l].tree.manifest = ManifestOf(c.tree.files)
    BY <2>1, <2>2, <1>1, CommitFields, ManifestType, CommitType
  <2>4. HeadRooted(l)'
    BY <2>1, <2>3 DEF HeadRooted
  <2>5. OwnSourceChanges(l)'
    BY <1>4, <2>3 DEF LaneInv, OwnSourceChanges
  <2>6. QED
    BY <2>1, <2>3, <2>4, <2>5, <1>2 DEF LaneInv
<1>5. QED
  BY <1>3, <1>4

\* The push of a lane's own commit: the one place where promises are made.
LEMMA OwnPush ==
  ASSUME TypeOK, Linear, NEW l \in Lanes, LaneInv(l), Promises(l),
         pc[l] = "push", Accepts(head[l]), main' = Append(main, head[l]),
         head'[l] = head[l], checkout'[l] = checkout[l], memo'[l] = memo[l],
         green'[l] = green[l], pc'[l] \in {"pull", "pushed", "gave_up"}
  PROVE  head[l].by = l /\ Linear' /\ LaneInv(l)' /\ Promises(l)'
<1> DEFINE n == Len(main)
<1>1. /\ n \in Nat \ {0} /\ Len(main') = n + 1 /\ main'[n + 1] = head[l]
      /\ \A i \in 1..n : main'[i] = main[i]
  BY AppendKeeps, TipType DEF TypeOK
<1>2. head[l].parent = n /\ ~Landed(head[l])
  BY <1>1 DEF Accepts, Landed
<1>3. head[l].by = l /\ Published(l) = {}
  BY <1>2 DEF LaneInv, HeadRooted
<1>4. Published(l)' = {n + 1}
  BY <1>1, <1>3 DEF Published
<1>5. Landed(head[l])'
  BY <1>1, <1>2 DEF Landed
<1>6. Linear'
  BY <1>1, <1>2 DEF Linear
<1>7. LaneInv(l)'
  BY <1>5 DEF LaneInv, HeadRooted, OwnSourceChanges
<1>8. checkout[l] \in 1..n
  BY DEF TypeOK
<1>9. /\ head[l] \in green[l]
      /\ head[l].tree.manifest = ManifestOf(head[l].tree.files)
      /\ \A f \in Other :
            \/ head[l].tree.files[f] = main[n].tree.files[f]
            \/ main[checkout[l]].tree.files[f] = main[n].tree.files[f]
  BY <1>2 DEF LaneInv, OwnSourceChanges
<1>10. Promises(l)'
  <2>1. main'[n] = main[n] /\ main'[checkout'[l]] = main[checkout[l]] /\ (n + 1) - 1 = n
    BY <1>1, <1>8
  <2>2. \A i \in Published(l)' : i = n + 1 /\ main'[i] = head[l] /\ main'[i - 1] = main[n]
    BY <1>1, <1>4, <2>1
  <2>3. \A i \in Published(l)' : main'[i] \in green'[l]
    BY <1>9, <2>2
  <2>4. (\A i, j \in Published(l)' : i = j) /\ Published(l)' # {}
    BY <1>4
  <2>5. \A i \in Published(l)' : \A f \in Other :
            main'[i].tree.files[f] # main'[i - 1].tree.files[f] =>
                main'[i - 1].tree.files[f] = main'[checkout'[l]].tree.files[f]
    BY <1>9, <2>1, <2>2
  <2>6. \A i \in Published(l)' : main'[i].tree.manifest = ManifestOf(main'[i].tree.files)
    BY <1>9, <2>2
  <2>7. QED
    BY <2>3, <2>4, <2>5, <2>6 DEF Promises
<1>11. QED
  BY <1>3, <1>6, <1>7, <1>10

LEMMA InitInv == Init => IInv
<1> SUFFICES ASSUME Init PROVE IInv
  OBVIOUS
<1>1. /\ main = <<Root>> /\ Len(main) = 1 /\ main[1] = Root
      /\ Root.parent = 0 /\ Root.by = "none" /\ "none" \notin Lanes
  BY RootType, LanesAssumption DEF Init
<1>2. Linear
  BY <1>1 DEF Linear
<1>3. ASSUME NEW l \in Lanes PROVE LaneInv(l) /\ Promises(l)
  <2>1. head[l] = Root /\ memo[l] = Root /\ pc[l] = "idle"
    BY DEF Init
  <2>2. Landed(head[l])
    BY <1>1, <2>1 DEF Landed
  <2>3. Published(l) = {}
    BY <1>1 DEF Published
  <2>4. QED
    BY <2>1, <2>2, <2>3 DEF LaneInv, Promises, HeadRooted, OwnSourceChanges
<1>4. QED
  BY <1>2, <1>3 DEF IInv

LEMMA StepInv == TypeOK /\ TypeOK' /\ IInv /\ [Next]_vars => IInv'
<1> SUFFICES ASSUME TypeOK, TypeOK', IInv, [Next]_vars PROVE IInv'
  OBVIOUS
<1>0. Linear /\ \A k \in Lanes : LaneInv(k) /\ Promises(k)
  BY DEF IInv
<1>1. CASE UNCHANGED vars
  <2>1. \A k \in Lanes : LaneInv(k)' /\ Promises(k)'
    BY <1>0, <1>1, OtherLaneStays DEF vars
  <2>2. Linear'
    BY <1>0, <1>1 DEF Linear, vars
  <2>3. QED
    BY <2>1, <2>2 DEF IInv
<1>2. CASE DeveloperPushes
  <2>1. PICK files \in [Files -> Content], manifest \in [Derived -> Content] :
          main' = Append(main, CommitOf(Len(main), "dev", files, manifest))
    <3>1. PICK changed \in SUBSET Files :
            \E manifest \in {ManifestOf(Edited(Tip, changed, "dev")), Tip.tree.manifest} :
                main' = Append(main, CommitOf(Len(main), "dev", Edited(Tip, changed, "dev"), manifest))
      BY <1>2 DEF DeveloperPushes
    <3>2. Edited(Tip, changed, "dev") \in [Files -> Content]
      BY TipType, EditedType DEF Content
    <3>3. QED
      BY <3>1, <3>2, TipType, ManifestType, CommitFields
  <2> DEFINE n == CommitOf(Len(main), "dev", files, manifest)
  <2>2. n \in Commit /\ n.parent = Len(main) /\ n.by = "dev" /\ "dev" \notin Lanes
    BY TipType, CommitType, LanesAssumption DEF Content
  <2>3. main' = Append(main, n)
    BY <2>1
  <2> HIDE DEF n
  <2>4. UNCHANGED <<pc, checkout, head, memo, green>>
    BY <1>2 DEF DeveloperPushes
  <2>5. \A k \in Lanes : LaneInv(k)' /\ Promises(k)'
    <3> SUFFICES ASSUME NEW k \in Lanes PROVE LaneInv(k)' /\ Promises(k)'
      OBVIOUS
    <3>1. n.by # k /\ LaneInv(k) /\ Promises(k)
      BY <1>0, <2>2
    <3>2. QED
      BY <1>0, <2>2, <2>3, <2>4, <3>1, OtherLaneSurvivesPush
  <2>6. Linear'
    BY <1>0, <2>2, <2>3, AppendKeeps, TipType DEF Linear
  <2>7. QED
    BY <2>5, <2>6 DEF IInv
<1>3. ASSUME NEW l \in Lanes, LaneStep(l) PROVE IInv'
  <2>0. LaneInv(l) /\ Promises(l)
    BY <1>0
  <2>1. \A k \in Lanes \ {l} :
          /\ pc'[k] = pc[k] /\ checkout'[k] = checkout[k] /\ head'[k] = head[k]
          /\ memo'[k] = memo[k] /\ green'[k] = green[k]
    BY <1>3 DEF LaneStep, Commits, RefusesUnstaged, Pulls, PullFails, Refreshes,
       RefreshFails, Gates, GateRefuses, PushSucceeds, PushAnswerLost, PushFails,
       AttemptFails, Goes, TypeOK
  <2>2. ASSUME main' = main, LaneInv(l)', Promises(l)' PROVE IInv'
    <3>1. \A k \in Lanes : LaneInv(k)' /\ Promises(k)'
      BY <1>0, <2>1, <2>2, OtherLaneStays
    <3>2. Linear'
      BY <1>0, <2>2 DEF Linear
    <3>3. QED
      BY <3>1, <3>2 DEF IInv
  <2>3. ASSUME pc[l] = "push", Accepts(head[l]), main' = With(head[l]),
               head'[l] = head[l], checkout'[l] = checkout[l], memo'[l] = memo[l],
               green'[l] = green[l], pc'[l] \in {"pull", "pushed", "gave_up"}
        PROVE  IInv'
    <3>1. main' = Append(main, head[l]) /\ head[l] \in Commit
      BY <2>3, Pushed DEF TypeOK
    <3>2. head[l].by = l /\ Linear' /\ LaneInv(l)' /\ Promises(l)'
      BY <1>0, <2>0, <2>3, <3>1, OwnPush
    <3>3. \A k \in Lanes \ {l} : LaneInv(k)' /\ Promises(k)'
      <4> SUFFICES ASSUME NEW k \in Lanes \ {l} PROVE LaneInv(k)' /\ Promises(k)'
        OBVIOUS
      <4>1. head[l].by # k /\ LaneInv(k) /\ Promises(k)
        BY <1>0, <3>2
      <4>2. QED
        BY <1>0, <2>1, <3>1, <4>1, OtherLaneSurvivesPush
    <3>4. QED
      BY <3>2, <3>3 DEF IInv
  <2>4. ASSUME main' = main, head'[l] = head[l], checkout'[l] = checkout[l],
               memo'[l] = memo[l], green'[l] = green[l],
               pc'[l] \in {"pull", "gave_up", "refused"}
        PROVE  IInv'
    <3>1. Published(l)' = Published(l)
      BY <2>4 DEF Published
    <3>2. LaneInv(l)'
      BY <2>0, <2>4, <3>1 DEF LaneInv, HeadRooted, OwnSourceChanges, Landed
    <3>3. Promises(l)'
      BY <2>0, <2>4, OwnStepKeepsPromises
    <3>4. QED
      BY <2>2, <2>4, <3>2, <3>3
  <2>5. pc \in [Lanes -> Step] /\ head \in [Lanes -> Commit] /\ checkout \in [Lanes -> 1..Len(main)]
        /\ memo \in [Lanes -> Commit] /\ green \in [Lanes -> SUBSET Commit]
    BY DEF TypeOK
  <2>6. CASE Commits(l)
    <3>1. PICK c \in 1..Len(main), changed \in SUBSET Files :
            /\ checkout' = [checkout EXCEPT ![l] = c]
            /\ head' = [head EXCEPT ![l] =
                 IF changed = {} THEN main[c]
                 ELSE CommitOf(c, l, Edited(main[c], changed, l), main[c].tree.manifest)]
      BY <2>6 DEF Commits
    <3>2. /\ pc[l] = "idle" /\ pc'[l] = "pull" /\ main' = main
          /\ memo'[l] = memo[l] /\ green'[l] = green[l]
          /\ checkout'[l] = c
      BY <2>5, <2>6, <3>1 DEF Commits, Goes
    <3>3. Published(l) = {} /\ Published(l)' = {}
      BY <2>0, <3>2 DEF LaneInv, Published
    <3>4. main[c] \in Commit /\ c \in Nat /\ l \in Content /\ main[c].parent = c - 1
      BY <1>0 DEF TypeOK, Content, Linear
    <3>5. HeadRooted(l)' /\ OwnSourceChanges(l)'
      <4>1. CASE changed = {}
        <5>1. head'[l] = main[c]
          BY <2>5, <3>1, <4>1
        <5>2. Landed(head[l])'
          BY <5>1, <3>2, <3>4 DEF Landed
        <5>3. QED
          BY <5>2 DEF HeadRooted, OwnSourceChanges
      <4>2. CASE changed # {}
        <5>1. head'[l] = CommitOf(c, l, Edited(main[c], changed, l), main[c].tree.manifest)
          BY <2>5, <3>1, <4>2
        <5>2. /\ Edited(main[c], changed, l) \in [Files -> Content]
              /\ main[c].tree.manifest \in [Derived -> Content]
          BY <3>4, EditedType, CommitFields
        <5>3. head'[l].by = l /\ head'[l].parent = c
          BY <5>1, <5>2, <3>4, CommitType
        <5>4. QED
          BY <5>3, <3>2 DEF HeadRooted, OwnSourceChanges
      <4>3. QED
        BY <4>1, <4>2
    <3>6. LaneInv(l)'
      BY <2>0, <3>2, <3>3, <3>5 DEF LaneInv
    <3>7. Promises(l)'
      BY <2>0, <3>2, <3>3, OwnStepKeepsPromises
    <3>8. QED
      BY <2>2, <3>2, <3>6, <3>7
  <2>7. CASE RefusesUnstaged(l)
    BY <2>4, <2>5, <2>7 DEF RefusesUnstaged, Goes
  <2>8. CASE Pulls(l)
    <3>1. /\ Resolvable(head[l]) /\ main' = main /\ head'[l] = Rebased(head[l])
          /\ checkout'[l] = checkout[l] /\ memo'[l] = memo[l] /\ green'[l] = green[l]
          /\ pc'[l] = "refresh"
      BY <2>5, <2>8 DEF Pulls, Goes
    <3>2. LaneInv(l)'
      BY <1>0, <2>0, <3>1, PullKeepsLane
    <3>3. Promises(l)'
      BY <2>0, <3>1, OwnStepKeepsPromises
    <3>4. QED
      BY <2>2, <3>1, <3>2, <3>3
  <2>9. CASE PullFails(l)
    BY <2>4, <2>5, <2>9, AttemptType DEF PullFails
  <2>10. CASE Refreshes(l)
    <3>1. /\ main' = main /\ head'[l] = Refreshed(head[l])
          /\ checkout'[l] = checkout[l] /\ memo'[l] = memo[l] /\ green'[l] = green[l]
          /\ pc'[l] = "gate"
      BY <2>5, <2>10 DEF Refreshes, Goes
    <3>2. LaneInv(l)'
      BY <2>0, <3>1, RefreshKeepsLane
    <3>3. Promises(l)'
      BY <2>0, <3>1, OwnStepKeepsPromises
    <3>4. QED
      BY <2>2, <3>1, <3>2, <3>3
  <2>11. CASE RefreshFails(l)
    BY <2>4, <2>5, <2>11 DEF RefreshFails, Goes
  <2>12. CASE Gates(l)
    <3>1. /\ pc[l] = "gate" /\ main' = main /\ head'[l] = head[l]
          /\ checkout'[l] = checkout[l] /\ pc'[l] = "push"
      BY <2>5, <2>12 DEF Gates, Goes
    <3>2. /\ head'[l] \in green'[l] /\ green[l] \subseteq green'[l]
          /\ memo'[l] # Root => memo'[l] \in green'[l]
      <4>1. CASE AlreadyGreen(l)
        BY <2>0, <2>12, <4>1, <3>1 DEF Gates, AlreadyGreen, LaneInv
      <4>2. CASE ~AlreadyGreen(l)
        BY <2>5, <2>12, <4>2, <3>1 DEF Gates
      <4>3. QED
        BY <4>1, <4>2
    <3>3. Published(l)' = Published(l) /\ (Landed(head[l])' <=> Landed(head[l]))
      BY <3>1 DEF Published, Landed
    <3>4. LaneInv(l)'
      BY <2>0, <3>1, <3>2, <3>3 DEF LaneInv, HeadRooted, OwnSourceChanges
    <3>5. Promises(l)'
      BY <2>0, <3>1, <3>2, OwnStepKeepsPromises
    <3>6. QED
      BY <2>2, <3>1, <3>4, <3>5
  <2>13. CASE GateRefuses(l)
    BY <2>4, <2>5, <2>13 DEF GateRefuses, Goes
  <2>14. CASE PushSucceeds(l)
    <3>1. /\ pc[l] = "push" /\ pc'[l] = "pushed" /\ head'[l] = head[l]
          /\ checkout'[l] = checkout[l] /\ memo'[l] = memo[l] /\ green'[l] = green[l]
      BY <2>5, <2>14 DEF PushSucceeds, Goes
    <3>2. CASE Accepts(head[l]) /\ main' = With(head[l])
      BY <2>3, <3>1, <3>2
    <3>3. CASE UpToDate(head[l]) /\ UNCHANGED main
      <4>1. head[l] = Tip /\ Tip = main[Len(main)] /\ Len(main) \in 1..Len(main)
        BY <3>3, TipType DEF UpToDate
      <4>2. head'[l].by = l => Published(l) # {}
        BY <3>1, <4>1 DEF Published
      <4>3. Published(l)' = Published(l) /\ (Landed(head[l])' <=> Landed(head[l]))
        BY <3>1, <3>3 DEF Published, Landed
      <4>4. LaneInv(l)'
        BY <2>0, <3>1, <3>3, <4>3 DEF LaneInv, HeadRooted, OwnSourceChanges
      <4>5. Promises(l)'
        BY <2>0, <3>1, <3>3, <4>2, OwnStepKeepsPromises
      <4>6. QED
        BY <2>2, <3>3, <4>4, <4>5
    <3>4. QED
      BY <2>14, <3>2, <3>3 DEF PushSucceeds
  <2>15. CASE PushAnswerLost(l)
    BY <2>3, <2>5, <2>15, AttemptType DEF PushAnswerLost
  <2>16. CASE PushFails(l)
    BY <2>4, <2>5, <2>16, AttemptType DEF PushFails
  <2>17. QED
    BY <1>3, <2>6, <2>7, <2>8, <2>9, <2>10, <2>11, <2>12, <2>13, <2>14, <2>15, <2>16 DEF LaneStep
<1>4. QED
  BY <1>1, <1>2, <1>3 DEF Next

LEMMA InvHolds == Spec => []IInv
<1>1. Init => IInv
  BY InitInv
<1>2. Spec => []TypeOK
  BY TypeCorrect
<1>3. TypeOK /\ TypeOK' /\ IInv /\ [Next]_vars => IInv'
  BY StepInv
<1>4. QED
  BY <1>1, <1>2, <1>3, PTL DEF Spec

-----------------------------------------------------------------------------
(* What every lane can rely on.                                            *)

\* A lane's commit on main is one its own gate passed, byte for byte.
THEOREM GateIsExact == Spec => []OnlyExactlyGated
<1>1. IInv => OnlyExactlyGated
  BY DEF IInv, Promises, OnlyExactlyGated
<1>2. QED
  BY <1>1, InvHolds, PTL

\* A lost answer never publishes a lane's work a second time.
THEOREM NoDoublePublication == Spec => []PublishedAtMostOnce
<1>1. IInv => PublishedAtMostOnce
  BY DEF IInv, Promises, PublishedAtMostOnce
<1>2. QED
  BY <1>1, InvHolds, PTL

\* Exit 0 with a commit of its own means that commit is on main.
THEOREM ExitZeroIsTrue == Spec => []SuccessIsOnMain
<1>1. IInv => SuccessIsOnMain
  BY DEF IInv, Promises, SuccessIsOnMain
<1>2. QED
  BY <1>1, InvHolds, PTL

\* No rebase, however often repeated, undoes an upstream change outside the
\* derived files.
THEOREM NoSourceChangeLost == Spec => []UpstreamSourceSurvives
<1>1. IInv => UpstreamSourceSurvives
  BY DEF IInv, Promises, UpstreamSourceSurvives
<1>2. QED
  BY <1>1, InvHolds, PTL

\* A published commit carries the manifest of its own bytes.
THEOREM ManifestIsExact == Spec => []ManifestDescribesCommit
<1>1. IInv => ManifestDescribesCommit
  BY DEF IInv, Promises, ManifestDescribesCommit
<1>2. QED
  BY <1>1, InvHolds, PTL

\* What is on main stays on main, at its place.
THEOREM MainOnlyGrows == Spec => MainNeverRewritten
<1> DEFINE Keeps == /\ Len(main) <= Len(main')
                    /\ \A i \in 1..Len(main) : main'[i] = main[i]
<1>1. TypeOK /\ [Next]_vars => [Keeps]_vars
  <2> SUFFICES ASSUME TypeOK, Next PROVE Keeps
    OBVIOUS
  <2>1. CASE main' = main
    BY <2>1, TipType
  <2>2. ASSUME NEW l \in Lanes, Accepts(head[l]), main' = With(head[l]) PROVE Keeps
    <3>1. head[l] \in Commit /\ main' = Append(main, head[l])
      BY <2>2, Pushed DEF TypeOK
    <3>2. QED
      BY <3>1, AppendKeeps
  <2>3. CASE DeveloperPushes
    <3>1. \E c : main' = Append(main, c)
      BY <2>3 DEF DeveloperPushes
    <3>2. QED
      BY <3>1 DEF TypeOK
  <2>4. ASSUME NEW l \in Lanes, LaneStep(l)
        PROVE  main' = main \/ (Accepts(head[l]) /\ main' = With(head[l]))
    BY <2>4 DEF LaneStep, Commits, RefusesUnstaged, Pulls, PullFails, Refreshes,
       RefreshFails, Gates, GateRefuses, PushSucceeds, PushAnswerLost, PushFails
  <2>5. QED
    BY <2>1, <2>2, <2>3, <2>4 DEF Next
<1>2. QED
  BY <1>1, TypeCorrect, PTL DEF Spec, MainNeverRewritten

-----------------------------------------------------------------------------
(* The loop implements a publication in one step.                          *)

Log == [i \in DOMAIN main |-> main[i].by]
Has == [l \in Lanes |-> Brought(l)]
Answers == [l \in Lanes |-> Told(l)]

LEMMA LogShows ==
  ASSUME TypeOK, NEW l \in Lanes
  PROVE  (\E i \in DOMAIN Log : Log[i] = l) <=> Published(l) # {}
<1>1. DOMAIN main = 1..Len(main) /\ DOMAIN Log = DOMAIN main
  BY DEF TypeOK, Log
<1>2. \A i \in DOMAIN main : Log[i] = main[i].by
  BY DEF Log
<1>3. QED
  BY <1>1, <1>2 DEF Published

LEMMA LogGrows ==
  ASSUME TypeOK, NEW c \in Commit, main' = Append(main, c)
  PROVE  /\ Log' = Append(Log, c.by)
         /\ \A l \in Lanes : Published(l)' # {} <=> Published(l) # {} \/ c.by = l
<1> DEFINE n == Len(main)
<1>1. /\ n \in Nat /\ Len(main') = n + 1 /\ main'[n + 1] = c
      /\ \A i \in 1..n : main'[i] = main[i]
      /\ main \in Seq(Commit) /\ main' \in Seq(Commit)
  BY AppendKeeps DEF TypeOK
<1>2. DOMAIN main = 1..n /\ DOMAIN main' = 1..(n + 1)
  BY <1>1
<1>3. Log \in Seq(Content) /\ Len(Log) = n
  <2>1. \A i \in 1..n : Log[i] \in Content
    BY <1>1, <1>2, CommitFields DEF Log
  <2>2. QED
    BY <1>1, <1>2, <2>1 DEF Log
<1>4. Log' = Append(Log, c.by)
  <2>1. \A i \in 1..(n + 1) : Log'[i] = Append(Log, c.by)[i]
    BY <1>1, <1>2, <1>3 DEF Log
  <2>2. QED
    BY <1>2, <1>3, <2>1 DEF Log
<1>5. \A l \in Lanes : Published(l)' # {} <=> Published(l) # {} \/ c.by = l
  BY <1>1 DEF Published
<1>6. QED
  BY <1>4, <1>5

\* Rebasing and refreshing the HEAD leave a lane with the work it has: HEAD is
\* replaced by another's commit only when main holds the lane's own.
LEMMA WorkIsKept ==
  ASSUME TypeOK, NEW l \in Lanes, LaneInv(l), main' = main, pc[l] # "idle", pc'[l] # "idle",
         head'[l] \in {head[l], Rebased(head[l]), Refreshed(head[l])}
  PROVE  Brought(l)' = Brought(l)
<1>1. Published(l)' = Published(l)
  BY DEF Published
<1>2. head[l] \in Commit /\ Len(main) \in Nat \ {0} /\ Tip = main[Len(main)]
  BY TipType DEF TypeOK
<1>3. head'[l].by = l \/ Published(l) # {} <=> head[l].by = l \/ Published(l) # {}
  <2>1. CASE Landed(head[l])
    <3>1. head[l].by = l => Published(l) # {}
      <4>1. head[l].parent + 1 \in 1..Len(main) /\ main[head[l].parent + 1] = head[l]
        BY <1>2, <2>1, CommitFields DEF Landed
      <4>2. QED
        BY <4>1 DEF Published
    <3>2. head'[l] \in {head[l], Tip}
      BY <2>1 DEF Rebased, Refreshed
    <3>3. Tip.by = l => Published(l) # {}
      BY <1>2 DEF Published
    <3>4. QED
      BY <3>1, <3>2, <3>3
  <2>2. CASE ~Landed(head[l])
    BY <2>2 DEF Rebased, Refreshed, CommitOf
  <2>3. QED
    BY <2>1, <2>2
<1>4. QED
  BY <1>1, <1>3 DEF Brought

\* What a step of one lane is to the callers of all.
LEMMA OthersUntouched ==
  ASSUME TypeOK, NEW l \in Lanes,
         \A k \in Lanes \ {l} : pc'[k] = pc[k] /\ head'[k] = head[k],
         \A k \in Lanes \ {l} : Published(k)' # {} <=> Published(k) # {}
  PROVE  /\ Has' = [Has EXCEPT ![l] = Brought(l)']
         /\ Answers' = [Answers EXCEPT ![l] = Told(l)']
<1>1. \A k \in Lanes \ {l} : Brought(k)' = Brought(k) /\ Told(k)' = Told(k)
  BY DEF Brought, Told
<1>2. QED
  BY <1>1 DEF Has, Answers

LEMMA PushPublishes ==
  ASSUME TypeOK, IInv, NEW l \in Lanes,
         \A k \in Lanes \ {l} : pc'[k] = pc[k] /\ head'[k] = head[k],
         pc[l] = "push", Accepts(head[l]), main' = With(head[l]), head'[l] = head[l],
         pc'[l] \in {"pull", "pushed", "gave_up"}
  PROVE  Publication!Publishes(l)
<1>1. head[l] \in Commit /\ main' = Append(main, head[l])
  BY Pushed DEF TypeOK
<1>2. head[l].by = l /\ Published(l) = {}
  <2>1. LaneInv(l) /\ ~Landed(head[l])
    BY <1>1, TipType, CommitFields DEF IInv, Accepts, Landed
  <2>2. QED
    BY <2>1 DEF LaneInv, HeadRooted
<1>3. Log' = Append(Log, l) /\ Published(l)' # {}
      /\ \A k \in Lanes \ {l} : Published(k)' # {} <=> Published(k) # {}
  BY <1>1, <1>2, LogGrows
<1>4. Has[l] = "work" /\ Brought(l)' = "work" /\ Answers[l] = "nothing"
  BY <1>2 DEF Has, Brought, Answers, Told, Ended
<1>5. Has' = [Has EXCEPT ![l] = "work"] /\ Answers' = [Answers EXCEPT ![l] = Told(l)']
  BY <1>3, <1>4, OthersUntouched
<1>6. Has' = Has
  BY <1>4, <1>5 DEF Has
<1>7. ~ \E i \in DOMAIN Log : Log[i] = l
  BY <1>2, LogShows
<1>8. Told(l)' \in {"nothing", "pushed", "failed"}
  BY DEF Told
<1>9. QED
  BY <1>3, <1>4, <1>5, <1>6, <1>7, <1>8
  DEF Publication!Publishes, Publication!OnMain, Log, Has, Answers

\* A step that leaves main and the lane's work alone answers it, or is silent.
LEMMA AnswerOrSilence ==
  ASSUME TypeOK, NEW l \in Lanes,
         \A k \in Lanes \ {l} : pc'[k] = pc[k] /\ head'[k] = head[k],
         main' = main, pc[l] \notin Ended \cup {"idle"}, Brought(l)' = Brought(l),
         pc'[l] = "pushed" /\ Brought(l) = "work" => Published(l) # {}
  PROVE  \/ UNCHANGED Publication!vars
         \/ Publication!Succeeds(l) \/ Publication!Fails(l)
<1>1. \A k \in Lanes : Published(k)' = Published(k)
  BY DEF Published
<1>2. Has' = [Has EXCEPT ![l] = Brought(l)] /\ Answers' = [Answers EXCEPT ![l] = Told(l)']
  BY <1>1, OthersUntouched
<1>3. /\ Log' = Log /\ Has' = Has
      /\ Has[l] = Brought(l) /\ Answers[l] = "nothing" /\ Brought(l) \in {"work", "no work"}
  <2>1. Has[l] = Brought(l) /\ Answers[l] = "nothing"
    BY DEF Has, Answers, Told
  <2>2. Has' = Has
    BY <1>2 DEF Has
  <2>3. QED
    BY <2>1, <2>2 DEF Log, Brought
<1>4. CASE Told(l)' = "nothing"
  <2>1. Answers' = Answers
    BY <1>2, <1>3, <1>4 DEF Answers
  <2>2. QED
    BY <1>3, <2>1 DEF Publication!vars, Log, Has, Answers
<1>5. CASE Told(l)' = "failed"
  BY <1>2, <1>3, <1>5 DEF Publication!Fails, Log, Has, Answers
<1>6. CASE Told(l)' = "pushed"
  <2>1. pc'[l] = "pushed"
    BY <1>6 DEF Told
  <2>2. Brought(l) = "work" => \E i \in DOMAIN Log : Log[i] = l
    BY <2>1, LogShows
  <2>3. QED
    BY <1>2, <1>3, <1>6, <2>2
    DEF Publication!Succeeds, Publication!OnMain, Log, Has, Answers
<1>7. QED
  BY <1>4, <1>5, <1>6 DEF Told

\* "Never exit 0 with the work unpushed", for any lanes, files and attempts:
\* pulling, gating, pushing and retrying are one publication, with an answer
\* that follows it or gets lost.
THEOREM LoopIsOnePublication == Spec => ImplementsPublication
<1>1. Init => Publication!Init
  <2> SUFFICES ASSUME Init PROVE Publication!Init
    OBVIOUS
  <2>1. [i \in DOMAIN main |-> main[i].by] = <<"none">>
    BY RootType DEF Init
  <2>2. \A l \in Lanes : Brought(l) = "unknown" /\ Told(l) = "nothing"
    BY DEF Init, Brought, Told, Ended
  <2>3. QED
    BY <2>1, <2>2 DEF Publication!Init
<1>2. TypeOK /\ IInv /\ [Next]_vars => [Publication!Next]_(Publication!vars)
  <2> SUFFICES ASSUME TypeOK, IInv, [Next]_vars
               PROVE  Publication!Next \/ UNCHANGED Publication!vars
    OBVIOUS
  <2>1. CASE UNCHANGED vars
    BY <2>1 DEF vars, Publication!vars, Brought, Told, Published
  <2>2. CASE DeveloperPushes
    <3>1. PICK c \in Commit : main' = Append(main, c) /\ c.by = "dev"
      <4>1. PICK changed \in SUBSET Files :
              \E manifest \in {ManifestOf(Edited(Tip, changed, "dev")), Tip.tree.manifest} :
                  main' = Append(main, CommitOf(Len(main), "dev",
                                                Edited(Tip, changed, "dev"), manifest))
        BY <2>2 DEF DeveloperPushes
      <4>2. Edited(Tip, changed, "dev") \in [Files -> Content] /\ "dev" \in Content
        BY TipType, EditedType DEF Content
      <4>3. QED
        BY <4>1, <4>2, TipType, ManifestType, CommitFields, CommitType
    <3>2. Log' = Append(Log, "dev") /\ \A k \in Lanes : Published(k)' # {} <=> Published(k) # {}
      BY <3>1, LogGrows, LanesAssumption
    <3>3. Has' = Has /\ Answers' = Answers
      BY <2>2, <3>2 DEF DeveloperPushes, Has, Answers, Brought, Told
    <3>4. QED
      BY <3>2, <3>3 DEF Publication!Next, Publication!DeveloperPublishes, Log, Has, Answers
  <2>3. ASSUME NEW l \in Lanes, LaneStep(l)
        PROVE  Publication!Next \/ UNCHANGED Publication!vars
    <3>0. LaneInv(l) /\ pc \in [Lanes -> Step] /\ head \in [Lanes -> Commit]
      BY DEF IInv, TypeOK
    <3>1. \A k \in Lanes \ {l} : pc'[k] = pc[k] /\ head'[k] = head[k]
      BY <2>3, <3>0 DEF LaneStep, Commits, RefusesUnstaged, Pulls, PullFails, Refreshes,
         RefreshFails, Gates, GateRefuses, PushSucceeds, PushAnswerLost, PushFails,
         AttemptFails, Goes
    <3>2. CASE Commits(l)
      <4>1. pc[l] = "idle" /\ pc'[l] = "pull" /\ main' = main
        BY <3>0, <3>2 DEF Commits, Goes
      <4>2. \A k \in Lanes : Published(k)' = Published(k)
        BY <4>1 DEF Published
      <4>3. /\ Has' = [Has EXCEPT ![l] = Brought(l)']
            /\ Answers' = [Answers EXCEPT ![l] = Told(l)']
        BY <3>1, <4>2, OthersUntouched
      <4>4. /\ Log' = Log /\ Has[l] = "unknown" /\ Brought(l)' \in {"work", "no work"}
            /\ Answers[l] = "nothing" /\ Told(l)' = "nothing"
        BY <4>1 DEF Log, Has, Answers, Brought, Told, Ended
      <4>5. Answers' = Answers
        BY <4>3, <4>4 DEF Answers
      <4>6. QED
        BY <4>3, <4>4, <4>5 DEF Publication!Next, Publication!Calls, Log, Has, Answers
    <3>3. ASSUME Accepts(head[l]), main' = With(head[l]),
                 PushSucceeds(l) \/ PushAnswerLost(l)
          PROVE  Publication!Next
      <4>1. pc[l] = "push" /\ head'[l] = head[l] /\ pc'[l] \in {"pull", "pushed", "gave_up"}
        BY <3>0, <3>3, AttemptType DEF PushSucceeds, PushAnswerLost, Goes
      <4>2. QED
        BY <3>1, <3>3, <4>1, PushPublishes DEF Publication!Next
    <3>4. ASSUME main' = main, ~Commits(l)
          PROVE  Publication!Next \/ UNCHANGED Publication!vars
      <4>1. pc[l] \notin Ended \cup {"idle"} /\ pc'[l] # "idle"
        BY <2>3, <3>0, <3>4, AttemptType DEF LaneStep, RefusesUnstaged, Pulls, PullFails,
           Refreshes, RefreshFails, Gates, GateRefuses, PushSucceeds, PushAnswerLost, PushFails,
           Goes, Ended
      <4>2. head'[l] \in {head[l], Rebased(head[l]), Refreshed(head[l])}
        BY <2>3, <3>0, <3>4 DEF LaneStep, RefusesUnstaged, Pulls, PullFails, Refreshes,
           RefreshFails, Gates, GateRefuses, PushSucceeds, PushAnswerLost, PushFails
      <4>3. Brought(l)' = Brought(l)
        BY <3>0, <3>4, <4>1, <4>2, WorkIsKept
      <4>4. ASSUME pc'[l] = "pushed", Brought(l) = "work" PROVE Published(l) # {}
        <5>1. PushSucceeds(l)
          BY <2>3, <3>0, <3>4, <4>4, AttemptType DEF LaneStep, RefusesUnstaged, Pulls,
             PullFails, Refreshes, RefreshFails, Gates, GateRefuses, PushAnswerLost, PushFails,
             Goes
        <5>2. UpToDate(head[l])
          <6>1. ~(Accepts(head[l]) /\ main' = With(head[l]))
            BY <3>4, Pushed, TipType
          <6>2. QED
            BY <5>1, <6>1 DEF PushSucceeds
        <5>3. head[l].by = l => Published(l) # {}
          BY <5>2, TipType DEF UpToDate, Published
        <5>4. QED
          BY <4>4, <5>3 DEF Brought
      <4>5. \/ UNCHANGED Publication!vars
            \/ Publication!Succeeds(l) \/ Publication!Fails(l)
        BY <3>1, <3>4, <4>1, <4>3, <4>4, AnswerOrSilence
      <4>6. QED
        BY <4>5 DEF Publication!Next
    <3>5. \/ main' = main
          \/ /\ Accepts(head[l]) /\ main' = With(head[l])
             /\ PushSucceeds(l) \/ PushAnswerLost(l)
      BY <2>3 DEF LaneStep, Commits, RefusesUnstaged, Pulls, PullFails, Refreshes,
         RefreshFails, Gates, GateRefuses, PushSucceeds, PushAnswerLost, PushFails
    <3>6. CASE main' = main
      BY <3>2, <3>4, <3>6
    <3>7. QED
      BY <3>3, <3>5, <3>6
  <2>4. QED
    BY <2>1, <2>2, <2>3 DEF Next
<1>3. QED
  BY <1>1, <1>2, TypeCorrect, InvHolds, PTL DEF Spec, ImplementsPublication, Publication!Spec
=============================================================================
