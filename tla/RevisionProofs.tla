--------------------------- MODULE RevisionProofs ---------------------------
(***************************************************************************)
(* The two histories of event versions, for any records, any length of     *)
(* archive and any days: the corrections over the signed ledger            *)
(* (KnowledgeReplay) and the overlay of signed operations                  *)
(* (SemanticLineage), as Sidecars instantiates them.                       *)
(*                                                                         *)
(* Both are validated before they are replayed, and the invariants are     *)
(* what validation leaves: a state of one part only ever holds what its    *)
(* own checks let through.  What the replays compute is defined by         *)
(* recursion; where a proof needs an induction it takes the least case     *)
(* that fails instead.                                                     *)
(***************************************************************************)
EXTENDS Sidecars, FiniteSetTheorems, WellFoundedInduction, TLAPS

\* Every set of natural numbers that is not empty has a least element: what takes
\* the place of an induction.
LEMMA LeastNatural ==
    ASSUME NEW S \in SUBSET Nat, S # {}
    PROVE  \E m \in S : \A n \in S : m <= n
<1>1. PICK m \in S : \A n \in S : <<n, m>> \notin OpToRel(<, Nat)
    BY WFMin, NatLessThanWellFounded, Zenon
<1>2. \A n \in S : ~(n < m)
    BY <1>1, Zenon DEF OpToRel
<1> QED BY <1>2

\* Each instance has its own copy of the operators of FiniteSets.
LEMMA SameCardinality ==
    \A S : Replay!Cardinality(S) = Cardinality(S) /\ Lineage!Cardinality(S) = Cardinality(S)
BY DEF Replay!Cardinality, Lineage!Cardinality, Cardinality

-----------------------------------------------------------------------------
(* Knowledge replay.                                                       *)

ReplayRelease ==
    [objects : SUBSET Replay!Id, generated : Replay!Time, available : Replay!Time,
     corrected : [Replay!Id -> Replay!Valid \cup {0}]]

RecordsGood ==
    /\ records \in [Replay!Id -> Replay!Record]
    /\ \A id \in Replay!Id : Replay!Parent(id) < id /\ Replay!LifecycleValid(id)

LedgerGood ==
    /\ time \in Replay!Time /\ closed \in Replay!Time /\ closed <= time
    /\ releases \in Seq(ReplayRelease)
    /\ Replay!ReceiptsValid(releases, closed)
    /\ Replay!ReleaseHistoryValid(releases)
    /\ Replay!CorrectionsValid(releases)

ReplayInv == RecordsGood /\ LedgerGood

LEMMA ReplayInit == ASSUME ReplayConstants, Replay!Init PROVE ReplayInv
<1>1. RecordsGood
    BY DEF Replay!Init, RecordsGood
<1>2. DOMAIN releases = {} /\ releases \in Seq(ReplayRelease)
    BY DEF Replay!Init
<1>3. time = 1 /\ closed = 1 /\ 1 \in Replay!Time
    BY DEF Replay!Init, Replay!Time, ReplayConstants
<1> QED
    BY <1>1, <1>2, <1>3 DEF ReplayInv, LedgerGood, Replay!ReceiptsValid,
       Replay!ReleaseHistoryValid,
       Replay!CorrectionsValid, Replay!Time

LEMMA ReplayNext == ASSUME ReplayConstants, ReplayInv, [Replay!Next]_replayVars PROVE ReplayInv'
<1> USE DEF ReplayInv
<1>1. records' = records
    BY DEF replayVars, Replay!Next, Replay!Tick, Replay!Close, Replay!Publish
<1>2. RecordsGood'
    BY <1>1 DEF RecordsGood, Replay!Parent, Replay!LifecycleValid
<1>3. CASE /\ releases' = releases /\ time' \in Replay!Time /\ time' >= time
           /\ closed' \in {closed, time}
    <2>0. \A i \in DOMAIN releases : releases[i] \in ReplayRelease
        BY DEF LedgerGood
    <2>1. \A i \in DOMAIN releases : releases[i].available \in Replay!Time
        BY <2>0 DEF ReplayRelease
    <2>2. Replay!ReceiptsValid(releases, closed)'
        BY <1>3, <2>1 DEF LedgerGood, Replay!ReceiptsValid, Replay!Time
    <2>3. Replay!ReleaseHistoryValid(releases)' /\ Replay!CorrectionsValid(releases)'
        BY <1>1, <1>3 DEF LedgerGood, Replay!ReleaseHistoryValid, Replay!CorrectionsValid,
           Replay!LifecycleValid, Replay!Parent, Replay!RevisionValid, Replay!NoFork,
           Replay!RemovalsExplained
    <2> QED BY <1>2, <1>3, <2>2, <2>3 DEF LedgerGood, Replay!Time
<1>4. ASSUME NEW objects \in SUBSET Replay!Id, NEW generated \in Replay!Time,
             NEW available \in Replay!Time,
             NEW corrections \in [Replay!Id -> Replay!Valid \cup {0}],
             Replay!Publish(objects, generated, available, corrections)
      PROVE  LedgerGood'
    <2> DEFINE e == [objects |-> objects, generated |-> generated, available |-> available,
                     corrected |-> corrections]
               longer == Append(releases, e)
    <2>1. /\ Replay!ReceiptsValid(longer, time)
          /\ Replay!ReleaseHistoryValid(longer) /\ Replay!CorrectionsValid(longer)
          /\ releases' = longer /\ closed' = time /\ time' = time /\ records' = records
        BY <1>4 DEF Replay!Publish
    <2>2. e \in ReplayRelease
        BY DEF ReplayRelease
    <2>3. longer \in Seq(ReplayRelease)
        BY <2>2 DEF LedgerGood
    <2>4. Replay!ReceiptsValid(releases, closed)'
        BY <2>1 DEF Replay!ReceiptsValid
    <2>5. Replay!ReleaseHistoryValid(releases)' /\ Replay!CorrectionsValid(releases)'
        BY <2>1 DEF Replay!ReleaseHistoryValid, Replay!CorrectionsValid,
           Replay!LifecycleValid, Replay!Parent, Replay!RevisionValid, Replay!NoFork,
           Replay!RemovalsExplained
    <2> QED BY <2>1, <2>3, <2>4, <2>5 DEF LedgerGood, Replay!Time
<1>5. CASE UNCHANGED replayVars
    BY <1>3, <1>5 DEF replayVars, LedgerGood, Replay!Time
<1>6. CASE Replay!Tick
    BY <1>3, <1>6 DEF Replay!Tick, LedgerGood, Replay!Time, ReplayConstants
<1>7. CASE Replay!Close
    BY <1>3, <1>7 DEF Replay!Close, LedgerGood, Replay!Time
<1> QED BY <1>2, <1>4, <1>5, <1>6, <1>7 DEF Replay!Next

\* A release is eligible from its receipt on, and a later one is the later answer.
LEMMA ReplayKeepsAnswers ==
    ASSUME ReplayConstants, ReplayInv, [Replay!Next]_replayVars
    PROVE  Replay!AnswersKept
<1> SUFFICES ASSUME NEW cutoff \in 1..closed
             PROVE  Replay!Selected(releases', closed', cutoff) =
                        IF Replay!IndexedLate(cutoff) THEN Len(releases')
                        ELSE Replay!Selected(releases, closed, cutoff)
    BY DEF Replay!AnswersKept
<1>0. /\ closed \in Nat /\ closed <= time /\ time \in Nat
      /\ releases \in Seq(ReplayRelease)
      /\ DOMAIN releases = 1..Len(releases) /\ Len(releases) \in Nat
    BY DEF ReplayInv, LedgerGood, Replay!Time
<1>1. CASE Replay!Tick \/ Replay!Close \/ UNCHANGED replayVars
    <2>1. releases' = releases /\ closed' \in {closed, time}
        BY <1>1 DEF replayVars, Replay!Tick, Replay!Close
    <2>2. ~Replay!IndexedLate(cutoff)
        BY <1>0, <2>1 DEF Replay!IndexedLate
    <2>3. Replay!Eligible(releases', cutoff) = Replay!Eligible(releases, cutoff)
        BY <2>1
    <2>4. ~(cutoff > closed) /\ ~(cutoff > closed')
        BY <1>0, <2>1
    <2> QED BY <2>2, <2>3, <2>4 DEF Replay!Selected
<1>2. ASSUME NEW objects \in SUBSET Replay!Id, NEW generated \in Replay!Time,
             NEW available \in Replay!Time,
             NEW corrections \in [Replay!Id -> Replay!Valid \cup {0}],
             Replay!Publish(objects, generated, available, corrections)
      PROVE  Replay!Selected(releases', closed', cutoff) =
                 IF Replay!IndexedLate(cutoff) THEN Len(releases')
                 ELSE Replay!Selected(releases, closed, cutoff)
    <2> DEFINE e == [objects |-> objects, generated |-> generated, available |-> available,
                     corrected |-> corrections]
               last == Len(releases')
    <2>1. releases' = Append(releases, e) /\ closed' = time
        BY <1>2 DEF Replay!Publish
    <2>2. /\ last = Len(releases) + 1 /\ releases'[last].available = available
          /\ DOMAIN releases' = 1..last
          /\ \A k \in DOMAIN releases : releases'[k] = releases[k]
        BY <1>0, <2>1
    <2>3. ~(cutoff > closed) /\ ~(cutoff > closed')
        BY <1>0, <2>1
    <2>4. Replay!IndexedLate(cutoff) <=> available <= cutoff
        BY <1>0, <2>2 DEF Replay!IndexedLate
    <2>5. \A k : k \in DOMAIN releases' <=> k \in DOMAIN releases \/ k = last
        BY <1>0, <2>2
    <2> HIDE DEF last
    <2>6. CASE available <= cutoff
        <3>1. last \in Replay!Eligible(releases', cutoff)
            BY <2>2, <2>5, <2>6 DEF Replay!Eligible
        <3>2. \A i \in Replay!Eligible(releases', cutoff) : i \in Nat /\ i <= last
            BY <1>0, <2>2 DEF Replay!Eligible
        <3>3. last \in Nat
            BY <1>0, <2>2
        <3>4. \A k \in Replay!Eligible(releases', cutoff) :
                  (\A i \in Replay!Eligible(releases', cutoff) : i <= k) <=> k = last
            BY <3>1, <3>2, <3>3
        <3>5. (CHOOSE k \in Replay!Eligible(releases', cutoff) :
                  \A i \in Replay!Eligible(releases', cutoff) : i <= k) = last
            BY <3>1, <3>4
        <3> QED BY <2>3, <2>4, <2>6, <3>1, <3>5 DEF Replay!Selected, last
    <2>7. CASE ~(available <= cutoff)
        <3>1. \A k : k \in Replay!Eligible(releases', cutoff)
                         <=> k \in Replay!Eligible(releases, cutoff)
            BY <2>2, <2>5, <2>7 DEF Replay!Eligible
        <3>2. Replay!Eligible(releases', cutoff) = Replay!Eligible(releases, cutoff)
            BY <3>1 DEF Replay!Eligible
        <3> QED BY <2>3, <2>4, <2>7, <3>2 DEF Replay!Selected
    <2> QED BY <2>6, <2>7
<1> QED
    BY <1>1, <1>2 DEF Replay!Next

\* The recursion that finds the root of a record is well defined, for a parent
\* has a smaller id.
LEMMA RootOf ==
    ASSUME ReplayConstants, RecordsGood
    PROVE  \A id \in Replay!Id :
              Replay!Root[id] = IF Replay!Parent(id) = 0 THEN id ELSE Replay!Root[Replay!Parent(id)]
<1> DEFINE Body(f, id) == IF Replay!Parent(id) = 0 THEN id ELSE f[Replay!Parent(id)]
           Upto(n) == {f \in [Replay!Id -> Replay!Id] :
                          \A id \in Replay!Id : id <= n => f[id] = Body(f, id)}
           Failed == {n \in Nat : Upto(n) = {}}
<1>0. \A id \in Replay!Id : id \in Nat /\ id # 0 /\ Replay!Parent(id) \in Replay!Id \cup {0}
                             /\ Replay!Parent(id) < id
    BY DEF RecordsGood, Replay!Parent, Replay!Record, Replay!Id, ReplayConstants
<1>1. Failed = {}
    <2> SUFFICES ASSUME Failed # {} PROVE FALSE
        OBVIOUS
    <2>1. PICK n \in Failed : \A m \in Failed : n <= m
        BY LeastNatural
    <2>2. n # 0
        <3>1. [id \in Replay!Id |-> id] \in Upto(0)
            BY <1>0
        <3> QED BY <2>1, <3>1
    <2>3. PICK f \in [Replay!Id -> Replay!Id] :
              \A id \in Replay!Id : id <= n - 1 => f[id] = Body(f, id)
        <3>1. n - 1 \in Nat /\ n - 1 \notin Failed
            BY <2>1, <2>2
        <3>2. Upto(n - 1) # {}
            BY <3>1
        <3> QED BY <3>2
    <2> DEFINE g == [id \in Replay!Id |-> IF id = n THEN Body(f, n) ELSE f[id]]
    <2>4. g \in [Replay!Id -> Replay!Id]
        BY <1>0, <2>3
    <2>5. ASSUME NEW id \in Replay!Id, id <= n PROVE g[id] = Body(g, id)
        <3>1. Replay!Parent(id) # n
            BY <1>0, <2>1, <2>5
        <3>2. Replay!Parent(id) # 0 => g[Replay!Parent(id)] = f[Replay!Parent(id)]
            BY <1>0, <3>1
        <3>3. id # n => id <= n - 1
            <4>1. id \in Nat /\ n \in Nat
                BY <1>0, <2>1
            <4> QED BY <2>5, <4>1
        <3>4. id # n => g[id] = f[id]
            OBVIOUS
        <3> QED BY <2>3, <3>2, <3>3, <3>4
    <2>6. g \in Upto(n)
        BY <2>4, <2>5
    <2> QED BY <2>1, <2>6
<1>2. PICK f \in Upto(Objects) : TRUE
    BY <1>1 DEF ReplayConstants
<1>3. f = [id \in Replay!Id |-> Body(f, id)]
    <2>1. \A id \in Replay!Id : f[id] = Body(f, id)
        BY DEF Replay!Id, ReplayConstants
    <2> QED BY <2>1
<1>4. \E g : g = [id \in Replay!Id |-> Body(g, id)]
    BY <1>3
<1>5. Replay!Root = CHOOSE g : g = [id \in Replay!Id |-> Body(g, id)]
    BY DEF Replay!Root
<1>6. Replay!Root = [id \in Replay!Id |-> Body(Replay!Root, id)]
    BY <1>4, <1>5
<1> QED BY <1>6

Seen(k) == Replay!SeenBefore(releases, k + 1)

LEMMA SeenIn ==
    ASSUME ReplayConstants, ReplayInv, NEW k \in DOMAIN releases
    PROVE  /\ Seen(k) \subseteq Replay!Id
           /\ releases[k] \in ReplayRelease
           /\ \A id : id \in Seen(k) <=>
                 \E i \in 1..k : i \in DOMAIN releases /\ id \in releases[i].objects
<1>1. releases \in Seq(ReplayRelease) /\ k \in Nat /\ \A i \in 1..k : i \in DOMAIN releases
    BY DEF ReplayInv, LedgerGood
<1>2. \A i \in DOMAIN releases : releases[i] \in ReplayRelease
    BY <1>1
<1>3. \A i \in DOMAIN releases : releases[i].objects \subseteq Replay!Id
    BY <1>2 DEF ReplayRelease
<1>4. (k + 1) - 1 = k
    BY <1>1
<1>5. Seen(k) = UNION {releases[i].objects : i \in 1..k}
    BY <1>4 DEF Seen, Replay!SeenBefore
<1> QED BY <1>1, <1>2, <1>3, <1>5

\* The versions of one event form a chain: each but the root has its parent
\* among them, and no two have the same.
LEMMA VersionsFormChain ==
    ASSUME ReplayConstants, ReplayInv, NEW k \in DOMAIN releases, NEW root
    PROVE  /\ \A id \in Replay!Versions(k, root) :
                 Replay!Parent(id) # 0 => Replay!Parent(id) \in Replay!Versions(k, root)
           /\ \A id \in Replay!Versions(k, root) : Replay!Parent(id) = 0 => id = root
           /\ \A a, b \in Seen(k) :
                 a # b /\ Replay!Parent(a) # 0 => Replay!Parent(a) # Replay!Parent(b)
<1> USE DEF ReplayInv
<1>0. \A id \in Replay!Id : /\ records[id] \in Replay!Record /\ id \in Nat /\ id # 0
                            /\ Replay!Parent(id) \in Replay!Id \cup {0} /\ Replay!Parent(id) < id
    BY DEF RecordsGood, Replay!Parent, Replay!Record, Replay!Id, ReplayConstants
<1>1. ASSUME NEW id \in Seen(k), Replay!Parent(id) # 0 PROVE Replay!Parent(id) \in Seen(k)
    <2>1. PICK i \in 1..k : i \in DOMAIN releases /\ id \in releases[i].objects
        BY <1>1, SeenIn
    <2>2. Replay!LifecycleValid(id) /\ Replay!RevisionValid(releases, i, id)
        BY <2>1 DEF LedgerGood, Replay!ReleaseHistoryValid
    <2>3. id \in Replay!Id
        BY <1>1, SeenIn
    <2>4. records[id].revision > 1
        BY <1>0, <1>1, <2>2, <2>3 DEF Replay!LifecycleValid, Replay!Record, Replay!Parent
    <2>5. Replay!Parent(id) \in Replay!SeenBefore(releases, i)
        BY <2>2, <2>4 DEF Replay!RevisionValid
    <2>6. PICK j \in 1..(i - 1) : Replay!Parent(id) \in releases[j].objects
        BY <2>5 DEF Replay!SeenBefore
    <2>7. j \in 1..k /\ j \in DOMAIN releases
        BY <2>1, <2>6 DEF LedgerGood
    <2> QED BY <2>6, <2>7, SeenIn
<1>2. ASSUME NEW a \in Seen(k), NEW b \in Seen(k), a # b, Replay!Parent(a) # 0,
             Replay!Parent(a) = Replay!Parent(b)
      PROVE  FALSE
    <2>1. PICK i \in 1..k : i \in DOMAIN releases /\ a \in releases[i].objects
        BY SeenIn
    <2>2. PICK j \in 1..k : j \in DOMAIN releases /\ b \in releases[j].objects
        BY SeenIn
    <2>3. Replay!NoFork(releases, i) /\ Replay!NoFork(releases, j)
        BY <2>1, <2>2 DEF LedgerGood, Replay!ReleaseHistoryValid
    <2>4. CASE j <= i
        <3>1. b \in Seen(i)
            BY <2>1, <2>2, <2>4, SeenIn
        <3> QED BY <1>2, <2>1, <2>3, <3>1 DEF Replay!NoFork, Seen
    <2>5. CASE i <= j
        <3>1. a \in Seen(j)
            BY <2>1, <2>2, <2>5, SeenIn
        <3> QED BY <1>2, <2>2, <2>3, <3>1 DEF Replay!NoFork, Seen
    <2> QED BY <2>4, <2>5
<1>3. ASSUME NEW id \in Replay!Versions(k, root)
      PROVE  /\ Replay!Parent(id) # 0 => Replay!Parent(id) \in Replay!Versions(k, root)
             /\ Replay!Parent(id) = 0 => id = root
    <2>1. id \in Seen(k) /\ id \in Replay!Id /\ Replay!Root[id] = root
        BY SeenIn DEF Replay!Versions, Seen
    <2>2. Replay!Root[id] = IF Replay!Parent(id) = 0 THEN id ELSE Replay!Root[Replay!Parent(id)]
        BY <2>1, RootOf
    <2> QED BY <1>1, <2>1, <2>2 DEF Replay!Versions, Seen
<1> QED BY <1>2, <1>3

\* In a lineage in order, whoever comes after x is separated from it by a child
\* of x that was corrected no later.
LEMMA ChildBetween ==
    ASSUME ReplayConstants, ReplayInv, NEW k \in DOMAIN releases, NEW root \in Replay!Id,
           Replay!InOrder(k, root),
           NEW x \in Replay!Versions(k, root), NEW y \in Replay!Versions(k, root), x < y
    PROVE  \E c \in Replay!Versions(k, root) :
              /\ Replay!Parent(c) = x /\ c \in Replay!Transitions(k)
              /\ releases[k].corrected[c] <= releases[k].corrected[y]
              /\ c <= y
<1> DEFINE V == Replay!Versions(k, root)
           Between(a, b) == \E c \in V : /\ Replay!Parent(c) = a /\ c \in Replay!Transitions(k)
                                         /\ releases[k].corrected[c] <= releases[k].corrected[b]
                                         /\ c <= b
           Failed == {b \in V : \E a \in V : a < b /\ ~Between(a, b)}
<1>0. /\ V \subseteq Seen(k) /\ V \subseteq Replay!Id
      /\ \A id \in V : /\ id \in Nat /\ id # 0
                       /\ Replay!Parent(id) \in Nat /\ Replay!Parent(id) < id
                       /\ releases[k].corrected[id] \in Nat
    <2>1. V \subseteq Seen(k) /\ V \subseteq Replay!Id
        BY SeenIn DEF Replay!Versions, Seen
    <2>2. releases[k].corrected \in [Replay!Id -> Replay!Valid \cup {0}]
        BY SeenIn DEF ReplayRelease
    <2>3. \A id \in Replay!Id : /\ id \in Nat /\ id # 0
                                /\ Replay!Parent(id) \in Nat /\ Replay!Parent(id) < id
        BY DEF ReplayInv, RecordsGood, Replay!Parent, Replay!Record, Replay!Id, ReplayConstants
    <2> QED BY <2>1, <2>2, <2>3 DEF Replay!Valid, ReplayConstants
<1>1. /\ \A id \in V : Replay!Parent(id) # 0 => Replay!Parent(id) \in V
      /\ \A id \in V : Replay!Parent(id) = 0 => id = root
      /\ \A a, b \in V : a # b /\ Replay!Parent(a) # 0 => Replay!Parent(a) # Replay!Parent(b)
    BY <1>0, VersionsFormChain
<1>2. \A id \in V : Replay!Parent(id) # 0 =>
          /\ id \in Replay!Transitions(k)
          /\ Replay!Parent(id) \in Replay!Transitions(k) =>
                releases[k].corrected[Replay!Parent(id)] <= releases[k].corrected[id]
    BY DEF Replay!InOrder, Replay!Versions, Seen
<1>3. root \in V /\ Replay!Parent(root) = 0 /\ \A id \in V : root <= id
    <2>1. PICK m \in V : \A id \in V : m <= id
        BY <1>0, LeastNatural
    <2>2. Replay!Parent(m) = 0
        BY <1>0, <1>1, <2>1
    <2> QED BY <1>1, <2>1, <2>2
<1>4. Failed = {}
    <2> SUFFICES ASSUME Failed # {} PROVE FALSE
        OBVIOUS
    <2>1. PICK b \in Failed : \A other \in Failed : b <= other
        BY <1>0, LeastNatural
    <2>2. PICK a \in V : a < b /\ ~Between(a, b)
        BY <2>1
    <2> DEFINE p == Replay!Parent(b)
    <2>3. b \in V /\ p \in V /\ p < b /\ p \in Nat /\ p # 0
        BY <1>0, <1>1, <1>3, <2>1, <2>2
    <2>4. b \in Replay!Transitions(k)
        BY <1>2, <2>3
    <2>5. CASE p = a
        BY <1>0, <2>2, <2>3, <2>4, <2>5
    <2>6. CASE a < p
        <3>1. Between(a, p)
            BY <1>0, <2>1, <2>3, <2>6
        <3>2. PICK c \in V : /\ Replay!Parent(c) = a /\ c \in Replay!Transitions(k)
                             /\ releases[k].corrected[c] <= releases[k].corrected[p] /\ c <= p
            BY <3>1
        <3>3. Replay!Parent(p) # 0
            BY <1>0, <1>1, <1>3, <2>2, <2>3, <2>6
        <3>4. releases[k].corrected[p] <= releases[k].corrected[b]
            BY <1>2, <2>3, <3>3
        <3> QED BY <1>0, <2>2, <2>3, <3>2, <3>4
    <2>7. CASE p < a
        <3>1. Between(p, a)
            BY <1>0, <2>1, <2>2, <2>3, <2>7
        <3>2. PICK c \in V : Replay!Parent(c) = p /\ c <= a
            BY <3>1
        <3>3. c = b
            BY <1>1, <2>3, <3>2
        <3> QED BY <1>0, <2>2, <2>3, <3>2, <3>3
    <2> QED BY <1>0, <2>2, <2>3, <2>5, <2>6, <2>7
<1>5. Between(x, y)
    BY <1>4
<1> QED BY <1>5

\* Exactly one version of a lineage in order is in force.
LEMMA OneInForce ==
    ASSUME ReplayConstants, ReplayInv, NEW k \in DOMAIN releases, NEW root \in Replay!Id,
           Replay!InOrder(k, root), NEW day \in 0..LastValid
    PROVE  \E x : Replay!InForce(k, root, day) = {x}
<1> DEFINE V == Replay!Versions(k, root)
           Starts(id) == releases[k].corrected[id]
           Begun == {id \in V : Replay!Parent(id) = 0 \/ Starts(id) <= day}
           Shown == Replay!InForce(k, root, day)
<1>0. /\ V \subseteq Seen(k) /\ V \subseteq Replay!Id
      /\ \A id \in V : /\ id \in Nat /\ id # 0
                       /\ Replay!Parent(id) \in Nat /\ Replay!Parent(id) < id
                       /\ Starts(id) \in Nat
    <2>1. V \subseteq Seen(k) /\ V \subseteq Replay!Id
        BY SeenIn DEF Replay!Versions, Seen
    <2>2. releases[k].corrected \in [Replay!Id -> Replay!Valid \cup {0}]
        BY SeenIn DEF ReplayRelease
    <2>3. \A id \in Replay!Id : /\ id \in Nat /\ id # 0
                                /\ Replay!Parent(id) \in Nat /\ Replay!Parent(id) < id
        BY DEF ReplayInv, RecordsGood, Replay!Parent, Replay!Record, Replay!Id, ReplayConstants
    <2> QED BY <2>1, <2>2, <2>3 DEF Replay!Valid, ReplayConstants
<1>1. /\ \A id \in V : Replay!Parent(id) # 0 =>
             Replay!Parent(id) \in V /\ id \in Replay!Transitions(k)
      /\ \A id \in V : Replay!Parent(id) = 0 => id = root
    BY VersionsFormChain DEF Replay!InOrder, Replay!Versions, Seen
<1>2. \A id \in Replay!Transitions(k) : /\ id \in Replay!Id /\ Replay!Parent(id) # 0
                                        /\ id \in Seen(k) /\ Replay!Parent(id) \in Seen(k)
    BY DEF ReplayInv, LedgerGood, Replay!CorrectionsValid, Replay!Transitions, Seen
<1>3. \A id \in Replay!Transitions(k) : Replay!Root[id] = Replay!Root[Replay!Parent(id)]
    BY <1>2, RootOf DEF ReplayInv
<1>4. releases[k].objects \subseteq Seen(k)
    <2>1. k \in 1..k
        BY DEF ReplayInv, LedgerGood
    <2> QED BY <2>1, SeenIn
<1>5. \A id : id \in Shown <=>
          /\ id \in V
          /\ \/ id \in releases[k].objects \/ id \in Replay!Transitions(k)
             \/ \E c \in Replay!Transitions(k) : Replay!Parent(c) = id
          /\ id \in Replay!Transitions(k) => Starts(id) <= day
          /\ \A c \in Replay!Transitions(k) : Replay!Parent(c) = id => ~(Starts(c) <= day)
    <2>1. \A id : id \in Replay!EventsOn(k, day) <=>
              /\ \/ id \in releases[k].objects \/ id \in Replay!Transitions(k)
                 \/ \E c \in Replay!Transitions(k) : Replay!Parent(c) = id
              /\ ~ \E c \in Replay!Transitions(k) :
                    id = IF day >= Starts(c) THEN Replay!Parent(c) ELSE c
        BY DEF Replay!EventsOn, Replay!Excluded
    <2>2. \A c \in Replay!Transitions(k) : Starts(c) \in Nat
        <3>1. releases[k].corrected \in [Replay!Id -> Replay!Valid \cup {0}]
            BY SeenIn DEF ReplayRelease
        <3> QED BY <1>2, <3>1 DEF Replay!Valid, ReplayConstants
    <2>3. \A id : id \in Replay!EventsOn(k, day) => id \in Seen(k)
        BY <1>2, <1>4, <2>1
    <2> QED BY <2>1, <2>2, <2>3 DEF Replay!Versions, Replay!InForce, Seen
<1>11. V \cap releases[k].objects # {}
    <2>1. Cardinality(V \cap releases[k].objects) = 1
        BY SameCardinality DEF Replay!InOrder
    <2>2. Cardinality({}) = 0
        BY FS_EmptySet
    <2> QED BY <2>1, <2>2
<1>6. PICK x \in Begun : \A id \in Begun : id <= x
    <2>1. root \in Begun
        <3>1. V # {}
            BY <1>11
        <3>2. PICK m \in V : \A id \in V : m <= id
            BY <1>0, <3>1, LeastNatural
        <3> QED BY <1>0, <1>1, <3>2
    <2> DEFINE Rest == {n \in Nat : \E id \in Begun : n = Objects - id}
    <2>2. \A id \in Begun : Objects - id \in Rest
        BY <1>0 DEF Replay!Id, ReplayConstants
    <2>3. PICK n \in Rest : \A other \in Rest : n <= other
        BY <2>1, <2>2, LeastNatural
    <2>4. PICK id \in Begun : n = Objects - id
        BY <2>3
    <2>5. \A other \in Begun : other <= id
        BY <1>0, <2>2, <2>3, <2>4 DEF ReplayConstants
    <2> QED BY <2>5
<1>7. \A id \in Replay!Transitions(k) : Replay!Parent(id) \in V => id \in V
    BY <1>2, <1>3 DEF Replay!Versions, Seen
<1>8. x \in Shown
    <2>1. \A c \in Replay!Transitions(k) : Replay!Parent(c) = x => ~(Starts(c) <= day)
        BY <1>0, <1>6, <1>7
    <2>2. x \in Replay!Transitions(k) => Starts(x) <= day
        BY <1>2, <1>6
    <2>3. \/ x \in releases[k].objects \/ x \in Replay!Transitions(k)
          \/ \E c \in Replay!Transitions(k) : Replay!Parent(c) = x
        <3>1. CASE Replay!Parent(x) # 0
            BY <1>1, <1>6, <3>1
        <3>2. CASE Replay!Parent(x) = 0
            <4>2. PICK y \in V : y \in releases[k].objects
                BY <1>11
            <4>3. CASE y = x
                BY <4>2, <4>3
            <4>4. CASE x < y
                BY <1>6, <4>2, <4>4, ChildBetween
            <4>5. CASE y < x
                <5>1. PICK c \in V : Replay!Parent(c) = y /\ c <= x
                    BY <1>6, <4>2, <4>5, ChildBetween
                <5>2. PICK m \in V : \A id \in V : m <= id
                    BY <1>0, <4>2, LeastNatural
                <5>3. x = m
                    BY <1>0, <1>1, <1>6, <3>2, <5>2
                <5> QED BY <1>0, <4>2, <4>5, <5>2, <5>3
            <4> QED BY <1>0, <1>6, <4>2, <4>3, <4>4, <4>5
        <3> QED BY <3>1, <3>2
    <2> QED BY <1>5, <1>6, <2>1, <2>2, <2>3
<1>9. ASSUME NEW y \in Shown, NEW z \in Shown, y < z PROVE FALSE
    <2>1. y \in V /\ z \in V
        BY <1>5
    <2>2. PICK c \in V : /\ Replay!Parent(c) = y /\ c \in Replay!Transitions(k)
                         /\ Starts(c) <= Starts(z) /\ c <= z
        BY <1>9, <2>1, ChildBetween
    <2>3. Replay!Parent(z) # 0
        <3>1. root <= y
            <4>1. PICK m \in V : \A id \in V : m <= id
                BY <1>0, <2>1, LeastNatural
            <4>2. m = root
                BY <1>0, <1>1, <4>1
            <4> QED BY <2>1, <4>1, <4>2
        <3>2. root \in Nat
            BY DEF Replay!Id
        <3> QED BY <1>0, <1>1, <1>9, <2>1, <3>1, <3>2
    <2>4. Starts(z) <= day
        BY <1>1, <1>5, <2>1, <2>3
    <2>5. Starts(c) <= day
        BY <1>0, <2>1, <2>2, <2>4
    <2> QED BY <1>5, <2>2, <2>5
<1>10. \A y \in Shown : y = x
    BY <1>0, <1>5, <1>8, <1>9
<1>12. Shown = {x}
    BY <1>8, <1>10
<1> QED BY <1>12

LEMMA ReplayOneInForce == ASSUME ReplayConstants, ReplayInv PROVE Replay!OneVersionInForce
<1> SUFFICES ASSUME NEW k \in DOMAIN releases, NEW root \in Replay!Id, Replay!InOrder(k, root),
                    NEW day \in 0..LastValid
             PROVE  Cardinality(Replay!InForce(k, root, day)) = 1
    BY SameCardinality DEF Replay!OneVersionInForce
<1>1. PICK x : Replay!InForce(k, root, day) = {x}
    BY OneInForce
<1> QED BY <1>1, FS_Singleton

-----------------------------------------------------------------------------
(* The overlay of signed operations.                                       *)

\* The steps of a replay: its recursive function exists.
LEMMA AppliedSteps ==
    ASSUME NEW ops, NEW active, NEW query, Cardinality(ops) \in Nat
    PROVE  \E after :
              /\ after[0] = [pending |-> ops, applied |-> {}, active |-> active, refused |-> FALSE]
              /\ \A n \in 1..Cardinality(ops) : after[n] = Lineage!Apply(ops, after[n - 1], query)
              /\ Lineage!Applied(ops, active, query) = after[Cardinality(ops)]
<1> DEFINE N == Cardinality(ops)
           Origin == [pending |-> ops, applied |-> {}, active |-> active, refused |-> FALSE]
           Body(f, n) == IF n = 0 THEN Origin ELSE Lineage!Apply(ops, f[n - 1], query)
           Failed == {n \in Nat : ~ \E f : \A m \in 0..n : f[m] = Body(f, m)}
<1>1. Failed = {}
    <2> SUFFICES ASSUME Failed # {} PROVE FALSE
        OBVIOUS
    <2>1. PICK n \in Failed : \A m \in Failed : n <= m
        BY LeastNatural
    <2>2. n # 0
        <3> DEFINE h == [m \in 0..0 |-> Origin]
        <3>1. \A m \in 0..0 : h[m] = Body(h, m)
            OBVIOUS
        <3> HIDE DEF h
        <3> QED BY <2>1, <3>1
    <2>3. PICK f : \A m \in 0..(n - 1) : f[m] = Body(f, m)
        <3>0. n \in Nat /\ \A m \in Failed : n <= m
            BY <2>1
        <3> HIDE DEF Failed
        <3>1. n - 1 \in Nat /\ n - 1 \notin Failed
            BY <2>2, <3>0
        <3> USE DEF Failed
        <3> QED BY <3>1
    <2> DEFINE g == [m \in 0..n |-> IF m = n THEN Body(f, n) ELSE f[m]]
    <2>4. ASSUME NEW m \in 0..n PROVE g[m] = Body(g, m)
        <3>1. m # 0 => g[m - 1] = f[m - 1]
            BY <2>1
        <3>2. Body(f, m) = Body(g, m)
            BY <3>1
        <3>3. CASE m = n
            BY <3>2, <3>3
        <3>4. CASE m # n
            <4>1. m \in 0..(n - 1)
                BY <2>1, <3>4
            <4> QED BY <2>3, <3>2, <3>4, <4>1
        <3> QED BY <3>3, <3>4
    <2> HIDE DEF g
    <2> QED BY <2>1, <2>4
<1>2. PICK f : \A m \in 0..N : f[m] = Body(f, m)
    BY <1>1
<1>3. [n \in 0..N |-> f[n]] = [n \in 0..N |-> Body([m \in 0..N |-> f[m]], n)]
    <2> DEFINE F == [n \in 0..N |-> f[n]]
    <2>1. ASSUME NEW n \in 0..N PROVE F[n] = Body(F, n)
        <3>1. F[n] = Body(f, n)
            BY <1>2
        <3>2. n # 0 => F[n - 1] = f[n - 1]
            OBVIOUS
        <3> QED BY <3>1, <3>2
    <2> QED BY <2>1
<1>4. \E g : g = [n \in 0..N |-> Body(g, n)]
    BY <1>3
<1> DEFINE after == CHOOSE g : g = [n \in 0..N |-> Body(g, n)]
<1>5. after = [n \in 0..N |-> Body(after, n)]
    BY <1>4
<1>6. Lineage!Applied(ops, active, query) = after[N]
    BY SameCardinality DEF Lineage!Applied
<1> HIDE DEF after
<1>7. after[0] = Origin /\ \A n \in 1..N : after[n] = Lineage!Apply(ops, after[n - 1], query)
    <2>1. ASSUME NEW n \in 0..N PROVE after[n] = Body(after, n)
        BY <1>5
    <2>2. after[0] = Body(after, 0)
        <3>1. 0 \in 0..N
            OBVIOUS
        <3> HIDE DEF Body
        <3> QED BY <2>1, <3>1
    <2>3. ASSUME NEW n \in 1..N PROVE after[n] = Lineage!Apply(ops, after[n - 1], query)
        BY <2>1
    <2> QED BY <2>2, <2>3
<1> QED BY <1>6, <1>7

LineageOp ==
    [predecessors : SUBSET Lineage!Record, successors : SUBSET Lineage!Record,
     id : 1..MaxOperations, known : Lineage!Cutoff, valid : Lineage!Day]

LineageRecordsGood ==
    /\ kind \in {"event", "claim"}
    /\ supersedes \in [Lineage!Record -> 0..Records]
    /\ start \in [Lineage!Record -> Lineage!Day] /\ end \in [Lineage!Record -> Lineage!Day]

\* What validation leaves of an archive.
OpsGood(ops) ==
    /\ IsFiniteSet(ops) /\ ops \subseteq LineageOp
    /\ \A a, b \in ops : a.id = b.id => a = b
    /\ \A op \in ops : Lineage!LinksValid(op)
    /\ Lineage!GraphValid(ops)

LineageInv ==
    /\ LineageRecordsGood
    /\ operations \in Seq(LineageOp)
    /\ OpsGood(Lineage!Ops(operations))

LEMMA LineageInit == ASSUME LineageConstants, Lineage!Init PROVE LineageInv
<1>1. operations \in Seq(LineageOp) /\ Lineage!Ops(operations) = {}
    BY DEF Lineage!Init, Lineage!Ops
<1>2. OpsGood({})
    <2>1. Lineage!Edges({}) = {}
        BY DEF Lineage!Edges
    <2>2. Lineage!Acyclic({})
        BY DEF Lineage!Acyclic
    <2>3. Lineage!GraphValid({})
        BY <2>1, <2>2 DEF Lineage!GraphValid, Lineage!ChainTimeValid
    <2> QED BY <2>3, FS_EmptySet DEF OpsGood
<1> QED BY <1>1, <1>2 DEF LineageInv, Lineage!Init, LineageRecordsGood

LEMMA LineageNext ==
    ASSUME LineageConstants, LineageInv, [Lineage!Next]_lineageVars
    PROVE  LineageInv'
<1>1. CASE UNCHANGED lineageVars
    <2> SUFFICES ASSUME UNCHANGED <<kind, supersedes, start, end, operations>> PROVE LineageInv'
        BY <1>1 DEF lineageVars
    <2>1. Lineage!Ops(operations)' = Lineage!Ops(operations)
        BY DEF Lineage!Ops
    <2>2. \A op : Lineage!LinksValid(op)' <=> Lineage!LinksValid(op)
        BY DEF Lineage!LinksValid, Lineage!TopologyValid, Lineage!IntrinsicLinksValid,
           Lineage!IntrinsicChildren
    <2> QED BY <2>1, <2>2 DEF LineageInv, LineageRecordsGood, OpsGood
<1>2. ASSUME NEW op \in LineageOp, Lineage!Publish(op) PROVE LineageInv'
    <2> DEFINE ops == Lineage!Ops(operations)
    <2>1. /\ \A o \in ops : o.id # op.id
          /\ Lineage!LinksValid(op)
          /\ Lineage!GraphValid(ops \cup {op})
          /\ operations' = Append(operations, op)
          /\ UNCHANGED <<kind, supersedes, start, end>>
        BY <1>2 DEF Lineage!Publish, Lineage!OperationValid
    <2>2. operations' \in Seq(LineageOp)
        BY <2>1 DEF LineageInv
    <2>3. Lineage!Ops(operations)' = ops \cup {op}
        <3>0. operations \in Seq(LineageOp)
            BY DEF LineageInv
        <3>1. /\ Len(operations') = Len(operations) + 1
              /\ operations'[Len(operations) + 1] = op
              /\ \A i \in 1..Len(operations) : operations'[i] = operations[i]
            BY <2>1, <3>0
        <3>2. /\ DOMAIN operations = 1..Len(operations)
              /\ DOMAIN operations' = 1..(Len(operations) + 1)
              /\ Len(operations) \in Nat
            BY <2>2, <3>0, <3>1
        <3> HIDE DEF LineageInv
        <3> QED BY <3>1, <3>2 DEF Lineage!Ops
    <2>4. \A o : Lineage!LinksValid(o)' <=> Lineage!LinksValid(o)
        BY <2>1 DEF Lineage!LinksValid, Lineage!TopologyValid, Lineage!IntrinsicLinksValid,
           Lineage!IntrinsicChildren
    <2>5. IsFiniteSet(ops \cup {op})
        BY FS_AddElement DEF LineageInv, OpsGood
    <2>6. /\ \A a, b \in ops \cup {op} : a.id = b.id => a = b
          /\ \A o \in ops \cup {op} : Lineage!LinksValid(o)
          /\ ops \cup {op} \subseteq LineageOp
        BY <2>1 DEF LineageInv, OpsGood
    <2>7. OpsGood(Lineage!Ops(operations))'
        BY <2>1, <2>3, <2>4, <2>5, <2>6 DEF OpsGood
    <2> QED BY <2>1, <2>2, <2>7 DEF LineageInv, LineageRecordsGood
<1>3. CASE Lineage!Next
    <2>1. PICK ends \in Lineage!Ends, id \in Lineage!NewIds, known \in Lineage!Cutoff,
               valid \in Lineage!Day :
               Lineage!Publish([predecessors |-> ends.predecessors, successors |-> ends.successors,
                                id |-> id, known |-> known, valid |-> valid])
        BY <1>3 DEF Lineage!Next
    <2>2. /\ ends.predecessors \in SUBSET Lineage!Record /\ ends.successors \in SUBSET Lineage!Record
          /\ id \in 1..MaxOperations
        BY DEF Lineage!Ends, Lineage!NewIds
    <2>3. [predecessors |-> ends.predecessors, successors |-> ends.successors,
           id |-> id, known |-> known, valid |-> valid] \in LineageOp
        BY <2>2 DEF LineageOp
    <2> QED BY <1>2, <2>1, <2>3
<1> QED BY <1>1, <1>3

\* Among the operations whose producers are done there is a first one.
LEMMA FirstReady ==
    ASSUME NEW ops, OpsGood(ops), NEW pending \in SUBSET ops, pending # {}
    PROVE  Lineage!Ready(pending) # {} /\ Lineage!First(pending) \in Lineage!Ready(pending)
<1>0. \A op \in ops : /\ op.known \in Nat /\ op.valid \in Nat /\ op.id \in Nat
                      /\ op.predecessors \subseteq Lineage!Record
                      /\ op.successors \subseteq Lineage!Record /\ op.successors # {}
    BY DEF OpsGood, LineageOp, Lineage!Cutoff, Lineage!Day, Lineage!LinksValid,
       Lineage!TopologyValid
<1>1. Lineage!Ready(pending) # {}
    <2> SUFFICES ASSUME \A op \in pending : \E p \in pending : Lineage!Consumes(op, p) PROVE FALSE
        BY DEF Lineage!Ready
    <2> DEFINE S == UNION {op.successors : op \in pending}
    <2>1. S \in (SUBSET Lineage!Record) \ {{}}
        BY <1>0
    <2>2. ASSUME NEW n \in S PROVE \E e \in Lineage!Edges(ops) : e[2] = n /\ e[1] \in S
        <3>1. PICK op \in pending : n \in op.successors
            OBVIOUS
        <3>2. PICK p \in pending : Lineage!Consumes(op, p)
            OBVIOUS
        <3>3. PICK m \in op.predecessors : m \in p.successors
            BY <3>2 DEF Lineage!Consumes
        <3>4. <<m, n>> \in op.predecessors \X op.successors
            BY <3>1
        <3>5. <<m, n>> \in Lineage!Edges(ops)
            BY <3>4 DEF Lineage!Edges
        <3>6. <<m, n>>[1] = m /\ <<m, n>>[2] = n /\ m \in S
            BY <3>3
        <3> QED BY <3>5, <3>6
    <2>3. Lineage!Acyclic(Lineage!Edges(ops))
        BY DEF OpsGood, Lineage!GraphValid
    <2> HIDE DEF S
    <2> QED BY <2>1, <2>2, <2>3 DEF Lineage!Acyclic
<1>2. \E op \in Lineage!Ready(pending) :
          \A other \in Lineage!Ready(pending) : other = op \/ Lineage!Before(op, other)
    <2> DEFINE R == Lineage!Ready(pending)
    <2>0. R \subseteq ops
        BY DEF Lineage!Ready
    <2> HIDE DEF R
    <2>1. PICK k \in {op.known : op \in R} : \A j \in {op.known : op \in R} : k <= j
        <3>1. {op.known : op \in R} \subseteq Nat /\ {op.known : op \in R} # {}
            BY <1>0, <1>1, <2>0 DEF R
        <3> QED BY <3>1, LeastNatural
    <2> DEFINE K == {op \in R : op.known = k}
    <2>2. PICK v \in {op.valid : op \in K} : \A j \in {op.valid : op \in K} : v <= j
        <3>1. {op.valid : op \in K} \subseteq Nat /\ {op.valid : op \in K} # {}
            BY <1>0, <2>0, <2>1
        <3> HIDE DEF K
        <3> QED BY <3>1, LeastNatural
    <2> DEFINE V == {op \in K : op.valid = v}
    <2>3. PICK i \in {op.id : op \in V} : \A j \in {op.id : op \in V} : i <= j
        <3>1. {op.id : op \in V} \subseteq Nat /\ {op.id : op \in V} # {}
            BY <1>0, <2>0, <2>2
        <3> HIDE DEF V
        <3> QED BY <3>1, LeastNatural
    <2>4. PICK op \in V : op.id = i
        BY <2>3
    <2>5. ASSUME NEW other \in R, other # op PROVE Lineage!Before(op, other)
        <3>1. op \in ops /\ other \in ops /\ op.known = k /\ op.valid = v
            BY <2>0, <2>4
        <3>2. op.id # other.id
            BY <2>5, <3>1 DEF OpsGood
        <3>3. k <= other.known
            BY <2>1
        <3>4. other.known = k => v <= other.valid
            BY <2>2
        <3>5. other.known = k /\ other.valid = v => i <= other.id
            BY <2>3
        <3> QED BY <1>0, <2>4, <3>1, <3>2, <3>3, <3>4, <3>5 DEF Lineage!Before
    <2> QED BY <2>4, <2>5 DEF R
<1> QED BY <1>1, <1>2 DEF Lineage!First

InScope(ops, query) == {op \in ops : Lineage!Applicable(op, query.cutoff, query.day)}

Touched(ops) == Lineage!Successors(ops) \cup Lineage!Predecessors(ops)

\* The records active once the operations of applied are.
ActiveAfter(base, ops, applied, day) ==
    {r \in base : r \notin Touched(ops)}
        \cup {r \in Touched(ops) :
                /\ Lineage!Effective(r, day)
                /\ \A p \in ops : r \in p.successors => p \in applied
                /\ \A c \in applied : r \notin c.predecessors}

\* What a replay has done after n of the operations.
ReplayState(base, ops, query, n, s) ==
    /\ s.pending \in SUBSET ops
    /\ Cardinality(s.pending) = Cardinality(ops) - n
    /\ s.applied = InScope(ops \ s.pending, query)
    /\ \A op \in ops \ s.pending, p \in ops : Lineage!Consumes(op, p) => p \notin s.pending
    /\ s.active = ActiveAfter(base, ops, s.applied, query.day)
    /\ s.refused = FALSE

\* What a producer and a consumer share, and what they do not.
LEMMA OpsDisjoint ==
    ASSUME NEW ops, OpsGood(ops), NEW a \in ops, NEW b \in ops
    PROVE  /\ \A r : r \in a.successors /\ r \in b.successors => a = b
           /\ \A r : r \in a.predecessors /\ r \in b.predecessors => a = b
           /\ \A r : r \in a.successors => r \notin a.predecessors
           /\ \A r : r \in a.successors /\ r \in b.predecessors => Lineage!Consumes(b, a)
           /\ Lineage!Consumes(b, a) => b.known >= a.known /\ b.valid >= a.valid
<1>1. a # b => Lineage!Disjoint(a, b)
    BY DEF OpsGood, Lineage!GraphValid
<1>2. a.predecessors \cap a.successors = {}
    BY DEF OpsGood, Lineage!LinksValid, Lineage!TopologyValid
<1>3. Lineage!Consumes(b, a) => b.known >= a.known /\ b.valid >= a.valid
    BY DEF OpsGood, Lineage!GraphValid, Lineage!ChainTimeValid
<1> QED BY <1>1, <1>2, <1>3 DEF Lineage!Disjoint, Lineage!Consumes

LEMMA ReplayStarts ==
    ASSUME LineageConstants, NEW ops, OpsGood(ops), NEW query, NEW s,
           NEW base, \A r \in base : Lineage!Effective(r, query.day),
           s = [pending |-> ops, applied |-> {}, active |-> Lineage!Overlaid(base, ops, query.day),
                refused |-> FALSE]
    PROVE  ReplayState(base, ops, query, 0, s)
<1>1. Cardinality(ops) \in Nat
    BY FS_CardinalityType DEF OpsGood
<1>2. Lineage!Overlaid(base, ops, query.day) = ActiveAfter(base, ops, {}, query.day)
    <2>1. \A r : r \in Lineage!Successors(ops) <=> \E p \in ops : r \in p.successors
        BY DEF Lineage!Successors
    <2> QED BY <2>1 DEF Lineage!Overlaid, ActiveAfter, Touched
<1> QED BY <1>1, <1>2 DEF ReplayState, InScope

LEMMA ReplaySteps ==
    ASSUME LineageConstants, NEW ops, OpsGood(ops),
           NEW query, query.cutoff \in Nat, query.day \in Nat, NEW base,
           NEW n \in 1..Cardinality(ops), NEW s, ReplayState(base, ops, query, n - 1, s)
    PROVE  ReplayState(base, ops, query, n, Lineage!Apply(ops, s, query))
<1> DEFINE op == Lineage!First(s.pending)
           t == Lineage!Apply(ops, s, query)
<1>0. \A o \in ops : o.known \in Nat /\ o.valid \in Nat
    BY DEF OpsGood, LineageOp, Lineage!Cutoff, Lineage!Day
<1>1. /\ IsFiniteSet(ops) /\ Cardinality(ops) \in Nat
      /\ IsFiniteSet(s.pending) /\ Cardinality(s.pending) = Cardinality(ops) - n + 1
    <2>1. IsFiniteSet(ops) /\ Cardinality(ops) \in Nat
        BY FS_CardinalityType DEF OpsGood
    <2> QED BY <2>1, FS_Subset DEF ReplayState
<1>2. s.pending # {}
    BY <1>1, FS_EmptySet
<1>3. /\ op \in s.pending /\ op \in ops /\ Lineage!Ready(s.pending) # {}
      /\ \A p \in s.pending : ~Lineage!Consumes(op, p)
    BY <1>2, FirstReady DEF ReplayState, Lineage!Ready
<1> HIDE DEF op
<1>4. /\ s.pending \ {op} \in SUBSET ops
      /\ Cardinality(s.pending \ {op}) = Cardinality(ops) - n
    <2>1. Cardinality(s.pending \ {op}) = Cardinality(s.pending) - 1
        BY <1>1, <1>3, FS_RemoveElement
    <2>2. Cardinality(s.pending) - 1 = Cardinality(ops) - n
        BY <1>1
    <2> QED BY <2>1, <2>2 DEF ReplayState
<1>5. \A o \in ops \ (s.pending \ {op}), p \in ops :
          Lineage!Consumes(o, p) => p \notin s.pending \ {op}
    BY <1>3 DEF ReplayState
<1>6. CASE ~Lineage!Applicable(op, query.cutoff, query.day)
    <2>1. t = [s EXCEPT !.pending = s.pending \ {op}]
        BY <1>3, <1>6 DEF Lineage!Apply, ReplayState, op
    <2>2. /\ t.pending = s.pending \ {op} /\ t.applied = s.applied
          /\ t.active = s.active /\ t.refused = FALSE
        BY <2>1 DEF ReplayState
    <2>3. InScope(ops \ (s.pending \ {op}), query) = InScope(ops \ s.pending, query)
        BY <1>6 DEF InScope
    <2> QED BY <1>4, <1>5, <2>2, <2>3 DEF ReplayState
<1>7. CASE Lineage!Applicable(op, query.cutoff, query.day)
    <2>1. ASSUME NEW p \in ops \ s.applied, Lineage!Consumes(op, p) PROVE FALSE
        <3>1. p \notin s.pending
            BY <1>3, <2>1
        <3>2. op.known >= p.known /\ op.valid >= p.valid
            BY <1>3, <2>1, OpsDisjoint
        <3>3. Lineage!Applicable(p, query.cutoff, query.day)
            BY <1>0, <1>3, <1>7, <3>2 DEF Lineage!Applicable
        <3> QED BY <2>1, <3>1, <3>3 DEF ReplayState, InScope
    <2>2. t = [pending |-> s.pending \ {op},
               applied |-> s.applied \cup {op},
               active  |-> (s.active \ op.predecessors)
                              \cup {x \in op.successors : Lineage!Effective(x, query.day)},
               refused |-> FALSE]
        BY <1>3, <1>7, <2>1 DEF Lineage!Apply, ReplayState, op
    <2>3. InScope(ops \ (s.pending \ {op}), query) = s.applied \cup {op}
        BY <1>3, <1>7 DEF ReplayState, InScope
    <2>4. ASSUME NEW r
          PROVE  r \in t.active <=> r \in ActiveAfter(base, ops, s.applied \cup {op}, query.day)
        <3>0. /\ r \in t.active <=>
                    \/ r \in ActiveAfter(base, ops, s.applied, query.day) /\ r \notin op.predecessors
                    \/ r \in op.successors /\ Lineage!Effective(r, query.day)
              /\ s.applied \subseteq ops
            BY <2>2 DEF ReplayState, InScope
        <3>1. r \in op.successors \/ r \in op.predecessors => r \in Touched(ops)
            BY <1>3 DEF Touched, Lineage!Successors, Lineage!Predecessors
        <3>2. CASE r \in op.successors
            <4>1. \A p \in ops : r \in p.successors => p = op
                BY <1>3, <3>2, OpsDisjoint
            <4>2. r \notin op.predecessors
                BY <1>3, <3>2, OpsDisjoint
            <4>3. ASSUME NEW c \in s.applied, r \in c.predecessors PROVE FALSE
                <5>1. c \in ops \ s.pending
                    BY DEF ReplayState, InScope
                <5>2. Lineage!Consumes(c, op)
                    BY <1>3, <3>2, <4>3, <5>1, OpsDisjoint
                <5> QED BY <1>3, <5>1, <5>2 DEF ReplayState
            <4>4. r \in ActiveAfter(base, ops, s.applied, query.day) => Lineage!Effective(r, query.day)
                BY <3>1, <3>2 DEF ActiveAfter
            <4> QED BY <3>0, <3>1, <3>2, <4>1, <4>2, <4>3, <4>4 DEF ActiveAfter
        <3>3. CASE r \in op.predecessors
            <4>1. r \notin op.successors
                BY <1>3, <3>3, OpsDisjoint
            <4> QED BY <3>0, <3>1, <3>3, <4>1 DEF ActiveAfter
        <3>4. CASE r \notin op.successors /\ r \notin op.predecessors
            BY <3>0, <3>4 DEF ActiveAfter
        <3> QED BY <3>2, <3>3, <3>4
    <2>5. t.active = ActiveAfter(base, ops, s.applied \cup {op}, query.day)
        <3>1. \A r : r \in t.active <=> r \in ActiveAfter(base, ops, s.applied \cup {op}, query.day)
            BY <2>4
        <3> HIDE DEF t
        <3>2. \E A : t.active = A
            OBVIOUS
        <3> QED BY <3>1
    <2>6. /\ t.pending = s.pending \ {op} /\ t.applied = s.applied \cup {op} /\ t.refused = FALSE
        BY <2>2
    <2> QED BY <1>4, <1>5, <2>3, <2>5, <2>6 DEF ReplayState
<1> QED BY <1>6, <1>7

\* What a replay answers: it refuses nothing, and the operations in scope are applied.
LEMMA ReplayAnswer ==
    ASSUME LineageConstants, NEW ops, OpsGood(ops),
           NEW query, query.cutoff \in Nat, query.day \in Nat,
           NEW base, \A r \in base : Lineage!Effective(r, query.day),
           NEW answered,
           answered = Lineage!Applied(ops, Lineage!Overlaid(base, ops, query.day), query)
    PROVE  /\ answered.refused = FALSE
           /\ answered.active = ActiveAfter(base, ops, InScope(ops, query), query.day)
<1> DEFINE N == Cardinality(ops)
<1>1. N \in Nat
    BY FS_CardinalityType DEF OpsGood
<1>2. PICK after :
          /\ after[0] = [pending |-> ops, applied |-> {},
                         active |-> Lineage!Overlaid(base, ops, query.day), refused |-> FALSE]
          /\ \A n \in 1..N : after[n] = Lineage!Apply(ops, after[n - 1], query)
          /\ answered = after[N]
    BY <1>1, AppliedSteps
<1> DEFINE Failed == {n \in 0..N : ~ReplayState(base, ops, query, n, after[n])}
<1>3. Failed = {}
    <2> SUFFICES ASSUME Failed # {} PROVE FALSE
        OBVIOUS
    <2>0. Failed \in SUBSET Nat
        BY <1>1
    <2>1. PICK n \in Failed : \A m \in Failed : n <= m
        <3> HIDE DEF Failed
        <3> QED BY <2>0, LeastNatural
    <2>2. n # 0
        BY <1>2, <2>1, ReplayStarts
    <2>3. n \in 1..N /\ n - 1 \in 0..N
        BY <1>1, <2>1, <2>2
    <2>4. ReplayState(base, ops, query, n - 1, after[n - 1])
        BY <2>1, <2>3
    <2>5. ReplayState(base, ops, query, n, after[n])
        BY <1>2, <2>3, <2>4, ReplaySteps
    <2> QED BY <2>1, <2>5
<1>4. ReplayState(base, ops, query, N, answered)
    <2>1. N \in 0..N
        BY <1>1
    <2>2. ReplayState(base, ops, query, N, after[N])
        BY <1>3, <2>1
    <2> QED BY <1>2, <2>2
<1>5. answered.pending = {}
    <2>1. IsFiniteSet(answered.pending)
        BY <1>4, FS_Subset DEF ReplayState, OpsGood
    <2>2. Cardinality(answered.pending) = 0
        BY <1>1, <1>4 DEF ReplayState
    <2> QED BY <2>1, <2>2, FS_EmptySet
<1>6. answered.applied = InScope(ops, query)
    BY <1>4, <1>5 DEF ReplayState, InScope
<1> QED BY <1>4, <1>6 DEF ReplayState

\* The records of a base are effective.
LEMMA BasesEffective ==
    ASSUME NEW day, NEW base \in Lineage!Bases(day)
    PROVE  base \subseteq Lineage!Record /\ \A r \in base : Lineage!Effective(r, day)
BY DEF Lineage!Bases, Lineage!ClaimsOn

\* At a cutoff no operation is later than, the whole archive answers.
LEMMA WholeArchive ==
    ASSUME LineageConstants, LineageInv, NEW cutoff \in Lineage!NewCutoff, NEW day \in Lineage!Day,
           NEW base \in Lineage!Bases(day)
    PROVE  /\ Lineage!Selected(cutoff) = Lineage!Ops(operations)
           /\ Lineage!Replay(base, cutoff, day).refused = FALSE
           /\ Lineage!Replay(base, cutoff, day).active =
                 ActiveAfter(base, Lineage!Ops(operations),
                             InScope(Lineage!Ops(operations),
                                     [cutoff |-> cutoff, day |-> day]), day)
<1> DEFINE ops == Lineage!Ops(operations)
           query == [cutoff |-> cutoff, day |-> day]
<1>1. cutoff \in Nat /\ day \in Nat /\ cutoff >= Len(operations)
    BY DEF Lineage!NewCutoff, Lineage!Cutoff, Lineage!Day
<1>2. Lineage!Selected(cutoff) = ops
    <2>1. operations \in Seq(LineageOp)
        BY DEF LineageInv
    <2>2. \A i \in DOMAIN operations : i <= cutoff
        BY <1>1, <2>1
    <2> QED BY <2>2 DEF Lineage!Selected, Lineage!Ops
<1>3. Lineage!Replay(base, cutoff, day)
          = Lineage!Applied(ops, Lineage!Overlaid(base, ops, query.day), query)
    BY <1>2 DEF Lineage!Replay
<1>4. OpsGood(ops)
    BY DEF LineageInv
<1>5. query.cutoff \in Nat /\ query.day \in Nat /\ query.day = day
    BY <1>1
<1>6. \A r \in base : Lineage!Effective(r, query.day)
    BY <1>5, BasesEffective
<1> HIDE DEF ops, query
<1>7. /\ Lineage!Replay(base, cutoff, day).refused = FALSE
      /\ Lineage!Replay(base, cutoff, day).active
            = ActiveAfter(base, ops, InScope(ops, query), query.day)
    BY <1>3, <1>4, <1>5, <1>6, ReplayAnswer
<1> QED BY <1>2, <1>5, <1>7 DEF ops, query

LEMMA LineageAnswers == ASSUME LineageConstants, LineageInv PROVE Lineage!ReplayAnswers
<1>1. \A day : Lineage!ClaimsOn(day) \in Lineage!Bases(day)
    BY DEF Lineage!Bases, Lineage!ClaimsOn
<1> QED BY <1>1, WholeArchive DEF Lineage!ReplayAnswers

\* A set of records closed under the edges that holds r holds all below it.
LEMMA BelowIsLeast ==
    ASSUME NEW r, NEW edges, NEW S \in SUBSET Lineage!Record, r \in S,
           \A e \in edges : e[1] \in S => e[2] \in S
    PROVE  Lineage!Below(r, edges) \subseteq S
BY DEF Lineage!Below

LEMMA LineageOneActive == ASSUME LineageConstants, LineageInv PROVE Lineage!OneVersionActive
<1> SUFFICES ASSUME NEW cutoff \in Lineage!NewCutoff, NEW day \in Lineage!Day,
                    Lineage!LinksCovered(Lineage!Selected(cutoff)),
                    NEW base \in Lineage!Bases(day),
                    Lineage!BaseInOrder(base, Lineage!Selected(cutoff), day),
                    NEW r \in Lineage!Replay(base, cutoff, day).active
             PROVE  Lineage!OneVersion(r, Lineage!Replay(base, cutoff, day).active,
                                       Lineage!Lineage(Lineage!Selected(cutoff)))
    BY DEF Lineage!OneVersionActive
<1> DEFINE ops == Lineage!Ops(operations)
           query == [cutoff |-> cutoff, day |-> day]
           active == Lineage!Replay(base, cutoff, day).active
           edges == Lineage!Lineage(ops)
           Out(op) == ~Lineage!Applicable(op, cutoff, day)
<1>1. Lineage!Selected(cutoff) = ops
    BY WholeArchive
<1>2. active = ActiveAfter(base, ops, InScope(ops, query), day)
    BY WholeArchive
<1>3. \A op \in ops : op \in InScope(ops, query) <=> ~Out(op)
    BY DEF InScope
<1>4. /\ OpsGood(ops) /\ LineageRecordsGood
      /\ \A op \in ops : /\ op.known \in Nat /\ op.valid \in Nat
                         /\ op.predecessors \subseteq Lineage!Record
                         /\ op.successors \subseteq Lineage!Record
    BY DEF LineageInv, OpsGood, LineageOp, Lineage!Cutoff, Lineage!Day
<1>5. cutoff \in Nat /\ day \in Nat
    BY DEF Lineage!NewCutoff, Lineage!Cutoff, Lineage!Day
<1>6. /\ \A x \in Lineage!Record : start[x] \in Nat /\ end[x] \in Nat /\ supersedes[x] \in 0..Records
      /\ \A x \in Lineage!Record : supersedes[x] # 0 => supersedes[x] \in Lineage!Record
    BY <1>4 DEF LineageRecordsGood, Lineage!Record, Lineage!Day, LineageConstants
<1>7. /\ Touched(ops) \subseteq Lineage!Record /\ base \subseteq Lineage!Record
      /\ \A x \in base : Lineage!Effective(x, day)
    BY <1>4, BasesEffective DEF Touched, Lineage!Successors, Lineage!Predecessors
<1>8. r \in active /\ r \in Lineage!Record /\ Lineage!Effective(r, day)
    BY <1>2, <1>7 DEF ActiveAfter
<1>9. \A x \in Lineage!Record :
          supersedes[x] # 0 /\ (x \in Touched(ops) \/ supersedes[x] \in Touched(ops))
             => <<supersedes[x], x>> \in Lineage!Edges(ops)
    BY <1>1 DEF Lineage!LinksCovered, Touched
<1>10. \A a, b : <<a, b>> \in Lineage!Edges(ops) <=>
           \E op \in ops : a \in op.predecessors /\ b \in op.successors
    BY DEF Lineage!Edges
<1>11. \A e \in edges : \E a, b : e = <<a, b>> /\
            \/ \E op \in ops : a \in op.predecessors /\ b \in op.successors
            \/ b \in Lineage!Record /\ a = supersedes[b] /\ a # 0
    BY DEF Lineage!Edges, Lineage!Lineage, Lineage!Revisions
<1> HIDE DEF ops, query, active, edges, Out
<1>12. CASE r \in Touched(ops)
    <2> DEFINE S == {r} \cup UNION {op.successors : op \in {op \in ops : Out(op)}}
    <2>1. S \in SUBSET Lineage!Record
        BY <1>4, <1>8
    <2>2. ASSUME NEW op \in ops, NEW a \in op.predecessors, NEW b \in op.successors, a \in S
          PROVE  b \in S
        <3>1. CASE a = r
            <4>1. op \notin InScope(ops, query)
                BY <1>2, <1>8, <1>12, <3>1 DEF ActiveAfter
            <4> QED BY <1>3, <4>1
        <3>2. CASE \E q \in ops : Out(q) /\ a \in q.successors
            <4>1. PICK q \in ops : Out(q) /\ a \in q.successors
                BY <3>2
            <4>2. op.known >= q.known /\ op.valid >= q.valid
                BY <1>4, <4>1, OpsDisjoint
            <4>3. Out(op)
                BY <1>4, <1>5, <4>1, <4>2 DEF Out, Lineage!Applicable
            <4> QED BY <4>3
        <3> QED BY <2>2, <3>1, <3>2
    <2>3. S \subseteq Touched(ops)
        BY <1>12 DEF Touched, Lineage!Successors
    <2>4. ASSUME NEW e \in edges, e[1] \in S PROVE e[2] \in S
        <3> HIDE DEF S
        <3>1. PICK a, b : e = <<a, b>> /\
                  \/ \E op \in ops : a \in op.predecessors /\ b \in op.successors
                  \/ b \in Lineage!Record /\ a = supersedes[b] /\ a # 0
            BY <1>11
        <3>2. e[1] = a /\ e[2] = b
            BY <3>1
        <3>3. \E op \in ops : a \in op.predecessors /\ b \in op.successors
            BY <1>9, <1>10, <2>3, <2>4, <3>1, <3>2
        <3> QED BY <2>2, <2>4, <3>2, <3>3
    <2>5. ASSUME NEW x \in S, x \in active PROVE x = r
        <3> SUFFICES ASSUME NEW op \in ops, Out(op), x \in op.successors PROVE FALSE
            OBVIOUS
        <3>1. x \in Touched(ops)
            BY <2>3
        <3>2. op \in InScope(ops, query)
            BY <1>2, <2>5, <3>1 DEF ActiveAfter
        <3> QED BY <1>3, <3>2
    <2>6. r \in S
        OBVIOUS
    <2> HIDE DEF S
    <2>7. Lineage!Below(r, edges) \subseteq S
        BY <2>1, <2>4, <2>6, BelowIsLeast
    <2> QED BY <1>1, <2>5, <2>7 DEF active, edges, Lineage!OneVersion
\* From a record no operation touches, an edge is a revision of another such.
<1>13. ASSUME NEW e \in edges, e[1] \notin Touched(ops)
       PROVE  /\ e[2] \in Lineage!Unlinked(ops) /\ e[2] \in Lineage!Record
              /\ e[1] = supersedes[e[2]] /\ e[1] # 0 /\ e = <<e[1], e[2]>>
    <2>1. PICK a, b : e = <<a, b>> /\
              \/ \E op \in ops : a \in op.predecessors /\ b \in op.successors
              \/ b \in Lineage!Record /\ a = supersedes[b] /\ a # 0
        BY <1>11
    <2>2. e[1] = a /\ e[2] = b
        BY <2>1
    <2>3. \A op \in ops : /\ op.predecessors \subseteq Touched(ops)
                          /\ op.successors \subseteq Touched(ops)
        BY DEF Touched, Lineage!Successors, Lineage!Predecessors
    <2>4. b \in Lineage!Record /\ a = supersedes[b] /\ a # 0
        BY <1>13, <2>1, <2>2, <2>3
    <2>5. b \notin Touched(ops)
        BY <1>9, <1>10, <1>13, <2>2, <2>3, <2>4
    <2> QED BY <2>1, <2>2, <2>4, <2>5 DEF Lineage!Unlinked, Touched
<1>14. CASE r \notin Touched(ops)
    <2>1. r \in base /\ \A x \in active : x \in Touched(ops) \/ x \in base
        BY <1>2, <1>8, <1>14 DEF ActiveAfter
    <2>2. Lineage!BaseInOrder(base, ops, day)
        BY <1>1
    \* It is enough to find the untouched records below r, none of them in the base.
    <2>3. SUFFICES ASSUME NEW S \in SUBSET Lineage!Record, r \in S, S \cap Touched(ops) = {},
                          \A e \in edges : e[1] \in S => e[2] \in S,
                          S \cap base \subseteq {r}
                   PROVE  Lineage!OneVersion(r, active, edges)
        <3> SUFFICES \E S \in SUBSET Lineage!Record :
                        /\ r \in S /\ S \cap Touched(ops) = {} /\ S \cap base \subseteq {r}
                        /\ \A e \in edges : e[1] \in S => e[2] \in S
            BY <1>1 DEF active, edges
        <3>1. CASE kind = "claim"
            <4> DEFINE S == {r} \cup {x \in Lineage!Record : x \notin Touched(ops) /\ start[x] > day}
            <4>1. ASSUME NEW e \in edges, e[1] \in S PROVE e[2] \in S
                <5>1. /\ e[2] \in Lineage!Unlinked(ops) /\ e[2] \in Lineage!Record
                      /\ e[1] = supersedes[e[2]] /\ supersedes[e[2]] # 0
                      /\ e[2] \notin Touched(ops)
                    BY <1>13, <1>14, <4>1 DEF Lineage!Unlinked, Touched
                <5>2. start[e[1]] <= start[e[2]] /\ (end[e[2]] < day => end[e[1]] < day)
                    BY <2>2, <3>1, <5>1 DEF Lineage!BaseInOrder
                <5>3. /\ e[1] \in Lineage!Record
                      /\ start[e[1]] \in Nat /\ start[e[2]] \in Nat
                      /\ end[e[1]] \in Nat /\ end[e[2]] \in Nat
                    BY <1>6, <5>1
                <5>4. CASE e[1] = r
                    <6>1. base = Lineage!ClaimsOn(day)
                        BY <3>1 DEF Lineage!Bases
                    <6>2. ~Lineage!Effective(e[2], day)
                        BY <2>1, <5>1, <5>4, <6>1 DEF Lineage!ClaimsOn, Lineage!IntrinsicChildren
                    <6>3. day <= end[r]
                        BY <1>8 DEF Lineage!Effective
                    <6>4. start[e[2]] > day
                        BY <1>5, <5>2, <5>3, <5>4, <6>2, <6>3 DEF Lineage!Effective
                    <6> QED BY <5>1, <6>4
                <5>5. CASE e[1] # r
                    <6>1. start[e[1]] > day
                        BY <4>1, <5>5
                    <6> QED BY <1>5, <5>1, <5>2, <5>3, <6>1
                <5> QED BY <5>4, <5>5
            <4>2. ASSUME NEW x \in S, x \in base PROVE x = r
                <5>1. start[x] <= day /\ start[x] \in Nat
                    BY <1>6, <1>7, <4>2 DEF Lineage!Effective
                <5> QED BY <1>5, <4>2, <5>1
            <4>3. S \in SUBSET Lineage!Record /\ r \in S /\ S \cap Touched(ops) = {}
                BY <1>8, <1>14
            <4> HIDE DEF S
            <4>4. S \cap base \subseteq {r}
                BY <4>2
            <4> QED BY <4>1, <4>3, <4>4
        <3>2. CASE kind # "claim"
            <4> DEFINE S == {x \in Lineage!Below(r, Lineage!Revisions) : x \notin Touched(ops)}
            <4>1. ASSUME NEW e \in edges, e[1] \in S PROVE e[2] \in S
                <5>1. /\ e[2] \in Lineage!Record /\ e[2] \notin Touched(ops)
                      /\ e[1] = supersedes[e[2]] /\ e[1] # 0 /\ e = <<e[1], e[2]>>
                    BY <1>13, <4>1 DEF Lineage!Unlinked, Touched
                <5>2. e \in Lineage!Revisions
                    BY <5>1 DEF Lineage!Revisions
                <5>3. e[2] \in Lineage!Below(r, Lineage!Revisions)
                    BY <4>1, <5>1, <5>2 DEF Lineage!Below
                <5> QED BY <5>1, <5>3
            <4>2. r \in Lineage!Unlinked(ops)
                BY <1>8, <1>14 DEF Lineage!Unlinked, Touched
            <4>3. base \cap Lineage!Below(r, Lineage!Revisions) \subseteq {r}
                BY <2>1, <2>2, <3>2, <4>2 DEF Lineage!BaseInOrder, Lineage!OneVersion
            <4>4. S \in SUBSET Lineage!Record /\ r \in S /\ S \cap Touched(ops) = {}
                  /\ S \cap base \subseteq {r}
                BY <1>8, <1>14, <4>3 DEF Lineage!Below
            <4> HIDE DEF S
            <4> QED BY <4>1, <4>4
        <3> QED BY <3>1, <3>2
    <2>4. Lineage!Below(r, edges) \subseteq S
        BY <2>3, BelowIsLeast
    <2> QED BY <2>1, <2>3, <2>4 DEF Lineage!OneVersion
<1> QED BY <1>12, <1>14 DEF active, edges, ops
=============================================================================
