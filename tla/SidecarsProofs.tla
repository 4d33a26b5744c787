--------------------------- MODULE SidecarsProofs ---------------------------
(***************************************************************************)
(* The properties of Sidecars, for every value of its constants.  Each     *)
(* part has an inductive invariant; a behaviour of Sidecars is, for the    *)
(* variables of any one part, a behaviour of that part, which carries the  *)
(* invariants over.  The two histories of versions are in RevisionProofs.  *)
(***************************************************************************)
EXTENDS RevisionProofs, EventLedgerProofs, FunctionTheorems, SequenceTheorems

-----------------------------------------------------------------------------
(* Forecasts.                                                              *)

Question == [generated : Nat, asOf : Nat, outcome : {"none", "open", "void", "yes", "no"}]

\* Every question of a table is open, or has the grade of its whole window.
TableGood(qs) ==
    /\ qs \in [Forecast!Window -> Question]
    /\ \A w \in Forecast!Window :
          \/ qs[w] = Forecast!NoQuestion
          \/ qs[w].outcome = "open"
          \/ qs[w].outcome = Forecast!Outcome(w, w + Horizon - 1)

\* What is registered in one table stands in a later one.
Stands(earlier, later) ==
    \A w \in Forecast!Registered(earlier) :
        /\ later[w].generated = earlier[w].generated
        /\ later[w].asOf = earlier[w].asOf
        /\ earlier[w].outcome # "open" => later[w] = earlier[w]

\* A run: the table it checked out, and what it made of it.
Table == {qs \in [Forecast!Window -> Question] : TableGood(qs)}

LaneRun == [step : {"none", "queued", "ran"}, base : Table, work : Table]

ForecastInv ==
    /\ today \in Nat
    /\ TableGood(registry)
    /\ waiting \in LaneRun /\ waiting.step # "ran"
    /\ run \in LaneRun
    /\ run.step = "ran" => Stands(run.base, run.work)

LEMMA TablesAreGood == \A qs : qs \in Table <=> TableGood(qs)
BY DEF Table, TableGood

LEMMA EmptyTable ==
    /\ TableGood(Forecast!Empty)
    /\ Forecast!NoRun \in LaneRun /\ Forecast!NoRun.step = "none"
<1>1. TableGood(Forecast!Empty)
    BY DEF TableGood, Forecast!Empty, Forecast!NoQuestion, Question
<1> QED BY <1>1, TablesAreGood DEF LaneRun, Forecast!NoRun

LEMMA ForecastInit == ASSUME ForecastConstants, Forecast!Init PROVE ForecastInv
BY EmptyTable DEF ForecastConstants, Forecast!Init, ForecastInv

\* The grade of a window that has closed does not depend on the day of grading.
LEMMA ClosedWindow ==
    ASSUME ForecastConstants, NEW w \in Forecast!Window, NEW last \in Int, Forecast!Matured(w, last)
    PROVE  Forecast!Outcome(w, last) = Forecast!Outcome(w, w + Horizon - 1)
<1>1. w \in Int /\ Forecast!Span(w) = w..(w + Horizon - 1)
    BY DEF Forecast!Window, Forecast!Day, Forecast!Span
<1>2. {d \in Forecast!Span(w) : d <= last} = {d \in Forecast!Span(w) : d <= w + Horizon - 1}
    BY <1>1 DEF ForecastConstants, Forecast!Matured
<1> QED BY <1>2 DEF Forecast!Outcome

LEMMA RunsTable ==
    ASSUME ForecastConstants, NEW qs, TableGood(qs), NEW day \in Nat, NEW last \in Nat,
           NEW graded, graded = Forecast!Grade(Forecast!Generate(qs, day, last), last)
    PROVE  TableGood(graded) /\ Stands(qs, graded)
<1> DEFINE asked == Forecast!Generate(qs, day, last)
<1>1. TableGood(asked) /\ \A w \in Forecast!Registered(qs) : asked[w] = qs[w]
    <2> DEFINE n == Forecast!NextWindow(day)
    <2>1. CASE asked = qs
        BY <2>1
    <2>2. CASE asked # qs
        <3>1. /\ n \in Forecast!Window /\ n \notin Forecast!Registered(qs)
              /\ asked = [qs EXCEPT ![n] = Forecast!Open(day, last)]
            BY <2>2 DEF Forecast!Generate
        <3>2. Forecast!Open(day, last) \in Question /\ Forecast!Open(day, last).outcome = "open"
            BY DEF Forecast!Open, Question
        <3> QED BY <3>1, <3>2 DEF TableGood, Forecast!Registered
    <2> QED BY <2>1, <2>2
<1> HIDE DEF asked
<1>2. ASSUME NEW w \in Forecast!Window
      PROVE  /\ graded[w] \in Question
             /\ \/ graded[w] = asked[w]
                \/ /\ asked[w].outcome = "open" /\ graded[w].generated = asked[w].generated
                   /\ graded[w].asOf = asked[w].asOf
                   /\ graded[w].outcome = Forecast!Outcome(w, w + Horizon - 1)
    <2>1. asked[w] \in Question
        BY <1>1 DEF TableGood
    <2>2. CASE asked[w].outcome = "open" /\ Forecast!Matured(w, last)
        <3>1. graded[w] = [asked[w] EXCEPT !.outcome = Forecast!Outcome(w, last)]
            BY <2>2 DEF Forecast!Grade, asked
        <3>2. Forecast!Outcome(w, last) = Forecast!Outcome(w, w + Horizon - 1)
            BY <2>2, ClosedWindow
        <3>3. Forecast!Outcome(w, last) \in {"void", "yes", "no"}
            BY DEF Forecast!Outcome
        <3> QED BY <2>1, <2>2, <3>1, <3>2, <3>3 DEF Question
    <2>3. CASE ~(asked[w].outcome = "open" /\ Forecast!Matured(w, last))
        BY <2>1, <2>3 DEF Forecast!Grade, asked
    <2> QED BY <2>2, <2>3
<1>3. TableGood(graded)
    <2>1. graded = [w \in Forecast!Window |-> graded[w]]
        BY DEF Forecast!Grade
    <2>2. graded \in [Forecast!Window -> Question]
        BY <1>2, <2>1
    <2> QED BY <1>1, <1>2, <2>2 DEF TableGood
<1>4. Stands(qs, graded)
    BY <1>1, <1>2 DEF Stands, Forecast!Registered
<1> QED BY <1>3, <1>4

\* A registry the rebase of a run makes: the run's entries are main's, or were.
LEMMA PushStands ==
    ASSUME ForecastConstants, ForecastInv, Forecast!Pushes
    PROVE  TableGood(registry') /\ Stands(registry, registry')
<1>1. /\ run.step = "ran" /\ ~Forecast!Conflict
      /\ registry' = [w \in Forecast!Window |-> Forecast!Rebased(w)]
    BY DEF Forecast!Pushes
<1>2. TableGood(run.base) /\ TableGood(run.work) /\ Stands(run.base, run.work)
    BY <1>1, TablesAreGood DEF ForecastInv, LaneRun
<1>3. \A w \in Forecast!Window :
          registry'[w] = IF run.work[w] = run.base[w] THEN registry[w] ELSE run.work[w]
    BY <1>1 DEF Forecast!Rebased
<1>4. TableGood(registry')
    BY <1>1, <1>2, <1>3 DEF TableGood, ForecastInv
<1>5. ASSUME NEW w \in Forecast!Registered(registry)
      PROVE  \/ registry'[w] = registry[w]
             \/ /\ w \in Forecast!Registered(run.base) /\ run.base[w] = registry[w]
                /\ registry'[w] = run.work[w]
    <2>1. w \in Forecast!Window /\ registry[w] # Forecast!NoQuestion
        BY DEF Forecast!Registered
    <2>2. w \in Forecast!Touched(registry) \cap Forecast!Touched(run.work)
              => registry[w] = run.work[w]
        BY <1>1 DEF Forecast!Conflict
    <2> QED BY <1>3, <2>1, <2>2 DEF Forecast!Touched, Forecast!Registered
<1>6. Stands(registry, registry')
    BY <1>2, <1>5 DEF Stands
<1> QED BY <1>4, <1>6

LEMMA ForecastNext ==
    ASSUME ForecastConstants, ForecastInv, [Forecast!Next]_forecastVars
    PROVE  ForecastInv' /\ Forecast!ForecastsKept
<1>0. missing' = missing /\ spike' = spike
    BY DEF Forecast!Next, Forecast!Trigger, Forecast!Starts, Forecast!Pushes, Forecast!Lost,
       Forecast!Midnight, Forecast!Runs, forecastVars
<1>1. /\ \A qs : TableGood(qs)' <=> TableGood(qs)
      /\ LaneRun' = LaneRun
    BY <1>0 DEF TableGood, Table, LaneRun, Forecast!Outcome
<1>2. /\ registry' = registry => Forecast!ForecastsKept
      /\ Stands(registry, registry') => Forecast!ForecastsKept
    BY DEF Forecast!ForecastsKept, Stands
<1>3. CASE UNCHANGED forecastVars
    BY <1>1, <1>2, <1>3 DEF forecastVars, ForecastInv, Stands, Forecast!Registered
<1>4. CASE Forecast!Trigger
    <2>1. waiting' \in LaneRun /\ waiting'.step = "queued"
        BY <1>4, EmptyTable, TablesAreGood
           DEF Forecast!Trigger, Forecast!NoRun, ForecastInv, LaneRun
    <2> QED BY <1>1, <1>2, <1>4, <2>1 DEF Forecast!Trigger, ForecastInv, Stands,
       Forecast!Registered
<1>5. CASE Forecast!Starts
    BY <1>1, <1>2, <1>5, EmptyTable DEF Forecast!Starts, ForecastInv, Stands,
       Forecast!Registered
<1>6. ASSUME NEW last \in {today - 2, today - 1}, last >= 1, Forecast!Runs(last)
      PROVE  ForecastInv' /\ Forecast!ForecastsKept
    <2>1. last \in Nat /\ today \in Nat
        BY <1>6 DEF ForecastInv
    <2> DEFINE work == Forecast!Grade(Forecast!Generate(run.base, today, last), last)
    <2>2. TableGood(run.base) /\ run \in LaneRun
        BY TablesAreGood DEF ForecastInv, LaneRun
    <2>3. TableGood(work) /\ Stands(run.base, work)
        BY <2>1, <2>2, RunsTable
    <2> HIDE DEF work
    <2>4. run' = [run EXCEPT !.step = "ran", !.work = work]
        BY <1>6 DEF Forecast!Runs, work
    <2>5. run' \in LaneRun /\ run'.base = run.base /\ run'.work = work
        BY <2>2, <2>3, <2>4, TablesAreGood DEF LaneRun
    <2>6. UNCHANGED <<today, registry, waiting>>
        BY <1>6 DEF Forecast!Runs
    <2>7. Stands(run.base, run.work)'
        BY <2>3, <2>5 DEF Stands, Forecast!Registered
    <2> QED BY <1>1, <1>2, <2>1, <2>5, <2>6, <2>7 DEF ForecastInv
<1>7. CASE Forecast!Pushes
    <2>1. TableGood(registry') /\ Stands(registry, registry')
        BY <1>7, PushStands
    <2>2. TableGood(registry)'
        BY <1>1, <2>1
    <2>3. run' = Forecast!NoRun /\ UNCHANGED <<today, waiting>>
        BY <1>7 DEF Forecast!Pushes
    <2> QED BY <1>1, <1>2, <2>1, <2>2, <2>3, EmptyTable DEF ForecastInv
<1>8. CASE Forecast!Lost
    BY <1>1, <1>2, <1>8, EmptyTable DEF Forecast!Lost, ForecastInv
<1>9. CASE Forecast!Midnight
    BY <1>1, <1>2, <1>9 DEF Forecast!Midnight, ForecastInv, Stands, Forecast!Registered
<1> QED BY <1>3, <1>4, <1>5, <1>6, <1>7, <1>8, <1>9 DEF Forecast!Next

LEMMA ForecastGrades == ASSUME ForecastConstants, ForecastInv PROVE Forecast!GradesCoverTheWindow
BY DEF ForecastInv, TableGood, Forecast!GradesCoverTheWindow, Forecast!Registered

-----------------------------------------------------------------------------
(* Paths of exposure.                                                      *)

LEMMA PathsCardinality == \A S : Paths!Cardinality(S) = Cardinality(S)
BY DEF Paths!Cardinality, Cardinality

Increasing(s) == \A i, j \in DOMAIN s : i < j => s[i] < s[j]

\* Every finite set of numbers can be listed in order.
LEMMA SortedExists ==
    ASSUME NEW S \in SUBSET Nat, IsFiniteSet(S)
    PROVE  \E s \in [1..Cardinality(S) -> S] : Increasing(s)
<1> DEFINE Sorted(T) == \E s \in [1..Cardinality(T) -> T] : Increasing(s)
           Failed == {n \in Nat : \E T \in SUBSET Nat :
                                     IsFiniteSet(T) /\ Cardinality(T) = n /\ ~Sorted(T)}
<1>1. Failed = {}
    <2> SUFFICES ASSUME Failed # {} PROVE FALSE
        OBVIOUS
    <2>1. PICK n \in Failed : \A m \in Failed : n <= m
        BY LeastNatural
    <2>2. PICK T \in SUBSET Nat : IsFiniteSet(T) /\ Cardinality(T) = n /\ ~Sorted(T)
        BY <2>1
    <2>3. n \in Nat
        BY <2>1
    <2>4. T # {}
        <3> SUFFICES ASSUME T = {} PROVE FALSE
            OBVIOUS
        <3>1. Cardinality(T) = 0
            BY FS_EmptySet
        <3>2. <<>> \in [1..0 -> T] /\ Increasing(<<>>)
            BY DEF Increasing
        <3> QED BY <2>2, <3>1, <3>2
    <2>5. PICK least \in T : \A x \in T : least <= x
        BY <2>4, LeastNatural
    <2> DEFINE U == T \ {least}
    <2>6. IsFiniteSet(U) /\ Cardinality(U) = n - 1
        BY <2>2, <2>5, FS_RemoveElement
    <2>7. n - 1 \in Nat
        <3>1. Cardinality(U) \in Nat
            BY <2>6, FS_CardinalityType
        <3> QED BY <2>6, <3>1
    <2>8. Sorted(U)
        <3>1. n - 1 \notin Failed
            <4> HIDE DEF Failed
            <4> QED BY <2>1, <2>3
        <3> HIDE DEF Sorted
        <3> QED BY <2>2, <2>6, <2>7, <3>1
    <2>9. PICK s \in [1..(n - 1) -> U] : Increasing(s)
        BY <2>6, <2>8
    <2> DEFINE t == [i \in 1..n |-> IF i = 1 THEN least ELSE s[i - 1]]
    <2>10. t \in [1..n -> T]
        BY <2>3, <2>9
    <2>11. ASSUME NEW i \in 1..n, NEW j \in 1..n, i < j PROVE t[i] < t[j]
        <3>1. j - 1 \in 1..(n - 1) /\ t[j] = s[j - 1] /\ s[j - 1] \in U
            BY <2>3, <2>9, <2>11
        <3>2. CASE i = 1
            <4>1. t[i] = least /\ least \in Nat /\ s[j - 1] \in T /\ s[j - 1] # least
                BY <2>5, <3>1, <3>2
            <4>2. least <= s[j - 1] /\ s[j - 1] \in Nat
                BY <2>2, <2>5, <4>1
            <4> HIDE DEF t, U
            <4> QED BY <3>1, <4>1, <4>2
        <3>3. CASE i # 1
            <4>1. i - 1 \in 1..(n - 1) /\ t[i] = s[i - 1] /\ i - 1 < j - 1
                BY <2>3, <2>11, <3>3
            <4> QED BY <2>9, <3>1, <4>1 DEF Increasing
        <3> QED BY <3>2, <3>3
    <2>12. Increasing(t)
        BY <2>11 DEF Increasing
    <2> HIDE DEF t
    <2> QED BY <2>2, <2>10, <2>12
<1>2. Cardinality(S) \in Nat
    BY FS_CardinalityType
<1> QED BY <1>1, <1>2

\* Ordered lists each element of a finite set of numbers once.
LEMMA OrderedLists ==
    ASSUME NEW S \in SUBSET Nat, IsFiniteSet(S)
    PROVE  /\ Cardinality(S) \in Nat
           /\ \A i \in 1..Cardinality(S) : Paths!Ordered(S)[i] \in S
           /\ \A x \in S : \E i \in 1..Cardinality(S) : Paths!Ordered(S)[i] = x
           /\ \A i, j \in 1..Cardinality(S) : i # j => Paths!Ordered(S)[i] # Paths!Ordered(S)[j]
<1> DEFINE s == Paths!Ordered(S)
           n == Cardinality(S)
<1>0. n \in Nat
    BY FS_CardinalityType
<1>1. s \in [1..n -> S] /\ Increasing(s)
    <2>1. s = CHOOSE t \in [1..n -> S] : Increasing(t)
        BY PathsCardinality DEF Paths!Ordered, Increasing
    <2>2. \E t \in [1..n -> S] : Increasing(t)
        BY SortedExists
    <2> HIDE DEF s, n
    <2> QED BY <2>1, <2>2
<1> HIDE DEF s, n
<1>2. \A i, j \in 1..n : i # j => s[i] # s[j]
    <2> SUFFICES ASSUME NEW i \in 1..n, NEW j \in 1..n, i # j PROVE s[i] # s[j]
        OBVIOUS
    <2>1. s[i] \in S /\ s[j] \in S /\ i \in Nat /\ j \in Nat
        BY <1>0, <1>1
    <2>2. s[i] \in Nat /\ s[j] \in Nat
        BY <2>1
    <2>3. (i < j => s[i] < s[j]) /\ (j < i => s[j] < s[i])
        BY <1>1 DEF Increasing
    <2> QED BY <2>1, <2>2, <2>3
<1>3. s \in Injection(1..n, S)
    BY <1>1, <1>2 DEF Injection, IsInjective
<1>4. Cardinality(1..n) = Cardinality(S)
    <2>1. Cardinality(1..n) = n
        BY <1>0, FS_Interval
    <2> QED BY <2>1 DEF n
<1>5. s \in Surjection(1..n, S)
    BY <1>3, <1>4, FS_Injection
<1>6. \A x \in S : \E i \in 1..n : s[i] = x
    BY <1>5 DEF Surjection
<1> QED BY <1>0, <1>1, <1>2, <1>6 DEF s, n

\* The entity a path is at after i of its edges.
At(p, i) == IF i = 0 THEN p.root ELSE edge[p.edges[i]].to

Hops(p) == Len(p.edges)

\* Simple paths from an entry, wherever they end.
Walk ==
    {p \in [root : entries, edges : Seq(1..EdgeIds)] :
        /\ \A i \in 1..Hops(p) : edge[p.edges[i]].projected /\ edge[p.edges[i]].from = At(p, i - 1)
        /\ \A i, j \in 0..Hops(p) : i # j => At(p, i) # At(p, j)}

Begins(p, q) ==
    /\ p.root = q.root /\ Hops(p) <= Hops(q)
    /\ \A i \in 1..Hops(p) : p.edges[i] = q.edges[i]

GraphGood ==
    /\ edge \in [1..EdgeIds -> Paths!Edge]
    /\ entries \in SUBSET Paths!Entity

LEMMA WalkFacts ==
    ASSUME PathsConstants, GraphGood, NEW p \in Walk
    PROVE  /\ p.root \in entries /\ p.edges \in Seq(1..EdgeIds) /\ Hops(p) \in Nat
           /\ p = [root |-> p.root, edges |-> p.edges]
           /\ \A i \in 1..Hops(p) : p.edges[i] \in 1..EdgeIds /\ edge[p.edges[i]].projected
                                    /\ edge[p.edges[i]].from = At(p, i - 1)
           /\ \A i, j \in 0..Hops(p) : i # j => At(p, i) # At(p, j)
           /\ DOMAIN p.edges = 1..Hops(p)
           /\ Paths!End(p) = At(p, Hops(p))
           /\ Paths!Visited(p) = {At(p, i) : i \in 0..Hops(p)}
           /\ (p.edges = <<>>) <=> (Hops(p) = 0)
<1>1. /\ p \in [root : entries, edges : Seq(1..EdgeIds)]
      /\ \A i \in 1..Hops(p) : edge[p.edges[i]].projected /\ edge[p.edges[i]].from = At(p, i - 1)
      /\ \A i, j \in 0..Hops(p) : i # j => At(p, i) # At(p, j)
    BY DEF Walk
<1>2. /\ p.root \in entries /\ p.edges \in Seq(1..EdgeIds)
      /\ p = [root |-> p.root, edges |-> p.edges]
    BY <1>1
<1>3. /\ Hops(p) \in Nat /\ DOMAIN p.edges = 1..Hops(p) /\ (p.edges = <<>> <=> Hops(p) = 0)
      /\ \A i \in 1..Hops(p) : p.edges[i] \in 1..EdgeIds
    BY <1>2, LenProperties, EmptySeq, ElementOfSeq DEF Hops
<1>4. Paths!End(p) = At(p, Hops(p))
    BY <1>3 DEF Paths!End, At, Hops
<1>5. Paths!Visited(p) = {At(p, i) : i \in 0..Hops(p)}
    BY <1>3 DEF Paths!Visited, At
<1> QED BY <1>1, <1>2, <1>3, <1>4, <1>5

\* Paths are equal when one begins the other and is as long.
LEMMA BeginsEqual ==
    ASSUME PathsConstants, GraphGood, NEW p \in Walk, NEW q \in Walk, Begins(p, q),
           Hops(p) = Hops(q)
    PROVE  p = q
<1>1. p.root = q.root /\ \A i \in 1..Hops(p) : p.edges[i] = q.edges[i]
    BY DEF Begins
<1>2. /\ p.edges \in Seq(1..EdgeIds) /\ q.edges \in Seq(1..EdgeIds)
      /\ p = [root |-> p.root, edges |-> p.edges] /\ q = [root |-> q.root, edges |-> q.edges]
    BY WalkFacts
<1>3. p.edges = q.edges
    BY <1>1, <1>2 DEF Hops
<1> QED BY <1>1, <1>2, <1>3

LEMMA BeginsTransitive ==
    ASSUME PathsConstants, GraphGood, NEW p \in Walk, NEW q \in Walk, NEW r \in Walk,
           Begins(p, q), Begins(q, r)
    PROVE  Begins(p, r)
<1>1. Hops(p) \in Nat /\ Hops(q) \in Nat /\ Hops(r) \in Nat
    BY WalkFacts
<1> QED BY <1>1 DEF Begins

\* Two beginnings of one path: the shorter begins the longer.
LEMMA BeginsSplit ==
    ASSUME PathsConstants, GraphGood, NEW p \in Walk, NEW q \in Walk, NEW r \in Walk,
           Begins(p, r), Begins(q, r), Hops(p) <= Hops(q)
    PROVE  Begins(p, q)
<1>1. Hops(p) \in Nat /\ Hops(q) \in Nat /\ Hops(r) \in Nat
    BY WalkFacts
<1> QED BY <1>1 DEF Begins

LEMMA AnswerPaths ==
    ASSUME PathsConstants, GraphGood
    PROVE  Paths!AllPaths = {p \in Walk : Hops(p) \in 1..MaxHops /\ At(p, Hops(p)) = Paths!Target}
<1> DEFINE E == UNION {[1..n -> 1..EdgeIds] : n \in 1..MaxHops}
<1>1. E = {s \in Seq(1..EdgeIds) : Len(s) \in 1..MaxHops}
    <2>1. ASSUME NEW s \in E PROVE s \in Seq(1..EdgeIds) /\ Len(s) \in 1..MaxHops
        <3>1. PICK n \in 1..MaxHops : s \in [1..n -> 1..EdgeIds]
            OBVIOUS
        <3>2. n \in Nat
            BY DEF PathsConstants
        <3>3. s \in Seq(1..EdgeIds)
            BY <3>1, <3>2, SeqDef
        <3>4. DOMAIN s = 1..n /\ DOMAIN s = 1..Len(s) /\ Len(s) \in Nat
            BY <3>1, <3>3, LenProperties
        <3>5. Len(s) = n
            BY <3>2, <3>4
        <3> QED BY <3>3, <3>5
    <2>2. ASSUME NEW s \in Seq(1..EdgeIds), Len(s) \in 1..MaxHops PROVE s \in E
        <3>1. s \in [1..Len(s) -> 1..EdgeIds]
            BY LenProperties
        <3> QED BY <2>2, <3>1
    <2> QED BY <2>1, <2>2
<1>2. ASSUME NEW root \in entries, NEW s \in Seq(1..EdgeIds), Len(s) \in 1..MaxHops
      PROVE  Paths!SimplePath(root, s) <=>
                /\ [root |-> root, edges |-> s] \in Walk
                /\ At([root |-> root, edges |-> s], Len(s)) = Paths!Target
    <2> DEFINE p == [root |-> root, edges |-> s]
    <2>1. p \in [root : entries, edges : Seq(1..EdgeIds)] /\ p.root = root /\ p.edges = s
          /\ Hops(p) = Len(s) /\ DOMAIN s = 1..Len(s) /\ Len(s) \in Nat
        BY LenProperties DEF Hops
    <2>2. \A i : At(p, i) = IF i = 0 THEN root ELSE edge[s[i]].to
        BY DEF At
    <2> HIDE DEF p
    <2>3. \A i \in 1..Len(s) : At(p, i - 1) = IF i - 1 = 0 THEN root ELSE edge[s[i - 1]].to
        BY <2>2
    <2>4. p \in Walk <=>
              /\ \A i \in 1..Len(s) : edge[s[i]].projected /\ edge[s[i]].from = At(p, i - 1)
              /\ \A i, j \in 0..Len(s) : i # j => At(p, i) # At(p, j)
        BY <2>1 DEF Walk
    <2>5. Paths!SimplePath(root, s) <=>
              /\ \A i \in 1..Len(s) : edge[s[i]].projected /\ edge[s[i]].from = At(p, i - 1)
              /\ \A i, j \in 0..Len(s) : i # j => At(p, i) # At(p, j)
              /\ At(p, Len(s)) = Paths!Target
        <3> DEFINE at(i) == IF i = 0 THEN root ELSE edge[s[i]].to
        <3>1. Paths!SimplePath(root, s) <=>
                  /\ \A i \in DOMAIN s : edge[s[i]].projected /\ edge[s[i]].from = at(i - 1)
                  /\ \A i, j \in 0..Len(s) : i # j => at(i) # at(j)
                  /\ at(Len(s)) = Paths!Target
            BY DEF Paths!SimplePath
        <3>2. \A i : At(p, i) = at(i)
            BY <2>2
        <3> HIDE DEF at
        <3> QED BY <2>1, <3>1, <3>2
    <2> QED BY <2>4, <2>5 DEF p
<1> HIDE DEF E
<1>3. Paths!AllPaths = {p \in [root : entries, edges : E] : Paths!SimplePath(p.root, p.edges)}
    BY DEF Paths!AllPaths, E
<1>4. ASSUME NEW p \in Paths!AllPaths
      PROVE  p \in Walk /\ Hops(p) \in 1..MaxHops /\ At(p, Hops(p)) = Paths!Target
    <2>1. /\ p.root \in entries /\ p.edges \in E /\ Paths!SimplePath(p.root, p.edges)
          /\ p = [root |-> p.root, edges |-> p.edges]
        BY <1>3
    <2> QED BY <1>1, <1>2, <2>1 DEF Hops
<1>5. ASSUME NEW p \in Walk, Hops(p) \in 1..MaxHops, At(p, Hops(p)) = Paths!Target
      PROVE  p \in Paths!AllPaths
    <2>1. /\ p.root \in entries /\ p.edges \in Seq(1..EdgeIds)
          /\ p = [root |-> p.root, edges |-> p.edges]
        BY WalkFacts
    <2>2. Paths!SimplePath(p.root, p.edges)
        BY <1>2, <1>5, <2>1 DEF Hops
    <2>3. p \in [root : entries, edges : E]
        BY <1>1, <1>5, <2>1 DEF Hops
    <2> QED BY <1>3, <2>2, <2>3
<1> QED BY <1>4, <1>5

\* There are finitely many of them.
LEMMA AnswerFinite ==
    ASSUME PathsConstants, GraphGood
    PROVE  IsFiniteSet(Paths!AllPaths)
<1> DEFINE Steps == (1..MaxHops) \X (1..EdgeIds)
           code == [p \in Paths!AllPaths |-> <<p.root, {<<i, p.edges[i]>> : i \in 1..Hops(p)}>>]
<1>1. IsFiniteSet(Paths!Entity \X SUBSET Steps)
    <2>1. IsFiniteSet(1..MaxHops) /\ IsFiniteSet(1..EdgeIds) /\ IsFiniteSet(Paths!Entity)
        BY FS_Interval DEF PathsConstants, Paths!Entity
    <2> QED BY <2>1, FS_Product, FS_SUBSET
<1>2. \A p \in Paths!AllPaths :
          /\ p \in Walk /\ Hops(p) \in 1..MaxHops
          /\ p.root \in Paths!Entity /\ \A i \in 1..Hops(p) : p.edges[i] \in 1..EdgeIds
    BY AnswerPaths, WalkFacts DEF GraphGood
<1>3. code \in [Paths!AllPaths -> Paths!Entity \X SUBSET Steps]
    <2> SUFFICES ASSUME NEW p \in Paths!AllPaths
                 PROVE  /\ p.root \in Paths!Entity
                        /\ {<<i, p.edges[i]>> : i \in 1..Hops(p)} \in SUBSET Steps
        OBVIOUS
    <2>1. \A i \in 1..Hops(p) : i \in 1..MaxHops /\ p.edges[i] \in 1..EdgeIds
        BY <1>2 DEF PathsConstants
    <2> QED BY <1>2, <2>1
<1>4. ASSUME NEW p \in Paths!AllPaths, NEW q \in Paths!AllPaths, code[p] = code[q] PROVE p = q
    <2>1. /\ p.root = q.root
          /\ {<<i, p.edges[i]>> : i \in 1..Hops(p)} = {<<i, q.edges[i]>> : i \in 1..Hops(q)}
        BY <1>4
    <2>2. \A i \in 1..Hops(p) : i \in 1..Hops(q) /\ p.edges[i] = q.edges[i]
        <3> SUFFICES ASSUME NEW i \in 1..Hops(p) PROVE i \in 1..Hops(q) /\ p.edges[i] = q.edges[i]
            OBVIOUS
        <3>1. PICK j \in 1..Hops(q) : <<i, p.edges[i]>> = <<j, q.edges[j]>>
            BY <2>1
        <3> QED BY <3>1
    <2>3. \A i \in 1..Hops(q) : i \in 1..Hops(p)
        <3> SUFFICES ASSUME NEW i \in 1..Hops(q) PROVE i \in 1..Hops(p)
            OBVIOUS
        <3>1. PICK j \in 1..Hops(p) : <<i, q.edges[i]>> = <<j, p.edges[j]>>
            BY <2>1
        <3> QED BY <3>1
    <2>4. Hops(p) = Hops(q)
        <3>1. Hops(p) \in Nat \ {0} /\ Hops(q) \in Nat \ {0}
            BY <1>2
        <3> QED BY <2>2, <2>3, <3>1
    <2>5. Begins(p, q)
        BY <1>2, <2>1, <2>2, <2>4 DEF Begins
    <2> QED BY <1>2, <2>4, <2>5, BeginsEqual
<1>5. code \in Injection(Paths!AllPaths, Paths!Entity \X SUBSET Steps)
    <2> HIDE DEF code
    <2> QED BY <1>3, <1>4 DEF Injection, IsInjective
<1> QED BY <1>1, <1>5, FS_Injection

\* A path and one edge more.
Extended(p, e) == [p EXCEPT !.edges = Append(p.edges, e)]

LEMMA ExtendedWalk ==
    ASSUME PathsConstants, GraphGood, NEW p \in Walk, NEW e \in Paths!Onward(p)
    PROVE  /\ Extended(p, e) \in Walk
           /\ Hops(Extended(p, e)) = Hops(p) + 1
           /\ Begins(p, Extended(p, e))
           /\ Extended(p, e).edges[Hops(p) + 1] = e
<1> DEFINE q == Extended(p, e)
           n == Hops(p)
<1>1. /\ p.root \in entries /\ p.edges \in Seq(1..EdgeIds) /\ n \in Nat
      /\ p = [root |-> p.root, edges |-> p.edges]
      /\ \A i \in 1..n : edge[p.edges[i]].projected /\ edge[p.edges[i]].from = At(p, i - 1)
      /\ \A i, j \in 0..n : i # j => At(p, i) # At(p, j)
    BY WalkFacts
<1>2. /\ e \in 1..EdgeIds /\ edge[e].projected /\ edge[e].from = At(p, n)
      /\ \A i \in 0..n : edge[e].to # At(p, i)
    BY WalkFacts DEF Paths!Onward
<1>3. q = [root |-> p.root, edges |-> Append(p.edges, e)]
    BY <1>1 DEF Extended
<1>4. /\ q.root = p.root /\ q.edges \in Seq(1..EdgeIds) /\ Hops(q) = n + 1
      /\ \A i \in 1..n : q.edges[i] = p.edges[i]
      /\ q.edges[n + 1] = e
    BY <1>1, <1>2, <1>3, AppendProperties DEF Hops
<1> HIDE DEF q, n
<1>5. /\ \A i \in 0..n : At(q, i) = At(p, i)
      /\ At(q, n + 1) = edge[e].to
    <2>1. \A i \in 0..n : i # 0 => i \in 1..n
        BY <1>1
    <2>2. n + 1 # 0
        BY <1>1
    <2> QED BY <1>4, <2>1, <2>2 DEF At
<1>6. ASSUME NEW i \in 1..(n + 1)
      PROVE  edge[q.edges[i]].projected /\ edge[q.edges[i]].from = At(q, i - 1)
    <2>1. CASE i = n + 1
        <3>1. i - 1 = n /\ n \in 0..n
            BY <1>1, <2>1
        <3> QED BY <1>2, <1>4, <1>5, <2>1, <3>1
    <2>2. CASE i # n + 1
        <3>1. i \in 1..n /\ i - 1 \in 0..n
            BY <1>1, <2>2
        <3> QED BY <1>1, <1>4, <1>5, <3>1
    <2> QED BY <2>1, <2>2
<1>7. ASSUME NEW i \in 0..(n + 1), NEW j \in 0..(n + 1), i # j PROVE At(q, i) # At(q, j)
    <2>1. \A k \in 0..(n + 1) : k = n + 1 \/ k \in 0..n
        BY <1>1
    <2> QED BY <1>1, <1>2, <1>5, <1>7, <2>1
<1>8. q \in Walk
    <2>1. q \in [root : entries, edges : Seq(1..EdgeIds)]
        BY <1>1, <1>3, <1>4
    <2> QED BY <1>4, <1>6, <1>7, <2>1 DEF Walk
<1>9. Begins(p, q)
    BY <1>1, <1>4 DEF Begins, n
<1> QED BY <1>4, <1>8, <1>9 DEF q, n

LEMMA ExtensionsOf ==
    ASSUME PathsConstants, GraphGood, NEW p \in Walk
    PROVE  /\ Paths!Extensions(p) \in Seq(Walk)
           /\ \A i \in 1..Len(Paths!Extensions(p)) :
                 /\ Hops(Paths!Extensions(p)[i]) = Hops(p) + 1
                 /\ Begins(p, Paths!Extensions(p)[i])
           /\ \A i, j \in 1..Len(Paths!Extensions(p)) : i # j =>
                 Paths!Extensions(p)[i].edges[Hops(p) + 1]
                     # Paths!Extensions(p)[j].edges[Hops(p) + 1]
           /\ \A e \in Paths!Onward(p) : \E i \in 1..Len(Paths!Extensions(p)) :
                 Paths!Extensions(p)[i].edges[Hops(p) + 1] = e
<1> DEFINE S == Paths!Onward(p)
           N == Cardinality(S)
           new == Paths!Extensions(p)
           pick(i) == Paths!Ordered(S)[i]
<1>1. S \in SUBSET Nat /\ IsFiniteSet(S)
    <2>1. S \subseteq 1..EdgeIds
        BY DEF Paths!Onward
    <2>2. IsFiniteSet(1..EdgeIds)
        BY FS_Interval DEF PathsConstants
    <2> HIDE DEF S
    <2>3. IsFiniteSet(S)
        BY <2>1, <2>2, FS_Subset
    <2>4. S \subseteq Nat
        BY <2>1 DEF PathsConstants
    <2> QED BY <2>3, <2>4
<1>2. /\ N \in Nat
      /\ \A i \in 1..N : pick(i) \in S
      /\ \A x \in S : \E i \in 1..N : pick(i) = x
      /\ \A i, j \in 1..N : i # j => pick(i) # pick(j)
    <2> HIDE DEF S
    <2> QED BY <1>1, OrderedLists
<1>3. new = [i \in 1..N |-> Extended(p, pick(i))]
    BY PathsCardinality DEF Paths!Extensions, Extended
<1> HIDE DEF N, new, pick
<1>4. \A i \in 1..N :
          /\ new[i] = Extended(p, pick(i))
          /\ new[i] \in Walk /\ Hops(new[i]) = Hops(p) + 1 /\ Begins(p, new[i])
          /\ new[i].edges[Hops(p) + 1] = pick(i)
    BY <1>2, <1>3, ExtendedWalk
<1>5. new \in Seq(Walk) /\ Len(new) = N
    <2>1. new \in [1..N -> Walk]
        BY <1>3, <1>4
    <2>2. new \in Seq(Walk)
        BY <1>2, <2>1, SeqDef
    <2>3. DOMAIN new = 1..N /\ DOMAIN new = 1..Len(new) /\ Len(new) \in Nat
        BY <2>1, <2>2, LenProperties
    <2>4. Len(new) = N
        BY <1>2, <2>3
    <2> QED BY <2>2, <2>4
<1> QED BY <1>2, <1>4, <1>5 DEF new

\* A search under way: what it has to extend and what it has found.
SearchGood(q, f) ==
    /\ q \in Seq(Walk) /\ f \in Seq(Walk)
    /\ \A i \in 1..Len(q) : Hops(q[i]) <= MaxHops
    /\ \A i \in 1..Len(f) : f[i] \in Paths!AllPaths
    /\ \A p \in Paths!AllPaths :
          (\E i \in 1..Len(f) : f[i] = p) \/ (\E i \in 1..Len(q) : Begins(q[i], p))
    /\ \A i, j \in 1..Len(q) : i # j => ~Begins(q[i], q[j])
    /\ \A i \in 1..Len(q), j \in 1..Len(f) : ~Begins(q[i], f[j])
    /\ \A i, j \in 1..Len(f) : i # j => f[i] # f[j]
    /\ \A i, j \in 1..Len(q) : i < j => Hops(q[i]) <= Hops(q[j])
    /\ \A i \in 1..Len(q) : Hops(q[i]) <= Hops(q[1]) + 1
    /\ \A i \in 1..Len(f), j \in 1..Len(q) : Hops(f[i]) <= Hops(q[j])
    /\ Len(f) <= MaxPaths

LEMMA QueueFacts ==
    ASSUME PathsConstants, GraphGood, NEW q \in Seq(Walk), q # <<>>
    PROVE  /\ Len(q) \in Nat \ {0} /\ Head(q) = q[1] /\ Head(q) \in Walk
           /\ Tail(q) \in Seq(Walk) /\ Len(Tail(q)) = Len(q) - 1
           /\ \A i \in 1..Len(Tail(q)) : Tail(q)[i] = q[i + 1] /\ i + 1 \in 1..Len(q)
           /\ \A i \in 1..Len(q) : i # 1 => i - 1 \in 1..Len(Tail(q)) /\ Tail(q)[i - 1] = q[i]
<1>1. /\ Len(q) \in Nat \ {0} /\ Head(q) \in Walk
      /\ Tail(q) \in Seq(Walk) /\ Len(Tail(q)) = Len(q) - 1
      /\ \A i \in 1..Len(Tail(q)) : Tail(q)[i] = q[i + 1]
    BY HeadTailProperties, EmptySeq
<1>2. Head(q) = q[1]
    BY <1>1
<1>3. \A i \in 1..Len(Tail(q)) : i + 1 \in 1..Len(q)
    BY <1>1
<1>4. \A i \in 1..Len(q) : i # 1 => i - 1 \in 1..Len(Tail(q)) /\ Tail(q)[i - 1] = q[i]
    <2> SUFFICES ASSUME NEW i \in 1..Len(q), i # 1
                 PROVE  i - 1 \in 1..Len(Tail(q)) /\ Tail(q)[i - 1] = q[i]
        OBVIOUS
    <2>1. i - 1 \in 1..Len(Tail(q)) /\ (i - 1) + 1 = i
        BY <1>1
    <2> QED BY <1>1, <2>1
<1> QED BY <1>1, <1>2, <1>3, <1>4

\* A path that begins none of the answer's is dropped.
LEMMA SearchDrops ==
    ASSUME PathsConstants, GraphGood, NEW q, NEW f, SearchGood(q, f), q # <<>>,
           \A p \in Paths!AllPaths : ~Begins(Head(q), p)
    PROVE  SearchGood(Tail(q), f)
<1> DEFINE t == Tail(q)
<1>1. /\ Len(q) \in Nat \ {0} /\ Head(q) = q[1] /\ Head(q) \in Walk
      /\ t \in Seq(Walk) /\ Len(t) = Len(q) - 1
      /\ \A i \in 1..Len(t) : t[i] = q[i + 1] /\ i + 1 \in 1..Len(q)
      /\ \A i \in 1..Len(q) : i # 1 => i - 1 \in 1..Len(t) /\ t[i - 1] = q[i]
    BY QueueFacts DEF SearchGood
<1>2. Len(t) \in Nat /\ \A i \in 1..Len(q) : q[i] \in Walk /\ Hops(q[i]) \in Nat
    BY <1>1, ElementOfSeq, WalkFacts DEF SearchGood
<1> HIDE DEF t
<1>3. \A i, j \in 1..Len(t) : i # j => i + 1 # j + 1
    BY <1>2
<1>4. \A i, j \in 1..Len(t) : i < j => i + 1 < j + 1
    BY <1>2
<1>5. \A i \in 1..Len(t) : Hops(t[i]) <= Hops(t[1]) + 1
    <2> SUFFICES ASSUME NEW i \in 1..Len(t) PROVE Hops(t[i]) <= Hops(t[1]) + 1
        OBVIOUS
    <2>1. /\ 1 \in 1..Len(t) /\ 1 \in 1..Len(q) /\ 2 \in 1..Len(q) /\ t[1] = q[2] /\ t[i] = q[i + 1]
          /\ i + 1 \in 1..Len(q)
        BY <1>1, <1>2
    <2>2. Hops(q[1]) <= Hops(q[2]) /\ Hops(q[i + 1]) <= Hops(q[1]) + 1
        BY <2>1 DEF SearchGood
    <2> QED BY <1>2, <2>1, <2>2
<1>6. \A p \in Paths!AllPaths :
          (\E i \in 1..Len(f) : f[i] = p) \/ (\E i \in 1..Len(t) : Begins(t[i], p))
    <2> SUFFICES ASSUME NEW p \in Paths!AllPaths, NEW i \in 1..Len(q), Begins(q[i], p)
                 PROVE  \E j \in 1..Len(t) : Begins(t[j], p)
        BY DEF SearchGood
    <2> QED BY <1>1
<1>7. SearchGood(t, f)
    BY <1>1, <1>3, <1>4, <1>5, <1>6 DEF SearchGood
<1> QED BY <1>7 DEF t

\* The answer's path at the head is found: it begins no other.
LEMMA SearchFinds ==
    ASSUME PathsConstants, GraphGood, NEW q, NEW f, SearchGood(q, f), q # <<>>,
           Head(q) \in Paths!AllPaths, Len(f) + 1 <= MaxPaths
    PROVE  SearchGood(Tail(q), Append(f, Head(q)))
<1> DEFINE t == Tail(q)
           g == Append(f, Head(q))
           n == Len(f)
<1>1. /\ Len(q) \in Nat \ {0} /\ Head(q) = q[1] /\ Head(q) \in Walk
      /\ t \in Seq(Walk) /\ Len(t) = Len(q) - 1
      /\ \A i \in 1..Len(t) : t[i] = q[i + 1] /\ i + 1 \in 1..Len(q)
      /\ \A i \in 1..Len(q) : i # 1 => i - 1 \in 1..Len(t) /\ t[i - 1] = q[i]
    BY QueueFacts DEF SearchGood
<1>2. Len(t) \in Nat /\ \A i \in 1..Len(q) : q[i] \in Walk /\ Hops(q[i]) \in Nat
    BY <1>1, ElementOfSeq, WalkFacts DEF SearchGood
<1>3. /\ n \in Nat /\ g \in Seq(Walk) /\ Len(g) = n + 1 /\ g[n + 1] = q[1]
      /\ \A i \in 1..n : g[i] = f[i]
      /\ \A i \in 1..(n + 1) : i = n + 1 \/ i \in 1..n
      /\ 1 \in 1..Len(q)
    BY <1>1, AppendProperties, LenProperties DEF SearchGood
<1> HIDE DEF t, g, n
<1>4. \A p \in Paths!AllPaths : Begins(q[1], p) => p = q[1]
    <2> SUFFICES ASSUME NEW p \in Paths!AllPaths, Begins(q[1], p) PROVE p = q[1]
        OBVIOUS
    <2>1. /\ p \in Walk /\ At(p, Hops(p)) = Paths!Target
          /\ q[1] \in Walk /\ At(q[1], Hops(q[1])) = Paths!Target
          /\ Hops(q[1]) \in 1..MaxHops
        BY <1>1, AnswerPaths
    <2>2. Hops(p) \in Nat /\ Hops(q[1]) \in Nat /\ Hops(q[1]) <= Hops(p) /\ Hops(q[1]) # 0
        BY <2>1, WalkFacts DEF Begins
    <2>3. At(q[1], Hops(q[1])) = At(p, Hops(q[1]))
        BY <2>2 DEF Begins, At
    <2>4. Hops(q[1]) = Hops(p)
        BY <2>1, <2>2, <2>3, WalkFacts
    <2> QED BY <2>1, <2>4, BeginsEqual
<1>5. Begins(q[1], q[1])
    BY <1>1, <1>2, <1>3 DEF Begins
<1>6. \A i \in 1..n : f[i] # q[1]
    BY <1>3, <1>5 DEF SearchGood, n
<1>7. \A i, j \in 1..Len(g) : i # j => g[i] # g[j]
    BY <1>3, <1>6 DEF SearchGood, n
<1>8. \A p \in Paths!AllPaths :
          (\E i \in 1..Len(g) : g[i] = p) \/ (\E i \in 1..Len(t) : Begins(t[i], p))
    <2> SUFFICES ASSUME NEW p \in Paths!AllPaths
                 PROVE (\E i \in 1..Len(g) : g[i] = p) \/ (\E i \in 1..Len(t) : Begins(t[i], p))
        OBVIOUS
    <2>1. CASE \E i \in 1..n : f[i] = p
        <3>1. \A i \in 1..n : i \in 1..Len(g)
            BY <1>3
        <3> QED BY <1>3, <2>1, <3>1
    <2>2. CASE Begins(q[1], p)
        <3>1. n + 1 \in 1..Len(g) /\ g[n + 1] = p
            BY <1>3, <1>4, <2>2
        <3> QED BY <3>1
    <2>3. CASE \E i \in 1..Len(q) : i # 1 /\ Begins(q[i], p)
        BY <1>1, <2>3
    <2> QED BY <2>1, <2>2, <2>3 DEF SearchGood, n
<1>9. \A i \in 1..Len(t) : Hops(t[i]) <= Hops(t[1]) + 1 /\ Hops(q[1]) <= Hops(t[i])
    <2> SUFFICES ASSUME NEW i \in 1..Len(t)
                 PROVE  Hops(t[i]) <= Hops(t[1]) + 1 /\ Hops(q[1]) <= Hops(t[i])
        OBVIOUS
    <2>1. /\ 1 \in 1..Len(t) /\ 1 \in 1..Len(q) /\ 2 \in 1..Len(q) /\ t[1] = q[2] /\ t[i] = q[i + 1]
          /\ i + 1 \in 1..Len(q) /\ 1 < i + 1
        BY <1>1, <1>2
    <2>2. /\ Hops(q[1]) <= Hops(q[2]) /\ Hops(q[i + 1]) <= Hops(q[1]) + 1
          /\ Hops(q[1]) <= Hops(q[i + 1])
        BY <2>1 DEF SearchGood
    <2> QED BY <1>2, <2>1, <2>2
<1>10. /\ \A i \in 1..Len(t) : Hops(t[i]) <= MaxHops
       /\ \A i, j \in 1..Len(t) : i # j => ~Begins(t[i], t[j])
       /\ \A i, j \in 1..Len(t) : i < j => Hops(t[i]) <= Hops(t[j])
    <2>1. \A i, j \in 1..Len(t) : (i # j => i + 1 # j + 1) /\ (i < j => i + 1 < j + 1)
        BY <1>2
    <2> QED BY <1>1, <2>1 DEF SearchGood
<1>11. /\ \A i \in 1..Len(g) : g[i] \in Paths!AllPaths
       /\ \A i \in 1..Len(t), j \in 1..Len(g) : ~Begins(t[i], g[j])
       /\ \A i \in 1..Len(g), j \in 1..Len(t) : Hops(g[i]) <= Hops(t[j])
       /\ Len(g) <= MaxPaths
    <2>1. \A i \in 1..Len(t) : i + 1 # 1
        BY <1>2
    <2>2. \A i \in 1..Len(t) : ~Begins(t[i], q[1])
        BY <1>1, <1>3, <2>1 DEF SearchGood
    <2>3. \A i \in 1..n : /\ f[i] \in Paths!AllPaths
                           /\ \A j \in 1..Len(t) : ~Begins(t[j], f[i]) /\ Hops(f[i]) <= Hops(t[j])
        BY <1>1 DEF SearchGood, n
    <2>4. \A i \in 1..Len(g) : (i = n + 1 /\ g[i] = q[1]) \/ (i \in 1..n /\ g[i] = f[i])
        BY <1>3
    <2>5. Len(g) <= MaxPaths /\ q[1] \in Paths!AllPaths
        BY <1>1, <1>3 DEF n
    <2>6. \A i \in 1..Len(t) : Hops(q[1]) <= Hops(t[i])
        BY <1>9
    <2> QED BY <2>2, <2>3, <2>4, <2>5, <2>6
<1>12. SearchGood(t, g)
    BY <1>1, <1>3, <1>7, <1>8, <1>9, <1>10, <1>11 DEF SearchGood
<1> QED BY <1>12 DEF t, g

\* A path short of the target gives way to its extensions.
LEMMA SearchExtends ==
    ASSUME PathsConstants, GraphGood, NEW q, NEW f, SearchGood(q, f), q # <<>>,
           Paths!End(Head(q)) # Paths!Target, Hops(Head(q)) < MaxHops
    PROVE  SearchGood(Tail(q) \o Paths!Extensions(Head(q)), f)
<1> DEFINE t == Tail(q)
           h == Head(q)
           k == Hops(h)
           new == Paths!Extensions(h)
           r == t \o new
           m == Len(t)
           n == Len(new)
<1>1. /\ Len(q) \in Nat \ {0} /\ h = q[1] /\ h \in Walk
      /\ t \in Seq(Walk) /\ m = Len(q) - 1
      /\ \A i \in 1..m : t[i] = q[i + 1] /\ i + 1 \in 1..Len(q)
      /\ \A i \in 1..Len(q) : i # 1 => i - 1 \in 1..m /\ t[i - 1] = q[i]
    BY QueueFacts DEF SearchGood
<1>2. /\ new \in Seq(Walk)
      /\ \A i \in 1..n : Hops(new[i]) = k + 1 /\ Begins(h, new[i])
      /\ \A i, j \in 1..n : i # j => new[i].edges[k + 1] # new[j].edges[k + 1]
      /\ \A e \in Paths!Onward(h) : \E i \in 1..n : new[i].edges[k + 1] = e
    BY <1>1, ExtensionsOf
<1>3. /\ m \in Nat /\ n \in Nat /\ r \in Seq(Walk) /\ Len(r) = m + n
      /\ \A i \in 1..(m + n) : r[i] = IF i <= m THEN t[i] ELSE new[i - m]
    BY <1>1, <1>2, ConcatProperties, LenProperties
<1>4. /\ k \in Nat /\ k < MaxHops /\ MaxHops \in Nat /\ Paths!End(h) = At(h, k)
      /\ At(h, k) # Paths!Target
    BY <1>1, WalkFacts DEF PathsConstants
<1>5. \A i \in 1..n : new[i] \in Walk
    BY <1>2, ElementOfSeq
<1>6. \A i \in 1..m : t[i] \in Walk /\ Hops(t[i]) \in Nat
    BY <1>1, ElementOfSeq, WalkFacts
<1> HIDE DEF t, h, k, new, r, m, n
<1>7. \A i \in 1..m : /\ k <= Hops(t[i]) /\ Hops(t[i]) <= k + 1 /\ Hops(t[i]) <= MaxHops
                      /\ ~Begins(h, t[i]) /\ ~Begins(t[i], h)
                      /\ \A j \in 1..Len(f) : ~Begins(t[i], f[j]) /\ Hops(f[j]) <= Hops(t[i])
    <2>1. \A i \in 1..m : 1 < i + 1 /\ i + 1 # 1
        BY <1>3
    <2>2. 1 \in 1..Len(q)
        BY <1>1
    <2> QED BY <1>1, <2>1, <2>2 DEF SearchGood, k
<1>8. \A i, j \in 1..m : /\ i # j => ~Begins(t[i], t[j])
                         /\ i < j => Hops(t[i]) <= Hops(t[j])
    <2>1. \A i, j \in 1..m : (i # j => i + 1 # j + 1) /\ (i < j => i + 1 < j + 1)
        BY <1>3
    <2> QED BY <1>1, <2>1 DEF SearchGood
<1>9. \A j \in 1..Len(f) : /\ f[j] \in Walk /\ ~Begins(h, f[j])
                           /\ Hops(f[j]) <= k /\ Hops(f[j]) \in Nat
    <2>1. 1 \in 1..Len(q)
        BY <1>1
    <2> QED BY <1>1, <2>1, ElementOfSeq, WalkFacts DEF SearchGood, k
<1>10. ASSUME NEW i \in 1..n, NEW j \in 1..n, i # j PROVE ~Begins(new[i], new[j])
    <2>1. k + 1 \in 1..Hops(new[i])
        BY <1>2, <1>4
    <2> QED BY <1>2, <1>10, <2>1 DEF Begins
<1>11. ASSUME NEW i \in 1..n, NEW j \in 1..m PROVE ~Begins(new[i], t[j]) /\ ~Begins(t[j], new[i])
    <2>1. ~Begins(new[i], t[j])
        BY <1>1, <1>2, <1>5, <1>6, <1>7, BeginsTransitive
    <2>2. ASSUME Begins(t[j], new[i]) PROVE FALSE
        <3>1. CASE Hops(t[j]) = k + 1
            <4>1. t[j] = new[i]
                BY <1>2, <1>5, <1>6, <2>2, <3>1, BeginsEqual
            <4> QED BY <1>2, <1>7, <4>1
        <3>2. CASE Hops(t[j]) <= k
            <4>1. Begins(t[j], h)
                BY <1>1, <1>2, <1>5, <1>6, <2>2, <3>2, BeginsSplit DEF k
            <4> QED BY <1>7, <4>1
        <3> QED BY <1>4, <1>6, <1>7, <3>1, <3>2
    <2> QED BY <2>1, <2>2
<1>12. ASSUME NEW i \in 1..n, NEW j \in 1..Len(f)
       PROVE  ~Begins(new[i], f[j]) /\ Hops(f[j]) <= Hops(new[i])
    <2>1. ~Begins(new[i], f[j])
        BY <1>1, <1>2, <1>5, <1>9, BeginsTransitive
    <2>2. Hops(f[j]) <= Hops(new[i])
        BY <1>2, <1>4, <1>9
    <2> QED BY <2>1, <2>2
<1>13. ASSUME NEW p \in Paths!AllPaths, Begins(h, p) PROVE \E i \in 1..n : Begins(new[i], p)
    <2>1. p \in Walk /\ At(p, Hops(p)) = Paths!Target
        BY AnswerPaths
    <2>2. Hops(p) \in Nat /\ k <= Hops(p)
        BY <1>13, <2>1, WalkFacts DEF Begins, k
    <2>3. k # Hops(p)
        <3> SUFFICES ASSUME k = Hops(p) PROVE FALSE
            OBVIOUS
        <3>1. h = p
            BY <1>1, <1>13, <2>1, BeginsEqual DEF k
        <3> QED BY <1>4, <2>1, <3>1
    <2> DEFINE e == p.edges[k + 1]
    <2>4. k + 1 \in 1..Hops(p)
        BY <1>4, <2>2, <2>3
    <2>5. \A i \in 0..k : At(p, i) = At(h, i)
        <3>1. \A i \in 0..k : i # 0 => i \in 1..k
            BY <1>4
        <3> QED BY <1>13, <3>1 DEF Begins, At, k
    <2>6. At(p, k + 1) = edge[e].to
        BY <1>4 DEF At
    <2>7. e \in 1..EdgeIds /\ edge[e].projected /\ edge[e].from = At(h, k)
        <3>1. (k + 1) - 1 = k /\ k \in 0..k
            BY <1>4
        <3>2. e \in 1..EdgeIds /\ edge[e].projected /\ edge[e].from = At(p, (k + 1) - 1)
            BY <2>1, <2>4, WalkFacts
        <3> QED BY <2>5, <3>1, <3>2
    <2>8. edge[e].to \notin Paths!Visited(h)
        <3>1. Paths!Visited(h) = {At(h, i) : i \in 0..k}
            BY <1>1, WalkFacts DEF k
        <3>2. \A i \in 0..k : At(p, i) # At(p, k + 1)
            <4>1. \A i \in 0..k : i \in 0..Hops(p) /\ i # k + 1
                BY <1>4, <2>2
            <4>2. k + 1 \in 0..Hops(p)
                BY <2>4, <2>2
            <4> QED BY <2>1, <4>1, <4>2, WalkFacts
        <3> QED BY <2>5, <2>6, <3>1, <3>2
    <2>9. e \in Paths!Onward(h)
        BY <1>4, <2>7, <2>8 DEF Paths!Onward
    <2>10. PICK i \in 1..n : new[i].edges[k + 1] = e
        BY <1>2, <2>9
    <2>11. Begins(new[i], p)
        <3>1. h.root = new[i].root /\ h.root = p.root /\ Hops(new[i]) = k + 1
            BY <1>2, <1>13 DEF Begins
        <3>2. \A x \in 1..k : new[i].edges[x] = p.edges[x]
            BY <1>2, <1>13 DEF Begins, k
        <3>3. \A x \in 1..(k + 1) : x = k + 1 \/ x \in 1..k
            BY <1>4
        <3> QED BY <2>2, <2>4, <2>10, <3>1, <3>2, <3>3 DEF Begins
    <2> QED BY <2>11
<1>14. \A i \in 1..Len(r) : \/ i \in 1..m /\ r[i] = t[i]
                            \/ i > m /\ i - m \in 1..n /\ r[i] = new[i - m]
    <2> SUFFICES ASSUME NEW i \in 1..Len(r)
                 PROVE  \/ i \in 1..m /\ r[i] = t[i]
                        \/ i > m /\ i - m \in 1..n /\ r[i] = new[i - m]
        OBVIOUS
    <2>1. i \in 1..(m + n) /\ i \in Nat
        BY <1>3
    <2>2. CASE i <= m
        BY <1>3, <2>1, <2>2
    <2>3. CASE i > m
        BY <1>3, <2>1, <2>3
    <2> QED BY <1>3, <2>1, <2>2, <2>3
<1>15. /\ \A i \in 1..m : i \in 1..Len(r) /\ r[i] = t[i]
       /\ \A i \in 1..n : m + i \in 1..Len(r) /\ r[m + i] = new[i]
    <2>1. \A i \in 1..m : i \in 1..(m + n) /\ i <= m
        BY <1>3
    <2>2. \A i \in 1..n : m + i \in 1..(m + n) /\ ~(m + i <= m) /\ (m + i) - m = i
        BY <1>3
    <2> QED BY <1>3, <2>1, <2>2
<1>16. \A i \in 1..Len(r) : /\ Hops(r[i]) <= MaxHops /\ k <= Hops(r[i]) /\ Hops(r[i]) <= k + 1
                            /\ Hops(r[i]) \in Nat
                            /\ \A j \in 1..Len(f) : ~Begins(r[i], f[j]) /\ Hops(f[j]) <= Hops(r[i])
    <2>1. \A i \in 1..n : Hops(new[i]) <= MaxHops /\ k <= Hops(new[i]) /\ Hops(new[i]) <= k + 1
                          /\ Hops(new[i]) \in Nat
        BY <1>2, <1>4
    <2> QED BY <1>6, <1>7, <1>12, <1>14, <2>1
<1>17. \A p \in Paths!AllPaths :
           (\E i \in 1..Len(f) : f[i] = p) \/ (\E i \in 1..Len(r) : Begins(r[i], p))
    <2> SUFFICES ASSUME NEW p \in Paths!AllPaths, NEW i \in 1..Len(q), Begins(q[i], p)
                 PROVE  \E j \in 1..Len(r) : Begins(r[j], p)
        BY DEF SearchGood
    <2>1. CASE i = 1
        BY <1>1, <1>13, <1>15, <2>1
    <2>2. CASE i # 1
        BY <1>1, <1>15, <2>2
    <2> QED BY <2>1, <2>2
<1>18. ASSUME NEW i \in 1..Len(r), NEW j \in 1..Len(r), i # j PROVE ~Begins(r[i], r[j])
    <2>1. i \in Nat /\ j \in Nat /\ (i - m = j - m => i = j)
        BY <1>3
    <2> QED BY <1>8, <1>10, <1>11, <1>14, <1>18, <2>1
<1>19. ASSUME NEW i \in 1..Len(r), NEW j \in 1..Len(r), i < j PROVE Hops(r[i]) <= Hops(r[j])
    <2>1. CASE j > m
        <3>1. j - m \in 1..n /\ r[j] = new[j - m]
            BY <1>3, <1>14, <2>1
        <3>2. Hops(r[j]) = k + 1
            BY <1>2, <3>1
        <3> QED BY <1>16, <3>2
    <2>2. CASE j <= m
        <3>1. i \in 1..m /\ j \in 1..m
            BY <1>3, <1>19, <2>2
        <3> QED BY <1>8, <1>15, <1>19, <3>1
    <2> QED BY <1>3, <2>1, <2>2
<1>20. \A i \in 1..Len(r) : Hops(r[i]) <= Hops(r[1]) + 1
    <2> SUFFICES ASSUME NEW i \in 1..Len(r) PROVE Hops(r[i]) <= Hops(r[1]) + 1
        OBVIOUS
    <2>1. 1 \in 1..Len(r)
        BY <1>3
    <2> QED BY <1>4, <1>16, <2>1
<1>21. SearchGood(r, f)
    BY <1>3, <1>16, <1>17, <1>18, <1>19, <1>20 DEF SearchGood
<1> QED BY <1>21 DEF r, t, new, h

\* The entries of an event, before anything is expanded.
LEMMA SearchStarts ==
    ASSUME PathsConstants, Paths!Init
    PROVE  GraphGood /\ SearchGood(queue, found)
<1> DEFINE N == Cardinality(entries)
           pick(i) == Paths!Ordered(entries)[i]
<1>1. GraphGood
    BY DEF Paths!Init, GraphGood
<1>2. entries \in SUBSET Nat /\ IsFiniteSet(entries)
    <2>1. entries \subseteq 1..Entities /\ IsFiniteSet(1..Entities)
        BY <1>1, FS_Interval DEF GraphGood, Paths!Entity, PathsConstants
    <2>2. IsFiniteSet(entries)
        BY <2>1, FS_Subset
    <2> QED BY <2>1, <2>2
<1>3. /\ N \in Nat
      /\ \A i \in 1..N : pick(i) \in entries
      /\ \A x \in entries : \E i \in 1..N : pick(i) = x
      /\ \A i, j \in 1..N : i # j => pick(i) # pick(j)
    BY <1>2, OrderedLists
<1>4. queue = [i \in 1..N |-> [root |-> pick(i), edges |-> <<>>]] /\ found = <<>>
    BY PathsCardinality DEF Paths!Init, Paths!Start
<1> HIDE DEF N, pick
<1>5. \A i \in 1..N : /\ queue[i].root = pick(i) /\ Hops(queue[i]) = 0
                      /\ queue[i] \in Walk
    <2> SUFFICES ASSUME NEW i \in 1..N
                 PROVE  queue[i].root = pick(i) /\ Hops(queue[i]) = 0 /\ queue[i] \in Walk
        OBVIOUS
    <2>1. /\ queue[i] = [root |-> pick(i), edges |-> <<>>] /\ <<>> \in Seq(1..EdgeIds)
          /\ Len(queue[i].edges) = 0 /\ queue[i].root = pick(i)
        BY <1>4, EmptySeq
    <2>2. queue[i] \in [root : entries, edges : Seq(1..EdgeIds)]
        BY <1>3, <2>1
    <2>3. \A a, b \in 0..0 : a = b
        OBVIOUS
    <2> QED BY <2>1, <2>2, <2>3 DEF Walk, Hops
<1>6. queue \in Seq(Walk) /\ Len(queue) = N
    <2>1. queue \in [1..N -> Walk]
        BY <1>4, <1>5
    <2>2. queue \in Seq(Walk)
        BY <1>3, <2>1, SeqDef
    <2>3. DOMAIN queue = 1..N /\ DOMAIN queue = 1..Len(queue) /\ Len(queue) \in Nat
        BY <2>1, <2>2, LenProperties
    <2>4. Len(queue) = N
        BY <1>3, <2>3
    <2> QED BY <2>2, <2>4
<1>7. ASSUME NEW p \in Paths!AllPaths PROVE \E i \in 1..N : Begins(queue[i], p)
    <2>1. p \in Walk /\ p.root \in entries /\ Hops(p) \in Nat
        BY <1>1, AnswerPaths, WalkFacts
    <2>2. PICK i \in 1..N : pick(i) = p.root
        BY <1>3, <2>1
    <2> QED BY <1>5, <2>1, <2>2 DEF Begins
<1>8. \A i, j \in 1..N : i # j => ~Begins(queue[i], queue[j])
    BY <1>3, <1>5 DEF Begins
<1>9. found \in Seq(Walk) /\ Len(found) = 0
    BY <1>4, EmptySeq
<1>10. SearchGood(queue, found)
    BY <1>5, <1>6, <1>7, <1>8, <1>9 DEF SearchGood, PathsConstants
<1> QED BY <1>1, <1>10

PathsInv ==
    /\ GraphGood
    /\ answer \in {"none", "complete", "truncated", "refused"}
    /\ answer = "none" => SearchGood(queue, found)
    /\ Paths!AnswerIsExact

\* A list without repetition has as many members as entries.
LEMMA CountFound ==
    ASSUME PathsConstants, GraphGood, SearchGood(queue, found)
    PROVE  /\ Len(found) \in Nat /\ DOMAIN found = 1..Len(found)
           /\ IsFiniteSet({found[i] : i \in DOMAIN found})
           /\ Cardinality({found[i] : i \in DOMAIN found}) = Len(found)
<1> DEFINE R == {found[i] : i \in DOMAIN found}
           n == Len(found)
<1>1. found \in Seq(Walk) /\ \A i, j \in 1..n : i # j => found[i] # found[j]
    BY DEF SearchGood
<1>2. n \in Nat /\ DOMAIN found = 1..n /\ found \in [1..n -> Walk]
    BY <1>1, LenProperties
<1>3. found \in [1..n -> R]
    BY <1>2
<1> HIDE DEF n
<1>4. found \in Injection(1..n, R) /\ found \in Surjection(1..n, R)
    <2>1. \A x \in R : \E i \in 1..n : found[i] = x
        BY <1>2
    <2> HIDE DEF R
    <2> QED BY <1>1, <1>3, <2>1 DEF Injection, IsInjective, Surjection
<1> HIDE DEF R
<1>5. found \in Bijection(1..n, R)
    BY <1>4 DEF Bijection
<1>6. ExistsBijection(1..n, R)
    BY <1>5 DEF ExistsBijection
<1>7. IsFiniteSet(1..n) /\ Cardinality(1..n) = n
    BY <1>2, FS_Interval
<1>8. IsFiniteSet(R) /\ Cardinality(R) = n
    BY <1>6, <1>7, FS_Bijection
<1> QED BY <1>2, <1>8 DEF R, n

LEMMA PathsInit == ASSUME PathsConstants, Paths!Init PROVE PathsInv
<1>1. GraphGood /\ SearchGood(queue, found) /\ answer = "none"
    BY SearchStarts DEF Paths!Init
<1> QED BY <1>1 DEF PathsInv, Paths!AnswerIsExact

LEMMA PathsNext == ASSUME PathsConstants, PathsInv, [Paths!Next]_pathsVars PROVE PathsInv'
<1>1. CASE UNCHANGED pathsVars
    <2> SUFFICES ASSUME UNCHANGED <<edge, entries, queue, found, expansions, answer>>
                 PROVE  PathsInv'
        BY <1>1 DEF pathsVars
    <2>1. Walk' = Walk /\ Paths!AllPaths' = Paths!AllPaths
        BY DEF Walk, At, Paths!AllPaths, Paths!SimplePath
    <2> QED BY <2>1 DEF PathsInv, GraphGood, SearchGood, Paths!AnswerIsExact
<1> SUFFICES ASSUME Paths!Next PROVE PathsInv'
    BY <1>1
<1>2. edge' = edge /\ entries' = entries /\ answer = "none"
    BY DEF Paths!Next, Paths!Arrives, Paths!Exhausts, Paths!Extends, Paths!Completes,
       Paths!Continue, Paths!Searching
<1>3. /\ Walk' = Walk /\ Paths!AllPaths' = Paths!AllPaths /\ GraphGood'
      /\ GraphGood /\ SearchGood(queue, found)
    BY <1>2 DEF Walk, At, Paths!AllPaths, Paths!SimplePath, PathsInv, GraphGood
<1>4. SearchGood(queue', found') => SearchGood(queue, found)'
    BY <1>3 DEF SearchGood
<1>5. ASSUME answer' = "none", SearchGood(queue', found') PROVE PathsInv'
    BY <1>3, <1>4, <1>5 DEF PathsInv, Paths!AnswerIsExact
<1>6. /\ Len(found) \in Nat /\ DOMAIN found = 1..Len(found)
      /\ IsFiniteSet({found[i] : i \in DOMAIN found})
      /\ Cardinality({found[i] : i \in DOMAIN found}) = Len(found)
      /\ {found[i] : i \in DOMAIN found} \subseteq Paths!AllPaths
      /\ IsFiniteSet(Paths!AllPaths)
    <2>1. {found[i] : i \in DOMAIN found} \subseteq Paths!AllPaths
        BY <1>3, CountFound DEF SearchGood
    <2> QED BY <1>3, <2>1, CountFound, AnswerFinite
<1> DEFINE R == {found[i] : i \in DOMAIN found}
<1>7. CASE Paths!Completes
    <2>1. queue = <<>> /\ answer' = "complete" /\ found' = found
        BY <1>7 DEF Paths!Completes
    <2>2. Paths!AllPaths \subseteq R
        <3>1. Len(queue) = 0
            BY <2>1
        <3> QED BY <1>3, <1>6, <3>1 DEF SearchGood
    <2>3. Paths!AnswerIsExact'
        BY <1>3, <1>6, <2>1, <2>2, PathsCardinality DEF Paths!AnswerIsExact
    <2> QED BY <1>3, <2>1, <2>3 DEF PathsInv
<1>8. CASE Paths!Exhausts
    <2>1. /\ queue # <<>> /\ Paths!End(Head(queue)) # Paths!Target
          /\ Hops(Head(queue)) >= MaxHops
          /\ queue' = Tail(queue) /\ found' = found /\ answer' = "none"
        BY <1>2, <1>8 DEF Paths!Exhausts, Paths!Searching, Paths!Continue, Hops
    <2>2. ASSUME NEW p \in Paths!AllPaths, Begins(Head(queue), p) PROVE FALSE
        <3>1. Head(queue) \in Walk
            BY <1>3, <2>1, QueueFacts DEF SearchGood
        <3>2. p \in Walk /\ Hops(p) \in 1..MaxHops /\ At(p, Hops(p)) = Paths!Target
            BY <1>3, AnswerPaths
        <3>3. Hops(p) = Hops(Head(queue))
            BY <1>3, <2>1, <2>2, <3>1, <3>2, WalkFacts DEF Begins, PathsConstants
        <3>4. p = Head(queue)
            BY <1>3, <2>2, <3>1, <3>2, <3>3, BeginsEqual
        <3> QED BY <1>3, <2>1, <3>1, <3>2, <3>4, WalkFacts
    <2>3. SearchGood(queue', found')
        BY <1>3, <2>1, <2>2, SearchDrops
    <2> QED BY <1>5, <2>1, <2>3
<1>9. CASE Paths!Extends
    <2> DEFINE new == Paths!Extensions(Head(queue))
    <2>1. /\ queue # <<>> /\ Paths!End(Head(queue)) # Paths!Target
          /\ Hops(Head(queue)) < MaxHops /\ found' = found
          /\ \/ queue' = Tail(queue) \o new /\ answer' = "none"
             \/ queue' = queue /\ answer' = "refused"
        BY <1>2, <1>9 DEF Paths!Extends, Paths!Searching, Paths!Continue, Hops
    <2>2. CASE queue' = Tail(queue) \o new /\ answer' = "none"
        BY <1>3, <1>5, <2>1, <2>2, SearchExtends
    <2>3. CASE queue' = queue /\ answer' = "refused"
        <3>1. Paths!AnswerIsExact'
            BY <1>6, <2>1, <2>3, PathsCardinality DEF Paths!AnswerIsExact
        <3> QED BY <1>3, <2>3, <3>1 DEF PathsInv
    <2> QED BY <2>1, <2>2, <2>3
<1>10. CASE Paths!Arrives
    <2> DEFINE h == Head(queue)
    <2>1. queue # <<>> /\ Paths!End(h) = Paths!Target
        BY <1>10 DEF Paths!Arrives, Paths!Searching
    <2>2. /\ h \in Walk /\ h = queue[1] /\ 1 \in 1..Len(queue) /\ Hops(h) <= MaxHops
          /\ At(h, Hops(h)) = Paths!Target /\ Hops(h) \in Nat
          /\ (h.edges = <<>>) <=> (Hops(h) = 0)
        BY <1>3, <2>1, QueueFacts, WalkFacts DEF SearchGood
    <2>3. Len(found) <= MaxPaths /\ found \in Seq(Walk)
        BY <1>3 DEF SearchGood
    <2>4. CASE h.edges = <<>>
        <3>1. queue' = Tail(queue) /\ found' = found /\ answer' = "none"
            BY <1>2, <1>6, <1>10, <2>3, <2>4
               DEF Paths!Arrives, Paths!TooMany, Paths!Continue, PathsConstants
        <3>2. ASSUME NEW p \in Paths!AllPaths, Begins(h, p) PROVE FALSE
            <4>1. p \in Walk /\ Hops(p) \in 1..MaxHops /\ At(p, Hops(p)) = Paths!Target
                BY <1>3, AnswerPaths
            <4>2. p.root = h.root /\ At(p, 0) = p.root /\ At(h, 0) = h.root /\ Hops(h) = 0
                BY <2>2, <2>4, <3>2 DEF Begins, At
            <4>3. 0 \in 0..Hops(p) /\ Hops(p) \in 0..Hops(p) /\ Hops(p) # 0
                BY <4>1
            <4>4. At(p, 0) # At(p, Hops(p))
                BY <1>3, <4>1, <4>3, WalkFacts
            <4> QED BY <2>2, <4>1, <4>2, <4>4
        <3>3. SearchGood(queue', found')
            BY <1>3, <2>1, <3>1, <3>2, SearchDrops
        <3> QED BY <1>5, <3>1, <3>3
    <2>5. CASE h.edges # <<>>
        <3> DEFINE paths == Append(found, h)
        <3>1. h \in Paths!AllPaths
            BY <1>3, <2>2, <2>5, AnswerPaths DEF PathsConstants
        <3>2. Len(paths) = Len(found) + 1 /\ \A i \in 1..Len(found) : paths[i] = found[i]
            BY <2>2, <2>3, AppendProperties
        <3>3. CASE Len(found) + 1 <= MaxPaths
            <4>1. queue' = Tail(queue) /\ found' = paths /\ answer' = "none"
                BY <1>2, <1>6, <1>10, <2>5, <3>2, <3>3
                   DEF Paths!Arrives, Paths!TooMany, Paths!Continue, PathsConstants
            <4> QED BY <1>3, <1>5, <2>1, <3>1, <3>3, <4>1, SearchFinds
        <3>4. CASE ~(Len(found) + 1 <= MaxPaths)
            <4>1. Len(found) = MaxPaths /\ MaxPaths \in Nat
                <5>1. Len(found) \in Nat /\ MaxPaths \in Nat /\ Len(found) <= MaxPaths
                    BY <1>6, <2>3 DEF PathsConstants
                <5> QED BY <3>4, <5>1
            <4>2. found' = SubSeq(paths, 1, MaxPaths) /\ answer' = "truncated"
                BY <1>10, <2>5, <3>2, <4>1 DEF Paths!Arrives, Paths!TooMany, Paths!Continue
            <4>3. found' = found
                <5>1. \A i \in 1..MaxPaths : paths[i] \in Walk
                    BY <2>3, <3>2, <4>1, ElementOfSeq
                <5>2. /\ SubSeq(paths, 1, MaxPaths) \in Seq(Walk)
                      /\ Len(SubSeq(paths, 1, MaxPaths)) = MaxPaths
                      /\ \A i \in 1..MaxPaths : SubSeq(paths, 1, MaxPaths)[i] = paths[i]
                    <6> HIDE DEF paths
                    <6>1. /\ SubSeq(paths, 1, MaxPaths) \in Seq(Walk)
                          /\ Len(SubSeq(paths, 1, MaxPaths))
                                 = IF 1 <= MaxPaths THEN MaxPaths - 1 + 1 ELSE 0
                          /\ \A i \in 1..(MaxPaths - 1 + 1) :
                                SubSeq(paths, 1, MaxPaths)[i] = paths[1 + i - 1]
                        BY <4>1, <5>1, SubSeqProperties
                    <6>2. \A i \in 1..MaxPaths : i \in 1..(MaxPaths - 1 + 1) /\ 1 + i - 1 = i
                        BY <4>1
                    <6> QED BY <4>1, <6>1, <6>2
                <5> QED BY <2>3, <3>2, <4>1, <4>2, <5>2, SeqEqual
            <4>4. \A i \in 1..Len(queue) : queue[i] \in Walk /\ Hops(queue[i]) \in Nat
                BY <1>3, ElementOfSeq, WalkFacts DEF SearchGood
            <4>5. h \notin R
                <5>1. Begins(h, h)
                    BY <2>2 DEF Begins
                <5> QED BY <1>3, <1>6, <2>2, <5>1 DEF SearchGood
            <4>6. Cardinality(Paths!AllPaths) > MaxPaths
                <5>1. R \cup {h} \subseteq Paths!AllPaths
                    BY <1>6, <3>1
                <5>2. Cardinality(R \cup {h}) = Len(found) + 1
                    BY <1>6, <4>5, FS_AddElement
                <5>3. /\ Cardinality(R \cup {h}) <= Cardinality(Paths!AllPaths)
                      /\ Cardinality(Paths!AllPaths) \in Nat
                    BY <1>6, <5>1, FS_Subset, FS_CardinalityType
                <5> QED BY <4>1, <5>2, <5>3
            <4>7. ASSUME NEW p \in R, NEW x \in Paths!AllPaths \ R PROVE Hops(p) <= Hops(x)
                <5>1. PICK i \in 1..Len(found) : p = found[i]
                    BY <1>6
                <5>2. PICK j \in 1..Len(queue) : Begins(queue[j], x)
                    BY <1>3, <1>6 DEF SearchGood
                <5>3. Hops(p) <= Hops(queue[j]) /\ Hops(queue[j]) <= Hops(x)
                    BY <1>3, <5>1, <5>2 DEF SearchGood, Begins
                <5>4. Hops(p) \in Nat /\ Hops(queue[j]) \in Nat /\ Hops(x) \in Nat
                    BY <1>3, <1>6, <4>4, AnswerPaths, WalkFacts
                <5> QED BY <5>3, <5>4
            <4>8. Paths!AnswerIsExact'
                BY <1>3, <1>6, <4>1, <4>2, <4>3, <4>6, <4>7, PathsCardinality
                   DEF Paths!AnswerIsExact, Hops
            <4> QED BY <1>3, <4>2, <4>8 DEF PathsInv
        <3> QED BY <3>3, <3>4
    <2> QED BY <2>4, <2>5
<1> QED BY <1>7, <1>8, <1>9, <1>10 DEF Paths!Next

-----------------------------------------------------------------------------
(* The model budget.                                                       *)

HoldsLedger(p) == step[p] \in {"read", "truncated"}

\* The lock is held exactly by the process between its read and its close.
OneHolder == \A p \in Asker : HoldsLedger(p) <=> locked = {p}

\* What a count says is enough for every day that can still be reserved.
Counts(file) ==
    /\ file.day <= date
    /\ \A d \in Budget!Day \ emptied :
        /\ d = file.day => reserved[d] <= file.calls
        /\ d >= date /\ d # file.day => reserved[d] = 0

LedgerCounts == (\A p \in Asker : step[p] # "truncated") => Counts(ledger)

CopyCounts ==
    \A p \in Asker : HoldsLedger(p) => state[p].day \in Budget!Day /\ Counts(state[p])

Checked ==
    \A p \in Asker :
        step[p] = "truncated" => state[p].calls + 1 <= CallCap /\ ledger = Budget!EmptyFile

FutureFree == \A d \in Budget!Day : d > date => reserved[d] = 0

BudgetInv ==
    /\ Budget!TypeOK /\ OneHolder /\ LedgerCounts /\ CopyCounts /\ Checked
    /\ FutureFree /\ Budget!DayWithinCap

-----------------------------------------------------------------------------

LEMMA BudgetInit == ASSUME BudgetConstants, Budget!Init PROVE BudgetInv
<1>1. Budget!TypeOK
    BY DEF BudgetConstants, Budget!Init, Budget!TypeOK, Budget!Day, Budget!Step,
       Budget!NewState, Budget!EmptyFile, Budget!Nobody
<1>2. OneHolder
    BY DEF Budget!Init, OneHolder, HoldsLedger, Budget!Nobody
<1>3. LedgerCounts
    BY DEF BudgetConstants, Budget!Init, LedgerCounts, Counts, Budget!EmptyFile,
       Budget!NewState, Budget!Day
<1>4. CopyCounts /\ Checked /\ FutureFree /\ Budget!DayWithinCap
    BY DEF BudgetConstants, Budget!Init, CopyCounts, HoldsLedger, Checked, FutureFree,
       Budget!DayWithinCap, Budget!Day
<1> QED BY <1>1, <1>2, <1>3, <1>4 DEF BudgetInv

LEMMA BudgetNext == ASSUME BudgetConstants, BudgetInv, [Budget!Next]_budgetVars PROVE BudgetInv'
<1> USE DEF BudgetConstants
<1>1. CASE UNCHANGED budgetVars
    BY <1>1 DEF BudgetInv, Budget!TypeOK, OneHolder, HoldsLedger, LedgerCounts, CopyCounts,
       Counts, Checked,
       FutureFree, Budget!DayWithinCap, budgetVars
<1>2. CASE Budget!Midnight
    <2>1. Budget!TypeOK' /\ OneHolder' /\ Checked'
        BY <1>2 DEF Budget!Midnight, BudgetInv, Budget!TypeOK, OneHolder, HoldsLedger, Checked,
           Budget!Day
    <2>2. ASSUME NEW file, file.day \in Nat, Counts(file) PROVE Counts(file)'
        BY <1>2, <2>2 DEF Budget!Midnight, Counts, BudgetInv, Budget!TypeOK, Budget!Day,
           FutureFree
    <2>3. LedgerCounts'
        BY <1>2, <2>2 DEF Budget!Midnight, LedgerCounts, BudgetInv, Budget!TypeOK, Budget!Day,
           Counts
    <2>4. CopyCounts'
        BY <1>2, <2>2 DEF Budget!Midnight, CopyCounts, HoldsLedger, BudgetInv, Budget!TypeOK,
           Budget!Day, Counts
    <2>5. FutureFree' /\ Budget!DayWithinCap'
        BY <1>2 DEF Budget!Midnight, FutureFree, Budget!DayWithinCap, BudgetInv, Budget!TypeOK,
           Budget!Day
    <2> QED BY <2>1, <2>3, <2>4, <2>5 DEF BudgetInv
<1>3. ASSUME NEW p \in Asker, Budget!Ask(p) \/ Budget!Calls(p) PROVE BudgetInv'
    BY <1>3 DEF Budget!Ask, Budget!Calls, Budget!Moves, BudgetInv, Budget!TypeOK, OneHolder,
       HoldsLedger, LedgerCounts, CopyCounts,
       Counts, Checked, FutureFree, Budget!DayWithinCap, Budget!Step
<1>4. ASSUME NEW p \in Asker, Budget!Reads(p) PROVE BudgetInv'
    <2>1. \A q \in Asker : ~HoldsLedger(q)
        BY <1>4 DEF Budget!Reads, Budget!LockFree, Budget!Nobody, BudgetInv, OneHolder
    <2>2. Counts(ledger)
        BY <2>1 DEF HoldsLedger, BudgetInv, LedgerCounts
    <2>3. /\ Budget!StateFor(date) \in [day : Budget!Day, calls : 0..CallCap]
          /\ Counts(Budget!StateFor(date))
        <3>1. CASE ledger.day < date
            BY <2>2, <3>1 DEF Budget!StateFor, Budget!NewState, Counts, BudgetInv,
               Budget!TypeOK, Budget!Day
        <3>2. CASE ledger.day = date
            BY <2>2, <3>2 DEF Budget!StateFor, Counts, BudgetInv, Budget!TypeOK, Budget!Day
        <3> QED BY <1>4, <3>1, <3>2 DEF Budget!Reads, Budget!ValidFor, BudgetInv, Budget!TypeOK,
           Budget!Day
    <2>4. Budget!TypeOK'
        BY <1>4, <2>3 DEF Budget!Reads, Budget!Moves, BudgetInv, Budget!TypeOK, Budget!Step
    <2>5. OneHolder'
        BY <1>4, <2>1 DEF Budget!Reads, Budget!Moves, BudgetInv, Budget!TypeOK, OneHolder,
           HoldsLedger
    <2>6. LedgerCounts'
        BY <1>4, <2>2 DEF Budget!Reads, Budget!Moves, LedgerCounts, Counts
    <2>7. CopyCounts'
        BY <1>4, <2>1, <2>3 DEF Budget!Reads, Budget!Moves, BudgetInv, Budget!TypeOK,
           CopyCounts, HoldsLedger, Counts
    <2>8. Checked' /\ FutureFree' /\ Budget!DayWithinCap'
        BY <1>4 DEF Budget!Reads, Budget!Moves, BudgetInv, Budget!TypeOK, Checked, FutureFree,
           Budget!DayWithinCap
    <2> QED BY <2>4, <2>5, <2>6, <2>7, <2>8 DEF BudgetInv
<1>5. ASSUME NEW p \in Asker, Budget!Truncates(p) PROVE BudgetInv'
    <2>1. Budget!TypeOK'
        BY <1>5 DEF Budget!Truncates, Budget!Moves, BudgetInv, Budget!TypeOK, Budget!Step,
           Budget!EmptyFile, Budget!NewState, Budget!Day
    <2>2. OneHolder'
        BY <1>5 DEF Budget!Truncates, Budget!Moves, BudgetInv, Budget!TypeOK, OneHolder,
           HoldsLedger
    <2>3. LedgerCounts'
        BY <1>5 DEF Budget!Truncates, Budget!Moves, BudgetInv, Budget!TypeOK, LedgerCounts
    <2>4. CopyCounts'
        BY <1>5 DEF Budget!Truncates, Budget!Moves, BudgetInv, Budget!TypeOK, CopyCounts,
           HoldsLedger, Counts
    <2>5. Checked' /\ FutureFree' /\ Budget!DayWithinCap'
        BY <1>5 DEF Budget!Truncates, Budget!Moves, Budget!Affordable, BudgetInv, Budget!TypeOK,
           Checked, FutureFree, Budget!DayWithinCap
    <2> QED BY <2>1, <2>2, <2>3, <2>4, <2>5 DEF BudgetInv
<1>6. ASSUME NEW p \in Asker, Budget!Writes(p) PROVE BudgetInv'
    <2> DEFINE file == [state[p] EXCEPT !.calls = @ + 1]
    <2>1. /\ step[p] = "truncated" /\ locked = {p}
          /\ state[p] \in [day : Budget!Day, calls : 0..CallCap] /\ state[p].calls + 1 <= CallCap
          /\ Counts(state[p])
        BY <1>6 DEF Budget!Writes, Budget!Moves, BudgetInv, Budget!TypeOK, OneHolder,
           HoldsLedger, CopyCounts, Checked
    <2>2. \A q \in Asker : q # p => ~HoldsLedger(q)
        BY <2>1 DEF BudgetInv, OneHolder
    <2>3. file \in [day : Budget!Day, calls : 0..CallCap] /\ file.day = state[p].day
          /\ file.calls = state[p].calls + 1
        BY <2>1
    <2>4. Budget!TypeOK'
        BY <1>6, <2>1, <2>3 DEF Budget!Writes, Budget!Moves, BudgetInv, Budget!TypeOK,
           Budget!Step, Budget!Nobody
    <2>5. \A q \in Asker : ~HoldsLedger(q)'
        BY <1>6, <2>2 DEF Budget!Writes, Budget!Moves, BudgetInv, Budget!TypeOK, HoldsLedger
    <2>6. OneHolder'
        BY <1>6, <2>1, <2>5 DEF Budget!Writes, OneHolder
    <2>7. Counts(file)'
        BY <1>6, <2>1, <2>3 DEF Budget!Writes, Counts, BudgetInv, Budget!TypeOK, Budget!Day
    <2>8. LedgerCounts' /\ CopyCounts' /\ Checked'
        BY <1>6, <2>5, <2>7 DEF Budget!Writes, LedgerCounts, CopyCounts, Checked, Counts,
           HoldsLedger
    <2>9. FutureFree'
        BY <1>6, <2>1 DEF Budget!Writes, FutureFree, Counts, BudgetInv, Budget!TypeOK,
           Budget!Day
    <2>10. Budget!DayWithinCap'
        BY <1>6, <2>1 DEF Budget!Writes, Budget!DayWithinCap, Counts, BudgetInv, Budget!TypeOK,
           Budget!Day
    <2> QED BY <2>4, <2>6, <2>8, <2>9, <2>10 DEF BudgetInv
<1>7. ASSUME NEW p \in Asker, Budget!Exhausted(p) PROVE BudgetInv'
    <2>1. step[p] = "read" /\ locked = {p}
        BY <1>7 DEF Budget!Exhausted, Budget!Moves, BudgetInv, OneHolder, HoldsLedger
    <2>2. Budget!TypeOK'
        BY <1>7, <2>1 DEF Budget!Exhausted, Budget!Moves, BudgetInv, Budget!TypeOK, Budget!Step,
           Budget!Nobody
    <2>3. \A q \in Asker : ~HoldsLedger(q)'
        BY <1>7, <2>1 DEF Budget!Exhausted, Budget!Moves, BudgetInv, Budget!TypeOK, OneHolder,
           HoldsLedger
    <2>4. OneHolder'
        BY <1>7, <2>1, <2>3 DEF Budget!Exhausted, OneHolder
    <2>5. \A q \in Asker : step[q] # "truncated"
        BY <2>1 DEF BudgetInv, OneHolder, HoldsLedger
    <2>6. LedgerCounts' /\ CopyCounts' /\ Checked'
        BY <1>7, <2>3, <2>5 DEF Budget!Exhausted, BudgetInv, LedgerCounts, CopyCounts, Checked,
           Counts, HoldsLedger
    <2>7. FutureFree' /\ Budget!DayWithinCap'
        BY <1>7 DEF Budget!Exhausted, BudgetInv, FutureFree, Budget!DayWithinCap
    <2> QED BY <2>2, <2>4, <2>6, <2>7 DEF BudgetInv
<1>8. ASSUME NEW p \in Asker, Budget!Killed(p) PROVE BudgetInv'
    <2>1. step' = [step EXCEPT ![p] = "idle"] /\ locked' = locked \ {p}
          /\ UNCHANGED <<date, ledger, state, reserved>>
        BY <1>8 DEF Budget!Killed
    <2>2. emptied \subseteq emptied' /\ emptied' \subseteq Budget!Day
        BY <1>8 DEF Budget!Killed, BudgetInv, Budget!TypeOK, CopyCounts, HoldsLedger
    <2>3. Budget!TypeOK'
        BY <2>1, <2>2 DEF BudgetInv, Budget!TypeOK, Budget!Step, Budget!Nobody
    <2>4. OneHolder'
        <3>1. CASE HoldsLedger(p)
            BY <2>1, <3>1 DEF BudgetInv, Budget!TypeOK, OneHolder, HoldsLedger
        <3>2. CASE ~HoldsLedger(p)
            <4>1. p \notin locked
                BY <3>2 DEF BudgetInv, Budget!TypeOK, OneHolder, Budget!Nobody
            <4>2. locked' = locked
                BY <2>1, <4>1
            <4> QED BY <2>1, <3>2, <4>2 DEF BudgetInv, Budget!TypeOK, OneHolder, HoldsLedger
        <3> QED BY <3>1, <3>2
    <2>5. CopyCounts' /\ Checked' /\ FutureFree' /\ Budget!DayWithinCap'
        BY <2>1, <2>2 DEF BudgetInv, Budget!TypeOK, CopyCounts, HoldsLedger, Counts, Checked,
           FutureFree, Budget!DayWithinCap
    <2>6. LedgerCounts'
        <3>1. CASE step[p] = "truncated"
            <4>1. Counts(state[p]) /\ state[p].day \in Budget!Day
                BY <3>1 DEF BudgetInv, CopyCounts, HoldsLedger
            <4>2. ledger'.day = 0 /\ emptied' = emptied \cup {state[p].day}
                BY <1>8, <3>1 DEF Budget!Killed, BudgetInv, Checked, Budget!EmptyFile,
                   Budget!NewState
            <4> QED BY <2>1, <4>1, <4>2 DEF LedgerCounts, Counts, BudgetInv, Budget!TypeOK,
               Budget!Day
        <3>2. CASE step[p] # "truncated"
            BY <1>8, <2>1, <3>2 DEF Budget!Killed, BudgetInv, Budget!TypeOK, LedgerCounts,
               Counts
        <3> QED BY <3>1, <3>2
    <2> QED BY <2>3, <2>4, <2>5, <2>6 DEF BudgetInv
<1> QED BY <1>1, <1>2, <1>3, <1>4, <1>5, <1>6, <1>7, <1>8 DEF Budget!Next

-----------------------------------------------------------------------------
(* The labelling server.                                                   *)

OneThread == \A t, u \in lock : t = u

ReadIsFresh == \A t \in lock : handled[t] = store

LabelsInv == Labels!TypeOK /\ OneThread /\ ReadIsFresh

LEMMA LabelsInit == Labels!Init => LabelsInv
<1> SUFFICES ASSUME Labels!Init PROVE LabelsInv
    OBVIOUS
<1>1. store \in Labels!Store
    BY DEF Labels!Init, Labels!Store
<1>2. Labels!NoRequest \in [row : Row \cup {Labels!NoRow}, label : Labels!Label \cup {""}]
    BY DEF Labels!NoRequest
<1> QED BY <1>1, <1>2 DEF Labels!Init, LabelsInv, Labels!TypeOK, OneThread, ReadIsFresh

LEMMA LabelsNext == LabelsInv /\ [Labels!Next]_labelsVars => LabelsInv'
<1> SUFFICES ASSUME LabelsInv, [Labels!Next]_labelsVars PROVE LabelsInv'
    OBVIOUS
<1> USE DEF LabelsInv
<1>1. CASE UNCHANGED labelsVars
    BY <1>1 DEF labelsVars, Labels!TypeOK, OneThread, ReadIsFresh
<1>2. CASE Labels!Restarts
    BY <1>2 DEF Labels!Restarts, Labels!TypeOK, OneThread, ReadIsFresh, Labels!NoRequest,
       Labels!Label
<1>3. ASSUME NEW t \in Tab, Labels!Shows(t) PROVE LabelsInv'
    <2>1. PICK r \in Labels!Pending(store) \cup {Labels!NoRow} : shown' = [shown EXCEPT ![t] = r]
        BY <1>3 DEF Labels!Shows
    <2>2. r \in Row \cup {Labels!NoRow}
        BY DEF Labels!Pending
    <2> QED BY <1>3, <2>1, <2>2 DEF Labels!Shows, Labels!TypeOK, OneThread, ReadIsFresh
<1>4. ASSUME NEW t \in Tab, Labels!Decides(t) PROVE LabelsInv'
    <2>1. PICK label \in Labels!Label :
              request' = [request EXCEPT ![t] = [row |-> shown[t], label |-> label]]
        BY <1>4 DEF Labels!Decides
    <2>2. [row |-> shown[t], label |-> label]
              \in [row : Row \cup {Labels!NoRow}, label : Labels!Label \cup {""}]
        BY DEF Labels!TypeOK
    <2>3. request' \in [Tab -> [row : Row \cup {Labels!NoRow}, label : Labels!Label \cup {""}]]
        BY <2>1, <2>2 DEF Labels!TypeOK
    <2> QED BY <1>4, <2>3 DEF Labels!Decides, Labels!TypeOK, OneThread, ReadIsFresh
<1>5. ASSUME NEW t \in Tab, Labels!Reads(t) PROVE LabelsInv'
    BY <1>5 DEF Labels!Reads, Labels!LockFree, Labels!TypeOK, OneThread, ReadIsFresh
<1>6. ASSUME NEW t \in Tab, Labels!Writes(t) PROVE LabelsInv'
    <2>1. lock' = {}
        BY <1>6 DEF Labels!Writes, Labels!Answered, OneThread
    <2>2. request' = [request EXCEPT ![t] = Labels!NoRequest] /\ UNCHANGED <<shown, handled>>
        BY <1>6 DEF Labels!Writes, Labels!Answered
    <2>3. request' \in [Tab -> [row : Row \cup {Labels!NoRow}, label : Labels!Label \cup {""}]]
        BY <2>2 DEF Labels!TypeOK, Labels!NoRequest
    <2>4. store' \in Labels!Store
        BY <1>6 DEF Labels!Writes, Labels!TypeOK, Labels!Store
    <2> QED BY <2>1, <2>2, <2>3, <2>4 DEF Labels!TypeOK, OneThread, ReadIsFresh
<1>7. ASSUME NEW t \in Tab, Labels!Refuses(t) PROVE LabelsInv'
    <2>1. lock' = {}
        BY <1>7 DEF Labels!Refuses, Labels!Answered, OneThread
    <2>2. request' \in [Tab -> [row : Row \cup {Labels!NoRow}, label : Labels!Label \cup {""}]]
        BY <1>7 DEF Labels!Refuses, Labels!Answered, Labels!TypeOK, Labels!NoRequest
    <2> QED BY <1>7, <2>1, <2>2 DEF Labels!Refuses, Labels!Answered, Labels!TypeOK, OneThread,
       ReadIsFresh
<1> QED BY <1>1, <1>2, <1>3, <1>4, <1>5, <1>6, <1>7 DEF Labels!Next

LEMMA StepKeepsRulings == LabelsInv /\ [Labels!Next]_labelsVars => [Labels!RulingsKept]_labelsVars
<1> SUFFICES ASSUME LabelsInv, [Labels!Next]_labelsVars
             PROVE  Labels!RulingsKept \/ UNCHANGED labelsVars
    OBVIOUS
<1>1. CASE store' = store
    BY <1>1 DEF Labels!RulingsKept
<1>2. ASSUME NEW t \in Tab, Labels!Writes(t) PROVE Labels!RulingsKept
    <2>1. handled[t] = store /\ store \in [Row -> Labels!Label \cup {""}]
        BY <1>2 DEF Labels!Writes, LabelsInv, ReadIsFresh, Labels!TypeOK, Labels!Store
    <2>2. store[request[t].row] = "" /\ store' = [store EXCEPT ![request[t].row] = request[t].label]
        BY <1>2, <2>1 DEF Labels!Writes
    <2> QED BY <2>1, <2>2 DEF Labels!RulingsKept
<1> QED BY <1>1, <1>2 DEF Labels!Next, Labels!Restarts, Labels!Shows, Labels!Decides,
   Labels!Reads, Labels!Refuses, labelsVars

-----------------------------------------------------------------------------
(* The composition.                                                        *)

\* A step is a step of one part, and a stutter of the others.
LEMMA PartSteps ==
    ASSUME [SidecarsNext]_allVars
    PROVE  /\ part' = part
           /\ [Next]_vars /\ [Budget!Next]_budgetVars /\ [Labels!Next]_labelsVars
           /\ part = "lineage" => [Lineage!Next]_lineageVars
           /\ part = "replay" => [Replay!Next]_replayVars
           /\ part = "forecast" => [Forecast!Next]_forecastVars
           /\ part = "paths" => [Paths!Next]_pathsVars
<1>1. CASE UNCHANGED allVars
    BY <1>1 DEF allVars
<1>2. CASE SidecarsNext
    BY <1>2 DEF SidecarsNext
<1> QED BY <1>1, <1>2

(* A behaviour of the seven parts is, seen from the event ledger, one of   *)
(* the ledger alone: what EventLedgerProofs proves holds here.             *)
THEOREM SidecarsKeepLedger ==
    SidecarsSpec => []PublicIsArchived /\ []NothingLaundered /\ BuiltOnCleanHistory
<1>1. SidecarsInit => Init
    BY DEF SidecarsInit
<1>2. [SidecarsNext]_allVars => [Next]_vars
    BY PartSteps
<1>3. SidecarsSpec => Spec
    BY <1>1, <1>2, PTL DEF SidecarsSpec, Spec
<1> QED BY <1>3, PublicStaysArchived, NothingIsLaundered, BuildsOnCleanHistory

(* event_semantic_lineage.py: whatever records, operations and times, an   *)
(* archive that validation accepts can be replayed at every cutoff.        *)
THEOREM ArchivesReplay == SidecarsSpec => []ReplayAnswers
<1> DEFINE I == part = "lineage" => LineageInv
<1>1. SidecarsInit => I
    BY LineageAssumption, LineageInit DEF SidecarsInit
<1>2. I /\ [SidecarsNext]_allVars => I'
    BY PartSteps, LineageAssumption, LineageNext
<1>3. I => ReplayAnswers
    BY LineageAssumption, LineageAnswers DEF ReplayAnswers
<1> QED BY <1>1, <1>2, <1>3, PTL DEF SidecarsSpec

(* event_semantic_lineage.py: in lineages of any length and any mix of     *)
(* supersessions, merges and splits, on any days, one version of a record  *)
(* is active, if the base the operations are laid over is in order where   *)
(* none of them decides and every link of a record of theirs is one.       *)
THEOREM OneActiveVersion == SidecarsSpec => []OneVersionActive
<1> DEFINE I == part = "lineage" => LineageInv
<1>1. SidecarsInit => I
    BY LineageAssumption, LineageInit DEF SidecarsInit
<1>2. I /\ [SidecarsNext]_allVars => I'
    BY PartSteps, LineageAssumption, LineageNext
<1>3. I => OneVersionActive
    BY LineageAssumption, LineageOneActive DEF OneVersionActive
<1> QED BY <1>1, <1>2, <1>3, PTL DEF SidecarsSpec

(* event_ledger_extension.py: for chains of corrections of any length, one *)
(* version of an event is in force on every valid day.                     *)
THEOREM OneInForceAlways == SidecarsSpec => []OneVersionInForce
<1> DEFINE I == part = "replay" => ReplayInv
<1>1. SidecarsInit => I
    BY ReplayAssumption, ReplayInit DEF SidecarsInit
<1>2. I /\ [SidecarsNext]_allVars => I'
    BY PartSteps, ReplayAssumption, ReplayNext
<1>3. I => OneVersionInForce
    BY ReplayAssumption, ReplayOneInForce DEF OneVersionInForce
<1> QED BY <1>1, <1>2, <1>3, PTL DEF SidecarsSpec

(* knowledge_replay.py: however a ledger grows, what a cutoff of the past  *)
(* answers changes only to a release whose receipt it had and that is      *)
(* indexed late.                                                           *)
THEOREM PastAnswersStay == SidecarsSpec => AnswersStay
<1> DEFINE I == part = "replay" => ReplayInv
<1>1. SidecarsInit => I
    BY ReplayAssumption, ReplayInit DEF SidecarsInit
<1>2. I /\ [SidecarsNext]_allVars => I'
    BY PartSteps, ReplayAssumption, ReplayNext
<1>3. I /\ [SidecarsNext]_allVars => [part = "replay" => Replay!AnswersKept]_allVars
    BY PartSteps, ReplayAssumption, ReplayKeepsAnswers
<1> QED BY <1>1, <1>2, <1>3, PTL DEF SidecarsSpec, AnswersStay

(* forecasts.py: for any horizon, tolerance, gaps and interleaving of      *)
(* runs, a grade is the one its whole window gives.                        *)
THEOREM GradesAreFinal == SidecarsSpec => []GradesCoverTheWindow
<1> DEFINE I == part = "forecast" => ForecastInv
<1>1. SidecarsInit => I
    BY ForecastAssumption, ForecastInit DEF SidecarsInit
<1>2. I /\ [SidecarsNext]_allVars => I'
    BY PartSteps, ForecastAssumption, ForecastNext
<1>3. I => GradesCoverTheWindow
    BY ForecastAssumption, ForecastGrades DEF GradesCoverTheWindow
<1> QED BY <1>1, <1>2, <1>3, PTL DEF SidecarsSpec

(* forecasts.py: whatever runs overlap and rebase, a forecast on main      *)
(* keeps its day and its inputs, and a graded one its grade.               *)
THEOREM ForecastsNeverRevised == SidecarsSpec => ForecastsStand
<1> DEFINE I == part = "forecast" => ForecastInv
<1>1. SidecarsInit => I
    BY ForecastAssumption, ForecastInit DEF SidecarsInit
<1>2. I /\ [SidecarsNext]_allVars => I'
    BY PartSteps, ForecastAssumption, ForecastNext
<1>3. I /\ [SidecarsNext]_allVars => [part = "forecast" => Forecast!ForecastsKept]_allVars
    BY PartSteps, ForecastAssumption, ForecastNext
<1> QED BY <1>1, <1>2, <1>3, PTL DEF SidecarsSpec, ForecastsStand

(* exposure_graph.py: for any graph and any bounds, an answer marked       *)
(* complete has every simple path to the target once, and a truncated one  *)
(* as many of the shortest as were asked for.                              *)
THEOREM AnswersAreExact == SidecarsSpec => []AnswerIsExact
<1> DEFINE I == part = "paths" => PathsInv
<1>1. SidecarsInit => I
    BY PathsAssumption, PathsInit DEF SidecarsInit
<1>2. I /\ [SidecarsNext]_allVars => I'
    BY PartSteps, PathsAssumption, PathsNext
<1>3. I => AnswerIsExact
    BY DEF PathsInv, AnswerIsExact
<1> QED BY <1>1, <1>2, <1>3, PTL DEF SidecarsSpec

(* assistant_router.py: however many processes overlap, midnight falls and *)
(* kills strike, a day whose ledger was not emptied stays within its cap.  *)
THEOREM CapHolds == SidecarsSpec => []DayWithinCap
<1>1. SidecarsInit => BudgetInv
    BY BudgetAssumption, BudgetInit DEF SidecarsInit
<1>2. BudgetInv /\ [SidecarsNext]_allVars => BudgetInv'
    BY PartSteps, BudgetAssumption, BudgetNext
<1>3. BudgetInv => DayWithinCap
    BY DEF BudgetInv, DayWithinCap
<1> QED BY <1>1, <1>2, <1>3, PTL DEF SidecarsSpec

(* assistant_router.py, label_session.py: the ledger of calls, its copies, *)
(* the label queue and what each tab holds stay in their domains, for any  *)
(* processes, cap, rows and tabs.                                          *)
THEOREM BudgetAndLabelTypes == SidecarsSpec => [](Budget!TypeOK /\ Labels!TypeOK)
<1>1. SidecarsInit => BudgetInv /\ LabelsInv
    BY BudgetAssumption, BudgetInit, LabelsInit DEF SidecarsInit
<1>2. BudgetInv /\ LabelsInv /\ [SidecarsNext]_allVars => BudgetInv' /\ LabelsInv'
    BY PartSteps, BudgetAssumption, BudgetNext, LabelsNext
<1>3. BudgetInv /\ LabelsInv => Budget!TypeOK /\ Labels!TypeOK
    BY DEF BudgetInv, LabelsInv
<1> QED BY <1>1, <1>2, <1>3, PTL DEF SidecarsSpec

(* "refuses to overwrite an existing ruling" (label_session.py): for any   *)
(* number of rows and tabs, no step changes or drops a ruling.             *)
THEOREM NoRulingLost == SidecarsSpec => RulingsStay
<1>1. SidecarsInit => LabelsInv
    BY LabelsInit DEF SidecarsInit
<1>2. LabelsInv /\ [SidecarsNext]_allVars => LabelsInv'
    BY PartSteps, LabelsNext
<1>3. LabelsInv /\ [SidecarsNext]_allVars => [Labels!RulingsKept]_allVars
    <2> SUFFICES ASSUME LabelsInv, [SidecarsNext]_allVars PROVE Labels!RulingsKept
        OBVIOUS
    <2>1. Labels!RulingsKept \/ UNCHANGED labelsVars
        BY PartSteps, StepKeepsRulings
    <2> QED BY <2>1 DEF labelsVars, Labels!RulingsKept
<1> QED BY <1>1, <1>2, <1>3, PTL DEF SidecarsSpec, RulingsStay
=============================================================================
