--------------------------- MODULE SemanticLineage ---------------------------
(***************************************************************************)
(* The revision overlays of the event ledger: records that name the one    *)
(* they supersede (src/src/event_ledger_extension.py) and signed lineage   *)
(* operations over them (src/src/event_semantic_lineage.py).  A bundle is  *)
(* a growing archive of operations; a replay asks which records were       *)
(* active on a day, from what was known at a cutoff.                       *)
(*                                                                         *)
(* Records are of one kind and known from the start; signatures, rights    *)
(* and evidence of an operation are a publication that does not happen.    *)
(* A snapshot brings one operation, and the k-th is available at time k.   *)
(***************************************************************************)
EXTENDS Integers, Sequences, FiniteSets

CONSTANTS
    Records,          \* bound: records 1..Records
    LastDay,          \* bound: valid time
    MaxOperations     \* bound: operations in the archive

VARIABLES
    kind,             \* what the records are: events, or claims and episodes
    supersedes,       \* record -> the record its own bytes supersede, 0 if none
    start, end,       \* record -> the days it is effective; LastDay: no end
    operations        \* the archive, in order of publication

vars == <<kind, supersedes, start, end, operations>>

Record == 1..Records
Day == 1..LastDay
Cutoff == 1..MaxOperations

Ops(archive) == {archive[i] : i \in DOMAIN archive}

-----------------------------------------------------------------------------
(* The records' own revision links.                                        *)

Effective(r, day) == start[r] <= day /\ day <= end[r]

IntrinsicChildren(r) == {c \in Record : supersedes[c] = r}

\* _active_on: of the claims in the archive only an applicable successor
\* suppresses its predecessor, so that one that has expired brings it back.
ClaimsOn(day) ==
    LET applicable == {r \in Record : Effective(r, day)}
    IN  {r \in applicable : IntrinsicChildren(r) \cap applicable = {}}

\* What the base replay may return as effective on a day.  The events are those
\* that releases and corrections leave in force, the subject of KnowledgeReplay:
\* here any set.
Bases(day) ==
    IF kind = "claim" THEN {ClaimsOn(day)} ELSE SUBSET {r \in Record : Effective(r, day)}

-----------------------------------------------------------------------------
(* Validation of a bundle.                                                 *)

\* One to one supersedes, many to one merges, one to many splits.
TopologyValid(op) ==
    /\ op.predecessors # {} /\ op.successors # {}
    /\ op.predecessors \cap op.successors = {}
    /\ Cardinality(op.predecessors) = 1 \/ Cardinality(op.successors) = 1

Supersedes(op) == Cardinality(op.predecessors) = 1 /\ Cardinality(op.successors) = 1

\* A supersession repeats the records' own link; merges and splits have none.
IntrinsicLinksValid(op) ==
    IF Supersedes(op)
    THEN \A p \in op.predecessors : IntrinsicChildren(p) = op.successors
    ELSE /\ \A p \in op.predecessors : IntrinsicChildren(p) = {}
         /\ \A s \in op.successors : supersedes[s] = 0

LinksValid(op) == TopologyValid(op) /\ IntrinsicLinksValid(op)

\* A claim's valid time is the one its operation starts from.
OperationValid(op, available) ==
    /\ LinksValid(op)
    /\ op.known <= available
    /\ kind = "claim" => \A s \in op.successors : start[s] = op.valid

Consumes(later, earlier) == later.predecessors \cap earlier.successors # {}

\* (Faulty variant: only the knowledge times of a chain are compared.)
ChainKnownOrdered(ops) ==
    \A p, c \in ops : Consumes(c, p) => c.known >= p.known

ChainTimeValid(ops) ==
    \A p, c \in ops : Consumes(c, p) => c.known >= p.known /\ c.valid >= p.valid

Edges(ops) == UNION {op.predecessors \X op.successors : op \in ops}

\* No cycle: there are no records that each have an edge from one of them, so
\* that peeling off those without an incoming edge would leave them.
Acyclic(edges) ==
    ~ \E S \in (SUBSET Record) \ {{}} :
        \A n \in S : \E e \in edges : e[2] = n /\ e[1] \in S

\* No two operations end, or start, the same record.
Disjoint(a, b) ==
    /\ a.predecessors \cap b.predecessors = {}
    /\ a.successors \cap b.successors = {}

GraphValid(ops) ==
    /\ \A a, b \in ops : a # b => Disjoint(a, b)
    /\ ChainTimeValid(ops)
    /\ Acyclic(Edges(ops))

-----------------------------------------------------------------------------
(* Replay.                                                                 *)

\* The temporal key breaks ties among operations whose producers are done.
Before(a, b) ==
    \/ a.known < b.known
    \/ a.known = b.known /\ a.valid < b.valid
    \/ a.known = b.known /\ a.valid = b.valid /\ a.id < b.id

Ready(pending) == {op \in pending : \A p \in pending : ~Consumes(op, p)}

Applicable(op, cutoff, day) == op.known <= cutoff /\ op.valid <= day

First(pending) ==
    CHOOSE op \in Ready(pending) : \A other \in Ready(pending) : other = op \/ Before(op, other)

\* One operation more, producers before consumers.  A cycle refuses, and so does
\* a consumer whose producer was not applied.
Apply(ops, state, query) ==
    LET op == First(state.pending)
    IN  IF state.refused \/ Ready(state.pending) = {} THEN [state EXCEPT !.refused = TRUE]
        ELSE IF ~Applicable(op, query.cutoff, query.day)
             THEN [state EXCEPT !.pending = @ \ {op}]
        ELSE IF \E p \in ops \ state.applied : Consumes(op, p)
             THEN [state EXCEPT !.refused = TRUE]
        ELSE [pending |-> state.pending \ {op},
              applied |-> state.applied \cup {op},
              active  |-> (state.active \ op.predecessors)
                              \cup {s \in op.successors : Effective(s, query.day)},
              refused |-> FALSE]

Applied(ops, active, query) ==
    LET after[n \in 0..Cardinality(ops)] ==
            IF n = 0
            THEN [pending |-> ops, applied |-> {}, active |-> active, refused |-> FALSE]
            ELSE Apply(ops, after[n - 1], query)
    IN  after[Cardinality(ops)]

Successors(ops) == UNION {op.successors : op \in ops}
Predecessors(ops) == UNION {op.predecessors : op \in ops}

\* (Faulty variant: the successors of an operation that is not in scope stay.)
OverlaidShown(base, ops, day) ==
    base
        \cup {p \in Predecessors(ops) \ Successors(ops) : Effective(p, day)}

\* Before an operation is in scope its successors are hidden and its
\* predecessors remain.
Overlaid(base, ops, day) ==
    (base \ Successors(ops))
        \cup {p \in Predecessors(ops) \ Successors(ops) : Effective(p, day)}

\* The snapshot of the latest receipt at or before the cutoff.
Selected(cutoff) ==
    {operations[i] : i \in {i \in DOMAIN operations : i <= cutoff}}

Replay(base, cutoff, day) ==
    LET ops == Selected(cutoff)
    IN  Applied(ops, Overlaid(base, ops, day), [cutoff |-> cutoff, day |-> day])

-----------------------------------------------------------------------------
\* A record is created after the one it supersedes; nothing forks.
Init ==
    /\ kind \in {"event", "claim"}
    /\ supersedes \in [Record -> 0..Records]
    /\ \A r \in Record : supersedes[r] < r
    /\ \A r, q \in Record : r # q /\ supersedes[r] # 0 => supersedes[r] # supersedes[q]
    /\ start \in [Record -> Day] /\ end \in [Record -> Day]
    /\ \A r \in Record : start[r] <= end[r]
    /\ operations = <<>>

\* validate_bundle accepts the archive with one more operation, available at
\* time k when it is the k-th.
Publish(op) ==
    /\ \A o \in Ops(operations) : o.id # op.id
    /\ OperationValid(op, Len(operations) + 1)
    /\ GraphValid(Ops(operations) \cup {op})
    /\ operations' = Append(operations, op)
    /\ UNCHANGED <<kind, supersedes, start, end>>

\* What an operation may link in this archive; Publish refuses the rest.
Ends ==
    {ends \in [predecessors : SUBSET Record, successors : SUBSET Record] :
        LinksValid(ends) /\ \A op \in Ops(operations) : Disjoint(op, ends)}

\* bound: ids ascend or descend with publication.
NewIds ==
    {id \in 1..MaxOperations : id \in {Len(operations) + 1, MaxOperations - Len(operations)}}

Next ==
    /\ Len(operations) < MaxOperations                    \* bound: MaxOperations
    /\ \E ends \in Ends :
          \E id \in NewIds, known \in Cutoff, valid \in Day :
             Publish([predecessors |-> ends.predecessors, successors |-> ends.successors,
                      id |-> id, known |-> known, valid |-> valid])

Spec == Init /\ [][Next]_vars

-----------------------------------------------------------------------------
(* Properties.                                                             *)

\* An earlier cutoff selects an archive that was there before, and is checked
\* in the state where it was all there was.
NewCutoff == {cutoff \in Cutoff : cutoff >= Len(operations)}

(* Validation leaves the replay nothing to refuse: in every archive it     *)
(* accepts, at every cutoff and day, no consumer is in scope before its    *)
(* producer.  What the base holds does not enter a refusal.                *)
ReplayAnswers ==
    \A cutoff \in NewCutoff, day \in Day : ~Replay(ClaimsOn(day), cutoff, day).refused

\* Every revision link that touches an operation is an operation itself.
LinksCovered(ops) ==
    \A r \in Record :
        supersedes[r] # 0 /\ {r, supersedes[r]} \cap (Successors(ops) \cup Predecessors(ops)) # {}
            => <<supersedes[r], r>> \in Edges(ops)

\* What edges lead to from r, and r.
Below(r, edges) ==
    {x \in Record : \A S \in SUBSET Record :
        r \in S /\ (\A e \in edges : e[1] \in S => e[2] \in S) => x \in S}

\* Of what is shown, nothing else is a later version of r.
OneVersion(r, shown, edges) == \A x \in shown : x # r => x \notin Below(r, edges)

Unlinked(ops) == Record \ (Successors(ops) \cup Predecessors(ops))

Revisions == {<<supersedes[r], r>> : r \in {r \in Record : supersedes[r] # 0}}

Lineage(ops) == Edges(ops) \cup Revisions

\* What the base has to bring where no operation decides.  Claims: a revision
\* starts no earlier than the version it supersedes, and has not expired on a
\* day that version still stands.  Events: one version of a lineage, as
\* KnowledgeReplay!OneVersionInForce has it for corrections made in order.
BaseInOrder(base, ops, day) ==
    IF kind = "claim"
    THEN \A r \in Unlinked(ops) : supersedes[r] # 0 =>
            /\ start[supersedes[r]] <= start[r]
            /\ end[r] < day => end[supersedes[r]] < day
    ELSE \A r \in base \cap Unlinked(ops) : OneVersion(r, base, Revisions)

(* An intermediate and a terminal version are never active together (what  *)
(* SPEC.md has the replay refuse for), in chains of any mix of operations  *)
(* and at any cutoff and day, whatever days their records end on, as long  *)
(* as the base is in order where no operation decides, and every revision  *)
(* link of an operation's record is an operation too.                      *)
OneVersionActive ==
    \A cutoff \in NewCutoff, day \in Day :
        LET ops == Selected(cutoff)
        IN  LinksCovered(ops) =>
              \A base \in Bases(day) :
                  BaseInOrder(base, ops, day) =>
                      LET active == Replay(base, cutoff, day).active
                      IN  \A r \in active : OneVersion(r, active, Lineage(ops))
=============================================================================
