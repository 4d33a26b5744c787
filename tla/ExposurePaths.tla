--------------------------- MODULE ExposurePaths ---------------------------
(***************************************************************************)
(* The bounded traversal of the exposure graph (src/src/exposure_graph.py):*)
(* breadth first along the stored direction of the projected edges, from   *)
(* the entry entities of an event to one target, with three bounds: hops,  *)
(* returned paths and expansions.  A path is the sequence of its edges;    *)
(* two edges between the same entities are two paths.                      *)
(***************************************************************************)
EXTENDS Integers, Sequences, FiniteSets

CONSTANTS
    Entities,        \* bound: entities 1..Entities; the target is the last
    EdgeIds,         \* bound: edge records 1..EdgeIds
    MaxHops, MaxPaths, MaxExpansions

VARIABLES
    edge,            \* edge id -> record: ends, lifecycle state, effective on the day
    entries,         \* entry entities effective on the release's day
    queue,           \* paths to extend: entry and edges
    found,           \* paths to the target, in the order they were found
    expansions,
    answer           \* "none" while searching; "complete", "truncated" or "refused"

vars == <<edge, entries, queue, found, expansions, answer>>

Entity == 1..Entities
Target == Entities
Edge == [from : Entity, to : Entity, projected : BOOLEAN]

\* Roots in the order of their ids.
Ordered(S) ==
    CHOOSE s \in [1..Cardinality(S) -> S] : \A i, j \in DOMAIN s : i < j => s[i] < s[j]

Start(root) == [root |-> root, edges |-> <<>>]

Init ==
    /\ edge \in [1..EdgeIds -> Edge]
    /\ \A e \in 1..EdgeIds : edge[e].from # edge[e].to
    /\ entries \in SUBSET Entity
    /\ queue = [i \in 1..Cardinality(entries) |-> Start(Ordered(entries)[i])]
    /\ found = <<>> /\ expansions = 0 /\ answer = "none"

-----------------------------------------------------------------------------
(* One path.                                                               *)

End(path) ==
    IF path.edges = <<>> THEN path.root ELSE edge[path.edges[Len(path.edges)]].to

Visited(path) == {path.root} \cup {edge[path.edges[i]].to : i \in DOMAIN path.edges}

\* _projection_graph keeps the active edges in force, in the order of their ids.
Onward(path) ==
    {e \in 1..EdgeIds :
        edge[e].projected /\ edge[e].from = End(path) /\ edge[e].to \notin Visited(path)}

Extensions(path) ==
    [i \in 1..Cardinality(Onward(path)) |->
        [path EXCEPT !.edges = Append(@, Ordered(Onward(path))[i])]]

-----------------------------------------------------------------------------
(* _bounded_paths, one expansion at a time.                                *)

\* (Faulty variant: a full answer is reported truncated.)
TooManyAtLimit(paths) == Len(paths) >= MaxPaths

TooMany(paths) == Len(paths) > MaxPaths

Continue(q, f, a) ==
    /\ queue' = q /\ found' = f /\ answer' = a
    /\ expansions' = expansions + 1
    /\ UNCHANGED <<edge, entries>>

Searching == answer = "none" /\ queue # <<>>

\* The target ends a path; a target that is itself an entry is not a path.
Arrives ==
    LET path == Head(queue)
        paths == IF path.edges = <<>> THEN found ELSE Append(found, path)
    IN  /\ Searching /\ End(path) = Target
        /\ IF TooMany(paths)
           THEN Continue(queue, SubSeq(paths, 1, MaxPaths), "truncated")
           ELSE Continue(Tail(queue), paths, answer)

Exhausts ==
    /\ Searching /\ End(Head(queue)) # Target
    /\ Len(Head(queue).edges) >= MaxHops
    /\ Continue(Tail(queue), found, answer)

\* Room for every extension, within the expansions still to come.  It keeps
\* the check at the head of the loop from ever failing: what was expanded and
\* what is queued stay within MaxExpansions together.
Room(new) ==
    new # <<>> => expansions + 1 + Len(Tail(queue)) + Len(new) <= MaxExpansions

Extends ==
    LET new == Extensions(Head(queue))
    IN  /\ Searching /\ End(Head(queue)) # Target
        /\ Len(Head(queue).edges) < MaxHops
        /\ IF Room(new)
           THEN Continue(Tail(queue) \o new, found, answer)
           ELSE Continue(queue, found, "refused")

Completes ==
    /\ answer = "none" /\ queue = <<>>
    /\ answer' = "complete"
    /\ UNCHANGED <<edge, entries, queue, found, expansions>>

Next == Arrives \/ Exhausts \/ Extends \/ Completes

Spec == Init /\ [][Next]_vars

-----------------------------------------------------------------------------
(* Properties.                                                             *)

(* The paths a reader of the graph would list: chains of projected edges   *)
(* from an entry to the target, of at most MaxHops, that visit no entity   *)
(* twice.                                                                  *)
SimplePath(root, s) ==
    LET at(i) == IF i = 0 THEN root ELSE edge[s[i]].to
    IN  /\ \A i \in DOMAIN s : edge[s[i]].projected /\ edge[s[i]].from = at(i - 1)
        /\ \A i, j \in 0..Len(s) : i # j => at(i) # at(j)
        /\ at(Len(s)) = Target

AllPaths ==
    {p \in [root : entries, edges : UNION {[1..n -> 1..EdgeIds] : n \in 1..MaxHops}] :
        SimplePath(p.root, p.edges)}

(* The answer is every such path, once; or, marked truncated, as many of   *)
(* the shortest as were asked for, and there were more; or a refusal.      *)
AnswerIsExact ==
    LET returned == {found[i] : i \in DOMAIN found}
    IN  /\ answer # "none" => Cardinality(returned) = Len(found)
        /\ answer = "complete" => returned = AllPaths
        /\ answer = "truncated" =>
            /\ returned \subseteq AllPaths /\ Len(found) = MaxPaths
            /\ Cardinality(AllPaths) > MaxPaths
            /\ \A p \in returned, q \in AllPaths \ returned : Len(p.edges) <= Len(q.edges)
=============================================================================
