--------------------------- MODULE KnowledgeReplay ---------------------------
(***************************************************************************)
(* The signed knowledge ledger (src/src/knowledge_replay.py) and the event *)
(* corrections laid over it (src/src/event_ledger_extension.py).  A ledger *)
(* indexes complete releases, each with a separate receipt that says when  *)
(* it became available; a replay returns the release known at a cutoff,    *)
(* and on a valid day the versions the corrections put in force.           *)
(*                                                                         *)
(* Records are events; digests and signatures always match, so a record's  *)
(* bytes are its parent, revision and state.  A correction has one         *)
(* transition, and is found under its successor.                           *)
(***************************************************************************)
EXTENDS Integers, Sequences, FiniteSets

CONSTANTS
    Objects,        \* bound: object ids 1..Objects
    MaxReleases,    \* bound: releases in the ledger
    MaxTime,        \* bound: the clock of signers and queries
    LastValid       \* bound: valid days of corrections

VARIABLES
    time,           \* the signers' clock
    records,        \* id -> its bytes: parent, revision, withdrawn
    releases,       \* the ledger's entries
    closed          \* the ledger's created_at

vars == <<time, records, releases, closed>>

Id == 1..Objects
Time == 1..MaxTime
Valid == 1..LastValid

Record == [parent : Id \cup {0}, revision : 1..Objects, withdrawn : BOOLEAN]

\* _validate_lifecycle: a first revision, and only a first revision, has no parent.
LifecycleValid(id) ==
    /\ records[id].parent # id
    /\ (records[id].revision = 1) = (records[id].parent = 0)

Parent(id) == records[id].parent

-----------------------------------------------------------------------------
(* Validation of the history of complete releases.                         *)

SeenBefore(ledger, k) == UNION {ledger[i].objects : i \in 1..(k - 1)}

RevisionValid(ledger, k, id) ==
    records[id].revision > 1 =>
        /\ Parent(id) \in SeenBefore(ledger, k)
        /\ records[id].revision = records[Parent(id)].revision + 1
        /\ Parent(id) \notin ledger[k].objects

NoFork(ledger, k) ==
    \A a \in ledger[k].objects, b \in SeenBefore(ledger, k + 1) :
        a # b /\ Parent(a) # 0 => Parent(a) # Parent(b)

\* An object leaves only withdrawn, or for its successor.
RemovalsExplained(ledger, k) ==
    \A id \in ledger[k - 1].objects \ ledger[k].objects :
        \/ records[id].withdrawn
        \/ \E s \in ledger[k].objects : Parent(s) = id

ReleaseHistoryValid(ledger) ==
    \A k \in DOMAIN ledger :
        /\ \A id \in ledger[k].objects : LifecycleValid(id) /\ RevisionValid(ledger, k, id)
        /\ NoFork(ledger, k)
        /\ k > 1 => RemovalsExplained(ledger, k)

\* The receipts of load_ledger: one chain, in strictly increasing time, each
\* after its release was generated and before the ledger was closed.
ReceiptsValid(ledger, created) ==
    \A k \in DOMAIN ledger :
        /\ ledger[k].generated <= ledger[k].available
        /\ ledger[k].available <= created
        /\ k > 1 => /\ ledger[k].available > ledger[k - 1].available
                    /\ ledger[k].generated > ledger[k - 1].generated

\* The extension's archive only grows, and a transition repeats a record's link
\* to a parent the archive holds.
CorrectionsValid(ledger) ==
    \A k \in DOMAIN ledger : \A id \in Id :
        /\ ledger[k].corrected[id] # 0 =>
              /\ Parent(id) # 0
              /\ {id, Parent(id)} \subseteq SeenBefore(ledger, k + 1)
        /\ k > 1 /\ ledger[k - 1].corrected[id] # 0 =>
              ledger[k].corrected[id] = ledger[k - 1].corrected[id]

-----------------------------------------------------------------------------
(* Replay.                                                                 *)

\* (Faulty variant: the time a release was generated proves that it was known.)
EligibleGenerated(ledger, cutoff) == {k \in DOMAIN ledger : ledger[k].generated <= cutoff}

Eligible(ledger, cutoff) == {k \in DOMAIN ledger : ledger[k].available <= cutoff}

\* 0: refused, before the first receipt or after the close.
Selected(ledger, created, cutoff) ==
    IF cutoff > created \/ Eligible(ledger, cutoff) = {} THEN 0
    ELSE CHOOSE k \in Eligible(ledger, cutoff) :
            \A i \in Eligible(ledger, cutoff) : i <= k

Transitions(k) == {id \in Id : releases[k].corrected[id] # 0}

\* (Faulty variant: a correction that does not apply yet hides nothing.)
ExcludedPredecessors(k, day) ==
    {Parent(id) : id \in {id \in Transitions(k) : day >= releases[k].corrected[id]}}

\* A correction in force hides its predecessor, one to come its successor.
Excluded(k, day) ==
    {IF day >= releases[k].corrected[id] THEN Parent(id) ELSE id : id \in Transitions(k)}

\* _events_on.
EventsOn(k, day) ==
    (releases[k].objects \cup Transitions(k) \cup {Parent(id) : id \in Transitions(k)})
        \ Excluded(k, day)

-----------------------------------------------------------------------------
Init ==
    /\ time = 1 /\ closed = 1
    /\ records \in [Id -> Record]
    /\ \A id \in Id : Parent(id) < id /\ LifecycleValid(id)
    /\ releases = <<>>

\* A longer ledger is signed; one the validation refuses is never loaded.
Publish(objects, generated, available, corrections) ==
    LET ledger == Append(releases, [objects |-> objects, generated |-> generated,
                                    available |-> available, corrected |-> corrections])
    IN  /\ Len(releases) < MaxReleases                     \* bound: MaxReleases
        /\ ReceiptsValid(ledger, time)
        /\ ReleaseHistoryValid(ledger) /\ CorrectionsValid(ledger)
        /\ releases' = ledger /\ closed' = time
        /\ UNCHANGED <<time, records>>

Tick ==
    /\ time < MaxTime                                      \* bound: MaxTime
    /\ time' = time + 1
    /\ UNCHANGED <<records, releases, closed>>

\* The same entries, closed again.
Close == closed' = time /\ UNCHANGED <<time, records, releases>>

Next ==
    \/ Tick \/ Close
    \/ \E objects \in SUBSET Id, generated, available \in Time,
          corrections \in [Id -> Valid \cup {0}] :
          /\ \A id \in Id : corrections[id] # 0 => Parent(id) # 0
          /\ Publish(objects, generated, available, corrections)

Spec == Init /\ [][Next]_vars

-----------------------------------------------------------------------------
(* Properties.                                                             *)

\* A step indexes a release whose receipt is not later than the cutoff: the
\* loader does not compare two ledgers, and accepts it.
IndexedLate(cutoff) ==
    Len(releases') > Len(releases) /\ releases'[Len(releases')].available <= cutoff

AnswersKept ==
    \A cutoff \in 1..closed :
        Selected(releases', closed', cutoff) =
            IF IndexedLate(cutoff) THEN Len(releases') ELSE Selected(releases, closed, cutoff)

(* What a cutoff the ledger was closed for answers, a refusal included,    *)
(* changes only when a release of which it had the receipt is indexed      *)
(* late, and then to that release: releases are known from their receipt,  *)
(* neither from the day they were generated nor from the one they were     *)
(* indexed.                                                                *)
AnswersStay == [][AnswersKept]_vars

Root[id \in Id] == IF Parent(id) = 0 THEN id ELSE Root[Parent(id)]

Versions(k, root) == {id \in SeenBefore(releases, k + 1) : Root[id] = root}

\* A lineage of release k is in order when the release holds one version of it
\* and its revisions are corrections, in force one after the other.
InOrder(k, root) ==
    /\ Cardinality(Versions(k, root) \cap releases[k].objects) = 1
    /\ \A id \in Versions(k, root) : Parent(id) # 0 =>
          /\ id \in Transitions(k)
          /\ Parent(id) \in Transitions(k) =>
                releases[k].corrected[Parent(id)] <= releases[k].corrected[id]

InForce(k, root, day) == {id \in EventsOn(k, day) : Root[id] = root}

(* On every valid day, whatever was corrected with effect in the past or   *)
(* the future, exactly one version of an event is in force.                *)
OneVersionInForce ==
    \A k \in DOMAIN releases, root \in Id :
        InOrder(k, root) =>
            \A day \in 0..LastValid : Cardinality(InForce(k, root, day)) = 1
=============================================================================
