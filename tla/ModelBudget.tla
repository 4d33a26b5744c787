---------------------------- MODULE ModelBudget ----------------------------
(***************************************************************************)
(* The daily cap on model calls (src/src/assistant_router.py): one process *)
(* per question reserves its worst case in a ledger file under an advisory *)
(* lock, then calls the planner once.  The ledger is read, truncated and   *)
(* rewritten; a process may be killed between any two of these.            *)
(*                                                                         *)
(* One tier: a call stands for its tokens.                                 *)
(***************************************************************************)
EXTENDS Naturals, FiniteSets

CONSTANTS
    Asker,         \* processes
    CallCap,       \* DAILY_MODEL_CALL_CAP
    LastDay        \* bound: the last UTC day

VARIABLES
    today,         \* the UTC date
    ledger,        \* what the file says
    locked,        \* who holds the lock
    step,          \* where each process is
    state,         \* what it read, already validated for its date
    reserved,      \* day -> calls its reservations have licensed
    emptied        \* days on which a kill left the file empty

vars == <<today, ledger, locked, step, state, reserved, emptied>>

Day == 1..LastDay
Step == {"idle", "preflight", "read", "truncated", "licensed"}
Nobody == {}

\* An empty file has no day.
NewState(day) == [day |-> day, calls |-> 0]
EmptyFile == NewState(0)

Init ==
    /\ today = 1
    /\ ledger = EmptyFile
    /\ locked = Nobody
    /\ step = [p \in Asker |-> "idle"]
    /\ state = [p \in Asker |-> EmptyFile]
    /\ reserved = [d \in Day |-> 0]
    /\ emptied = {}

Moves(p, from, to) == step[p] = from /\ step' = [step EXCEPT ![p] = to]

-----------------------------------------------------------------------------
(* One question.                                                           *)

\* The registered grammar refused it, and a planner and a budget are there.
Ask(p) ==
    /\ Moves(p, "idle", "preflight")
    /\ UNCHANGED <<today, ledger, locked, state, reserved, emptied>>

\* (Faulty variant: the ledger is read without the lock.)
Unlocked == TRUE

LockFree == locked = Nobody

\* _validate_state: an older ledger starts anew; a later one is refused.
ValidFor(day) == ledger.day <= day
StateFor(day) == IF ledger.day < day THEN NewState(day) ELSE ledger

Reads(p) ==
    /\ LockFree /\ ValidFor(today)
    /\ Moves(p, "preflight", "read")
    /\ locked' = {p}
    /\ state' = [state EXCEPT ![p] = StateFor(today)]
    /\ UNCHANGED <<today, ledger, reserved, emptied>>

Affordable(p) == state[p].calls + 1 <= CallCap

Truncates(p) ==
    /\ Affordable(p)
    /\ Moves(p, "read", "truncated")
    /\ ledger' = EmptyFile
    /\ UNCHANGED <<today, locked, state, reserved, emptied>>

\* flush and fsync; closing the file frees the lock.
Writes(p) ==
    /\ Moves(p, "truncated", "licensed")
    /\ ledger' = [state[p] EXCEPT !.calls = @ + 1]
    /\ locked' = locked \ {p}
    /\ reserved' = [reserved EXCEPT ![state[p].day] = @ + 1]
    /\ UNCHANGED <<today, state, emptied>>

\* The cap is reached: the question is refused.
Exhausted(p) ==
    /\ ~Affordable(p)
    /\ Moves(p, "read", "idle")
    /\ locked' = locked \ {p}
    /\ UNCHANGED <<today, ledger, state, reserved, emptied>>

\* The planner is called once; whatever it answers, the reservation stays.
Calls(p) ==
    /\ Moves(p, "licensed", "idle")
    /\ UNCHANGED <<today, ledger, locked, state, reserved, emptied>>

\* A kill frees the lock; between truncate and flush it leaves an empty file.
\* Bound: the file is emptied once per day.
Killed(p) ==
    /\ step[p] # "idle" /\ (step[p] = "truncated" => state[p].day \notin emptied)
    /\ step' = [step EXCEPT ![p] = "idle"]
    /\ locked' = locked \ {p}
    /\ emptied' = IF step[p] = "truncated" THEN emptied \cup {state[p].day} ELSE emptied
    /\ UNCHANGED <<today, ledger, state, reserved>>

Midnight ==
    /\ today < LastDay       \* bound: LastDay
    /\ today' = today + 1
    /\ UNCHANGED <<ledger, locked, step, state, reserved, emptied>>

Next ==
    \/ Midnight
    \/ \E p \in Asker :
        \/ Ask(p) \/ Reads(p) \/ Truncates(p) \/ Writes(p)
        \/ Exhausted(p) \/ Calls(p) \/ Killed(p)

Spec == Init /\ [][Next]_vars

-----------------------------------------------------------------------------
(* Properties.                                                             *)

TypeOK ==
    /\ today \in Day
    /\ ledger \in [day : Day \cup {0}, calls : 0..CallCap]
    /\ locked \in {Nobody} \cup {{p} : p \in Asker}
    /\ step \in [Asker -> Step]
    /\ state \in [Asker -> [day : Day \cup {0}, calls : 0..CallCap]]
    /\ reserved \in [Day -> Nat]
    /\ emptied \subseteq Day

(* "Reserve worst-case calls/tokens atomically; failures still consume     *)
(* budget": however processes overlap, midnight falls and kills strike,    *)
(* the calls licensed for a day stay within its cap, unless a kill between *)
(* truncate and flush made the ledger forget that day.                     *)
DayWithinCap ==
    \A d \in Day \ emptied : reserved[d] <= CallCap
=============================================================================
