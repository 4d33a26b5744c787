-------------------------- MODULE AtomicPublication --------------------------
(***************************************************************************)
(* What publish_push.sh promises the workflow that calls it: a lane's work *)
(* is put on main whole, at the end and at most once; "pushed" is said of  *)
(* work that is there; and "the run's output is NOT on main" promises      *)
(* nothing, for the work may be there or may never come.                   *)
(***************************************************************************)
EXTENDS Sequences

CONSTANT Lanes

VARIABLES
    log,     \* who made each commit of main
    has,     \* whether a lane brought work: known once it has called
    told     \* what the script has answered it

vars == <<log, has, told>>

OnMain(l) == \E i \in DOMAIN log : log[i] = l

Init ==
    /\ log = <<"none">>
    /\ has = [l \in Lanes |-> "unknown"]
    /\ told = [l \in Lanes |-> "nothing"]

\* git commit finds changes, or none.
Calls(l) ==
    /\ has[l] = "unknown"
    /\ \E h \in {"work", "no work"} : has' = [has EXCEPT ![l] = h]
    /\ UNCHANGED <<log, told>>

\* The answer comes with the publication, or it does not come yet.
Publishes(l) ==
    /\ has[l] = "work" /\ told[l] = "nothing" /\ ~OnMain(l)
    /\ log' = Append(log, l)
    /\ \E answer \in {"nothing", "pushed", "failed"} : told' = [told EXCEPT ![l] = answer]
    /\ UNCHANGED has

Succeeds(l) ==
    /\ told[l] = "nothing"
    /\ has[l] = "no work" \/ (has[l] = "work" /\ OnMain(l))
    /\ told' = [told EXCEPT ![l] = "pushed"]
    /\ UNCHANGED <<log, has>>

Fails(l) ==
    /\ has[l] # "unknown" /\ told[l] = "nothing"
    /\ told' = [told EXCEPT ![l] = "failed"]
    /\ UNCHANGED <<log, has>>

DeveloperPublishes == log' = Append(log, "dev") /\ UNCHANGED <<has, told>>

Next ==
    \/ DeveloperPublishes
    \/ \E l \in Lanes : Calls(l) \/ Publishes(l) \/ Succeeds(l) \/ Fails(l)

Spec == Init /\ [][Next]_vars
=============================================================================
