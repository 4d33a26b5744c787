---------------------------- MODULE LabelSession ----------------------------
(***************************************************************************)
(* The labelling server (src/scripts/label_session.py): pages in several   *)
(* tabs post one ruling each to a threaded server, which reads the whole   *)
(* queue, sets one row's human_label and replaces the file, under one lock *)
(* of its process.  The store is replaced atomically; a stopped server     *)
(* loses what it had not yet replaced.                                     *)
(***************************************************************************)
EXTENDS Naturals

CONSTANTS Row, Tab

VARIABLES
    store,     \* row -> ruling, "" while unlabelled
    shown,     \* tab -> the row it shows, or none
    request,   \* tab -> the ruling it posted and the row it was for
    handled,   \* tab -> what its thread has read
    lock       \* tabs whose thread is inside the lock

vars == <<store, shown, request, handled, lock>>

Label == {"ON", "OFF", "ABSTAIN"}
Store == [Row -> Label \cup {""}]
NoRow == "none"
NoRequest == [row |-> NoRow, label |-> ""]

Pending(rows) == {r \in Row : rows[r] = ""}

Init ==
    /\ store = [r \in Row |-> ""]
    /\ shown = [t \in Tab |-> NoRow]
    /\ request = [t \in Tab |-> NoRequest]
    /\ handled = [t \in Tab |-> store]
    /\ lock = {}

-----------------------------------------------------------------------------
(* The page.                                                               *)

\* load: any row that is pending now, for positions are clamped to those.
Shows(t) ==
    /\ \E r \in Pending(store) \cup {NoRow} :
          /\ r = NoRow <=> Pending(store) = {}
          /\ shown' = [shown EXCEPT ![t] = r]
    /\ UNCHANGED <<store, request, handled, lock>>

\* One keypress, while no other of this page is under way.
Decides(t) ==
    /\ shown[t] # NoRow /\ request[t] = NoRequest
    /\ \E label \in Label :
          request' = [request EXCEPT ![t] = [row |-> shown[t], label |-> label]]
    /\ UNCHANGED <<store, shown, handled, lock>>

-----------------------------------------------------------------------------
(* A thread of the server.                                                 *)

\* (Faulty variant: no lock around the read and the write.)
LockIgnored == TRUE

LockFree == lock = {}

Reads(t) ==
    /\ request[t] # NoRequest /\ t \notin lock /\ LockFree
    /\ lock' = lock \cup {t}
    /\ handled' = [handled EXCEPT ![t] = store]
    /\ UNCHANGED <<store, shown, request>>

Answered(t) ==
    /\ request' = [request EXCEPT ![t] = NoRequest]
    /\ lock' = lock \ {t}
    /\ UNCHANGED <<shown, handled>>

\* The ruling of one row, in the file that was read.
Writes(t) ==
    /\ t \in lock /\ handled[t][request[t].row] = ""
    /\ store' = [handled[t] EXCEPT ![request[t].row] = request[t].label]
    /\ Answered(t)

\* AlreadyLabeledError: 409, and nothing is written.
Refuses(t) ==
    /\ t \in lock /\ handled[t][request[t].row] # ""
    /\ UNCHANGED store
    /\ Answered(t)

\* Ctrl-C and a new session: the tabs stay, their requests are gone.
Restarts ==
    /\ request' = [t \in Tab |-> NoRequest]
    /\ lock' = {}
    /\ UNCHANGED <<store, shown, handled>>

Next ==
    \/ Restarts
    \/ \E t \in Tab : Shows(t) \/ Decides(t) \/ Reads(t) \/ Writes(t) \/ Refuses(t)

Spec == Init /\ [][Next]_vars

-----------------------------------------------------------------------------
(* Properties.                                                             *)

TypeOK ==
    /\ store \in Store
    /\ shown \in [Tab -> Row \cup {NoRow}]
    /\ request \in [Tab -> [row : Row \cup {NoRow}, label : Label \cup {""}]]
    /\ handled \in [Tab -> Store]
    /\ lock \subseteq Tab

RulingsKept ==
    \A r \in Row : store[r] # "" => store'[r] = store[r]

(* "refuses to overwrite an existing ruling": with every row and ruling    *)
(* open in several tabs, no ruling is ever changed or lost.                *)
RulingsStay == [][RulingsKept]_vars
=============================================================================
