--------------------------- MODULE OrderedBacklog ---------------------------
(***************************************************************************)
(* What the publication contract promises to a reader of main, one step    *)
(* per change of the public record: the published day only moves forward,  *)
(* one ordered target at a time, never to a day that has not closed, and   *)
(* every day it passes over keeps its published disclosure.                *)
(***************************************************************************)
EXTENDS BacklogOrder

VARIABLES
    today,         \* the UTC date
    latest,        \* the day docs/data/latest.json names on main
    published,     \* the days with a row in the store on main
    legacyBound,   \* the legacy day's verification receipt is on main
    ledger         \* data/raw/final_publication_refusals on main

vars == <<today, latest, published, legacyBound, ledger>>

\* t is the target of a run, which froze its contract day today or, as the
\* job caps are far below a day, at most one midnight ago.
Targeted(t) ==
    \E now \in {today, today - 1} : IsNextTarget(t, latest, legacyBound, ledger, now)

Init ==
    /\ today = 1
    /\ latest = LegacyDay
    /\ published = {LegacyDay}
    /\ legacyBound \in BOOLEAN
    /\ ledger = EmptyLedger

Tick ==
    /\ today <= MaxDay                                   \* bound: MaxDay
    /\ today' = today + 1
    /\ UNCHANGED <<latest, published, legacyBound, ledger>>

\* The verification commit adds the legacy receipt and nothing else.
BindLegacy ==
    /\ Targeted(LegacyDay)
    /\ legacyBound' = TRUE
    /\ UNCHANGED <<today, latest, published, ledger>>

PublishFinal(t) ==
    /\ Targeted(t)
    /\ t > latest
    /\ latest' = t
    /\ published' = published \cup {t}
    /\ UNCHANGED <<today, legacyBound, ledger>>

\* (Faulty variant: a refusal may name the day main already serves.)
PublishRefusalOfServed(t, code) ==
    /\ Targeted(t)
    /\ \E on \in {today, today - 1} : ledger' = Disclose(ledger, t, code, on)
    /\ UNCHANGED <<today, latest, published, legacyBound>>

PublishRefusal(t, code) ==
    /\ Targeted(t)
    /\ t > latest
    /\ \E on \in {today, today - 1} : ledger' = Disclose(ledger, t, code, on)
    /\ UNCHANGED <<today, latest, published, legacyBound>>

Next ==
    \/ Tick
    \/ BindLegacy
    \/ \E t \in Day : PublishFinal(t)
    \/ \E t \in Day, code \in ReasonCode : PublishRefusal(t, code)

Spec == Init /\ [][Next]_vars

-----------------------------------------------------------------------------
TypeOK ==
    /\ today \in 1..(MaxDay + 1)
    /\ latest \in Day
    /\ published \in SUBSET Day
    /\ legacyBound \in BOOLEAN
    /\ ledger \in Ledger

(* Every day up to the latest published one is published or carries a      *)
(* disclosure of its lost source; nothing later than it is published, and  *)
(* it has closed.                                                          *)
NoSilentHole ==
    /\ latest \in published
    /\ latest < today
    /\ \A d \in published : d <= latest
    /\ \A d \in Day : d < latest /\ d \notin published =>
            ledger[d].code = "source_acquisition_failed"

(* The disclosure of a day passed over is the day's record for good: its   *)
(* reason and first timestamp never change, and the day is never published *)
(* after all.                                                              *)
PassedDaysFrozen ==
    [][\A d \in Day : d <= latest =>
            /\ ledger'[d] = ledger[d]
            /\ d \in published' <=> d \in published]_vars
=============================================================================
