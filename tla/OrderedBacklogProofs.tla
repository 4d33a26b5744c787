------------------------ MODULE OrderedBacklogProofs ------------------------
(***************************************************************************)
(* The ordered backlog, proved for every calendar length MaxDay: the       *)
(* public record has no silent hole, and a day passed over stays as it was *)
(* disclosed.  The inductive invariant is TypeOK together with             *)
(* NoSilentHole; nothing has to be added, because a target is computed     *)
(* from the same record the step changes.                                  *)
(***************************************************************************)
EXTENDS OrderedBacklog, TLAPS

\* A target above the published day is a closed one, and every day between
\* the two carries its disclosure.
LEMMA TargetBridgesGap ==
    ASSUME NEW last \in Day, NEW bound \in BOOLEAN, NEW l \in Ledger,
           NEW now \in Int, NEW t \in Day,
           IsNextTarget(t, last, bound, l, now), t > last
    PROVE  t < now /\ PrefixGapDisclosed(l, last, t)
  BY MaxDayAssumption
     DEF IsNextTarget, Crossable, PrefixGapDisclosed, RequiredTarget, Day, LegacyDay

\* Two runs that read the same record on the same date have the same target.
LEMMA NextTargetUnique ==
    ASSUME NEW last \in Day, NEW bound \in BOOLEAN, NEW l \in Ledger,
           NEW now \in Int, NEW t \in Day, NEW u \in Day,
           IsNextTarget(t, last, bound, l, now),
           IsNextTarget(u, last, bound, l, now)
    PROVE  t = u
  BY MaxDayAssumption DEF IsNextTarget, Day, LegacyDay

\* record_pipeline_failed re-reads the pointer as of the target's own D-1
\* date: what was the target when the run froze its date is the target then.
LEMMA FrozenDayAgrees ==
    ASSUME NEW last \in Day, NEW bound \in BOOLEAN, NEW l \in Ledger,
           NEW now \in Int, NEW t \in Day, t > last,
           IsNextTarget(t, last, bound, l, now)
    PROVE  IsNextTarget(t, last, bound, l, t + 1)
  BY MaxDayAssumption
     DEF IsNextTarget, Crossable, RequiredTarget, Day, LegacyDay

LEMMA DiscloseType ==
    ASSUME NEW l \in Ledger, NEW t \in Day, NEW code \in ReasonCode, NEW on \in Nat
    PROVE  /\ Disclose(l, t, code, on) \in Ledger
           /\ \A d \in Day \ {t} : Disclose(l, t, code, on)[d] = l[d]
  BY DEF Disclose, Ledger, Entry

(* Type correctness. *)
THEOREM TypeCorrect == Spec => []TypeOK
<1>1. Init => TypeOK
  BY MaxDayAssumption
     DEF Init, TypeOK, Day, LegacyDay, Ledger, EmptyLedger, Entry, NoEntry
<1>2. TypeOK /\ [Next]_vars => TypeOK'
  <2> SUFFICES ASSUME TypeOK, [Next]_vars PROVE TypeOK'
    OBVIOUS
  <2>1. CASE Tick
    BY <2>1, MaxDayAssumption DEF Tick, TypeOK
  <2>2. CASE BindLegacy
    BY <2>2 DEF BindLegacy, TypeOK
  <2>3. ASSUME NEW t \in Day, PublishFinal(t) PROVE TypeOK'
    BY <2>3 DEF PublishFinal, TypeOK
  <2>4. ASSUME NEW t \in Day, NEW code \in ReasonCode, PublishRefusal(t, code)
        PROVE  TypeOK'
    <3>1. PICK on \in {today, today - 1} : ledger' = Disclose(ledger, t, code, on)
      BY <2>4 DEF PublishRefusal
    <3>2. on \in Nat
      BY MaxDayAssumption DEF TypeOK
    <3>3. ledger' \in Ledger
      BY <3>1, <3>2, DiscloseType DEF TypeOK
    <3> QED
      BY <2>4, <3>3 DEF PublishRefusal, TypeOK
  <2>5. CASE UNCHANGED vars
    BY <2>5 DEF vars, TypeOK
  <2> QED
    BY <2>1, <2>2, <2>3, <2>4, <2>5 DEF Next
<1> QED
  BY <1>1, <1>2, PTL DEF Spec

(* Every day up to the latest published one is published or carries a      *)
(* disclosure of its lost source.                                          *)
THEOREM NoHoleInRecord == Spec => []NoSilentHole
<1>1. Init => NoSilentHole
  BY DEF Init, NoSilentHole, Day, LegacyDay
<1>2. TypeOK /\ NoSilentHole /\ [Next]_vars => NoSilentHole'
  <2> SUFFICES ASSUME TypeOK, NoSilentHole, [Next]_vars PROVE NoSilentHole'
    OBVIOUS
  <2>1. CASE Tick
    BY <2>1 DEF Tick, NoSilentHole, TypeOK, Day
  <2>2. CASE BindLegacy
    BY <2>2 DEF BindLegacy, NoSilentHole
  <2>3. ASSUME NEW t \in Day, PublishFinal(t) PROVE NoSilentHole'
    <3>1. PICK now \in {today, today - 1} : IsNextTarget(t, latest, legacyBound, ledger, now)
      BY <2>3 DEF PublishFinal, Targeted
    <3>2. t < now /\ now <= today /\ PrefixGapDisclosed(ledger, latest, t)
      BY <2>3, <3>1, TargetBridgesGap DEF PublishFinal, TypeOK
    <3>3. latest' \in published' /\ latest' < today'
      BY <2>3, <3>1, <3>2 DEF PublishFinal, TypeOK, Day
    <3>4. \A d \in published' : d <= latest'
      BY <2>3 DEF PublishFinal, NoSilentHole, TypeOK, Day
    <3>5. ASSUME NEW d \in Day, d < t, d \notin published'
          PROVE  ledger'[d].code = "source_acquisition_failed"
      <4>1. d # latest
        BY <2>3, <3>5 DEF PublishFinal, NoSilentHole
      <4>2. CASE d < latest
        BY <2>3, <3>5, <4>2 DEF PublishFinal, NoSilentHole
      <4>3. CASE latest < d
        BY <2>3, <3>2, <3>5, <4>3
           DEF PublishFinal, PrefixGapDisclosed, LostSourceDisclosed
      <4> QED
        BY <4>1, <4>2, <4>3 DEF TypeOK, Day
    <3> QED
      BY <2>3, <3>3, <3>4, <3>5 DEF PublishFinal, NoSilentHole
  <2>4. ASSUME NEW t \in Day, NEW code \in ReasonCode, PublishRefusal(t, code)
        PROVE  NoSilentHole'
    <3>1. \A d \in Day \ {t} : ledger'[d] = ledger[d]
      BY <2>4 DEF PublishRefusal, Disclose, TypeOK, Ledger
    <3>2. \A d \in Day : d < latest => ledger'[d] = ledger[d]
      BY <2>4, <3>1 DEF PublishRefusal, TypeOK, Day
    <3> QED
      BY <2>4, <3>2 DEF PublishRefusal, NoSilentHole
  <2>5. CASE UNCHANGED vars
    BY <2>5 DEF vars, NoSilentHole
  <2> QED
    BY <2>1, <2>2, <2>3, <2>4, <2>5 DEF Next
<1> QED
  BY <1>1, <1>2, TypeCorrect, PTL DEF Spec

(* A day passed over keeps its disclosure, and is never published after    *)
(* all.                                                                    *)
THEOREM PassedDaysStay == Spec => PassedDaysFrozen
<1> DEFINE Frozen ==
        \A d \in Day : d <= latest =>
            /\ ledger'[d] = ledger[d]
            /\ d \in published' <=> d \in published
<1>1. TypeOK /\ [Next]_vars => [Frozen]_vars
  <2> SUFFICES ASSUME TypeOK, Next PROVE Frozen
    OBVIOUS
  <2>1. CASE Tick
    BY <2>1 DEF Tick
  <2>2. CASE BindLegacy
    BY <2>2 DEF BindLegacy
  <2>3. ASSUME NEW t \in Day, PublishFinal(t) PROVE Frozen
    BY <2>3 DEF PublishFinal, TypeOK, Day
  <2>4. ASSUME NEW t \in Day, NEW code \in ReasonCode, PublishRefusal(t, code)
        PROVE  Frozen
    <3>1. \A d \in Day \ {t} : ledger'[d] = ledger[d]
      BY <2>4 DEF PublishRefusal, Disclose, TypeOK, Ledger
    <3> QED
      BY <2>4, <3>1 DEF PublishRefusal, TypeOK, Day
  <2> QED
    BY <2>1, <2>2, <2>3, <2>4 DEF Next
<1> QED
  BY <1>1, TypeCorrect, PTL DEF Spec, PassedDaysFrozen
=============================================================================
