------------------------ MODULE ReceiptIdentityProofs ------------------------
(***************************************************************************)
(* Theorems of the receipt-identity lane, for any channels, links,         *)
(* authorities and number of attempts.  What a push adds to main is bound  *)
(* by the release hook alone; that the payload of main stays readable and  *)
(* that a green run is served also need where the run's payload came from. *)
(***************************************************************************)
EXTENDS ReceiptIdentity, TLAPS

\* A refusal closes no channel.
LinkFree(payload) ==
    payload # NoPayload /\ payload.refusal =>
        \A c \in Channels : payload.channels[c] = Unavailable

RefusalsAreLinkFree ==
    /\ LinkFree(run.local)
    /\ \A i \in 1..Len(main) : LinkFree(main[i].payload)

\* No payload names a predecessor that is not older than itself.
PredecessorsAreOlder ==
    \A i \in 1..Len(main) : main[i].payload # NoPayload => main[i].payload.predecessor < i

\* Commit i wrote the payload of commit n.
Wrote(h, i, n) ==
    /\ \A j \in i..n : h[j].payload = h[n].payload
    /\ i = 1 \/ h[i - 1].payload # h[n].payload

TipWellWritten ==
    Tip.payload # NoPayload =>
        \E i \in 1..Len(main) :
            Wrote(main, i, Len(main)) /\ main[i].authority = Tip.payload.authority

\* What execute wrote, as long as its day lasts.
Fresh ==
    /\ run.local # NoPayload
    /\ run.local.target = run.target
    /\ run.local.authority = Base.authority
    /\ run.local.predecessor = run.base
    /\ Monotone(run.local, Base.payload, run.target)
    /\ today = run.target + 1 => (run.local.refusal <=> ~Authorized(Base.authority, today))

RunRooted ==
    phase # "idle" =>
        /\ run.local = Base.payload \/ Fresh
        /\ phase \in {"pull", "release", "failed"} => run.local # NoPayload
        /\ phase = "release" =>
              /\ run.base <= run.seen
              /\ run.parent = IF run.local = main[run.seen].payload
                              THEN run.seen - 1 ELSE run.seen

-----------------------------------------------------------------------------
(* Types.                                                                  *)

\* A run may rest on any commit of main.
LEMMA CommitFields ==
  ASSUME TypeOK, NEW i \in 1..Len(main)
  PROVE  /\ main[i] \in Commit
         /\ main[i].payload \in Payload \cup {NoPayload}
         /\ main[i].authority \in Authorities
<1>1. main[i] \in Commit
  BY DEF TypeOK
<1> QED
  BY <1>1 DEF Commit

LEMMA InitTyped == Init => TypeOK
  BY AttemptsAssumption DEF Init, TypeOK, Commit, Run, NoRun, Phase

LEMMA RetainedType ==
  ASSUME NEW fetched \in [Channels -> Closing],
         NEW prior \in Payload \cup {NoPayload}, NEW target
  PROVE  Retained(fetched, prior, target) \in [Channels -> Closing]
  BY DEF Retained, ClosedBefore, Payload

LEMMA TypeStep == TypeOK /\ [Next]_vars => TypeOK'
<1> SUFFICES ASSUME TypeOK, [Next]_vars PROVE TypeOK'
  OBVIOUS
<1> USE DEF Phase
<1>run. /\ main \in Seq(Commit) /\ Len(main) \in Nat \ {0} /\ run \in Run /\ today \in Nat \ {0}
  BY DEF TypeOK
<1>tip. Len(main) \in 1..Len(main)
  BY <1>run
<1>no. NoRun \in Run
  BY AttemptsAssumption DEF NoRun, Run
<1>append. ASSUME NEW c \in Commit
           PROVE  Append(main, c) \in Seq(Commit) /\ Len(Append(main, c)) = Len(main) + 1
  BY <1>run
<1>fails. ASSUME AttemptFails PROVE run' \in Run /\ phase' \in Phase
                                    /\ run'.base = run.base /\ run'.target = run.target
  <2>1. run.attempt \in 1..MaxAttempts /\ MaxAttempts \in Nat
    BY <1>run, AttemptsAssumption DEF Run
  <2>2. run.attempt # MaxAttempts => run.attempt + 1 \in 1..MaxAttempts
    BY <2>1
  <2> QED
    BY <1>run, <1>fails, <2>2 DEF AttemptFails, Run
<1>1. CASE Tick
  BY <1>run, <1>1 DEF TypeOK, Tick
<1>2. CASE ForeignPush
  <2>1. PICK a \in Authorities : main' = Append(main, [Tip EXCEPT !.authority = a])
    BY <1>2 DEF ForeignPush
  <2>2. [Tip EXCEPT !.authority = a] \in Commit
    BY <1>tip, CommitFields DEF Commit, Tip
  <2> QED
    BY <1>2, <2>1, <2>2, <1>append, <1>run DEF TypeOK, ForeignPush
<1>3. CASE Begins
  <2>1. run' \in Run /\ run'.base = Len(main) /\ run'.target = today - 1
    <3>1. Tip.payload \in Payload \cup {NoPayload}
      BY <1>tip, CommitFields DEF Tip
    <3>2. today - 1 \in Nat /\ 1 \in 1..MaxAttempts
      BY <1>run, AttemptsAssumption
    <3> QED
      BY <1>3, <1>run, <3>1, <3>2 DEF Begins, Run, NoRun
  <2> QED
    BY <1>3, <2>1, <1>run DEF TypeOK, Begins
<1>w. ASSUME NEW refusal \in BOOLEAN, NEW channels \in [Channels -> Closing],
             phase = "execute", Writes(refusal, channels)
      PROVE  TypeOK'
  <2>1. run.base \in 1..Len(main) /\ run.base \in Nat /\ run.target \in Nat
    BY <1>w, <1>run DEF TypeOK, Run
  <2>2. [target |-> run.target, refusal |-> refusal, channels |-> channels,
         authority |-> Base.authority, predecessor |-> run.base] \in Payload
    BY <2>1, CommitFields DEF Payload, Base
  <2>3. run' \in Run /\ run'.base = run.base /\ run'.target = run.target
    BY <1>w, <2>2, <1>run DEF Writes, Run
  <2> QED
    BY <1>w, <2>3 DEF TypeOK, Writes
<1>4. CASE WritesRefusal
  <2>1. [c \in Channels |-> Unavailable] \in [Channels -> Closing]
    BY DEF Closing
  <2> QED
    BY <1>4, <1>w, <2>1 DEF WritesRefusal
<1>5. CASE WritesLinks
  <2>1. PICK fetched \in [Channels -> Closing] :
               Writes(FALSE, Retained(fetched, Base.payload, run.target))
    BY <1>5 DEF WritesLinks
  <2>2. Base.payload \in Payload \cup {NoPayload}
    BY <1>5, CommitFields DEF TypeOK, WritesLinks, Base
  <2>3. Retained(fetched, Base.payload, run.target) \in [Channels -> Closing]
    BY <2>2, RetainedType
  <2> QED
    BY <1>5, <1>w, <2>1, <2>3 DEF WritesLinks
<1>6. CASE ExecuteFails \/ Verifies \/ GateRed
  BY <1>6 DEF TypeOK, ExecuteFails, Verifies, GateRed
<1>7. CASE VerifyFails \/ Killed \/ Ends
  BY <1>7, <1>no DEF TypeOK, VerifyFails, Killed, Ends, RedRun
<1>8. CASE Pulls
  <2>1. /\ run' \in Run /\ run'.base = run.base /\ run'.target = run.target
        /\ run'.seen = Len(main) /\ run'.parent \in 0..Len(main)
    <3> DEFINE parent == IF run.local = Tip.payload THEN Len(main) - 1 ELSE Len(main)
    <3>1. parent \in 0..Len(main) /\ parent \in Nat
      BY <1>run
    <3>2. run' = [run EXCEPT !.seen = Len(main), !.parent = parent]
      BY <1>8 DEF Pulls
    <3> HIDE DEF parent
    <3> QED
      BY <1>run, <3>1, <3>2 DEF Run
  <2> QED
    BY <1>8, <2>1, <1>run DEF TypeOK, Pulls
<1>9. CASE PullFails \/ PushFails
  BY <1>9, <1>fails, AttemptsAssumption DEF TypeOK, PullFails, PushFails, AttemptFails
<1>p. ASSUME main' = Pushed, phase = "release"
      PROVE  main' \in Seq(Commit) /\ Len(main') = Len(main) + 1
  <2>1. [payload |-> run.local, authority |-> Tip.authority] \in Commit
    BY <1>run, <1>tip, CommitFields DEF Commit, Run, Tip
  <2> QED
    BY <1>p, <2>1, <1>append DEF Pushed
<1>10. CASE PushSucceeds
  BY <1>10, <1>p, <1>run DEF TypeOK, PushSucceeds
<1>11. CASE PushAnswerLost
  BY <1>11, <1>p, <1>fails, <1>run DEF TypeOK, PushAnswerLost, AttemptFails
<1>12. CASE ChecksSuperseded
  BY <1>12, <1>no DEF TypeOK, ChecksSuperseded, RedRun
<1>13. CASE UNCHANGED vars
  BY <1>13 DEF TypeOK, vars
<1> QED
  BY <1>1, <1>2, <1>3, <1>4, <1>5, <1>6, <1>7, <1>8, <1>9, <1>10, <1>11, <1>12, <1>13
     DEF Next, RunStep

\* Every variable of the lane stays in its domain.
THEOREM TypeCorrect == Spec => []TypeOK
<1>1. TypeOK /\ [Next]_vars => TypeOK'
  BY TypeStep
<1> QED
  BY InitTyped, <1>1, PTL DEF Spec

-----------------------------------------------------------------------------
(* What a step does to main.                                               *)

\* Main keeps its commits and grows by at most one.
Grows(c) ==
    /\ main' = Append(main, c)
    /\ Len(main') = Len(main) + 1
    /\ main'[Len(main) + 1] = c
    /\ \A i \in 1..Len(main) : main'[i] = main[i]

LEMMA AppendGrows ==
  ASSUME TypeOK, NEW c, main' = Append(main, c)
  PROVE  Grows(c)
  BY DEF TypeOK, Grows

\* A foreign push keeps the payload of the tip, a release puts the verified
\* one on the very commit it names.
ForeignTip ==
    /\ Grows(main'[Len(main')])
    /\ main'[Len(main')].payload = Tip.payload
    /\ UNCHANGED <<phase, run, today>>

ReleasedTip ==
    /\ phase = "release" /\ ReleaseVerified /\ run.seen = Len(main) /\ run.parent = Len(main)
    /\ Grows([payload |-> run.local, authority |-> Tip.authority])
    /\ run'.local = run.local /\ run'.base = run.base /\ run'.target = run.target
    /\ today' = today

LEMMA AttemptKeepsRun ==
  ASSUME TypeOK, AttemptFails
  PROVE  /\ run'.local = run.local /\ run'.base = run.base /\ run'.target = run.target
         /\ run'.parent = run.parent /\ run'.seen = run.seen
         /\ phase' \in {"failed", "pull"}
  BY DEF TypeOK, AttemptFails, Run

LEMMA MainStep ==
  ASSUME TypeOK, [Next]_vars
  PROVE  main' = main \/ ForeignTip \/ ReleasedTip
<1>len. Len(main) \in Nat \ {0} /\ Len(main) \in 1..Len(main)
  BY DEF TypeOK
<1>1. CASE ForeignPush
  <2>1. PICK a \in Authorities : main' = Append(main, [Tip EXCEPT !.authority = a])
    BY <1>1 DEF ForeignPush
  <2>2. Grows([Tip EXCEPT !.authority = a])
    BY <2>1, AppendGrows
  <2>3. [Tip EXCEPT !.authority = a].payload = Tip.payload
    BY <1>len, CommitFields DEF Tip, Commit
  <2>4. main'[Len(main')] = [Tip EXCEPT !.authority = a]
    BY <2>2 DEF Grows
  <2> QED
    BY <1>1, <2>2, <2>3, <2>4 DEF ForeignPush, ForeignTip
<1>2. CASE PushSucceeds \/ PushAnswerLost
  <2>1. /\ phase = "release" /\ ReleaseVerified /\ run.seen = Len(main)
        /\ main' = Pushed /\ today' = today
    BY <1>2 DEF PushSucceeds, PushAnswerLost
  <2>2. run'.local = run.local /\ run'.base = run.base /\ run'.target = run.target
    BY <1>2, AttemptKeepsRun DEF PushSucceeds, PushAnswerLost
  <2>3. run.parent = Len(main)
    BY <2>1 DEF ReleaseVerified
  <2>4. Grows([payload |-> run.local, authority |-> Tip.authority])
    BY <2>1, AppendGrows DEF Pushed
  <2> QED
    BY <2>1, <2>2, <2>3, <2>4 DEF ReleasedTip
<1> QED
  BY <1>1, <1>2
     DEF Next, RunStep, vars, Tick, Begins, WritesRefusal, WritesLinks, Writes, ExecuteFails,
         Verifies, VerifyFails, Pulls, PullFails, GateRed, PushFails, ChecksSuperseded, Killed, Ends

-----------------------------------------------------------------------------
(* What the release hook alone establishes.                                *)

LEMMA BindingStep == TypeOK /\ BindingExact /\ [Next]_vars => BindingExact'
<1> SUFFICES ASSUME TypeOK, BindingExact, [Next]_vars PROVE BindingExact'
  OBVIOUS
<1>len. Len(main) \in Nat \ {0}
  BY DEF TypeOK
<1>old. ASSUME NEW c, Grows(c), NEW i \in 2..Len(main), Released(i)'
        PROVE  /\ main'[i].payload.predecessor = i - 1
               /\ main'[i].payload.authority = main'[i - 1].authority
               /\ main'[i].payload.refusal <=>
                     ~Authorized(main'[i - 1].authority, main'[i].payload.target + 1)
  <2>1. main'[i] = main[i] /\ main'[i - 1] = main[i - 1]
    BY <1>old, <1>len DEF Grows
  <2> QED
    BY <1>old, <2>1 DEF Released, BindingExact
<1>1. CASE main' = main
  BY <1>1 DEF BindingExact, Released
<1>2. CASE ForeignTip
  <2>1. Grows(main'[Len(main')]) /\ main'[Len(main')].payload = Tip.payload
    BY <1>2 DEF ForeignTip
  <2>2. main'[Len(main) + 1].payload = main'[Len(main)].payload /\ Len(main') = Len(main) + 1
    BY <2>1, <1>len DEF Grows, Tip
  <2>3. ASSUME NEW i \in 2..Len(main'), Released(i)' PROVE i \in 2..Len(main)
    BY <2>2, <2>3, <1>len DEF Released
  <2> QED
    BY <2>1, <2>3, <1>old DEF BindingExact
<1>3. CASE ReleasedTip
  <2> DEFINE c == [payload |-> run.local, authority |-> Tip.authority]
  <2>1. Grows(c) /\ ReleaseVerified /\ run.parent = Len(main)
    BY <1>3 DEF ReleasedTip
  <2>2. /\ run.local.predecessor = Len(main)
        /\ run.local.target + 1 = today
        /\ run.local.authority = Tip.authority
        /\ run.local.refusal <=> ~Authorized(Tip.authority, today)
    BY <2>1 DEF ReleaseVerified, BoundTo, OnItsDay, AuthorityHolds, Tip, TypeOK
  <2>3. main'[Len(main) + 1].payload = run.local /\ main'[Len(main)] = Tip
    BY <2>1, <1>len DEF Grows, Tip
  <2> HIDE DEF c
  <2> QED
    BY <2>1, <2>2, <2>3, <1>old, <1>len DEF BindingExact, Grows
<1> QED
  BY <1>1, <1>2, <1>3, MainStep

\* Each payload on main names the commit it was released on, under the
\* authority that commit holds.
THEOREM BindingsExact == Spec => []BindingExact
<1>1. Init => BindingExact
  BY DEF Init, BindingExact
<1> QED
  BY TypeCorrect, <1>1, BindingStep, PTL DEF Spec

\* No payload reaches main on another day than the one after its target.
THEOREM ReleasesOnTheirDay == Spec => ReleasedOnItsDay
<1>1. ASSUME TypeOK, [Next]_vars, main' # main, main'[Len(main')].payload # Tip.payload
      PROVE  main'[Len(main')].payload.target = today - 1
  <2>1. ReleasedTip
    BY <1>1, MainStep DEF ForeignTip
  <2>2. main'[Len(main')].payload = run.local /\ OnItsDay(run.local, today)
    BY <2>1 DEF ReleasedTip, ReleaseVerified, Grows
  <2> QED
    BY <2>2 DEF OnItsDay
<1>2. TypeOK /\ [Next]_vars =>
        [main' # main /\ main'[Len(main')].payload # Tip.payload =>
            main'[Len(main')].payload.target = today - 1]_vars
  BY <1>1
<1> QED
  BY TypeCorrect, <1>2, PTL DEF Spec, ReleasedOnItsDay

-----------------------------------------------------------------------------
(* The run: where its payload came from.                                   *)

\* What an execute step leaves in the checkout.
LEMMA WritesFresh ==
  ASSUME TypeOK, phase = "execute", NEW refusal \in BOOLEAN, NEW channels \in [Channels -> Closing],
         Writes(refusal, channels),
         refusal <=> ~Authorized(Base.authority, today),
         refusal => channels = [c \in Channels |-> Unavailable],
         ~refusal => \A c \in ClosedBefore(Base.payload, run.target) :
                        channels[c] = Base.payload.channels[c]
  PROVE  /\ Fresh' /\ LinkFree(run.local)'
         /\ run'.base = run.base /\ UNCHANGED <<today, main>> /\ phase' = "verify"
<1> DEFINE p == [target |-> run.target, refusal |-> refusal, channels |-> channels,
                 authority |-> Base.authority, predecessor |-> run.base]
<1>1. run.base \in Nat /\ run.target \in Nat /\ Base.authority \in Authorities
  BY CommitFields DEF TypeOK, Run, Base
<1>2. p \in Payload
  BY <1>1 DEF Payload
<1>3. p # NoPayload
  BY <1>2, PayloadAssumption
<1>4. run' = [run EXCEPT !.local = p] /\ UNCHANGED <<today, main>> /\ phase' = "verify"
  BY DEF Writes
<1>5. run'.local = p /\ run'.base = run.base /\ run'.target = run.target
  BY <1>4 DEF TypeOK, Run
<1>6. Base' = Base
  BY <1>4, <1>5 DEF Base
<1>7. Monotone(p, Base.payload, run.target)
  BY DEF Monotone
<1>8. Fresh'
  BY <1>3, <1>4, <1>5, <1>6, <1>7 DEF Fresh
<1>9. LinkFree(p)
  BY DEF LinkFree
<1> QED
  BY <1>4, <1>5, <1>8, <1>9

LEMMA ExecuteStep ==
  ASSUME TypeOK, WritesRefusal \/ WritesLinks
  PROVE  /\ Fresh' /\ LinkFree(run.local)'
         /\ run'.base = run.base /\ UNCHANGED <<today, main>> /\ phase' = "verify"
<1>1. CASE WritesRefusal
  <2>1. [c \in Channels |-> Unavailable] \in [Channels -> Closing]
    BY DEF Closing
  <2> QED
    BY <1>1, <2>1, WritesFresh DEF WritesRefusal
<1>2. CASE WritesLinks
  <2>1. PICK fetched \in [Channels -> Closing] :
               Writes(FALSE, Retained(fetched, Base.payload, run.target))
    BY <1>2 DEF WritesLinks
  <2>2. Base.payload \in Payload \cup {NoPayload}
    BY <1>2, CommitFields DEF TypeOK, WritesLinks, Base
  <2>3. Retained(fetched, Base.payload, run.target) \in [Channels -> Closing]
    BY <2>2, RetainedType
  <2>4. \A c \in ClosedBefore(Base.payload, run.target) :
            /\ c \in Channels
            /\ Retained(fetched, Base.payload, run.target)[c] = Base.payload.channels[c]
    BY DEF Retained, ClosedBefore
  <2>5. phase = "execute" /\ Authorized(Base.authority, today)
    BY <1>2 DEF WritesLinks
  <2> QED
    BY <2>1, <2>3, <2>4, <2>5, WritesFresh
<1> QED
  BY <1>1, <1>2

\* The local payload changes at Begins and in execute only.
LEMMA LinkFreeStep == TypeOK /\ RefusalsAreLinkFree /\ [Next]_vars => RefusalsAreLinkFree'
<1> SUFFICES ASSUME TypeOK, RefusalsAreLinkFree, [Next]_vars PROVE RefusalsAreLinkFree'
  OBVIOUS
<1>len. Len(main) \in Nat \ {0} /\ Len(main) \in 1..Len(main)
  BY DEF TypeOK
<1>no. NoRun.local = NoPayload /\ LinkFree(NoPayload)
  BY DEF NoRun, LinkFree
<1>1. LinkFree(run.local)'
  <2>1. CASE Begins
    <3>1. run'.local = Tip.payload
      BY <2>1 DEF Begins, NoRun
    <3> QED
      BY <3>1, <1>len DEF RefusalsAreLinkFree, LinkFree, Tip
  <2>2. CASE WritesRefusal \/ WritesLinks
    BY <2>2, ExecuteStep
  <2>3. CASE VerifyFails \/ Killed \/ Ends \/ (ChecksSuperseded /\ RedRun)
    BY <2>3, <1>no DEF VerifyFails, Killed, Ends, RedRun
  <2>4. CASE run'.local = run.local
    BY <2>4 DEF RefusalsAreLinkFree, LinkFree
  <2>5. CASE PullFails \/ PushFails \/ PushAnswerLost
    BY <2>4, <2>5, AttemptKeepsRun DEF PullFails, PushFails, PushAnswerLost
  <2>6. CASE Pulls
    BY <2>4, <2>6 DEF Pulls, TypeOK, Run
  <2> QED
    BY <2>1, <2>2, <2>3, <2>4, <2>5, <2>6
       DEF Next, RunStep, vars, Tick, ForeignPush, ExecuteFails, Verifies, GateRed,
           PushSucceeds, ChecksSuperseded
<1>2. ASSUME NEW i \in 1..Len(main') PROVE LinkFree(main'[i].payload)
  <2>1. CASE main' = main
    BY <2>1 DEF RefusalsAreLinkFree
  <2>2. CASE ForeignTip
    BY <2>2, <1>len DEF ForeignTip, Grows, RefusalsAreLinkFree, Tip
  <2>3. CASE ReleasedTip
    BY <2>3, <1>len DEF ReleasedTip, Grows, RefusalsAreLinkFree
  <2> QED
    BY <2>1, <2>2, <2>3, MainStep
<1> QED
  BY <1>1, <1>2 DEF RefusalsAreLinkFree, LinkFree

\* A channel closed for a target keeps its links until the next target or a
\* refusal.
THEOREM LinksStayPublished == Spec => LinksStay
<1>1. Init => RefusalsAreLinkFree
  BY DEF Init, NoRun, RefusalsAreLinkFree, LinkFree
<1>2. ASSUME TypeOK, RefusalsAreLinkFree, [Next]_vars, NEW c \in Channels,
             c \in ClosedIn(Tip.payload),
             main'[Len(main')].payload.target = Tip.payload.target,
             ~main'[Len(main')].payload.refusal
      PROVE  main'[Len(main')].payload.channels[c] = Tip.payload.channels[c]
  <2>len. Len(main) \in Nat \ {0} /\ Len(main) \in 1..Len(main)
    BY <1>2 DEF TypeOK
  <2>1. CASE ~ReleasedTip
    BY <1>2, <2>1, MainStep DEF ForeignTip, Tip
  <2>2. CASE ReleasedTip
    <3>1. main'[Len(main')].payload = run.local
      BY <2>2 DEF ReleasedTip, Grows
    <3>2. Monotone(run.local, Tip.payload, run.local.target)
      BY <2>2 DEF ReleasedTip, ReleaseVerified, Tip
    <3>3. c \in ClosedBefore(Tip.payload, run.local.target)
      BY <1>2, <2>len, <3>1 DEF ClosedIn, ClosedBefore, RefusalsAreLinkFree, LinkFree, Tip
    <3> QED
      BY <1>2, <3>1, <3>2, <3>3 DEF Monotone
  <2> QED
    BY <2>1, <2>2
<1>3. TypeOK /\ RefusalsAreLinkFree /\ [Next]_vars =>
        [\A c \in Channels :
           LET old == Tip.payload  new == main'[Len(main')].payload
           IN  c \in ClosedIn(old) /\ new.target = old.target /\ ~new.refusal =>
                  new.channels[c] = old.channels[c]]_vars
  BY <1>2
<1> QED
  BY TypeCorrect, <1>1, <1>3, LinkFreeStep, PTL DEF Spec, LinksStay

-----------------------------------------------------------------------------
(* The payload on main as a predecessor.                                   *)

\* The commit git log names is the only one that can have written the blob.
LEMMA WrittenIsUnique ==
  ASSUME NEW h, NEW n \in Nat, NEW i \in 1..n, Wrote(h, i, n)
  PROVE  WrittenAt(h, n) = i
<1>1. ASSUME NEW j \in 1..n, NEW k \in 1..n, Wrote(h, j, n), Wrote(h, k, n), j < k
      PROVE  FALSE
  <2>1. k - 1 \in j..n /\ k # 1
    BY <1>1
  <2>2. h[k - 1].payload = h[n].payload /\ h[k].payload = h[n].payload
    BY <1>1, <2>1 DEF Wrote
  <2> QED
    BY <1>1, <2>1, <2>2 DEF Wrote
<1>2. WrittenAt(h, n) \in 1..n /\ Wrote(h, WrittenAt(h, n), n)
  BY DEF WrittenAt, Wrote
<1> QED
  BY <1>1, <1>2

LEMMA TipStep ==
  ASSUME TypeOK, PredecessorsAreOlder, TipWellWritten, [Next]_vars
  PROVE  PredecessorsAreOlder' /\ TipWellWritten'
<1>len. Len(main) \in Nat \ {0} /\ Len(main) \in 1..Len(main) /\ Tip = main[Len(main)]
  BY DEF TypeOK, Tip
<1>1. CASE main' = main
  BY <1>1 DEF PredecessorsAreOlder, TipWellWritten, Wrote, Tip
<1>2. CASE ForeignTip
  <2> DEFINE n == Len(main)
  <2>1. /\ Len(main') = n + 1 /\ main'[n + 1].payload = main[n].payload
        /\ \A i \in 1..n : main'[i] = main[i]
    BY <1>2, <1>len DEF ForeignTip, Grows
  <2>2. PredecessorsAreOlder'
    BY <1>len, <2>1, CommitFields DEF PredecessorsAreOlder, Payload
  <2>3. ASSUME Tip.payload # NoPayload
        PROVE  \E i \in 1..Len(main') :
                  Wrote(main', i, Len(main')) /\ main'[i].authority = Tip.payload.authority
    <3>1. PICK i \in 1..n : Wrote(main, i, n) /\ main[i].authority = Tip.payload.authority
      BY <2>3 DEF TipWellWritten
    <3>2. Wrote(main', i, n + 1)
      BY <1>len, <2>1, <3>1 DEF Wrote
    <3> QED
      BY <1>len, <2>1, <3>1, <3>2
  <2> QED
    BY <1>len, <2>1, <2>2, <2>3 DEF TipWellWritten, Tip
<1>3. CASE ReleasedTip
  <2> DEFINE n == Len(main)
  <2>1. /\ Len(main') = n + 1 /\ main'[n + 1].payload = run.local
        /\ main'[n + 1].authority = Tip.authority
        /\ \A i \in 1..n : main'[i] = main[i]
    BY <1>3, <1>len DEF ReleasedTip, Grows
  <2>2. run.local.predecessor = n /\ run.local.authority = Tip.authority
    BY <1>3, <1>len DEF ReleasedTip, ReleaseVerified, BoundTo, AuthorityHolds
  <2>3. PredecessorsAreOlder'
    BY <1>len, <2>1, <2>2 DEF PredecessorsAreOlder
  <2>4. ASSUME run.local # NoPayload PROVE Wrote(main', n + 1, n + 1)
    <3>1. main[n].payload # run.local
      BY <1>len, <2>2, <2>4 DEF PredecessorsAreOlder
    <3> QED
      BY <1>len, <2>1, <3>1 DEF Wrote
  <2> QED
    BY <1>len, <2>1, <2>2, <2>3, <2>4 DEF TipWellWritten, Tip
<1> QED
  BY <1>1, <1>2, <1>3, MainStep

\* Whatever happens to rights and profile, the payload on main loads as the
\* predecessor of the next one.
THEOREM PredecessorsLoad == Spec => []PredecessorAlwaysLoads
<1>1. Init => PredecessorsAreOlder /\ TipWellWritten
  BY DEF Init, PredecessorsAreOlder, TipWellWritten, Tip
<1>2. TypeOK /\ PredecessorsAreOlder /\ TipWellWritten /\ [Next]_vars =>
        PredecessorsAreOlder' /\ TipWellWritten'
  BY TipStep
<1>3. TypeOK /\ TipWellWritten => PredecessorAlwaysLoads
  <2> SUFFICES ASSUME TypeOK, TipWellWritten, Tip.payload # NoPayload
               PROVE  main[WrittenAt(main, Len(main))].authority = Tip.payload.authority
    BY DEF PredecessorAlwaysLoads, PredecessorLoads, Tip
  <2>1. PICK i \in 1..Len(main) :
               Wrote(main, i, Len(main)) /\ main[i].authority = Tip.payload.authority
    BY DEF TipWellWritten
  <2>2. WrittenAt(main, Len(main)) = i
    BY <2>1, WrittenIsUnique DEF TypeOK
  <2> QED
    BY <2>1, <2>2
<1> QED
  BY TypeCorrect, <1>1, <1>2, <1>3, PTL DEF Spec

-----------------------------------------------------------------------------
(* The run in flight, and what a green one leaves behind.                  *)

LEMMA BaseStays ==
  ASSUME TypeOK, [Next]_vars, NEW i \in 1..Len(main)
  PROVE  main'[i] = main[i]
<1>1. CASE main' = main
  BY <1>1
<1>2. CASE ForeignTip \/ ReleasedTip
  BY <1>2 DEF ForeignTip, ReleasedTip, Grows
<1> QED
  BY <1>1, <1>2, MainStep

\* A step that leaves the run alone leaves what it wrote as fresh as it was.
LEMMA FreshStays ==
  ASSUME TypeOK, [Next]_vars, phase # "idle", Fresh,
         run'.local = run.local, run'.base = run.base, run'.target = run.target
  PROVE  Fresh'
<1>1. Base' = Base
  BY BaseStays DEF Base, TypeOK
<1>2. today' = today \/ (today' = today + 1 /\ today' # run.target + 1)
  BY DEF TypeOK, Run, Next, RunStep, vars, Tick, ForeignPush, Begins, WritesRefusal, WritesLinks,
         Writes, ExecuteFails, Verifies, VerifyFails, Pulls, PullFails, GateRed, PushSucceeds,
         PushAnswerLost, PushFails, ChecksSuperseded, Killed, Ends
<1> QED
  BY <1>1, <1>2 DEF Fresh

LEMMA RunStepRooted == TypeOK /\ RunRooted /\ [Next]_vars => RunRooted'
<1> SUFFICES ASSUME TypeOK, RunRooted, [Next]_vars PROVE RunRooted'
  OBVIOUS
<1>len. Len(main) \in Nat \ {0} /\ Len(main) \in 1..Len(main)
  BY DEF TypeOK
<1>keep. ASSUME phase # "idle",
                run'.local = run.local, run'.base = run.base, run'.target = run.target
         PROVE  (run.local = Base.payload \/ Fresh)'
  <2>1. run.local = Base.payload \/ Fresh
    BY <1>keep DEF RunRooted
  <2>2. Base' = Base
    BY <1>keep, BaseStays DEF Base, TypeOK
  <2> QED
    BY <1>keep, <2>1, <2>2, FreshStays
<1>1. CASE UNCHANGED <<phase, run>>
  <2>1. CASE phase = "idle"
    BY <1>1, <2>1 DEF RunRooted
  <2>2. CASE phase # "idle"
    <3>1. phase = "release" => main'[run.seen] = main[run.seen]
      BY BaseStays DEF TypeOK
    <3> QED
      BY <1>1, <2>2, <3>1, <1>keep DEF RunRooted
  <2> QED
    BY <2>1, <2>2
<1>2. CASE Begins
  <2>1. run'.base = Len(main) /\ run'.local = Tip.payload /\ main' = main /\ phase' = "execute"
    BY <1>2 DEF Begins, NoRun
  <2> QED
    BY <2>1 DEF RunRooted, Base, Tip
<1>3. CASE WritesRefusal \/ WritesLinks
  BY <1>3, ExecuteStep DEF RunRooted
<1>4. CASE ExecuteFails \/ Verifies \/ GateRed
  BY <1>4, <1>keep DEF RunRooted, ExecuteFails, Verifies, GateRed
<1>5. CASE phase' = "idle"
  BY <1>5 DEF RunRooted
<1>6. CASE Pulls
  <2>1. /\ run'.local = run.local /\ run'.base = run.base /\ run'.target = run.target
        /\ run'.seen = Len(main)
        /\ run'.parent = IF run.local = Tip.payload THEN Len(main) - 1 ELSE Len(main)
    BY <1>6 DEF Pulls, TypeOK, Run
  <2>2. phase = "pull" /\ phase' = "release" /\ main' = main
    BY <1>6 DEF Pulls
  <2>3. run.base <= Len(main)
    BY <2>2, <1>len DEF TypeOK
  <2> QED
    BY <2>1, <2>2, <2>3, <1>keep DEF RunRooted, Tip
<1>7. CASE PullFails \/ PushFails \/ PushAnswerLost
  BY <1>7, <1>keep, AttemptKeepsRun DEF RunRooted, PullFails, PushFails, PushAnswerLost
<1>8. CASE PushSucceeds
  BY <1>8, <1>keep DEF RunRooted, PushSucceeds
<1>9. CASE ChecksSuperseded
  BY <1>5, <1>9, <1>keep DEF RunRooted, ChecksSuperseded, RedRun
<1> QED
  BY <1>1, <1>2, <1>3, <1>4, <1>5, <1>6, <1>7, <1>8, <1>9
     DEF Next, RunStep, vars, Tick, ForeignPush, VerifyFails, Killed, Ends, RedRun

\* Only somebody else's push or midnight makes the hook refuse what a run
\* built itself.
THEOREM QuietRunsRelease == Spec => []QuietRunReleases
<1>1. Init => RunRooted
  BY DEF Init, RunRooted
<1>2. TypeOK /\ RunRooted => QuietRunReleases
  <2> SUFFICES ASSUME TypeOK, RunRooted, phase = "release", Len(main) = run.base,
                      today = run.target + 1, run.local # Base.payload
               PROVE  ReleaseVerified
    BY DEF QuietRunReleases
  <2>1. Fresh /\ run.seen = run.base /\ run.parent = run.base
    BY DEF RunRooted, TypeOK, Base
  <2> QED
    BY <2>1 DEF Fresh, Base, ReleaseVerified, BoundTo, OnItsDay, AuthorityHolds, TypeOK, Run
<1> QED
  BY TypeCorrect, <1>1, <1>2, RunStepRooted, PTL DEF Spec

LEMMA GreenStep ==
  ASSUME TypeOK, RunRooted, RefusalsAreLinkFree, GreenRunServed, [Next]_vars
  PROVE  GreenRunServed'
<1>len. Len(main) \in Nat \ {0} /\ Len(main) \in 1..Len(main)
  BY DEF TypeOK
<1>1. CASE PushSucceeds
  <2>1. main' = Append(main, [payload |-> run.local, authority |-> Tip.authority]) /\ run' = run
    BY <1>1 DEF PushSucceeds, Pushed
  <2>2. Tip'.payload = run.local /\ run.local # NoPayload
    BY <1>1, <2>1, AppendGrows DEF Grows, Tip, RunRooted, PushSucceeds
  <2> QED
    BY <2>1, <2>2 DEF GreenRunServed, Retains
<1>2. CASE ChecksSuperseded /\ phase' = "green"
  <2>1. Superseded /\ run' = run /\ main' = main /\ run.local # NoPayload
    BY <1>2 DEF ChecksSuperseded, RedRun, RunRooted
  <2>2. ClosedBefore(run.local, run.local.target) = ClosedIn(run.local)
    BY <2>1 DEF ClosedBefore, ClosedIn, RefusalsAreLinkFree, LinkFree
  <2> QED
    BY <2>1, <2>2 DEF Superseded, SupersededTarget, Monotone, GreenRunServed, Retains, Tip
<1>3. CASE phase = "green" /\ phase' = "green" /\ UNCHANGED run
  <2>1. Tip'.payload = Tip.payload
    BY <1>3, MainStep DEF ForeignTip, ReleasedTip, Tip
  <2> QED
    BY <1>3, <2>1 DEF GreenRunServed, Retains
<1>4. CASE phase' # "green"
  BY <1>4 DEF GreenRunServed
<1> QED
  BY <1>1, <1>2, <1>3, <1>4, AttemptKeepsRun
     DEF Next, RunStep, vars, Tick, ForeignPush, Begins, WritesRefusal, WritesLinks, Writes,
         ExecuteFails, Verifies, VerifyFails, RedRun, Pulls, PullFails, GateRed,
         PushAnswerLost, PushFails, Killed, Ends

\* A green run finds its target on main, with every link it closed or the
\* refusal that withholds them.
THEOREM GreenRunsServed == Spec => []GreenRunServed
<1>1. Init => RunRooted /\ RefusalsAreLinkFree /\ GreenRunServed
  BY DEF Init, NoRun, RunRooted, RefusalsAreLinkFree, LinkFree, GreenRunServed
<1>2. TypeOK /\ RunRooted /\ RefusalsAreLinkFree /\ GreenRunServed /\ [Next]_vars => GreenRunServed'
  BY GreenStep
<1> QED
  BY TypeCorrect, <1>1, <1>2, RunStepRooted, LinkFreeStep, PTL DEF Spec

=============================================================================
