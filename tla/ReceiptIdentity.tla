--------------------------- MODULE ReceiptIdentity ---------------------------
(***************************************************************************)
(* The receipt-identity lane: .github/workflows/receipt-identity.yml runs  *)
(* src/src/receipt_identity.py several times a day.  A run closes, per     *)
(* channel, a few links for the day before, keeps what an earlier run of   *)
(* that day had closed, binds the payload to the commit it was built on    *)
(* and to the authority it was allowed by, and publishes it with           *)
(* publish_push.sh, whose release hook checks all of that again on the     *)
(* rebased commit.  One run at a time (the concurrency group); everybody   *)
(* else pushes to main at any moment.                                      *)
(***************************************************************************)
EXTENDS Integers, Sequences

CONSTANTS
    Channels,
    Articles,        \* what one acquisition of a channel may close
    Unavailable,     \* the channel was not closed
    Authorities,     \* versions of rights registry, signers and profile
    Active,          \* those under which links may be fetched and released
    Expiring,        \* of these, those whose review is due
    LastDay,         \* the last day they hold
    NoPayload,       \* the path does not exist yet
    MaxAttempts,     \* length of the publisher's retry loop
    MaxDay,          \* bound: the clock stops there
    MaxCommits       \* bound: main is not extended past this length

Closing == Articles \cup {Unavailable}

\* authority_snapshot and proofs are folded into the version they name.
Payload ==
    [target : Nat, refusal : BOOLEAN, channels : [Channels -> Closing],
     authority : Authorities, predecessor : Nat]

Commit == [payload : Payload \cup {NoPayload}, authority : Authorities]

ASSUME ActiveAssumption == Active \subseteq Authorities /\ LastDay \in Int
ASSUME PayloadAssumption == NoPayload \notin Payload
ASSUME UnavailableAssumption == Unavailable \notin Articles
ASSUME AttemptsAssumption == MaxAttempts \in Nat \ {0}
ASSUME BoundsAssumption == MaxDay \in Nat /\ MaxCommits \in Nat

VARIABLES
    today,       \* the UTC date
    main,        \* the commits of the remote branch, oldest first
    phase,       \* what the active run does next, or how it ended
    run          \* what it checked out, wrote, and is trying to push

vars == <<today, main, phase, run>>

Phase == {"idle", "execute", "verify", "pull", "release", "failed", "green"}
Run ==
    [base : Nat, target : Nat, local : Payload \cup {NoPayload},
     parent : Nat, seen : Nat, attempt : 1..MaxAttempts]
NoRun ==
    [base |-> 0, target |-> 0, local |-> NoPayload, parent |-> 0, seen |-> 0, attempt |-> 1]

Tip == main[Len(main)]

Init ==
    /\ today = 1
    /\ \E a \in Authorities : main = <<[payload |-> NoPayload, authority |-> a]>>
    /\ phase = "idle"
    /\ run = NoRun

Tick ==
    /\ today < MaxDay                                        \* bound: MaxDay
    /\ today' = today + 1
    /\ UNCHANGED <<main, phase, run>>

\* Another lane or a developer pushes; the rights files may change with it.
ForeignPush ==
    /\ Len(main) < MaxCommits                            \* bound: MaxCommits
    /\ \E a \in Authorities : main' = Append(main, [Tip EXCEPT !.authority = a])
    /\ UNCHANGED <<today, phase, run>>

-----------------------------------------------------------------------------
(* What a payload must agree with.                                         *)

\* evaluate: the same files authorize links on one day and not on another.
Authorized(authority, now) ==
    authority \in Active /\ (authority \in Expiring => now <= LastDay)

\* (Faulty variant: the payload is validated where it is read.)
WrittenAtTip(h, n) == n

\* git log -1 over the path: the commit that last changed it.
WrittenAt(h, n) ==
    CHOOSE i \in 1..n :
        /\ \A j \in i..n : h[j].payload = h[n].payload
        /\ i = 1 \/ h[i - 1].payload # h[n].payload

\* _load_predecessor: a payload is valid under the profile it was written
\* under.
PredecessorLoads(h, n) ==
    h[n].payload # NoPayload => h[WrittenAt(h, n)].authority = h[n].payload.authority

\* (Faulty variant: only a complete payload binds the next one.)
ClosedWhenComplete(prior, target) ==
    IF prior # NoPayload /\ prior.target = target /\ ~prior.refusal
       /\ \A c \in Channels : prior.channels[c] # Unavailable
    THEN Channels ELSE {}

\* The channels an earlier payload of the same target has closed.
ClosedBefore(prior, target) ==
    IF prior # NoPayload /\ prior.target = target /\ ~prior.refusal
    THEN {c \in Channels : prior.channels[c] # Unavailable}
    ELSE {}

\* (Faulty variant: the fresh acquisition replaces the earlier one.)
RetainedNothing(fetched, prior, target) == fetched

\* _retain_monotone_predecessor_channels
Retained(fetched, prior, target) ==
    [c \in Channels |->
        IF c \in ClosedBefore(prior, target) THEN prior.channels[c] ELSE fetched[c]]

\* _require_monotone_candidate: a refusal retains nothing and is bound to
\* retain nothing.
Monotone(candidate, prior, target) ==
    candidate.refusal \/
    \A c \in ClosedBefore(prior, target) : candidate.channels[c] = prior.channels[c]

-----------------------------------------------------------------------------
(* execute                                                                 *)

Begins ==
    /\ phase = "idle"
    /\ Len(main) < MaxCommits                            \* bound: MaxCommits
    /\ phase' = "execute"
    /\ run' = [NoRun EXCEPT !.base = Len(main), !.target = today - 1,
                            !.local = Tip.payload]
    /\ UNCHANGED <<today, main>>

Base == main[run.base]

Writes(refusal, channels) ==
    /\ PredecessorLoads(main, run.base)
    /\ run' = [run EXCEPT !.local =
         [target |-> run.target, refusal |-> refusal, channels |-> channels,
          authority |-> Base.authority, predecessor |-> run.base]]
    /\ phase' = "verify"
    /\ UNCHANGED <<today, main>>

WritesRefusal ==
    /\ phase = "execute" /\ ~Authorized(Base.authority, today)
    /\ Writes(TRUE, [c \in Channels |-> Unavailable])

WritesLinks ==
    /\ phase = "execute" /\ Authorized(Base.authority, today)
    /\ \E fetched \in [Channels -> Closing] :
            Writes(FALSE, Retained(fetched, Base.payload, run.target))

\* A refusal before the write: the rights drifted over midnight, the
\* dictionary or the predecessor is invalid, the step's cap.  The checked out
\* payload stays.
ExecuteFails ==
    /\ phase = "execute"
    /\ phase' = "verify"
    /\ UNCHANGED <<today, main, run>>

-----------------------------------------------------------------------------
(* --verify-payload --expected-target, then publish_push.sh.               *)

\* A payload the run did not write names another authority, of the same
\* profile or not.
Verifies ==
    /\ phase = "verify"
    /\ run.local # NoPayload /\ run.local.target = today - 1
    /\ phase' = "pull"
    /\ UNCHANGED <<today, main, run>>

RedRun == phase' = "idle" /\ run' = NoRun

VerifyFails ==
    /\ phase = "verify"
    /\ \/ run.local = NoPayload
       \/ run.local # NoPayload /\ run.local.target # today - 1
       \/ run.local # NoPayload /\ run.local.authority # Base.authority
    /\ RedRun
    /\ UNCHANGED <<today, main>>

AttemptFails ==
    IF run.attempt = MaxAttempts
    THEN phase' = "failed" /\ UNCHANGED run
    ELSE phase' = "pull" /\ run' = [run EXCEPT !.attempt = @ + 1]

\* HEAD is the run's commit on the tip, or the tip itself when there is
\* nothing to replay: the payload is unchanged or already on main.
Pulls ==
    /\ phase = "pull"
    /\ run' = [run EXCEPT !.seen = Len(main),
                          !.parent = IF run.local = Tip.payload
                                     THEN Len(main) - 1 ELSE Len(main)]
    /\ phase' = "release"
    /\ UNCHANGED <<today, main>>

PullFails ==
    /\ phase = "pull"
    /\ AttemptFails
    /\ UNCHANGED <<today, main>>

\* A red gate, or a lane that left unstaged changes: the script exits 1.  The
\* gate of a candidate lasts as long as phase "release" does.
GateRed ==
    /\ phase \in {"pull", "release"}
    /\ phase' = "failed"
    /\ UNCHANGED <<today, main, run>>

\* (Faulty variant: the payload may name any commit as its predecessor.)
BoundAnywhere(payload, parent) == TRUE

BoundTo(payload, parent) == payload.predecessor = parent

\* (Faulty variant: the release does not look at the clock again.)
ReleasedAnyDay(payload, now) == TRUE

OnItsDay(payload, now) == payload.target = now - 1

\* The candidate's tree holds the parent's rights files.
AuthorityHolds(payload, authority, now) ==
    /\ payload.authority = authority
    /\ payload.refusal <=> ~Authorized(authority, now)

\* check_release_rights
ReleaseVerified ==
    /\ run.parent = run.seen
    /\ BoundTo(run.local, run.parent)
    /\ Monotone(run.local, main[run.parent].payload, run.local.target)
    /\ OnItsDay(run.local, today)
    /\ AuthorityHolds(run.local, main[run.parent].authority, today)

Pushed == Append(main, [payload |-> run.local, authority |-> Tip.authority])

\* The hook and the push that follows it at once are one step: no midnight
\* falls between them.  A push of somebody else that does is PushFails.
PushSucceeds ==
    /\ phase = "release" /\ ReleaseVerified /\ run.seen = Len(main)
    /\ main' = Pushed
    /\ phase' = "green"
    /\ UNCHANGED <<today, run>>

PushAnswerLost ==
    /\ phase = "release" /\ ReleaseVerified /\ run.seen = Len(main)
    /\ main' = Pushed
    /\ AttemptFails
    /\ UNCHANGED today

\* Refused by the hook, rejected by the remote, or not delivered.
PushFails ==
    /\ phase = "release"
    /\ AttemptFails
    /\ UNCHANGED <<today, main>>

-----------------------------------------------------------------------------
(* verify_superseded                                                       *)

\* (Faulty variant: any payload on main will do.)
SupersededByAny(remote, target) == remote # NoPayload

SupersededTarget(remote, target) == remote # NoPayload /\ remote.target = target

Superseded ==
    /\ run.local.target = today - 1
    /\ SupersededTarget(Tip.payload, run.local.target)
    /\ PredecessorLoads(main, Len(main))
    /\ Monotone(Tip.payload, run.local, run.local.target)

ChecksSuperseded ==
    /\ phase = "failed"
    /\ IF Superseded THEN phase' = "green" /\ UNCHANGED run ELSE RedRun
    /\ UNCHANGED <<today, main>>

\* The job cap, or a step that dies.
Killed ==
    /\ phase \notin {"idle", "green"}
    /\ RedRun
    /\ UNCHANGED <<today, main>>

Ends ==
    /\ phase = "green"
    /\ phase' = "idle" /\ run' = NoRun
    /\ UNCHANGED <<today, main>>

RunStep ==
    \/ Begins \/ WritesRefusal \/ WritesLinks \/ ExecuteFails
    \/ Verifies \/ VerifyFails \/ Pulls \/ PullFails \/ GateRed
    \/ PushSucceeds \/ PushAnswerLost \/ PushFails
    \/ ChecksSuperseded \/ Killed \/ Ends

Next == Tick \/ ForeignPush \/ RunStep

Spec == Init /\ [][Next]_vars

-----------------------------------------------------------------------------
(* Properties.                                                             *)

TypeOK ==
    /\ today \in Nat \ {0}
    /\ main \in Seq(Commit) /\ Len(main) > 0
    /\ phase \in Phase
    /\ run \in Run
    /\ phase # "idle" => run.base \in 1..Len(main) /\ run.target \in 0..(today - 1)
    /\ phase = "release" => run.parent \in 0..run.seen /\ run.seen \in 1..Len(main)

(* Whoever changes rights, signers or profile in between, the payload on   *)
(* main stays readable as the predecessor of the next one: no profile      *)
(* transition strands the lane (_load_predecessor's comment).              *)
PredecessorAlwaysLoads == PredecessorLoads(main, Len(main))

Released(i) == main[i].payload # main[i - 1].payload

(* Each payload on main names the very commit it was released on, and was  *)
(* written under the authority that commit holds: links only where it      *)
(* authorized them on the day of the release, a refusal only where not.    *)
BindingExact ==
    \A i \in 2..Len(main) : Released(i) =>
        /\ main[i].payload.predecessor = i - 1
        /\ main[i].payload.authority = main[i - 1].authority
        /\ main[i].payload.refusal <=>
               ~Authorized(main[i - 1].authority, main[i].payload.target + 1)

(* A payload reaches main on the day after its target and on no other, at  *)
(* whatever hour its run began and however long its gate took.             *)
ReleasedOnItsDay ==
    [][main' # main /\ main'[Len(main')].payload # Tip.payload =>
            main'[Len(main')].payload.target = today - 1]_vars

ClosedIn(payload) ==
    IF payload = NoPayload THEN {} ELSE {c \in Channels : payload.channels[c] # Unavailable}

Retains(remote, local) ==
    \A c \in ClosedIn(local) : remote.channels[c] = local.channels[c]

(* A channel closed for a target keeps its links on main until the next    *)
(* target or a refusal, whatever later runs of the day acquired.           *)
LinksStay ==
    [][\A c \in Channels :
         LET old == Tip.payload  new == main'[Len(main')].payload
         IN  c \in ClosedIn(old) /\ new.target = old.target /\ ~new.refusal =>
                new.channels[c] = old.channels[c]]_vars

(* What a run builds its own release check accepts: only a push of         *)
(* somebody else or midnight can make the hook refuse a fresh payload.     *)
QuietRunReleases ==
    phase = "release" /\ Len(main) = run.base /\ today = run.target + 1
        /\ run.local # Base.payload => ReleaseVerified

(* A run that ends green finds its target on main, with every link it      *)
(* closed or the refusal that withholds them: also the run that lost its   *)
(* push and was declared superseded.                                       *)
GreenRunServed ==
    phase = "green" =>
        /\ Tip.payload # NoPayload
        /\ Tip.payload.target = run.local.target
        /\ Tip.payload.refusal \/ Retains(Tip.payload, run.local)

(* What verify_superseded says of itself (receipt_identity.py:1292): it    *)
(* passes only when main's payload "has the same target and, channel by    *)
(* channel, retains every article this run closed".                        *)
SupersededMeansRetained ==
    phase = "green" => Retains(Tip.payload, run.local)
=============================================================================
