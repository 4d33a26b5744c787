-------------------------- MODULE LaneQueueProofs --------------------------
(***************************************************************************)
(* The lane queue's types, and the watchdog's promise not to evict, for    *)
(* any number of days.  The type invariant needs one more fact: a run that *)
(* holds the group has seen no date still to come, and published no day of *)
(* its own date or later; a run that waits has published nothing.          *)
(***************************************************************************)
EXTENDS LaneQueue, TLAPS

SeesNoFuture ==
    /\ running.now <= today
    /\ running.target # 0 => running.target <= running.now - 1
    /\ pending.target = 0

IInv == TypeOK /\ SeesNoFuture /\ WatchdogSparesTheQueue

LEMMA Runs == NoRun \in Run /\ NoShot \in Watch
<1>1. 0 \in 0..MaxDay
    BY MaxDayAssumption
<1>2. NoRun \in Run
    BY <1>1 DEF NoRun, Run, Kind
<1> QED BY <1>2 DEF NoShot, Watch, WatchStep

LEMMA TriggeredRun ==
    ASSUME TypeOK, NEW kind \in Kind
    PROVE  /\ Triggered(kind) \in Run
           /\ Triggered(kind).kind = kind /\ Triggered(kind).target = 0
<1>1. latest \in 0..MaxDay /\ 0 \in 0..MaxDay
    BY MaxDayAssumption DEF TypeOK
<1> QED BY <1>1 DEF Triggered, NoRun, Run

LEMMA QueueKeeps ==
    ASSUME IInv, NEW kind \in {"morning", "daily"}, Queue(kind), UNCHANGED running
    PROVE  (pending \in Run /\ watch \in Watch /\ SeesNoFuture /\ WatchdogSparesTheQueue)'
<1>1. Triggered(kind) \in Run /\ Triggered(kind).kind = kind /\ Triggered(kind).target = 0
    BY TriggeredRun DEF IInv, Kind
<1>2. watch' = [watch EXCEPT !.overtaken = @ \/ (kind = "morning" /\ watch.step = "clear")]
    BY DEF Queue
<1>3. watch' \in Watch /\ watch'.step = watch.step /\ watch'.blind = watch.blind
    BY <1>2 DEF IInv, TypeOK, Watch
<1>4. watch'.overtaken = (watch.overtaken \/ (kind = "morning" /\ watch.step = "clear"))
    BY <1>2 DEF IInv, TypeOK, Watch
<1>5. WatchdogSparesTheQueue'
    <2>1. pending'.kind = kind
        BY <1>1 DEF Queue
    <2> QED BY <1>3, <1>4, <2>1 DEF IInv, WatchdogSparesTheQueue
<1> QED BY <1>1, <1>3, <1>5 DEF Queue, IInv, SeesNoFuture

LEMMA WatchKeeps ==
    ASSUME IInv, NEW next \in Watch, WatchGoes(next),
           next.step = "clear" /\ ~next.blind /\ ~next.overtaken => pending.kind # "morning"
    PROVE  IInv'
    BY DEF IInv, TypeOK, WatchGoes, SeesNoFuture, WatchdogSparesTheQueue

LEMMA Closed ==
    ASSUME NEW before \in Int, NEW after \in Int, before <= after, NEW day \in Int,
           0 <= day, day <= before - 1
    PROVE  day \in 0..(after - 1)
    OBVIOUS

LEMMA InitIInv == Init => IInv
    BY Runs, MaxDayAssumption DEF Init, IInv, TypeOK, SeesNoFuture, WatchdogSparesTheQueue,
       Clock, DailyCrons, NoRun, NoShot

LEMMA NextIInv == IInv /\ [Next]_vars => IInv'
<1> SUFFICES ASSUME IInv, [Next]_vars PROVE IInv'
    OBVIOUS
<1> USE MaxDayAssumption
<1>1. CASE UNCHANGED vars
    BY <1>1 DEF vars, IInv, TypeOK, SeesNoFuture, WatchdogSparesTheQueue
<1>2. CASE ClockMoves
    <2>1. today' \in 2..MaxDay /\ today <= today'
        BY <1>2 DEF ClockMoves, IInv, TypeOK
    <2>2. clock' \in Clock
        BY <1>2 DEF ClockMoves, Clock
    <2>3. crons' \in 0..2
        BY <1>2 DEF ClockMoves, DailyCrons
    <2>4. running.now \in 0..MaxDay
        BY DEF IInv, TypeOK, Run
    <2>5. UNCHANGED <<latest, running, pending, watch>>
        BY <1>2 DEF ClockMoves
    <2>6. latest' \in 0..(today' - 1)
        <3>1. today \in Int /\ today' \in Int
            BY <2>1, MaxDayAssumption DEF IInv, TypeOK
        <3>2. latest \in Int /\ 0 <= latest /\ latest <= today - 1
            BY <3>1 DEF IInv, TypeOK
        <3>3. latest' = latest
            BY <2>5
        <3> QED BY <2>1, <3>1, <3>2, <3>3, Closed
    <2>7. SeesNoFuture' /\ WatchdogSparesTheQueue'
        BY <2>1, <2>4, <2>5 DEF IInv, TypeOK, SeesNoFuture, WatchdogSparesTheQueue
    <2> QED BY <2>1, <2>2, <2>3, <2>5, <2>6, <2>7 DEF IInv, TypeOK
<1>3. CASE MorningCron \/ Guarantor
    <2>1. Queue("morning") /\ UNCHANGED <<running, crons>>
        BY <1>3 DEF MorningCron, Guarantor
    <2> QED BY <2>1, QueueKeeps DEF Queue, IInv, TypeOK
<1>4. CASE DailyCron
    <2>1. Queue("daily") /\ UNCHANGED running /\ crons' \in 0..2
        BY <1>4 DEF DailyCron, IInv, TypeOK
    <2> QED BY <2>1, QueueKeeps DEF Queue, IInv, TypeOK
<1>5. CASE Starts
    <2>1. running' = [pending EXCEPT !.now = today] /\ today \in 0..MaxDay
        BY <1>5 DEF Starts, IInv, TypeOK
    <2>2. running' \in Run /\ running'.now = today /\ running'.target = 0
        BY <2>1 DEF IInv, TypeOK, Run, SeesNoFuture
    <2>3. pending' \in Run /\ pending'.kind = "none" /\ pending'.target = 0
        BY <1>5, Runs DEF Starts, NoRun
    <2> QED BY <1>5, <2>2, <2>3 DEF Starts, IInv, TypeOK, SeesNoFuture, WatchdogSparesTheQueue
<1>6. ASSUME NEW day \in 0..(today - 1), Leave(day) PROVE IInv'
    <2>1. running' \in Run /\ running'.now = 0 /\ running'.target = 0
        BY <1>6, Runs DEF Leave, NoRun
    <2> QED BY <1>6, <2>1 DEF Leave, IInv, TypeOK, SeesNoFuture, WatchdogSparesTheQueue
<1>7. CASE Fails
    BY <1>6, <1>7 DEF Fails, IInv, TypeOK
<1>8. CASE DailyPublishes
    <2>1. running.now - 1 \in 0..(today - 1)
        BY <1>8 DEF DailyPublishes, IInv, TypeOK, SeesNoFuture, Run
    <2> QED BY <1>6, <1>8, <2>1 DEF DailyPublishes
<1>9. CASE MorningPublishes
    <2>1. latest' = latest + 1 /\ latest' <= running.now - 1
          /\ running' = [running EXCEPT !.target = latest']
        BY <1>9 DEF MorningPublishes, NextTarget
    <2>2. latest' \in 0..(today - 1) /\ latest' \in 0..MaxDay
        BY <2>1 DEF IInv, TypeOK, SeesNoFuture, Run
    <2>3. running' \in Run /\ running'.now = running.now /\ running'.target = latest'
        BY <2>1, <2>2 DEF IInv, TypeOK, Run
    <2> QED BY <1>9, <2>2, <2>3
        DEF MorningPublishes, IInv, TypeOK, SeesNoFuture, WatchdogSparesTheQueue
<1>10. CASE MorningContinues
    <2>1. Queue("morning") /\ running' = NoRun /\ UNCHANGED crons
        BY <1>10 DEF MorningContinues
    <2>2. Triggered("morning") \in Run /\ Triggered("morning").target = 0
        BY TriggeredRun DEF IInv, Kind
    <2>3. running' \in Run /\ running'.now = 0 /\ running'.target = 0
        BY <2>1, Runs DEF NoRun
    <2>4. watch' = [watch EXCEPT !.overtaken = @ \/ watch.step = "clear"]
        BY <2>1 DEF Queue
    <2>5. watch' \in Watch /\ watch'.step = watch.step
          /\ watch'.overtaken = (watch.overtaken \/ watch.step = "clear")
        BY <2>4 DEF IInv, TypeOK, Watch
    <2>6. WatchdogSparesTheQueue'
        BY <2>5 DEF WatchdogSparesTheQueue
    <2>7. UNCHANGED <<today, clock, latest, crons>> /\ pending' = Triggered("morning")
        BY <2>1 DEF Queue
    <2>8. SeesNoFuture'
        BY <2>2, <2>3, <2>7 DEF IInv, TypeOK, SeesNoFuture
    <2> QED BY <2>2, <2>3, <2>5, <2>6, <2>7, <2>8 DEF IInv, TypeOK
<1>11. CASE WatchdogChecks
    <2>1. [NoShot EXCEPT !.step = "stale"] \in Watch
        BY DEF NoShot, Watch, WatchStep
    <2>2. [NoShot EXCEPT !.step = "stale"].step = "stale"
        BY DEF NoShot
    <2> QED BY <1>11, <2>1, <2>2, WatchKeeps DEF WatchdogChecks
<1>12. CASE WatchdogStandsDown \/ WatchdogVerifies
    BY <1>12, Runs, WatchKeeps DEF WatchdogStandsDown, WatchdogVerifies, NoShot
<1>13. CASE WatchdogClears
    <2> DEFINE seen == [watch EXCEPT !.step = "clear"]
               blind == [watch EXCEPT !.step = "clear", !.blind = TRUE]
    <2>1. seen \in Watch /\ blind \in Watch /\ blind.blind
        BY DEF IInv, TypeOK, Watch, WatchStep
    <2>2. CASE ~MorningRunExists /\ WatchGoes(seen)
        <3>1. pending.kind # "morning"
            BY <2>2 DEF MorningRunExists
        <3> QED BY <2>1, <2>2, <3>1, WatchKeeps
    <2>3. CASE WatchGoes(blind)
        BY <2>1, <2>3, WatchKeeps
    <2> QED BY <1>13, <2>2, <2>3 DEF WatchdogClears
<1>14. CASE WatchdogDispatches
    <2> DEFINE sent == [watch EXCEPT !.step = "sent"]
    <2>1. sent \in Watch /\ sent.step = "sent"
        BY DEF IInv, TypeOK, Watch, WatchStep
    <2>2. CASE WatchGoes(sent)
        BY <2>1, <2>2, WatchKeeps
    <2>3. CASE WatchGoes(NoShot)
        BY <2>3, Runs, WatchKeeps DEF NoShot
    <2>4. CASE /\ pending' = Triggered("morning") /\ watch' = sent
               /\ UNCHANGED <<today, clock, crons, latest, running>>
        <3>1. Triggered("morning") \in Run /\ Triggered("morning").target = 0
            BY TriggeredRun DEF IInv, Kind
        <3> QED BY <2>1, <2>4, <3>1 DEF IInv, TypeOK, SeesNoFuture, WatchdogSparesTheQueue
    <2> QED BY <1>14, <2>2, <2>3, <2>4 DEF WatchdogDispatches
<1> QED BY <1>1, <1>2, <1>3, <1>4, <1>5, <1>7, <1>8, <1>9, <1>10, <1>11, <1>12, <1>13, <1>14
    DEF Next

(* The day of record never passes the last closed day, and every part of   *)
(* the queue stays in its domain, for any number of days.                  *)
THEOREM TypeCorrect == Spec => []TypeOK
<1>1. IInv => TypeOK BY DEF IInv
<1> QED BY <1>1, InitIInv, NextIInv, PTL DEF Spec

(* watchdog.yml: a shot that counted no morning run, and was not overtaken *)
(* since, has none to evict.                                               *)
THEOREM NothingEvicted == Spec => []WatchdogSparesTheQueue
<1>1. IInv => WatchdogSparesTheQueue BY DEF IInv
<1> QED BY <1>1, InitIInv, NextIInv, PTL DEF Spec

(* dispatch_morning_successor.py: a successor is dispatched only while its *)
(* date has a closed day left to publish.                                  *)
THEOREM SuccessorsWork == Spec => SuccessorHasWork
<1>1. IInv /\ [Next]_vars => [MorningContinues => latest < running.now - 1]_vars
    <2> SUFFICES ASSUME IInv, MorningContinues PROVE latest < running.now - 1
        OBVIOUS
    <2> QED BY DEF MorningContinues, CeilingReached, Authorized, IInv, SeesNoFuture, TypeOK, Run
<1> QED BY <1>1, InitIInv, NextIInv, PTL DEF Spec, SuccessorHasWork
=============================================================================
