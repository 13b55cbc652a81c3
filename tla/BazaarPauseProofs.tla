------------------------- MODULE BazaarPauseProofs -------------------------
(***************************************************************************)
(* Proofs about BazaarPause: its type invariant, and that the pause flag   *)
(* and the resume watcher come and go together, for any clock, length of a *)
(* pause and number of watchers; and, at the end, about BazaarIntake beside*)
(* it: what the switch that is turned off lets through.                    *)
(*                                                                         *)
(* The watcher that Pause spawns is a fresh one (Fresh), and it is spawned *)
(* only where the flag is clear, which is where no other is active.        *)
(***************************************************************************)
EXTENDS MCBazaarPause, TLAPS

Fresh == \A w \in Watcher : w > spawned => watch[w] = "none"

\* The processor holds a command exactly outside "ready".
Holding == pc # "ready" => current \in Manage

PauseInv == TypeOK /\ Fresh /\ Holding /\ SingleWatcher /\ PausedHasWatcher

-----------------------------------------------------------------------------
LEMMA InitInv == Init => PauseInv
<1> SUFFICES ASSUME Init PROVE PauseInv OBVIOUS
<1> USE PauseAssumption DEF Init
<1>1. TypeOK
  <2>1. <<>> \in Seq(Manage) OBVIOUS
  <2>2. wake \in [Watcher -> 0..MaxTime] OBVIOUS
  <2>3. watch \in [Watcher -> {"none", "check", "sleep", "store", "current", "queue",
                               "enqueue", "done"}] OBVIOUS
  <2>4. now \in 0..MaxTime /\ until \in 0..MaxTime /\ spawned \in 0..MaxWatchers
    OBVIOUS
  <2>5. paused \in BOOLEAN /\ enabled \in BOOLEAN /\ open \in BOOLEAN /\ tracked \in BOOLEAN
    OBVIOUS
  <2> QED BY <2>1, <2>2, <2>3, <2>4, <2>5 DEF TypeOK
<1>2. Active = {} BY DEF Active
<1> QED BY <1>1, <1>2 DEF PauseInv, Fresh, Holding, SingleWatcher, PausedHasWatcher

(* What leaves the flag and the watchers alone.                            *)
LEMMA Frame ==
  ASSUME PauseInv, UNCHANGED <<paused, watchers>>
  PROVE  Fresh' /\ SingleWatcher' /\ PausedHasWatcher'
<1>1. Active' = Active BY DEF Active, watchers
<1> QED BY <1>1 DEF PauseInv, Fresh, SingleWatcher, PausedHasWatcher, watchers

LEMMA LoopKeeps ==
  ASSUME PauseInv, Tick \/ Countdown \/ Pause \/ CancelOrder
  PROVE  PauseInv'
<1> USE PauseAssumption DEF PauseInv, clock, watchers, manage, order
<1>1. CASE Tick
  <2>1. TypeOK' /\ Holding' BY <1>1 DEF Tick, TypeOK, Holding
  <2> QED BY <1>1, <2>1, Frame DEF Tick
<1>2. CASE Countdown
  <2>1. until' \in 0..MaxTime BY <1>2 DEF Countdown, TypeOK
  <2>2. TypeOK' /\ Holding' BY <1>2, <2>1 DEF Countdown, TypeOK, Holding
  <2> QED BY <1>2, <2>2, Frame DEF Countdown
<1>3. CASE Pause
  <2>1. CASE paused
    <3>1. TypeOK' /\ Holding' BY <1>3, <2>1 DEF Pause, TypeOK, Holding
    <3> QED BY <1>3, <2>1, <3>1, Frame DEF Pause
  <2>2. CASE ~paused
    <3>1. spawned' = spawned + 1 /\ spawned' \in Watcher /\ spawned \in Nat
      BY <1>3, <2>2 DEF Pause, TypeOK, Watcher
    <3>2. watch' = [watch EXCEPT ![spawned'] = "check"] BY <1>3, <2>2 DEF Pause
    <3>a. watch' \in [Watcher -> {"none", "check", "sleep", "store", "current",
                                  "queue", "enqueue", "done"}]
      BY <3>2 DEF TypeOK
    <3>b. spawned' \in 0..MaxWatchers BY <3>1 DEF Watcher
    <3>3. TypeOK' /\ Holding' BY <1>3, <2>2, <3>a, <3>b DEF Pause, TypeOK, Holding
    <3>4. Fresh' BY <3>1, <3>2 DEF Fresh, Watcher, TypeOK
    <3>5. Active = {} BY <2>2 DEF PausedHasWatcher
    <3>6. Active' = {spawned'} BY <3>1, <3>2, <3>5 DEF Active, TypeOK
    <3>7. paused' BY <1>3, <2>2 DEF Pause
    <3> QED BY <3>3, <3>4, <3>6, <3>7 DEF SingleWatcher, PausedHasWatcher
  <2> QED BY <2>1, <2>2
<1>4. CASE CancelOrder
  <2>1. <<"cancel">> \o queue \in Seq(Manage)
    <3>1. <<"cancel">> \in Seq(Manage) BY DEF Manage
    <3> QED BY <3>1 DEF TypeOK
  <2>2. TypeOK' /\ Holding' BY <1>4, <2>1 DEF CancelOrder, TypeOK, Holding
  <2> QED BY <1>4, <2>2, Frame DEF CancelOrder
<1> QED BY <1>1, <1>2, <1>3, <1>4

LEMMA WatcherKeeps ==
  ASSUME PauseInv, NEW w \in Watcher, Watch(w)
  PROVE  PauseInv'
<1> USE PauseAssumption DEF PauseInv, clock, watchers, manage, order
<1>1. watch[w] # "none" /\ (w > spawned => watch[w] = "none")
  BY DEF Watch, Check, Wakes, Store, LookCurrent, LookQueue, Requeue, Step, Fresh
<1>2. CASE Check(w) \/ Wakes(w)
  <2>a. wake' \in [Watcher -> 0..MaxTime] BY <1>2 DEF Check, Wakes, TypeOK
  <2>b. watch' \in [Watcher -> {"none", "check", "sleep", "store", "current",
                                "queue", "enqueue", "done"}]
    BY <1>2 DEF Check, Wakes, TypeOK
  <2>1. TypeOK' /\ Holding' BY <1>2, <2>a, <2>b DEF Check, Wakes, TypeOK, Holding
  <2>2. Active' = Active BY <1>2 DEF Check, Wakes, Active, TypeOK
  <2>3. Fresh' BY <1>1, <1>2 DEF Check, Wakes, Fresh, TypeOK
  <2> QED BY <1>2, <2>1, <2>2, <2>3 DEF Check, Wakes, SingleWatcher, PausedHasWatcher
<1>3. CASE Store(w)
  <2>1. TypeOK' /\ Holding' BY <1>3 DEF Store, Step, TypeOK, Holding
  <2>2. w \in Active BY <1>3 DEF Store, Step, Active
  <2>3. \A v \in Active : v = w BY <2>2 DEF SingleWatcher
  <2>4. watch'[w] \notin {"check", "sleep", "store"} BY <1>3 DEF Store, Step, TypeOK
  <2>5. \A v \in Watcher : v # w => watch'[v] = watch[v] BY <1>3 DEF Store, Step, TypeOK
  <2>6. Active' = {} BY <2>3, <2>4, <2>5 DEF Active
  <2>7. Fresh' BY <1>1, <1>3 DEF Store, Step, Fresh, TypeOK
  <2>8. ~paused' BY <1>3 DEF Store
  <2> QED BY <2>1, <2>6, <2>7, <2>8 DEF SingleWatcher, PausedHasWatcher
<1>4. CASE LookCurrent(w) \/ LookQueue(w) \/ Requeue(w)
  <2>1. "collect" \in Manage BY DEF Manage
  <2>2. queue' \in Seq(Manage)
    BY <1>4, <2>1 DEF LookCurrent, LookQueue, Requeue, TypeOK
  <2>3. TypeOK' /\ Holding'
    BY <1>4, <2>2 DEF LookCurrent, LookQueue, Requeue, Step, TypeOK, Holding
  <2>4. Active' = Active
    BY <1>4 DEF LookCurrent, LookQueue, Requeue, Step, Active, TypeOK
  <2>5. Fresh' BY <1>1, <1>4 DEF LookCurrent, LookQueue, Requeue, Step, Fresh, TypeOK
  <2>6. paused' = paused BY <1>4 DEF LookCurrent, LookQueue, Requeue
  <2> QED BY <2>3, <2>4, <2>5, <2>6 DEF SingleWatcher, PausedHasWatcher
<1> QED BY <1>2, <1>3, <1>4 DEF Watch

LEMMA ProcessorKeeps ==
  ASSUME PauseInv, Processor \/ Abort \/ Collect \/ Switch \/ UNCHANGED vars
  PROVE  PauseInv'
<1> USE PauseAssumption DEF PauseInv, clock, watchers, manage, order
<1>1. CASE Start
  <2>1. Head(queue) \in Manage /\ Tail(queue) \in Seq(Manage)
    BY <1>1 DEF Start, TypeOK
  <2>2. TypeOK' /\ Holding' BY <1>1, <2>1 DEF Start, TypeOK, Holding
  <2> QED BY <1>1, <2>2, Frame DEF Start
<1>2. CASE Gate \/ Abort
  <2>1. TypeOK' /\ Holding' BY <1>2 DEF Gate, Abort, TypeOK, Holding
  <2> QED BY <1>2, <2>1, Frame DEF Gate, Abort
<1>3. CASE Complete
  <2>1. TypeOK' /\ Holding' BY <1>3 DEF Complete, TypeOK, Holding
  <2> QED BY <1>3, <2>1, Frame DEF Complete
<1>4. CASE Collect
  <2>1. "collect" \in Manage BY DEF Manage
  <2>2. queue' \in Seq(Manage) BY <1>4, <2>1 DEF Collect, TypeOK
  <2>3. TypeOK' /\ Holding' BY <1>4, <2>2 DEF Collect, TypeOK, Holding
  <2> QED BY <1>4, <2>3, Frame DEF Collect
<1>5. CASE Switch
  <2>1. TypeOK' /\ Holding' BY <1>5 DEF Switch, TypeOK, Holding
  <2> QED BY <1>5, <2>1, Frame DEF Switch
<1>6. CASE UNCHANGED vars
  <2>1. TypeOK' /\ Holding' BY <1>6 DEF vars, TypeOK, Holding
  <2> QED BY <1>6, <2>1, Frame DEF vars
<1> QED BY <1>1, <1>2, <1>3, <1>4, <1>5, <1>6 DEF Processor

LEMMA PauseInvStep == PauseInv /\ [Next]_vars => PauseInv'
BY LoopKeeps, WatcherKeeps, ProcessorKeeps DEF Next

\* Every variable keeps its type.
THEOREM PauseTypeCorrect == Spec => []TypeOK
<1>1. PauseInv => TypeOK BY DEF PauseInv
<1> QED BY <1>1, InitInv, PauseInvStep, PTL DEF Spec

\* However many countdowns come, one watcher at most waits to end the pause
\* (main.rs:4186-4189).
THEOREM OneWatcher == Spec => []SingleWatcher
<1>1. PauseInv => SingleWatcher BY DEF PauseInv
<1> QED BY <1>1, InitInv, PauseInvStep, PTL DEF Spec

\* The bazaar is paused exactly while a watcher is there to end it.
THEOREM PauseIsWatched == Spec => []PausedHasWatcher
<1>1. PauseInv => PausedHasWatcher BY DEF PauseInv
<1> QED BY <1>1, InitInv, PauseInvStep, PTL DEF Spec

-----------------------------------------------------------------------------
(* BazaarIntake.                                                             *)

\* A task that has asked the switch and not yet queued what it then decided on.
InHand(t) ==
    CASE t = "flip"        -> flip \in {"buy", "sell"}
      [] t = "flip manage" -> flip \in {"sell", "look", "queue"}
      [] t = "notice"      -> notice = "queue"
      [] t = "check"       -> check \in {"cooldown", "look", "queue"}

\* Nothing has slipped through while the switch is on; afterwards a task that has
\* one in hand has queued none.
OneInHand ==
    /\ slipped \in [Intake!Task -> Nat]
    /\ enabled => slipped = Intake!None
    /\ \A t \in Intake!Task : slipped[t] <= (IF InHand(t) THEN 0 ELSE 1)

LEMMA NothingSlipped ==
  Intake!None \in [Intake!Task -> Nat] /\ \A t \in Intake!Task : Intake!None[t] = 0
BY DEF Intake!None

LEMMA CountsAnew == ASSUME slipped' = Intake!None PROVE OneInHand'
BY NothingSlipped DEF OneInHand

(* A task takes something in hand only while the switch is on.               *)
LEMMA TakesInHand ==
  ASSUME OneInHand, UNCHANGED <<enabled, slipped>>,
         enabled \/ \A t \in Intake!Task : InHand(t)' => InHand(t)
  PROVE  OneInHand'
<1>1. CASE enabled BY <1>1, CountsAnew DEF OneInHand
<1>2. CASE \A t \in Intake!Task : InHand(t)' => InHand(t)
  BY <1>2 DEF OneInHand
<1> QED BY <1>1, <1>2

(* It queues what it has in hand, and has it no more.                        *)
LEMMA QueuesInHand ==
  ASSUME OneInHand, NEW t \in Intake!Task, InHand(t), ~InHand(t)', Intake!Queued(t),
         UNCHANGED enabled, \A u \in Intake!Task \ {t} : InHand(u)' => InHand(u)
  PROVE  OneInHand'
<1>1. CASE enabled BY <1>1, CountsAnew DEF OneInHand, Intake!Queued
<1>2. CASE ~enabled
  <2>1. slipped' = [slipped EXCEPT ![t] = @ + 1] BY <1>2 DEF Intake!Queued
  <2>2. slipped[t] = 0 BY DEF OneInHand
  <2>3. slipped' \in [Intake!Task -> Nat] /\ slipped'[t] = 1
        /\ \A u \in Intake!Task \ {t} : slipped'[u] = slipped[u]
    BY <2>1, <2>2 DEF OneInHand
  <2> QED BY <1>2, <2>3 DEF OneInHand
<1> QED BY <1>1, <1>2

LEMMA IntakeKeeps == OneInHand /\ [Intake!Next]_intakeVars => OneInHand'
<1> SUFFICES ASSUME OneInHand, [Intake!Next]_intakeVars PROVE OneInHand' OBVIOUS
<1> USE DEF Intake!flags, Intake!order, Intake!tasks, Intake!queue, Intake!Task, InHand
<1>1. CASE \E side \in {"buy", "sell"} : Intake!Flip(side)
  BY <1>1, TakesInHand DEF Intake!Flip, Intake!Wanted
<1>2. CASE Intake!QueueFlip
  BY <1>2, QueuesInHand DEF Intake!QueueFlip
<1>3. CASE Intake!LookForManage
  BY <1>3, TakesInHand DEF Intake!LookForManage
<1>4. CASE Intake!FlipQueuesManage
  BY <1>4, QueuesInHand DEF Intake!FlipQueuesManage, Intake!QueueManage
<1>5. CASE \E known, isBuy \in BOOLEAN : Intake!Notice(known, isBuy)
  BY <1>5, TakesInHand DEF Intake!Notice
<1>6. CASE Intake!NoticeQueues
  BY <1>6, QueuesInHand DEF Intake!NoticeQueues, Intake!QueueManage
<1>7. CASE Intake!Check
  BY <1>7, TakesInHand DEF Intake!Check, Intake!Due
<1>8. CASE Intake!Cooled \/ Intake!CheckLooks
  BY <1>8, TakesInHand DEF Intake!Cooled, Intake!CheckLooks
<1>9. CASE Intake!CheckQueues
  BY <1>9, QueuesInHand DEF Intake!CheckQueues, Intake!QueueManage
<1>10. CASE Intake!Toggle
  <2>1. slipped' = Intake!None BY <1>10 DEF Intake!Toggle
  <2> QED BY <2>1, CountsAnew
<1>11. CASE \/ Intake!Fills \/ Intake!NotDue \/ Intake!Manages \/ Intake!Other
            \/ Intake!Countdown \/ Intake!Resume \/ Intake!LimitReached \/ Intake!IdleFailsafe
            \/ Intake!RoomChanges \/ UNCHANGED intakeVars
  <2>1. UNCHANGED <<enabled, slipped, flip, check>> /\ (notice' = "queue" => notice = "queue")
    BY <1>11 DEF Intake!Fills, Intake!NotDue, Intake!Manages, Intake!Take, Intake!Lists,
       Intake!Ends, Intake!Aborts, Intake!Other, Intake!Countdown, Intake!Resume,
       Intake!LimitReached, Intake!IdleFailsafe, Intake!RoomChanges, Intake!vars, intakeVars,
       ofIntake
  <2> QED BY <2>1, TakesInHand
<1> QED BY <1>1, <1>2, <1>3, <1>4, <1>5, <1>6, <1>7, <1>8, <1>9, <1>10, <1>11
        DEF Intake!Next, Intake!Notices, Intake!Checks

\* After the switch is turned off each task queues what it has in hand and no
\* more, whatever comes in between (main.rs:3311-3314, 4990-4993, 5008-5014).
THEOREM SwitchedOffIsAlwaysLeft == BothSpec => []SwitchedOffIsLeft
<1> DEFINE Inv == part = "intake" => OneInHand
<1>1. BothInit => Inv
  <2> SUFFICES ASSUME Intake!Init PROVE OneInHand BY DEF BothInit
  <2>1. slipped = Intake!None BY DEF Intake!Init
  <2> QED BY <2>1, NothingSlipped DEF OneInHand
<1>2. Inv /\ [BothNext]_all => Inv'
  <2> SUFFICES ASSUME Inv, [BothNext]_all, part' = "intake" PROVE OneInHand' OBVIOUS
  <2>1. part = "intake" /\ [Intake!Next]_intakeVars
    BY DEF BothNext, all, intakeVars, both, vars
  <2> QED BY <2>1, IntakeKeeps
<1>3. Inv => SwitchedOffIsLeft
  <2> SUFFICES ASSUME OneInHand, NEW t \in Intake!Task PROVE slipped[t] <= 1
    BY DEF SwitchedOffIsLeft, Intake!SwitchedOffIsLeft
  <2> QED BY DEF OneInHand
<1> QED BY <1>1, <1>2, <1>3, PTL DEF BothSpec
=============================================================================
