----------------------------- MODULE BazaarIntake -----------------------------
(***************************************************************************)
(* What brings bazaar commands into the queue: the flips COFL recommends,  *)
(* as messages of their own (src/src/main.rs:3311-3465) or as chat         *)
(* (3695-3792), the notification that an order has filled (3061-3133) and  *)
(* the timer that looks after the orders (4987-5052); and the flags they   *)
(* ask, with those who change them.                                        *)
(*                                                                         *)
(* Each reads the flags first and puts its command in the queue later.     *)
(* Nobody but the flips asks whether intake is paused, COFL has            *)
(* authenticated the session, a startup runs or the daily limit is         *)
(* reached: these four are any at each flip.  Amounts are left out: that   *)
(* unstackable items are capped to the free slots drops no flip, since the *)
(* inventory is not near full there (3374-3388).  The lengths of the      *)
(* timers decide nothing: each may be due at any time.                     *)
(***************************************************************************)
EXTENDS Naturals

CONSTANTS
    Ages,               \* config.bazaar_order_cancel_minutes_per_million > 0
    MaxUpsets           \* bound of the model: changes nobody below is bound to make

VARIABLES
    enabled,            \* enable_bazaar_flips
    paused,             \* bazaar_flips_paused
    limit,              \* bazaar_at_limit
    free, full,         \* free slots: "none", "few", "many"; inventory_full
    done, filled,       \* the game has a filled order; the tracker knows of one
    late,               \* one has filled since the run read the list
    flip, notice, check,    \* where the three tasks stand
    waiting, running,   \* ManageOrders in the queue; what the bot does
    slipped,            \* commands queued since the switch was turned off, by task
    upsets

flags == <<enabled, paused, limit, free, full>>
order == <<done, filled, late>>
tasks == <<flip, notice, check>>
queue == <<waiting, running>>
vars  == <<flags, order, tasks, queue, slipped, upsets>>

Task == {"flip", "flip manage", "notice", "check"}
Places == {"rest", "queue"}
None == [t \in Task |-> 0]

TypeOK ==
    /\ enabled \in BOOLEAN /\ paused \in BOOLEAN /\ limit \in BOOLEAN
    /\ free \in {"none", "few", "many"} /\ full \in BOOLEAN
    /\ done \in BOOLEAN /\ filled \in BOOLEAN /\ late \in BOOLEAN
    /\ flip \in {"rest", "buy", "sell", "look", "queue"}
    /\ notice \in Places \cup {"told"} /\ check \in Places \cup {"cooldown", "look"}
    /\ waiting \in 0..3 /\ running \in {"none", "opens", "collects", "other"}
    /\ slipped \in [Task -> 0..2] /\ upsets \in 0..MaxUpsets

Init ==
    /\ enabled = TRUE /\ paused = FALSE /\ limit = FALSE
    /\ free \in {"few", "many"} /\ full = FALSE
    /\ done = FALSE /\ filled = FALSE /\ late = FALSE
    /\ flip = "rest" /\ notice = "rest" /\ check = "rest"
    /\ waiting = 0 /\ running = "none"
    /\ slipped = None /\ upsets = 0

Upset == upsets < MaxUpsets /\ upsets' = upsets + 1

\* is_inventory_full, which clears a flag that the free slots belie.
IsFull == full /\ free = "none"
ReadFull == full' = IsFull

HasManage == waiting > 0 \/ running \in {"opens", "collects"}

\* The task t has queued a command.
Queued(t) == slipped' = IF enabled THEN slipped ELSE [slipped EXCEPT ![t] = @ + 1]
QueueManage(t) == waiting' = waiting + 1 /\ Queued(t)

-----------------------------------------------------------------------------
(* A flip. *)

\* A plausible bug: the gates do not ask for the switch.
Wanted_Always == ~paused
Wanted == enabled /\ ~paused

\* The gates: intake is open, COFL is known, no startup runs, the daily limit is
\* not reached; a buy order needs a slot and room for what it brings.
BuyPasses == ~limit /\ ~filled /\ free = "many"
Flip(side) ==
    /\ flip = "rest" /\ Wanted
    /\ side = "buy" => BuyPasses
    /\ flip' = side
    /\ UNCHANGED <<flags, order, notice, check, queue, slipped, upsets>>

QueueFlip ==
    /\ flip \in {"buy", "sell"} /\ Queued("flip")
    /\ flip' = IF flip = "sell" THEN "look" ELSE "rest"
    /\ UNCHANGED <<flags, order, notice, check, queue, upsets>>

\* A sale at the limit has an order managed first.
LookForManage ==
    /\ flip = "look" /\ flip' = IF limit /\ ~HasManage THEN "queue" ELSE "rest"
    /\ UNCHANGED <<flags, order, notice, check, queue, slipped, upsets>>

FlipQueuesManage ==
    /\ flip = "queue" /\ flip' = "rest" /\ QueueManage("flip manage")
    /\ UNCHANGED <<flags, order, notice, check, running, upsets>>

-----------------------------------------------------------------------------
(* BazaarOrderFilled: the notification of an order the tracker may not know yet. *)

Fills ==
    /\ notice = "rest" /\ Upset
    /\ done' = TRUE /\ notice' = "told"
    /\ late' = (late \/ running = "collects")
    /\ UNCHANGED <<flags, filled, flip, check, queue, slipped>>

Notice(known, isBuy) ==
    /\ notice = "told"
    /\ filled' = (filled \/ (known /\ done))        (* mark_filled *)
    /\ IF enabled /\ isBuy THEN ReadFull ELSE UNCHANGED full
    /\ notice' = IF enabled /\ ~(isBuy /\ IsFull) /\ ~HasManage THEN "queue" ELSE "rest"
    /\ UNCHANGED <<enabled, paused, limit, free, done, late, flip, check, queue, slipped,
                   upsets>>

NoticeQueues ==
    /\ notice = "queue" /\ notice' = "rest" /\ QueueManage("notice")
    /\ UNCHANGED <<flags, order, flip, check, running, upsets>>

-----------------------------------------------------------------------------
(* The timer. *)

\* A plausible bug: what the switch was at the start decides.
Due_AtBoot == ~paused /\ (filled \/ Ages)
Due == enabled /\ ~paused /\ (filled \/ Ages)

Check ==
    /\ check = "rest" /\ Due
    /\ ReadFull /\ check' = IF IsFull THEN "cooldown" ELSE "look"
    /\ UNCHANGED <<enabled, paused, limit, free, order, flip, notice, queue, slipped, upsets>>

NotDue == check = "rest" /\ ~Due /\ UNCHANGED vars

\* Ninety seconds later (clear_inventory_full); the switch is not asked again.
Cooled ==
    /\ check = "cooldown" /\ check' = "look" /\ full' = FALSE
    /\ UNCHANGED <<enabled, paused, limit, free, order, flip, notice, queue, slipped, upsets>>

CheckLooks ==
    /\ check = "look" /\ check' = IF running = "none" /\ ~HasManage THEN "queue" ELSE "rest"
    /\ UNCHANGED <<flags, order, flip, notice, queue, slipped, upsets>>

CheckQueues ==
    /\ check = "queue" /\ check' = "rest" /\ QueueManage("check")
    /\ UNCHANGED <<flags, order, flip, notice, running, upsets>>

-----------------------------------------------------------------------------
(* The processor and what the bot does. *)

\* ManageOrders begins, or is dropped in an AH pause.
Take ==
    /\ waiting > 0 /\ running = "none" /\ waiting' = waiting - 1
    /\ running' = IF paused /\ ~IsFull THEN "none" ELSE "opens"
    /\ IF paused THEN ReadFull ELSE UNCHANGED full
    /\ UNCHANGED <<enabled, paused, limit, free, order, tasks, slipped, upsets>>

\* It reads the list.
Lists ==
    /\ running = "opens" /\ running' = "collects" /\ late' = FALSE
    /\ UNCHANGED <<flags, done, filled, tasks, waiting, slipped, upsets>>

\* It has collected what was filled then, or found no room; every end of a run
\* clears the limit.
Ends ==
    /\ running = "collects" /\ running' = "none" /\ limit' = FALSE
    /\ IF free = "none" /\ done
       THEN full' = TRUE /\ UNCHANGED <<done, filled>>
       ELSE UNCHANGED full /\ done' = late /\ filled' = (filled /\ late)
    /\ UNCHANGED <<enabled, paused, free, late, tasks, waiting, slipped, upsets>>

\* check_manage_orders_deadline: a pause ends the run wherever it is, and so does
\* its deadline; what it has not collected stays.
Aborts ==
    /\ running \in {"opens", "collects"} /\ running' = "none" /\ limit' = FALSE
    /\ \/ paused /\ UNCHANGED upsets
       \/ Upset
    /\ UNCHANGED <<enabled, paused, free, full, order, tasks, waiting, slipped>>

Other ==
    /\ \/ running = "none" /\ Upset /\ running' = "other"
       \/ running = "other" /\ running' = "none" /\ UNCHANGED upsets
    /\ UNCHANGED <<flags, order, tasks, waiting, slipped>>

-----------------------------------------------------------------------------
(* The switch, and what the game and the auctions do to the flags. *)

Toggle ==
    /\ Upset /\ enabled' = ~enabled /\ slipped' = None
    /\ UNCHANGED <<paused, limit, free, full, order, tasks, queue>>

\* A countdown pauses the bazaar; the pause ends (BazaarPause).
Countdown ==
    /\ enabled /\ ~paused /\ Upset /\ paused' = TRUE
    /\ UNCHANGED <<enabled, limit, free, full, order, tasks, queue, slipped>>
Resume ==
    /\ paused /\ paused' = FALSE
    /\ UNCHANGED <<enabled, limit, free, full, order, tasks, queue, slipped, upsets>>

LimitReached ==
    /\ ~limit /\ Upset /\ limit' = TRUE
    /\ UNCHANGED <<enabled, paused, free, full, order, tasks, queue, slipped>>

\* Nothing has been listed at auction for half an hour (AuctionCycle).
IdleFailsafe ==
    /\ limit /\ Upset /\ limit' = FALSE
    /\ UNCHANGED <<enabled, paused, free, full, order, tasks, queue, slipped>>

\* Items come and go; the game may say that the inventory is full.
RoomChanges ==
    /\ Upset /\ free' \in {"none", "few", "many"} \ {free}
    /\ full' \in IF free' = "none" THEN {full, TRUE} ELSE {full}
    /\ UNCHANGED <<enabled, paused, limit, order, tasks, queue, slipped>>

Notices == (\E known, isBuy \in BOOLEAN : Notice(known, isBuy)) \/ NoticeQueues
Checks  == Check \/ NotDue \/ Cooled \/ CheckLooks \/ CheckQueues
Manages == Take \/ Lists \/ Ends \/ Aborts

Next ==
    \/ \E side \in {"buy", "sell"} : Flip(side)
    \/ QueueFlip \/ LookForManage \/ FlipQueuesManage
    \/ Fills \/ Notices \/ Checks \/ Manages \/ Other
    \/ Toggle \/ Countdown \/ Resume \/ LimitReached \/ IdleFailsafe \/ RoomChanges

\* The tasks run on, what the bot does ends and so does a pause.
Fairness ==
    /\ WF_vars(Notices) /\ WF_vars(Checks) /\ WF_vars(Manages) /\ WF_vars(Resume)
    /\ WF_vars(running = "other" /\ Other)

FairSpec == Init /\ [][Next]_vars /\ Fairness

-----------------------------------------------------------------------------
(* After the switch is turned off each task queues what it has in hand and  *)
(* no more: one flip, one run before it, one for an order that has filled,  *)
(* one of the timer (main.rs:3311-3314, 4990-4993, 5008-5014).              *)
SwitchedOffIsLeft == \A t \in Task : slipped[t] <= 1

(* An order that fills is collected, whichever of the notice, the timer and *)
(* the run under way misses it, unless the finder is switched off or there  *)
(* is no room (main.rs:3105-3132, 5021-5051).                               *)
FilledIsCollected == done ~> (~done \/ ~enabled \/ free = "none")
=============================================================================
