---------------------------- MODULE MCBazaarPause ----------------------------
(***************************************************************************)
(* BazaarPause, BazaarIntake and AuctionCycle, which share the queue but   *)
(* are checked side by side, each with the others as its environment:      *)
(* every behaviour is that of one of them, chosen at its start.            *)
(***************************************************************************)
EXTENDS BazaarPause

CONSTANTS Ages, MaxUpsets, Slots, MaxQueued, MaxFailures

VARIABLES
    part,
    \* of BazaarIntake
    held, limit, free, full, done, filled, late, flip, notice, check, waiting,
    slipped,
    \* of AuctionCycle
    onSale, over, bin, atLimit, blocked, near, sold, bought, list, ago,
    \* of both
    running, upsets

Intake == INSTANCE BazaarIntake WITH paused <- held
Cycle  == INSTANCE AuctionCycle WITH limit <- atLimit, MaxUpsets <- MaxFailures

ofIntake == <<held, limit, free, full, done, filled, late, flip, notice, check, waiting,
              slipped>>
ofCycle  == <<onSale, over, bin, atLimit, blocked, near, sold, bought, list, ago>>
ofPause  == <<clock, paused, loop, watchers, manage, order>>
both     == <<running, upsets>>
intakeVars == <<enabled, ofIntake, both>>
cycleVars  == <<ofCycle, both>>
all      == <<part, vars, ofIntake, ofCycle, both>>

NoIntake ==
    /\ held = 0 /\ limit = 0 /\ free = 0 /\ full = 0 /\ done = 0 /\ filled = 0 /\ late = 0
    /\ flip = 0 /\ notice = 0 /\ check = 0 /\ waiting = 0 /\ slipped = 0

NoCycle ==
    /\ onSale = 0 /\ over = 0 /\ bin = 0 /\ atLimit = 0 /\ blocked = 0 /\ near = 0
    /\ sold = 0 /\ bought = 0 /\ list = 0 /\ ago = 0

BothInit ==
    /\ part \in {"pause", "intake", "cycle"}
    /\ Init
    /\ part = "pause" => running = 0 /\ upsets = 0
    /\ IF part = "intake" THEN Intake!Init ELSE NoIntake
    /\ IF part = "cycle" THEN Cycle!Init ELSE NoCycle

BothNext ==
    \/ part = "pause" /\ Next /\ UNCHANGED <<part, ofIntake, ofCycle, both>>
    \/ part = "intake" /\ Intake!Next /\ UNCHANGED <<part, ofPause, ofCycle>>
    \/ part = "cycle" /\ Cycle!Next /\ UNCHANGED <<part, vars, ofIntake>>

\* The fairness of each, in its own behaviours.
BothFair ==
    /\ WF_vars(part = "pause" /\ Tick) /\ WF_vars(part = "pause" /\ Pause)
    /\ \A w \in Watcher : WF_vars(part = "pause" /\ Watch(w))
    /\ WF_vars(part = "pause" /\ Processor)
    /\ WF_intakeVars(part = "intake" /\ Intake!Notices)
    /\ WF_intakeVars(part = "intake" /\ Intake!Checks)
    /\ WF_intakeVars(part = "intake" /\ Intake!Manages)
    /\ WF_intakeVars(part = "intake" /\ Intake!Resume)
    /\ WF_intakeVars(part = "intake" /\ running = "other" /\ Intake!Other)
    /\ WF_cycleVars(part = "cycle" /\ Cycle!Ends)
    /\ WF_cycleVars(part = "cycle" /\ running = "other" /\ Cycle!Other)
    /\ SF_cycleVars(part = "cycle" /\ Cycle!TakeSold)
    /\ SF_cycleVars(part = "cycle" /\ Cycle!TakeBought)
    /\ SF_cycleVars(part = "cycle" /\ Cycle!TakeList)
    /\ WF_cycleVars(part = "cycle" /\ ago = 0 /\ Cycle!Tick)
    /\ WF_cycleVars(part = "cycle" /\ ago = 1 /\ Cycle!Tick)
    /\ WF_cycleVars(part = "cycle" /\ Cycle!PeriodicClaim)
    /\ SF_cycleVars(part = "cycle" /\ Cycle!IdleFailsafe)

BothSpec == BothInit /\ [][BothNext]_all /\ BothFair

-----------------------------------------------------------------------------
\* BazaarIntake: after the switch is turned off each task queues what it has in
\* hand and no more (main.rs:3311-3314, 5008-5014).
SwitchedOffIsLeft == part = "intake" => Intake!SwitchedOffIsLeft

\* What the game owes is collected in the end.  BazaarIntake: an order that fills,
\* while there is room and the finder is on (main.rs:3105-3132, 5021-5051).
\* AuctionCycle: auctions that have ended, and a purchase once there is room unless
\* listings go on for ever; and no flag stops listings for good
\* (main.rs:4551-4588, 5130-5254).
OwedIsCollected ==
    /\ part = "intake" /\ done ~> part = "intake" /\ (~done \/ ~enabled \/ free = "none")
    /\ part = "cycle" /\ over = Slots ~> part = "cycle" /\ over < Slots
    /\ part = "cycle" /\ (atLimit \/ blocked) ~> part = "cycle" /\ ~atLimit /\ ~blocked
    /\ \/ []<><<part = "cycle" /\ Cycle!Started>>_cycleVars
       \/ part = "cycle" /\ bin ~> part = "cycle" /\ (~bin \/ near)
=============================================================================
