-------------------------- MODULE CommandProcessor --------------------------
(***************************************************************************)
(* The task that drains the command queue (src/src/main.rs:4365-4672), the *)
(* executor it sends each command to (src/src/bot/client.rs:3581-4058) and *)
(* the bot state through which the one learns of the other's progress.     *)
(*                                                                         *)
(* The processor pops a command, takes it through a series of gates, each  *)
(* of which may drop it, sends it down a channel and then polls the shared *)
(* BotState every 250 ms until it allows commands.  Nothing else tells it  *)
(* that the command ran.  The executor sets the state; the window and chat *)
(* handlers, here FlowDone, set it back.  The AH countdown of the event    *)
(* loop writes the same state and pauses the bazaar meanwhile.             *)
(*                                                                         *)
(* Queue operations are single steps here: CommandQueue looks inside them. *)
(***************************************************************************)
EXTENDS QueueOps

CONSTANTS
    Requests,   \* the commands that timers, events and the web panel enqueue
    Backlog,    \* bound of the model: they do so while fewer than this wait
    Slow,       \* kinds whose execute_command may outlast the first poll
    Varying,    \* the parts of the environment that act
    NoCmd

Environment == {"room", "startup", "countdown", "limits", "operator", "hand"}

ASSUME ProcessorAssumption ==
    /\ Requests \subseteq Request
    /\ Backlog \in Nat
    /\ Slow \subseteq CommandKind
    /\ Varying \subseteq Environment
    /\ NoCmd \notin Request

\* What a command turns the bot state into; the other kinds leave it alone.
BotStateOf ==
    [PurchaseAuction |-> "Purchasing", BazaarBuyOrder |-> "Bazaar",
     BazaarSellOrder |-> "Bazaar", SellToAuction |-> "Selling",
     ClaimSoldItem |-> "ClaimingSold", ClaimPurchasedItem |-> "ClaimingPurchased",
     CheckCookie |-> "CheckingCookie", ManageOrders |-> "ManagingOrders",
     CancelAuction |-> "CancellingAuction",
     SellInventoryBz |-> "SellingInventoryBz"]

BotState == {"Idle", "GracePeriod"} \cup {BotStateOf[k] : k \in DOMAIN BotStateOf}
Allows(s) == s \in {"Idle", "GracePeriod"}

StartupKinds == {"CheckCookie", "ManageOrders", "ClaimSoldItem", "ClaimPurchasedItem"}
SellingKinds == {"SellToAuction", "BazaarSellOrder", "ManageOrders",
                 "ClaimSoldItem", "SellInventoryBz", "CancelAuction"}

-----------------------------------------------------------------------------
VARIABLES
    queue, current,     \* the command queue
    pc,                 \* where the processor's loop stands
    channel, exec,      \* sent commands; the one execute_command works on
    botState,
    startup,            \* startup_in_progress
    paused,             \* bazaar_flips_paused
    fullFlag, room,     \* inventory_full; empty slots: "none" under
                        \* MIN_FREE_SLOTS_FOR_BUY, "few" up to
                        \* NEAR_FULL_SLOT_THRESHOLD, "some" above
    sellingSince,       \* selling_mode_since is set
    limited,            \* which of bazaar_at_limit, auction_at_limit,
                        \* auction_slot_blocked are set
    macroPaused,
    countdown,          \* where the countdown handler stands
    watcher             \* where the resume watcher stands

procVars == <<queue, current, pc, channel>>
execVars == <<exec, botState>>
flags    == <<startup, fullFlag, room, sellingSince, limited, macroPaused>>
pause    == <<paused, countdown, watcher>>
vars     == <<procVars, execVars, flags, pause>>

Gate == {"startup", "pause", "limit", "timer", "full", "last"}

TypeOK ==
    /\ queue \in Seq(Request)
    /\ current \in Request \cup {NoCmd}
    /\ pc \in Gate \cup {"ready", "drop", "dropStartup", "dropPaused",
                         "dropFull", "escape", "manage", "instasell", "send", "poll"}
    /\ channel \in Seq(Request)
    /\ exec \in Request \cup {NoCmd}
    /\ botState \in BotState
    /\ startup \in BOOLEAN /\ paused \in BOOLEAN /\ fullFlag \in BOOLEAN
    /\ room \in {"none", "few", "some"}
    /\ sellingSince \in BOOLEAN /\ macroPaused \in BOOLEAN
    /\ limited \subseteq {"bazaar", "auction", "slot"}
    /\ countdown \in {"none", "look", "idle", "flag"}
    /\ watcher \in {"none", "wait", "current", "queue", "enqueue"}

Init ==
    /\ queue = <<>> /\ current = NoCmd /\ pc = "ready"
    /\ channel = <<>> /\ exec = NoCmd /\ botState = "GracePeriod"
    /\ startup = FALSE /\ paused = FALSE /\ fullFlag = FALSE /\ room = "some"
    /\ sellingSince = FALSE /\ limited = {} /\ macroPaused = FALSE
    /\ countdown = "none" /\ watcher = "none"

Cmd(kind, prio) == [kind |-> kind, prio |-> prio, intr |-> FALSE]

\* is_inventory_full, which clears the flag when it finds it stale.
IsFull == fullFlag /\ room = "none"
ReadFull == fullFlag' = IsFull

-----------------------------------------------------------------------------
(* The gates.  Each reads its flags once; anything may happen in between.  *)

Start ==
    /\ pc = "ready"
    /\ ~macroPaused
    /\ queue # <<>>
    /\ current' = Head(queue)
    /\ queue' = Tail(queue)
    /\ pc' = "startup"
    /\ UNCHANGED <<channel, execVars, flags, pause>>

\* Only the startup workflow's own commands pass while it runs.
GateStartup ==
    /\ pc = "startup"
    /\ pc' = IF startup /\ current.kind \notin StartupKinds THEN "dropStartup" ELSE "pause"
    /\ UNCHANGED <<queue, current, channel, execVars, flags, pause>>

\* Mutant: ManageOrders waits for the AH window whatever the inventory holds.
DropInPause_Always(kind, full) == kind \in {"BazaarBuyOrder", "ManageOrders"}

\* should_drop_bazaar_command_during_ah_pause
DropInPause(kind, full) ==
    kind = "BazaarBuyOrder" \/ (kind = "ManageOrders" /\ ~full)

GatePause ==
    /\ pc = "pause"
    /\ ReadFull
    /\ pc' = IF paused /\ DropInPause(current.kind, IsFull) THEN "dropPaused" ELSE "limit"
    /\ UNCHANGED <<queue, current, channel, execVars, pause, startup, room,
                   sellingSince, limited, macroPaused>>

GateLimit ==
    /\ pc = "limit"
    /\ pc' = IF current.kind = "SellToAuction" /\ "auction" \in limited
             THEN "drop" ELSE "timer"
    /\ UNCHANGED <<queue, current, channel, execVars, flags, pause>>

\* Selling mode begins when the inventory is first seen full.  Seen full again
\* more than 30 s later, it is called off: the flag is cleared.
SellingTimer ==
    /\ pc = "timer"
    /\ \/ /\ ReadFull
          /\ sellingSince' = IsFull
       \/ /\ IsFull /\ sellingSince
          /\ fullFlag' = FALSE
          /\ sellingSince' = FALSE
    /\ pc' = "full"
    /\ UNCHANGED <<queue, current, channel, execVars, pause, startup, room,
                   limited, macroPaused>>

\* Selling mode drops what frees no space.
GateFull ==
    /\ pc = "full"
    /\ ReadFull
    /\ pc' = IF IsFull /\ current.kind \notin SellingKinds THEN "dropFull" ELSE "last"
    /\ UNCHANGED <<queue, current, channel, execVars, pause, startup, room,
                   sellingSince, limited, macroPaused>>

GateLast ==
    /\ pc = "last"
    /\ pc' = IF \/ current.kind = "ClaimPurchasedItem" /\ room \in {"none", "few"}
                \/ current.kind = "BazaarBuyOrder" /\ "bazaar" \in limited
                \/ current.kind = "SellToAuction" /\ "slot" \in limited
             THEN "drop" ELSE "send"
    /\ UNCHANGED <<queue, current, channel, execVars, flags, pause>>

\* Mutant: a gate that completes the command and goes on to send it.
Drop_NoContinue ==
    /\ pc \in {"drop", "dropStartup", "dropPaused", "dropFull"}
    /\ current' = NoCmd
    /\ pc' = IF pc = "dropFull" THEN "escape" ELSE "send"
    /\ UNCHANGED <<queue, channel, execVars, flags, pause>>

\* complete_current on the way out of a gate.
Drop ==
    /\ pc \in {"drop", "dropStartup", "dropPaused", "dropFull"}
    /\ current' = NoCmd
    /\ pc' = IF pc = "dropFull" THEN "escape" ELSE "ready"
    /\ UNCHANGED <<queue, channel, execVars, flags, pause>>

-----------------------------------------------------------------------------
(* A drop for a full inventory makes sure that something frees space.      *)

Escape ==
    /\ pc = "escape"
    /\ pc' = IF QueuedKind(queue, "ManageOrders") THEN "instasell" ELSE "manage"
    /\ UNCHANGED <<queue, current, channel, execVars, flags, pause>>

EscapeManage ==
    /\ pc = "manage"
    /\ queue' = Inserted(queue, Cmd("ManageOrders", High))
    /\ pc' = "instasell"
    /\ UNCHANGED <<current, channel, execVars, flags, pause>>

\* Not more often than every 90 s, which is some time or other.
EscapeInstaSell ==
    /\ pc = "instasell"
    /\ queue' \in {queue, Inserted(queue, Cmd("SellInventoryBz", High))}
    /\ pc' = "ready"
    /\ UNCHANGED <<current, channel, execVars, flags, pause>>

-----------------------------------------------------------------------------
(* Sending and polling. *)

Send ==
    /\ pc = "send"
    /\ channel' = Append(channel, current)
    /\ pc' = "poll"
    /\ UNCHANGED <<queue, current, execVars, flags, pause>>

\* The first look is 250 ms after the send.  By then the executor has picked
\* the command up and is through with it, unless it sleeps over a slow one.
FirstPollDue ==
    \/ channel = <<>> /\ exec = NoCmd
    \/ exec # NoCmd /\ exec.kind \in Slow

Completed ==
    /\ pc = "poll"
    /\ FirstPollDue
    /\ current' = NoCmd
    /\ pc' = "ready"
    /\ UNCHANGED <<queue, channel, exec, flags, pause>>

PollDone ==
    /\ Completed
    /\ Allows(botState)
    /\ UNCHANGED botState

\* Mutant: the comparison the wrong way round.
PollInterrupt_Reversed ==
    /\ Completed
    /\ ~Allows(botState)
    /\ current.intr /\ queue # <<>> /\ Head(queue).prio > current.prio
    /\ botState' = "Idle"

\* Something more urgent waits, and the command lets itself be interrupted.
PollInterrupt ==
    /\ Completed
    /\ ~Allows(botState)
    /\ current.intr /\ queue # <<>> /\ Head(queue).prio < current.prio
    /\ botState' = "Idle"

\* Mutants: no reset after the deadline; the loop waits however long it takes.
PollTimeout_NoReset == Completed /\ UNCHANGED botState
PollTimeout_Never == Completed /\ Allows(botState) /\ UNCHANGED botState

\* The deadline of 10 to 60 s, by kind, and the safety reset after it.
PollTimeout ==
    /\ Completed
    /\ botState' = IF Allows(botState) THEN botState ELSE "Idle"

-----------------------------------------------------------------------------
(* The executor. *)

\* command_rx.recv, and the start of execute_command.
ExecTake ==
    /\ exec = NoCmd
    /\ channel # <<>>
    /\ exec' = Head(channel)
    /\ channel' = Tail(channel)
    /\ UNCHANGED <<queue, current, pc, botState, flags, pause>>

\* The end of execute_command.  A purchase without a uuid, a buy order at the
\* limit and a disabled cookie check return before they set the state.
ExecDone ==
    /\ exec # NoCmd
    /\ \/ /\ exec.kind \in DOMAIN BotStateOf
          /\ exec.kind = "BazaarBuyOrder" => "bazaar" \notin limited
          /\ botState' = BotStateOf[exec.kind]
       \/ /\ \/ exec.kind \notin DOMAIN BotStateOf
             \/ exec.kind \in {"PurchaseAuction", "CheckCookie"}
             \/ exec.kind = "BazaarBuyOrder" /\ "bazaar" \in limited
          /\ UNCHANGED botState
    /\ exec' = NoCmd
    /\ UNCHANGED <<procVars, flags, pause>>

\* The window and chat handlers come to the end of the command's flow, or a
\* watchdog closes its window.
FlowDone ==
    /\ ~Allows(botState)
    /\ botState' = "Idle"
    /\ UNCHANGED <<procVars, exec, flags, pause>>

-----------------------------------------------------------------------------
(* The AH countdown and the watcher that ends its pause.                   *)

\* The event loop reads the state, sets it, and sets the flag last.
Countdown ==
    /\ "countdown" \in Varying
    /\ \/ /\ countdown = "none" /\ watcher = "none"
          /\ countdown' = IF botState = "Purchasing" THEN "flag" ELSE "idle"
          /\ UNCHANGED <<botState, paused, watcher>>
       \/ /\ countdown = "idle"
          /\ botState' = "Idle"
          /\ countdown' = "flag"
          /\ UNCHANGED <<paused, watcher>>
       \/ /\ countdown = "flag"
          /\ paused' = TRUE /\ watcher' = "wait"
          /\ countdown' = "none"
          /\ UNCHANGED botState
    /\ UNCHANGED <<procVars, exec, flags>>

\* The deadline passes, and the flag is cleared.
Resume ==
    /\ watcher = "wait"
    /\ paused' = FALSE
    /\ watcher' = "current"
    /\ UNCHANGED <<procVars, execVars, flags, countdown>>

\* has_manage_orders: the executing command, then the queue.
ResumeCurrent ==
    /\ watcher = "current"
    /\ watcher' = IF current # NoCmd /\ current.kind = "ManageOrders"
                  THEN "none" ELSE "queue"
    /\ UNCHANGED <<procVars, execVars, flags, paused, countdown>>

ResumeQueue ==
    /\ watcher = "queue"
    /\ watcher' = IF QueuedKind(queue, "ManageOrders") THEN "none" ELSE "enqueue"
    /\ UNCHANGED <<procVars, execVars, flags, paused, countdown>>

ResumeEnqueue ==
    /\ watcher = "enqueue"
    /\ queue' = Inserted(queue, Cmd("ManageOrders", Normal))
    /\ watcher' = "none"
    /\ UNCHANGED <<current, pc, channel, execVars, flags, paused, countdown>>

-----------------------------------------------------------------------------
(* The rest of the program, and the game server. *)

Enqueue(r) ==
    /\ Len(queue) < Backlog
    /\ queue' = Inserted(queue, r)
    /\ UNCHANGED <<current, pc, channel, execVars, flags, pause>>

\* Items come and go; a chat message reports a full inventory, and the periodic
\* order check forgets it after 90 s.
RoomChanges ==
    /\ "room" \in Varying
    /\ \/ /\ room' \in {"none", "few", "some"} \ {room}
          /\ UNCHANGED fullFlag
       \/ /\ room = "none"
          /\ fullFlag' = TRUE
          /\ UNCHANGED room
       \/ /\ fullFlag' = FALSE
          /\ UNCHANGED room
    /\ UNCHANGED <<procVars, execVars, pause, startup, sellingSince, limited, macroPaused>>

\* The startup workflow takes the flag.  It gives it back as it gives up, or,
\* when it is through, after it has set the bot free.  StartupWorkflow has the
\* rest.
StartupBegins ==
    /\ "startup" \in Varying
    /\ startup' = TRUE
    /\ UNCHANGED <<procVars, execVars, pause, fullFlag, room, sellingSince, limited,
                   macroPaused>>

StartupEnds ==
    /\ "startup" \in Varying
    /\ startup
    /\ startup' = FALSE
    /\ botState' \in {botState, "Idle"}
    /\ UNCHANGED <<procVars, exec, pause, fullFlag, room, sellingSince, limited,
                   macroPaused>>

\* A new session of the game begins, with whatever was under way.
Login ==
    /\ "startup" \in Varying
    /\ startup' = FALSE
    /\ botState' = "GracePeriod"
    /\ UNCHANGED <<procVars, exec, pause, fullFlag, room, sellingSince, limited,
                   macroPaused>>

LimitsChange ==
    /\ "limits" \in Varying
    /\ \E l \in {"bazaar", "auction", "slot"} :
           limited' = IF l \in limited THEN limited \ {l} ELSE limited \cup {l}
    /\ UNCHANGED <<procVars, execVars, pause, startup, fullFlag, room, sellingSince,
                   macroPaused>>

\* The web panel pauses and resumes the macro, and clears the queue.
OperatorPauses ==
    /\ "operator" \in Varying
    /\ macroPaused' = ~macroPaused
    /\ UNCHANGED <<procVars, execVars, pause, startup, fullFlag, room, sellingSince, limited>>

OperatorClears ==
    /\ "operator" \in Varying
    /\ queue' = <<>>
    /\ UNCHANGED <<current, pc, channel, execVars, flags, pause>>

\* An auction opened by hand while the bot is free is bought.
AutoBuy ==
    /\ "hand" \in Varying
    /\ Allows(botState)
    /\ botState' = "Purchasing"
    /\ UNCHANGED <<procVars, exec, flags, pause>>

-----------------------------------------------------------------------------
Gates == GateStartup \/ GatePause \/ GateLimit \/ SellingTimer \/ GateFull
            \/ GateLast \/ Drop \/ Escape \/ EscapeManage \/ EscapeInstaSell \/ Send
Poll     == PollDone \/ PollInterrupt
Executor == ExecTake \/ ExecDone
Watcher  == Resume \/ ResumeCurrent \/ ResumeQueue \/ ResumeEnqueue

Next ==
    \/ Start \/ Gates \/ Poll \/ PollTimeout
    \/ Executor \/ FlowDone
    \/ Countdown \/ Watcher
    \/ \E r \in Requests : Enqueue(r)
    \/ StartupBegins \/ StartupEnds \/ Login
    \/ RoomChanges \/ LimitsChange
    \/ OperatorPauses \/ OperatorClears \/ AutoBuy

Spec == Init /\ [][Next]_vars

\* The tasks of the runtime run.  No flow need end, and no deadline pass unless
\* a property says so.
FairSpec ==
    /\ Spec
    /\ WF_vars(Start) /\ WF_vars(Gates) /\ WF_vars(Poll)
    /\ WF_vars(Executor) /\ WF_vars(Watcher)

\* Time passes, so the deadline of a poll loop comes.
TimePasses == WF_vars(PollTimeout)

-----------------------------------------------------------------------------
(* Properties. *)

\* A started command is done with in the end, even when the game never
\* answers: the processor cannot be wedged (lines 4594-4651).
NeverWedged == TimePasses => (current # NoCmd ~> current = NoCmd)

\* An urgent command does not wait out the flow of an interruptible one: the
\* poll loop sees it (lines 4622-4638), without the help of the deadline.
UrgentWaits ==
    /\ pc = "poll" /\ current.intr
    /\ queue # <<>> /\ Head(queue).prio < current.prio
UrgentPreempts == UrgentWaits ~> ~UrgentWaits

\* The way out of a full inventory: after a command is dropped for it, order
\* management or the instant sale reaches the bot, AH window or not, unless
\* there is room meanwhile or the flag is cleared (lines 567-586, 4481-4560).
\* Order management that already waits counts as the way out whatever its
\* priority, so other commands above Normal must not keep coming for ever.
Frees == {"ManageOrders", "SellInventoryBz"}
CalmsDown ==
    <>[](\A i \in DOMAIN queue : queue[i].prio < Normal => queue[i].kind \in Frees)
FullEscapes ==
    TimePasses /\ CalmsDown => (pc = "escape" ~> (exec # NoCmd /\ exec.kind \in Frees) \/ ~IsFull)

\* types.rs:242: "only idle style states may accept new commands while GUI
\* workflows are active".  The executor begins a command only when no flow is
\* under way.  Nothing checks it: it rests on execute_command being through by
\* the first poll (Slow = {}), and on nobody opening an auction by hand.
BusyAcceptsNothing ==
    [][exec = NoCmd /\ exec' # NoCmd => Allows(botState)]_vars

\* What the comments say and the code does not do.
\* main.rs:4400: "All other commands are deferred until startup completes".
StartupDefers ==
    [][pc = "dropStartup" /\ pc' = "ready" => current \in ToSet(queue')]_vars

\* main.rs:4419: "they will be re-queued when bazaar flips resume".
DeferredIsRequeued ==
    TimePasses => (pc = "dropPaused" /\ current.kind = "ManageOrders"
                       ~> QueuedKind(queue, "ManageOrders"))

\* main.rs:4466: "if inventory is truly full the cached slot count in
\* is_inventory_full() will re-confirm."
RecheckReconfirms ==
    [][pc = "timer" /\ pc' = "full" /\ IsFull => IsFull']_vars

\* main.rs:575: "Never place new bazaar BUY orders while AH flips are incoming."
NoBuyInPause ==
    [][exec # NoCmd /\ exec.kind = "BazaarBuyOrder" /\ exec' = NoCmd
         /\ botState' = "Bazaar" => ~paused]_vars

=============================================================================
