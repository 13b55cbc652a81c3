# Verification of frikadellen-baf

Frikadellen BAF is a Minecraft bot for Hypixel SkyBlock. It buys underpriced
auctions ("AH flips"), places and collects bazaar orders, lists what it has
bought and reports to a web panel. All of that goes through one game client and
one open window at a time, so the heart of the program is who may act on that
window, when, and how the others find out that it is over. Around it are tasks
that keep it going unattended for days: connections that come back, guards,
rest breaks, a panel, an updater.

This directory holds TLA+ modules of the program, the TLC configurations that
check them on small instances, and TLAPS proofs. Line numbers below are those of
`src/src/...`; `main.rs`, `client.rs` and `server.rs` stand for `src/src/main.rs`,
`src/src/bot/client.rs` and `src/src/web/server.rs`.

    tlc -config MCParts.cfg MCParts.tla
    tlapm PartsProofs.tla

## 1. Inventory

The program is one process with a tokio runtime. Its tasks share state through
`Arc<RwLock<_>>` and atomics and talk over channels.

| component | state | operations | correct when | modelled in |
|---|---|---|---|---|
| **Command queue** `state/command_queue.rs` | `queue`, `current_command`, `Notify` | `enqueue`, `start_current`, `complete_current`, `clear`, the `has_*` questions | service by priority and age; revenue commands never trimmed; no lost wake-up; a command in one place | `CommandQueue` |
| **Command processor** `main.rs:4365-4675` | the loop's position, `selling_mode_since`, the flags it reads | gates, drops, the way out of a full inventory, send, poll, interrupt, deadline | one window flow at a time; never wedged; urgent commands get through; a full inventory is not a trap | `CommandProcessor` |
| **Command executor** `client.rs:3581-4058` | `BotState`, fields for the window handlers | `execute_command` | takes a command only when the bot is free | `CommandProcessor`, and each flow |
| **Startup and reconnect** `client.rs:707-744, 2415-3075, 7829-7964`, `main.rs:2349-2366` | `startup_in_progress`, joined/teleported flags, the executor's `Client` | connect, login, spawn, chat detection, watchdog, four steps, completion | one workflow; the flag is owned and released; every login is served | `StartupWorkflow` |
| **AH countdown and bazaar pause** `main.rs:4157-4228`, `client.rs:7703-7730` | `bazaar_flips_paused`, `bazaar_pause_until`, watcher | countdown, watcher, gate, abort | one watcher; every pause ends; nothing lost by it | `BazaarPause` |
| **Window flows** `client.rs:4060-7828` | per-flow steps, `managing_context`, claims | `handle_window_interaction`: purchase, bazaar order, order management, auction listing, claiming, cookie, sale of the inventory | a flow acts on its own window; it ends in `Idle`; what the game records is what was asked for | `PurchaseFlow`, `BazaarPlacement`, `OrderManagement`, `AuctionListing`, `AuctionClaims`, `CookieCheck` |
| **GUI watchdog, window notification** `client.rs:3080-3230, 3660-3890`, `bot/handlers.rs` | watchdog generation, last window id, `window_open_notify` | open, close, time out, fast path | a watchdog closes only the window it was armed for | inside the flows |
| **Bazaar order tracker** `bazaar_tracker.rs` | `orders`, `last_buy_costs`, `pending_cancels`, two files | add, fill, remove, clear, reconcile, record and take costs | agrees with the game after a reconcile; survives restarts | `BazaarTracker` |
| **Auction ownership** `auction_ownership.rs` | own listings by time | note, prune, `ownership_of` | a coop member's auction is never taken for one's own | `AuctionClaims` |
| **Bot event loop** `main.rs:2041-3143` | trackers, counters, follow-up commands | one handler per `BotEvent` | each event has its effect once | with what each event is about |
| **Flip intake** `main.rs:3197-3470`, timers `4948-5052` | limits, ledger of recent flips | gates for AH and bazaar flips, fill notices, order check | what is switched off is left alone; what is filled is collected | `BazaarIntake`, `CoflSession` |
| **Claims and listing flags** `main.rs:2429-2445, 2672-2677, 4229-4241, 5129-5254`, `client.rs:2655-2861, 5210-5220` | `auction_at_limit`, `auction_slot_blocked`, `last_auction_listed_at` | order a claim, drop one, set and clear the flags | what has ended or was bought is collected; listings go on | `AuctionCycle` |
| **COFL websocket** `websocket/*` | connections, sign-in flags, region | connect, read, reconnect, switch, forward | the state of the sign-in is that of the connection; no switch is lost | `CoflSession` |
| **Session books** `main.rs:676-947, 1113-1185, 5640-5792`, `profit_tracker.rs`, `session.rs` | uptime, profit, flips held, markers; their files | record, save, resume, rest break, rotation | a planned break loses nothing | `SessionBook` |
| **Guards** `main.rs:5260-5515`, `visitfriend.rs` | attempts, `last_activity`, maintenance | island guard, heartbeat, way home | bring the bot back; leave a disconnected one alone | `Guards` |
| **Auto-lister and relisting** `main.rs:2478-2533, 3975-4131, 4288-4348, 5795-5986` | `listed_recently`, `flip_tracker`, uploads | upload, instruct, enqueue, defer | one instruction per item | `Relist` |
| **Web panel, configuration, backend** `web/server.rs`, `config/*`, `backend/mod.rs` | `config.toml`, switches, password, sessions | login, toggle, save, load, restart | the file and the memory agree; nothing is invented; the panel stays locked | `Panel` |
| **VPS agent** `vps/*` | instances, connection | full list, update, expiry check | what is paid for runs, what is not stops | `Rentals` |
| **Updater and loader** `updater.rs`, `loader.rs`, `utils/process.rs` | the executable, its sidecar, `.version` | download, write, swap, launch | no half-written bot is launched | `Upgrade` |
| Webhooks, images, logging, ping, metrics | — | I/O and formatting | — | not |

How they interact:

    COFL websocket ─┐                          ┌─> BotState <─┐
    timers ─────────┼─> command queue ─> processor ─ channel ─> executor ─> game
    web panel ──────┤        ^                 │ polls        │ sets
    startup, watcher┘        │                 v              │
                             └── event loop <─ window and chat handlers

The processor does not learn from the executor that a command is over. It polls
`BotState`, which the executor sets to a busy value, the window handlers set back
to `Idle`, and which the countdown, the startup workflow, a login and the poll
loop's own deadline also write. That one variable with seven writers is the
hardest part of the program. Other hard behaviours: two locks read one after the
other; flags read at a gate and used later; tasks that outlive the connection
or the window they were started for; a window that never opens, or opens for the
next command; files that several tasks read, change and write.

`PROJECT.json` lists the hazards at their lines, with the property that covers
each or the reason why none does.

## 2. Modules

| module | models | abstract data |
|---|---|---|
| `QueueOps` | what the queue's code does to a queue value: insertion point, trimming, search. Shared by the next three | ids and payloads left to the user |
| `CommandQueue` | every critical section of `command_queue.rs`, with several callers, and the processor's wait on `Notify` | payloads dropped; the id stands for `queued_at` |
| `PendingCommands` | what the queue promises: a set, service order, a capacity | — |
| `CommandProcessor` | the processor's loop, the executor, `BotState`, the countdown and the flags the gates read | free slots are none, few or some |
| `StartupWorkflow` | connections, events of a login, both launchers of the workflow, its steps, its completion | one open order, in the game and in the tracker |
| `BazaarPause` | deadline, flag, resume watcher with each step of it, gate, abort, targeted cancel | only order management is queued; a clock of small units |
| `BazaarIntake` | the four tasks that queue bazaar commands, and the flags they ask | amounts dropped; one order stands for those that fill |
| `AuctionCycle` | who orders claims, what drops them, the two flags that stop listings, the timers behind them | a command is one step; auctions are counted; order in the queue left out |
| `BazaarTracker` | the tracker's operations, the events of bazaar orders from the flow that emits them to the loop that handles them, the web panel, the clean-up timer, both files, restarts | the game's orders with lots waiting and lots filled; prices dropped; the flows act at any time |
| `PurchaseFlow` | a purchase: command, fast path, handlers, bed, confirmation, chat, watchdog, deadline | what slot 31 shows; prices dropped |
| `BazaarPlacement` | placing an order: command, pages, signs, rejection, interruption | amount and price are the command's number |
| `OrderManagement` | a run over the orders window: every handler, the retries, the follow-up, targeted cancels | an order stands for the entry of its item and side |
| `AuctionListing` | listing an item: slots, signs, stuck slot and its retries | bid and duration are the command's number |
| `AuctionClaims` | collecting sold and bought auctions, cancelling one, whose auction one is | a slot shows the item and, if the bot can read it, the bid; a name may hold another |
| `CookieCheck` | the cookie check with its purchase, the sale of the inventory | the time left is short or not |
| `CoflSession` | two sockets, reconnection, sign-in, region switch, main loop, the panel's Disconnect | a flip stands for every push |
| `SessionBook` | what outlives the process: uptime, profit, flips held, markers; start, save, break, rotation, crash | one item, purchases worth one |
| `Guards` | island guard, heartbeat, way home | sidebar and bot are any at each look |
| `Relist` | who orders an item to be listed: COFL, held purchases, the auto-lister | prices are the finder's |
| `Rentals` | a host's instances: list, updates, expiry | a minute is the unit of time |
| `Panel` | panel, backend commands and the configuration file, one task per request | the switches, the owner, the password, the sessions |
| `Upgrade` | loader and updater, with a stop after every call | releases are numbers |
| `MC...` | instances for TLC. `MCParts`, `MCServices` and `MCBazaarPause` put several modules side by side: every behaviour is that of one, chosen in the initial state | |
| `...Proofs`, `QueueLemmas` | theorems and lemmas. `ServicesProofs`, `BazaarPauseProofs`, `AuctionProofs` and `PartsProofs` extend the `MC` module, so that what they prove is what its run checks | |

`PROJECT.json` maps each definition to its lines. Names follow the code.

**CommandQueue.** `queue` and `current` are `queue` and `current_command`;
`permit` is the one permit of `Notify`; `proc` is the processor as far as the
queue is concerned. `Enqueue` is one critical section, except that a
`ClaimPurchasedItem` is checked under the read lock (`ClaimCheck`) and inserted
under the write lock (`ClaimInsert`). `StartCurrent` is one step because
`start_current` keeps the queue's lock while it takes the other. The questions
are two steps, one for each lock (`ProbeCurrent`, `ProbeQueue`).
`interrupt_current` does what `complete_current` does and is not a separate action.
`peek` and `clear_bazaar_orders` are modelled although the program calls neither.

**CommandProcessor.** `pc` is the loop's position. Each gate is a step of its
own, because every flag may change between two of them. `IsFull` is
`is_inventory_full`, with its side effect on the flag (`ReadFull`). `Send` puts
the command in the channel; `ExecTake` and `ExecDone` are the two ends of
`execute_command`; `FlowDone` stands for whatever brings `BotState` back to
`Idle`, the window and chat handlers and the GUI watchdog. The first poll is
250 ms after the send; `FirstPollDue` says that an `execute_command` is through by
then unless its kind is in `Slow`. `ClickSlot` and `GoToIsland` sleep longer
without a busy state. Queue operations are single steps here; `CommandQueue`
looks inside them. The two delays between commands are not modelled: they only
postpone steps.

**StartupWorkflow.** A task is a launcher (`chat` or `dog`, the watchdog) and the
connection it was started for. `Connect` is one round of the reconnect loop;
`events` holds what the event handler has still to see of it, in either order.
`FirstEvent` is the guard `command_processor_started`, which is set once per
process. The handlers of one connection's events run one at a time, so nothing of
them falls between `ChatSee` and `ChatMark`; the watchdogs do. Reading `flag` and
setting it is one `swap`. `Clear` sets the state to `Idle` and resets the flag,
two stores of which only the second matters here.

**BazaarPause.** `until` is `bazaar_pause_until`, extended by `fetch_max`; `Pause`
is the `compare_exchange` that decides who spawns the watcher. The watcher's
check of the deadline and its store of `false` are two steps (`Check`, `Store`),
as are the two reads of `has_manage_orders`. `enabled` is the bazaar finder; the
AH finder, the other condition of the handler, is taken to be on.

**BazaarIntake.** `flip`, `notice` and `check` are the tasks of a recommended
flip, of a fill notice and of the order timer: each reads the flags first and
queues its command later. `waiting` and `running` are the queue and the bot as
far as order management goes. The pause is `BazaarPause`'s, here a flag that an
upset sets and that is cleared in the end. A pause ends a run wherever it is, before
or after it has read the list, and so does the deadline of the run (`Aborts`,
`client.rs:7703-7728`); what it has not collected stays in the game.

**AuctionCycle.** The slots of the account are counted: `onSale` and `over`, since an
ended auction keeps its slot until it is claimed (`main.rs:4230-4232`). `sold`,
`bought` and `list` are the commands that wait, `running` the one under way, which
ends as `AuctionListing` and `AuctionClaims` say it may. `ago` is
`last_auction_listed_at`: half an hour passes in two steps, and a listing sets it
back from either.

**BazaarTracker.** `stage`, `left` and `done` are the truth: the orders in the
game. The actions from `Place` to `FinishStartup` change it or look at it, as the
handlers of the windows and the chat do, and emit the events they emit. `Handle`
is one round of the event loop with the first critical section of the tracker's
operation; the copy for the file and its writing are two steps more (`SaveRead`,
`SaveWrite`), and the costs come after them (`Account`, `SaveCosts`). The web
panel's cancellation is two critical sections, `WebMark` and `WebRemove`; the
flip service's is the same code. `suppressed` are the marks younger than 30 s and
`Expire` is their age. `RemoveStale` takes a prefix because entries are appended
with the time. A collection and the cancellation of the rest are one action, since
the handler emits both without looking at the tracker. `clean` is a history
variable: the keys (item and side) for which the events tell the whole story.

**The window flows** have the same frame, because the code has it. `shown` is the
window the game has opened, `lastWindow` the one the bot takes for current;
`sent` are packets on their way to the game and `events` what the event handler
has still to see. Each window that opens has a handler task (`handler[w]`), which
goes on, a sleep or a poll at a time, until the window is not current any more;
it belongs to whatever state the bot is in when it looks, as in the code, so a
window that comes late meets the next command. Window ids are taken in turn and
start again, as the game's do; only in `CookieCheck` no number comes twice, as a check
opens a few windows and the game counts to a hundred. `dog` is the GUI watchdog. `exec` is
`execute_command` with the processor's deadline. The game answers packets in the
order they are sent, or (`NoAnswer`, `MaxLost`) not at all. What is assumed of
the time a poll or a sleep takes is said at the head of each module:

- `BazaarPlacement`: `/bz` and the confirmation are never lost, a search lists
  the item asked for first, amount and price are one number;
- `AuctionListing`: no click on the item or its preview is lost; a slot computed
  at the upload still holds the item;
- `AuctionClaims`: the window that asks to confirm a cancellation never comes
  (the code says so at `client.rs:2686-2692`). A cancellation takes a slot whose name
  holds the one asked for (`Contains`, by the constant `Within`), and looks at the bid
  only where the lore has one (`priced`), as `client.rs:5095-5102` does. The scan goes
  on into the player's inventory (5089): an item there may be clicked, which
  the game does not answer;
- `CookieCheck`: the 2 s after the confirmation are enough for its answer.

**CoflSession.** `conn` is what COFL knows of each connection, `reader` the task
that reads and dials, `loggedIn` and `linkShown` the process-wide flags of the
sign-in, `trusted` the main loop's `cofl_authenticated`; `signals` and `seen` are
the version of the watch channel that a region switch bumps. The client that owns the
channel of an extra socket is dropped where it is made (`main.rs:1420-1441`), so each
look of its task at the channel is an error that reads as a signal (`websocket/client.rs:214`):
the extra socket leaves every connection, perhaps after some messages, and dials its own
url again (`Url`), for ever; `MaxDials` bounds that.

**SessionBook.** Each file is its content and its time. `phase` is what the
account does; a crash may come in each of them, and between the steps of a rest
break, of a rotation and of the saver.

**Guards, Relist, Rentals.** Timers are steps that may come at any time, except
where a comparison of two lengths decides something: the heartbeat looks at least
every three minutes at a silence of fifteen; `listed_recently` lasts longer than
an answer; an instance outlives its time by the grace and one look.

**Panel.** A request that touches the file spawns a blocking task: `Load` reads,
`Truncate` and `Rewrite` write back what was loaded, `Change...` changes it,
`Truncate` and `Save` write again. A toggle is two steps before that: the request
stores the switch in memory (`Toggle`), and then spawns the task (`Persist`; `server.rs:1032,
1040`), so that two requests may store in one order and spawn in the other. Nothing
orders two tasks. `fs::write` truncates
and then fills, so a reader may meet an empty file, which has every default, and
two writers a garbled one. A restart begins with whatever the file holds, in one
step, and ends every task. COFL sessions do not expire; lines and orders are not
sent while a task runs (bound), since neither touches what the other does; a TOML
text is that of a page opened before there was an owner.

**Upgrade.** Every call to the file system is a step, and whoever runs may stop
between two. A rename is atomic. One update is under way at a time.

## 3. Runs

| run | instance | shows |
|---|---|---|
| `queue_safety` | 2 callers, 4 commands, limit 2, 4 kinds | `ServiceOrder`, `OnePlace`, `BoundedUnlessEssential`, `NoLostWakeup`, `TrimsTheLast`; that the sequence refines `PendingCommands` (`Promise`); that a waiting command is served (`QueueServed`) |
| `processor_prompt` | 3 kinds, no slow command, every flag moves | `BusyAcceptsNothing`: no command begins while a flow runs |
| `processor_urgent` | 4 kinds, slow commands, inventory, countdown and an operator's auction | `UrgentPreempts`, `NeverWedged`; `FullEscapes`: after a drop for a full inventory, something that frees space reaches the bot |
| `startup_relogin` | two connections, every deadline met | `FlagHeld`, `FlagReleased`, `SessionServed` |
| `bazaar` | `BazaarPause`: 3 units of time, pauses of 2, 2 watchers, the finder switched; `BazaarIntake`: 3 upsets; `AuctionCycle`: 2 slots, 2 failures | `SingleWatcher`, `PausedHasWatcher`, `PauseEnds`; `SwitchedOffIsLeft`: after the switch is off each task queues what it has in hand and no more; `OwedIsCollected`: an order that fills is collected, whichever of notice, timer and run misses it, and so are ended auctions and purchases; no flag stops listings for good |
| `tracker_safety` | 2 offers of one item, of 2 lots, 2 events under way, 2 upsets | `InStep`: the list is the game's orders but for the events under way; `NoFlicker`: what a user cancels does not come back |
| `orders` | a sell offer and a stale buy order, 2 runs, 1 upset, 3 windows | `TakesItsOrder`: a handler cancels the order its window is of, and no young one; `GivesUp`; `EndsItself`: while an open window is current its watchdog watches, and while nothing is lost or open a retry of `/bz` will end the run |
| `parts` | `StartupWorkflow` with one connection, deadlines and switches; the other flows with 2 commands | `OneWorkflow`; `AsAsked`: an order, a listing or a cookie is one that a command asked for, in every value of it, and a cancelled auction one whose name holds the name a command gave and whose bid, where the bot can read it, is the command's; `ReportedIsRecorded`; `ClicksWhatItSees`: a purchase clicks what it has seen in the window that is open |
| `services` | the components around the bot, see below | `ThisVeryFlip`, `PanelIsObeyed`, `BreakKeepsSession`, `OfflineIsLeftAlone`, `RestartsOnlyWhenSilent`, `InstructsOnce`, `PaidTimeEnds`, `NeverHalfUpdated`, `KeepsTheConfig` |

Three more end in a counterexample:

| run | says | does |
|---|---|---|
| `startup_dead_client` | "so the startup sequence runs again" (`client.rs:2444`) | the executor is started once per process and holds the first connection's `Client`; after a reconnect every command goes to a connection that is gone |
| `orders_rest` | at startup "all open orders are cancelled" (`types.rs:317`) | a run ends after one order, and its follow-up is not queued since `has_manage_orders` sees the run itself |
| `cofl_resume` | a flip dropped for want of authentication in a session COFL never challenged "is a bug if it ever appears" (`main.rs:3222`) | the second socket sets the process-wide flag, its event is not forwarded, and the first socket infers nothing any more |

Side by side. Components that do not act on each other's state are checked in one
run, which chooses one in its initial state and lets the variables of the others
rest: nothing is lost by it and nothing is interleaved. The variables of the
window flows are shared by the instances, as they have the same meaning in each.

Bounds. The code's `MAX_QUEUE_SIZE` is 5; a limit of 2 with 4 commands meets
every case of the trimming: below, at and above the limit, a victim in the
middle, at the end, the new command itself, and none. In the processor a backlog
of 1 and the command that executes are enough for one to overtake another; the
escape inserts two more. Two connections are what it takes for a task to outlive
its connection; over two, no deadline of a step passes and the finder stays as it
is, both of which `parts` has over one. Three units of time hold one pause and the
beginning of a second that extends it. Two offers of one item are what it takes to
remove or count the wrong one, and two lots to fill one of them in part. An upset
is whatever nobody is bound to do: in the tracker a restart, a startup,
a cancellation by the user, the clean-up, a click without answer, an order that
comes or goes without an event; in the orders window a packet the game ignores, a
window it closes, an order that changes; in the intake a switch, a pause, a full
inventory, a notice that is missed; in `AuctionCycle` a command that fails, a stuck item,
another command, a startup, a click on the panel. Two commands of a flow are what it takes for a
window or a handler of one to meet the other, and four window ids (three where
fewer open) for an id to be used again. `AuctionClaims` has two
auctions, one of which has a longer name that holds the other's, and no bid that can be
read. In `CookieCheck` ten windows are more than two
commands and one stray window can open; its invariants have also been explored over
three commands and over three stray windows. `MaxCancelRetries`, `MaxConfirmRetries`
and `MaxStuckRetries` are one where the code has more: what matters is the last
retry and the one before. Two requests of the panel overlap in every way, and one
restart falls between any two steps. `CoflSession` has 3 messages, 2 dials, 1
switch of the region; `SessionBook` a gap of one unit, a break of two and three of
time, so that a break outlasts the gap; `Guards` 3 rejoins and 2 stalls
where the code has 5 and 3; `Relist` one name, two uploads, one of them forced; `Rentals` two
instances and 3 minutes; `Upgrade` 3 releases. Bounds occur only in guards and
each has a comment. `VIEW`s leave out what nothing reads any more: the files of
the tracker once the upsets are used up, the contents of a closed window.

Deadlock is checked in the runs of the queue, the processor and the pause. In the
others the system may really stop: a session whose startup is over, flows whose
commands are over, orders that are all gone.

### Fairness

Tasks of the runtime run: a step that is enabled for good is taken (`WF`). The
code justifies it, since no task blocks another: the locks are held for a few
instructions, and waiting is asynchronous. Nothing more is assumed. In
particular

- callers, connections, chat messages and countdowns owe nothing;
- `FlowDone` is not fair: the game may never answer;
- the 500 ms timeout around `notified` is not fair in `CommandQueue`, so
  `QueueServed` rests on the permit alone;
- the deadline of a poll loop is not fair in `CommandProcessor`; where a property
  needs it, `TimePasses` is its premise. `UrgentPreempts` does without;
- the deadlines of the startup steps are not fair; `StartupWorkflow` assumes
  instead that every command comes to an end, which is `NeverWedged`;
- `BazaarPause` has a fair clock;
- in `BazaarIntake` the timer looks, what the bot does ends (`NeverWedged`) and so
  does a pause (`PauseEnds`); flips, fills and notices owe nothing;
- in `AuctionCycle` commands end, and a claim that waits is taken though others come
  and go (`SF`): the bot works its queue off. The timer of half an hour looks every
  minute and finds the bot at rest at last (`SF`). Half an hour passes only if no
  listing comes in its second half: sales, listings and room owe nothing.

`FullEscapes` also has the premise `CalmsDown`: if other commands of high priority
keep coming for ever, a waiting `ManageOrders` of normal priority, which the code
counts as the way out, is never served.

The flows and services have safety properties only. That a flow ends is
`NeverWedged`, by the processor's deadline; `EndsItself` says where the flow can do
without it.

### Disagreements between the code and what is said of it

Besides the three runs above, the modules state properties that no run checks,
each false of the code, with the instance that refutes it. (A limit of the
instance that is not named is that of the module's run.)

| definition | says | refuted with |
|---|---|---|
| `CommandQueue!OneQueuedClaim` | "Collapse duplicates onto the pending one" (`command_queue.rs:47`) | `Requests <- MCClaims`: check and insertion are two critical sections, and both of two callers insert |
| `CommandQueue!ContainsIsExact` | `contains_command_id` is true of a command "still queued or currently executing" (`command_queue.rs:252`) | one that starts between its two reads |
| `CommandProcessor!BusyAcceptsNothing` | only idle states may accept commands (`types.rs:242`) | `Requests <- MCTrade, Slow = {"ClickSlot"}`: `ClickSlot` sleeps 3.4 s in an idle state; the first poll takes it for finished, later commands are sent and run back to back (`client.rs:3890`) |
| `CommandProcessor!RecheckReconfirms` | the slot count "will re-confirm" (`main.rs:4466`) | `Varying = {"room"}`: a cleared flag answers before the slot count is looked at |
| `CommandProcessor!StartupDefers` | other commands "are deferred until startup completes" (`main.rs:4400`) | `Varying = {"startup"}`: it is dropped |
| `CommandProcessor!DeferredIsRequeued` | a dropped ManageOrders "will be re-queued" (`main.rs:4419`) | `Varying = {"countdown"}` and ManageOrders of normal priority: the watcher finds it executing just before it is dropped |
| `CommandProcessor!NoBuyInPause` | no buy orders "while AH flips are incoming" (`main.rs:575`) | `Varying = {"countdown"}`: a pause after the gate |
| `StartupWorkflow!ClearedIfCancelled` | the tracker is cleared only when all orders were cancelled (`main.rs:2353`) | one connection: the handler never looks at the outcome |
| `BazaarPause!PausedToDeadline` | every countdown extends the pause (`main.rs:4166`) | `MaxTime = 6, MaxWatchers = 3`: one between the watcher's check and its store |
| `BazaarPause!AbortedIsRequeued` | "The order will be re-queued after the AH pause" (`client.rs:7719`) | under `FairSpec`: what is queued again has no target and cancels nothing |
| `BazaarTracker!FileCatchesUp` | orders "are persisted to disk" (`bazaar_tracker.rs:6`) | `Others = {"web"}`: the loop copies, the panel clears, copies and writes, the loop writes its older copy. It holds of `Others = {}` |
| `BazaarTracker!SaleTakesWhatWasSold` | the cost taken "correctly handles partial sells" (`main.rs:2920`) | `KeyOf <- Flip, Others = {}`: `take_buy_cost` takes all of an item's cost for a part of it (`bazaar_tracker.rs:342`) |
| `AuctionCycle!ClaimedOnceDrained` | purchases "will be claimed once inventory drains" (`main.rs:4553`) | under `FairSpec`, `MaxUpsets = 0`: the processor completes the claim it says it defers; then listings, each within half an hour of the last, keep the failsafe back, and nobody else asks |
| `PurchaseFlow!BedKept` | a bed's window "must stay open for up to 60 s" (`client.rs:3154`) | the processor's deadline of 10 s (`main.rs:4611`) lets the next command close it |
| `PurchaseFlow!OneClick` | no "duplicate click" (`client.rs:3825`) | the handler clicks between the fast path's click and its mark |
| `BazaarPlacement!ReportedAsAsked` | no order is reported that was not placed (`client.rs:4678`) | a SELL interrupts a BUY of the same item: what is left of the BUY's handler reports it with the amount and price of the SELL |
| `AuctionListing!RetryStartsOver` | "Restart the auction flow: reset step" (`client.rs:2802`) | a handler of the listing that was given up moves the step on after the reset (`client.rs:5372`) |
| `AuctionClaims!OthersAreLeft` | co-op members' sales are left for them (`README.md:352`) | a co-op sale's UUID is kept and its auction claimed without a look at the seller (`client.rs:2740-2758, 3935-3940, 5004-5043`) |
| `CoflSession!GateHolds` | a session that was asked to sign in stays behind the gate (`websocket/client.rs:362`) | a reconnection keeps the flags |

With `CoflSession`'s switch, two requests for a region may also be carried out in
the other order (`main.rs:3859`). The panel's Disconnect clears the queue so that
no flip fires "after the user pressed Disconnect" (`server.rs:1524-1525`), yet one for which the
main loop is past its gates at that moment is still queued; `PanelIsObeyed` says that it is
one at most. Other consequences of the code that the models
show and no property states:

- *Tracker.* Three events leave a wrong list until the orders window is read again: a partial
  collection takes the entry of an order that stays open; a confirmed cancellation
  takes a second entry of the item when the user had already taken the first
  (`main.rs:3032`); a click that is not answered in five seconds counts as a
  collection (`client.rs:5710`).
- *Orders.* The follow-up of a targeted cancel has no target (`client.rs:6050`); a
  retry of a run without a window may set `Idle` on the next run (4006); the second
  handler of a list that was opened again clicks after `Idle` (5691, 5733); a
  startup picks the same young order first every time (5621); a close by the watchdog
  counts as a confirmed cancellation (7655); a cancellation of a partly filled order
  counts no failure (5870).
- *Intake.* A recommendation that comes as chat does not ask for a running
  startup. A sale at the limit queues order management with high priority and
  runs before it, contrary to the comment at `main.rs:3458`. With
  `cancel_minutes_per_million` 0 a fill whose notice is missed is not collected
  (`Ages = FALSE`). The branch at `main.rs:3388-3415` cannot be reached.
- *Claims.* The 1.5 s watchdog checks the state only (`client.rs:5046`), so it may
  end the next command of its kind. A cancellation may take another auction than the
  one asked for: any whose name holds the one given, if its bid cannot be read (`client.rs:5096-5102`,
  below the comment "Verify price matches for accurate identification"). `AsAsked` says no
  more than that.
- *Books.* Uptime and profit do not move in lockstep as the comment at `main.rs:1694` says:
  each is resumed by the age of its own file (1146, 1700), so that one may be without
  the other. A purchase between
  `save_profit_stats` and a restart is lost; a sale in the last minute before a crash
  comes back as unsold; an offered flip of the same name overwrites the entry of a
  bought one (3290).
- *Guards.* The backoff of 300 s is never reached, as five attempts start again
  from one at 240 s. Neither guard looks at a paused macro: one paused for a quarter
  of an hour is restarted, and comes back running.
- *Rentals.* A list that turns a running instance off clears `running` without
  stopping it (`vps/types.rs:30` says it must be stopped). The expiry check lives as
  long as a connection, so one that flaps puts it off.
- *Upgrade.* On Linux `current_exe()` of a replaced binary ends in " (deleted)", so
  the restart after a panel update fails and the process exits (`updater.rs:174`). Two
  updates at once share the sidecar's name. On Windows `.version` is written
  before the swap, so a swap that fails is not tried again.
- *Panel.* With `torn` a configuration of defaults may be saved and the sessions
  lost; a TOML save does so whenever its load fails (`server.rs:1952`). Overlapping saves
  lose updates and may leave file and memory apart: `KeepsTheConfig` says that nothing is
  invented, and what the file holds in the end only if no two tasks overlapped. A TOML save does not change
  the password in memory (contrary to `server.rs:224`). The backend's toggles are not
  written (`backend/mod.rs:435`), and the next save turns them back.

`OneWorkflow` is false of two connections (a login resets the flag under the
workflow of the session before), which is why `parts` and the theorem
`OneStartupPerConnection` have one.

## 4. Proofs

What is proved holds for every value of the constants under the named
assumptions. Most of them (`LimitAssumption`, `QueueAssumption`,
`ProcessorAssumption`, `StartupAssumption`, `PauseAssumption`, `OrderAssumption`) only
give the constants their types. So does `PartsAssumption`, but for two things: no
item has the name of a slot that is a button, and a stuck slot is tried again at
least once (the code tries three times, `client.rs:104`). `ServicesAssumption` says
four things more, each of which the code has: the heartbeat counts more than one stall
and the island guard more than one rejoin (it has 3 and 5), a release has a number, and
the names that `Panel` gives to fields and passwords of its own are not among the
switches and passwords of the instance.

- `QueueLemmas`: `InsertAt` and `RemoveAt` on sequences: type, length, elements;
  the least and greatest of a set of numbers; that the insertion point exists and splits
  the queue by priority; what trimming removes.
- `CommandQueueProofs`: types, `ServiceOrder`, `OnePlace`,
  `BoundedUnlessEssential`, `NoLostWakeup`. The inductive invariant is their
  conjunction with one fact more: every id in the queue or executing is below
  `nextId`. Without it an insertion could put a second command of the same age
  into the queue, and order and uniqueness would both be lost. `TrimOnce` shows that
  one removal is enough, which is why `Trim` models the code's loop by one. The bound is
  inductive only because a queue that is too long holds nothing droppable: one
  insertion then makes at most one command too many.
  On top of it, `TrimsTheLast` and the refinement `Promise`. Both rest on
  `InsertedSet`, which says what an insertion does to the set of waiting commands: since
  the queue is sorted before it is trimmed, the entry trimming finds from the back is
  the last droppable one in service order, and since ids are distinct the length of the
  queue is the size of that set, which is what `PendingCommands` compares with its
  capacity. A step maps to `Accept`, to `AcceptFor` with the victim, or to a stutter
  when the victim is the new command; `StartCurrent` to `Begin`, `CompleteCurrent` to
  `Finish`; whatever thins the queue out to `Withdraw`.
- `CommandProcessorProofs`: types, and `FlowsDoNotOverlap`, that is
  `BusyAcceptsNothing` if no command is slow and nobody opens an auction by hand.
  The strengthening `Outstanding` says that while a command is in the channel or
  the executor, or a flow runs, the processor polls; that there is one such
  command; and that the bot is free until the executor is done with it.
- `BazaarPauseProofs`: types, `SingleWatcher`, `PausedHasWatcher`: by induction
  together, since a watcher is spawned only when the flag was false and then none
  is active. `SwitchedOffIsLeft` of `BazaarIntake`: what a task queues after the switch
  it had in hand when the switch went (`OneInHand`), and it takes nothing new in hand.
- `OrderManagementProofs`: types, `TakesItsOrder`, `GivesUp`, `EndsItself`, for any
  orders, windows, runs, packets and upsets. `OrderInv` ties a handler to the click that
  opened its window: the context is of the last click the game can still answer
  (`LastPick`), hence of the window that the answer opens, and still is when the handler
  starts (`Opened`); from then on the handler has its own copy (`Acts`). That failures
  stay within the limit needs that at most one window is current, whose handler has an
  attempt left (`Attempt`).
- `ServicesProofs`: every property of the run `services`. The components share no
  variable, so `ServicesInv` is, for each choice, the invariant of that component:
  - *Rentals* (`Covered`): after each look nothing runs whose grace was over then, and
    a look is less than a minute away.
  - *Upgrade* (`Alone`, `Intact`, `Forward`): what is about to take the place of the
    binary is whole, and `.version` is written behind the swap, never before it, on Unix.
  - *Guards* (`Spent`, `Lively`): what a guard has left to do after a disconnect; and that
    once something has happened since the first stall, the next look will not find the
    silence of another.
  - *SessionBook* (`Accounts`, `Kept`): where the session of a break is, from file to
    memory, in every phase. An uptime that is taken up must be older than the session.
  - *Relist* (`Remembered`): an item that was ordered is in `listed_recently`, or an
    upload was forced since.
  - *Panel* (`PanelTyped`, `PanelGood`, `PanelFollows`): what each task holds, from the
    request that has stored a switch and not spawned it yet, was asked
    for, and the one that runs alone will bring the file and the memory together.
  - *CoflSession* (`Counted`, `Confirmed`, `Answered`, `Cleared`): whoever finds the
    session signed in with no switch to reset it has been told, or an event that tells
    him is before the flip in the channel; a connection is the one of the url or a signal
    to dial again is on its way.
- `AuctionProofs` and `PartsProofs`: the startup and the window flows, as the run `parts`
  has them, for any auctions, items, window ids, commands and lost answers. As with the
  services, `PartsInv` is, for each choice of the part, the invariant of that flow. It
  gives the types of all of them (`PartsTypeCorrect`), and that what the game records
  is what was asked for (`PartsAsAsked`), which joins the results on orders, listings,
  cancellations and cookies. For orders, listings and cookies that is every value of it;
  for cancellations it is what the code compares (`Meant`), for any relation `Within` of
  names that hold one another and any auctions with and without a bid to read.
  - *PurchaseFlow* (`PurchaseInv`, `PurchaseClicksWhatItSees`): whoever has read a
    window and is about to click has the number of the one the game opened last. This
    holds since one auction at most is asked for at a time, with nothing but closes sent
    before it (`OneView`), and since nobody but the handlers of beds is at work then (`Calm`).
  - *BazaarPlacement* (`OrderInv`, `PlacesAsAsked`): packets are answered in order, and
    the command changes while some are on their way. `OrderOwners` gives each packet, and
    the draft before the game, the command it speaks for: a sequence that changes only at
    a `/bz`, which starts the draft anew, and whose last element is the command in the
    bot's fields. What a packet says is then what its own command asks.
  - *AuctionListing* (`ListStage`, `ListsAsAsked`): `ListStage` goes through a listing, from
    the command to the last click, and says at each point what may be on its way, of this
    listing and of earlier ones, and which handlers still work. With it bid and duration in
    the slot are those of the command that put the item there (`SlotMade`); and once an item
    was stuck no handler of a listing that is over sets the step any more (`StuckFits`).
  - *AuctionClaims* (`ClaimInv`, `ClaimsCancelAsAsked`): an auction of the bot's that a
    window may be about has ended or answers to the name and bid of a command (`MayShow`),
    and this goes with it through packets, windows, events and the queue of uuids. The
    fields the bot looks for are those of a command whenever a handler may compare a slot
    with them (`Wanted`).
  - *CookieCheck* (`CookieAsked`, `ChecksBuyOneCookie`): each check that was executed has
    bought, or its click is on its way and will (`Armed`), or it can still send one (not
    `ChecksSpent`), and of the three only one. This is inductive because windows are
    told of in the order in which they open (`PagesInOrder`), a button is clicked once
    (`ClicksInOrder`), and while the page that buys is shown nobody looks at another
    (`BuyPageAlone`). A check begins with a packet that covers what an earlier one left open
    (`MenuComesLast`), hence a click of the earlier one buys nothing in the new one.
  - *StartupWorkflow*: types; `FlagHeld` for any number of connections, since
    whoever sets the flag works from then on and every end of the work resets it,
    and since no launch starts a task anew that is at work (`Unlaunched`);
    `OneWorkflow` for one connection, where the login comes before any workflow and
    the swap lets in one.

Only model-checked:

- everything under fairness (`QueueServed`, `UrgentPreempts`, `NeverWedged`, `FullEscapes`,
  `FlagReleased`, `SessionServed`, `PauseEnds`, `OwedIsCollected`), since the prover has neither
  liveness nor `ENABLED` here;
- `InStep` and `NoFlicker` of the tracker, which fold events over the list: induction over
  data;
- `ReportedIsRecorded` of `BazaarPlacement`. It does not hold for every value of the
  constants: with two window ids, four commands and an answer lost, a number comes again while the handler
  of the window that had it still works, which then takes the new window for its own. The
  game counts to a hundred, and no handler lives that long. A proof would have to assume
  that no number comes again while a handler works, and to follow the handler, the window
  and the confirmation through a placement, as `ListStage` does for a listing.

## 5. Plan

Done: the queue, the processor, the startup, the pause, the tracker, the window
flows, the intake, and the components around the bot; the proofs of section 4. What is
left to prove is `ReportedIsRecorded`, with window numbers that do not come again too soon.

`PurchaseFlow` in the place of `FlowDone` would compose the processor with a flow: the
countdown that sets `Idle` under a purchase (`main.rs:4179`) needs it.

## 6. Not modelled, and why

- *Webhooks, images, metrics, logging, ping, `/api` queries, lore and price parsing*:
  formatting and HTTP; no decision of the bot reads their state. Parsing is
  present by its result.
- *The part-out of a drill* (`client.rs:7333-7624`): off by default, a
  walk over two windows by a task that the queue does not know of; whether it meets a
  command depends on lengths of sleeps rather than on their order. Two of its comments are false:
  "Mark busy so the listing path doesn't grab the assembled drill mid-strip"
  (7532), as the processor looks at no state before it sends; and an anvil that opens
  after 12 s stays open.
- *The instant sale* (`client.rs:4747-4868`): no live command starts it.
- *Dead code*: `handlers/flip_handler.rs`, `handlers/bazaar_flip_handler.rs`,
  `gui/*`, `inventory/*` and `state/manager.rs` are called by nothing that runs.
- *The `/bz` that an unexpected window opens again* (`client.rs:6058-6065`) and the movements to the island: they enqueue or repeat what is modelled,
  and are part of the environment of the processor.
- *The backend's and the agent's connections beyond what is named*: the same
  reconnection loop as `CoflSession`'s, without its flags.
- *The vendored client library* under `src/deps`: third-party code. One fact of it is
  used, that a `Client` belongs to its connection.
