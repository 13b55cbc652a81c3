----------------------------- MODULE BazaarPause -----------------------------
(***************************************************************************)
(* The pause of the bazaar while AH flips are coming: the countdown event  *)
(* (src/src/main.rs:4157-4228), its resume watcher, what the command       *)
(* processor and the orders window do with order management meanwhile      *)
(* (566-584, 4418-4436; src/src/bot/client.rs:7703-7730), and the targeted *)
(* cancel that the flip service asks for (main.rs:3471-3538).              *)
(*                                                                         *)
(* Only order management is queued here.  Time is counted in units of      *)
(* which a pause lasts Window.                                             *)
(***************************************************************************)
EXTENDS Naturals, Sequences, SequencesExt

CONSTANTS
    Window,        \* the 20 s of a countdown
    MaxTime,       \* bound of the model: the clock stops there, and a countdown
                   \* comes only if its pause ends before
    MaxWatchers,   \* bound of the model: watchers spawned
    Backlog,       \* bound of the model: requests come while fewer wait
    Switching,     \* the web panel switches the bazaar finder
    NoCmd

ASSUME PauseAssumption ==
    /\ Window \in Nat \ {0}
    /\ MaxTime \in Nat
    /\ MaxWatchers \in Nat
    /\ Backlog \in Nat
    /\ Switching \in BOOLEAN
    /\ NoCmd \notin {"collect", "cancel"}

\* ManageOrders with cancel_open false, or with a target to cancel.
Manage == {"collect", "cancel"}

VARIABLES
    now, until,       \* the clock, and bazaar_pause_until
    paused,           \* bazaar_flips_paused
    enabled,          \* enable_bazaar_flips
    loop,             \* where the event loop stands in a countdown
    spawned,          \* watchers started so far
    watch, wake,      \* where each stands, and until when it sleeps
    queue, current, pc,   \* the command queue and its processor
    open, tracked     \* the order to cancel: open in the game, in the tracker

clock    == <<now, until>>
watchers == <<spawned, watch, wake>>
manage   == <<queue, current, pc>>
order    == <<open, tracked>>
vars     == <<clock, paused, enabled, loop, watchers, manage, order>>

Watcher == 1..MaxWatchers

TypeOK ==
    /\ now \in 0..MaxTime /\ until \in 0..MaxTime
    /\ paused \in BOOLEAN /\ enabled \in BOOLEAN
    /\ loop \in {"idle", "extended"}
    /\ spawned \in 0..MaxWatchers
    /\ watch \in [Watcher -> {"none", "check", "sleep", "store", "current", "queue",
                              "enqueue", "done"}]
    /\ wake \in [Watcher -> 0..MaxTime]
    /\ queue \in Seq(Manage)
    /\ current \in Manage \cup {NoCmd}
    /\ pc \in {"ready", "gate", "drop", "run", "aborted"}
    /\ open \in BOOLEAN /\ tracked \in BOOLEAN

Init ==
    /\ now = 0 /\ until = 0
    /\ paused = FALSE /\ enabled = TRUE
    /\ loop = "idle"
    /\ spawned = 0
    /\ watch = [w \in Watcher |-> "none"] /\ wake = [w \in Watcher |-> 0]
    /\ queue = <<>> /\ current = NoCmd /\ pc = "ready"
    /\ open = TRUE /\ tracked = TRUE

Tick ==
    /\ now < MaxTime
    /\ now' = now + 1
    /\ UNCHANGED <<until, paused, enabled, loop, watchers, manage, order>>

-----------------------------------------------------------------------------
(* The event loop: one event at a time. *)

\* Mutant: another Window is added to the deadline.
Countdown_Add ==
    /\ loop = "idle"
    /\ enabled
    /\ now + Window <= MaxTime
    /\ until' = until + Window
    /\ loop' = "extended"
    /\ UNCHANGED <<now, paused, enabled, watchers, manage, order>>

\* fetch_max on the deadline; then the window is closed and the bot set free.
Countdown ==
    /\ loop = "idle"
    /\ enabled
    /\ now + Window <= MaxTime
    /\ until' = IF now + Window > until THEN now + Window ELSE until
    /\ loop' = "extended"
    /\ UNCHANGED <<now, paused, enabled, watchers, manage, order>>

\* Mutant: the flag stored without a look at what it was.
Pause_Store ==
    /\ loop = "extended"
    /\ loop' = "idle"
    /\ spawned < MaxWatchers
    /\ paused' = TRUE
    /\ spawned' = spawned + 1
    /\ watch' = [watch EXCEPT ![spawned'] = "check"]
    /\ UNCHANGED <<clock, enabled, wake, manage, order>>

\* Mutant: the flag set and no watcher spawned.
Pause_NoWatcher ==
    /\ loop = "extended"
    /\ loop' = "idle"
    /\ paused' = TRUE
    /\ UNCHANGED <<clock, enabled, watchers, manage, order>>

\* compare_exchange: only the first countdown of a pause spawns a watcher.
Pause ==
    /\ loop = "extended"
    /\ loop' = "idle"
    /\ \/ /\ paused
          /\ UNCHANGED <<paused, watchers>>
       \/ /\ ~paused
          /\ spawned < MaxWatchers
          /\ paused' = TRUE
          /\ spawned' = spawned + 1
          /\ watch' = [watch EXCEPT ![spawned'] = "check"]
          /\ UNCHANGED wake
    /\ UNCHANGED <<clock, enabled, manage, order>>

\* cancelOrder from the flip service: the tracker forgets the order at once.
CancelOrder ==
    /\ loop = "idle"
    /\ enabled /\ tracked
    /\ Len(queue) < Backlog
    /\ tracked' = FALSE
    /\ queue' = <<"cancel">> \o queue
    /\ UNCHANGED <<clock, paused, enabled, loop, watchers, current, pc, open>>

-----------------------------------------------------------------------------
(* The resume watcher. *)

Check(w) ==
    /\ watch[w] = "check"
    /\ \/ /\ now >= until
          /\ watch' = [watch EXCEPT ![w] = "store"]
          /\ UNCHANGED wake
       \/ /\ now < until
          /\ watch' = [watch EXCEPT ![w] = "sleep"]
          /\ wake' = [wake EXCEPT ![w] = IF until > now + Window THEN now + Window ELSE until]
    /\ UNCHANGED <<clock, paused, enabled, loop, spawned, manage, order>>

Wakes(w) ==
    /\ watch[w] = "sleep"
    /\ now >= wake[w]
    /\ watch' = [watch EXCEPT ![w] = "check"]
    /\ UNCHANGED <<clock, paused, enabled, loop, spawned, wake, manage, order>>

Step(w, from, to) ==
    /\ watch[w] = from
    /\ watch' = [watch EXCEPT ![w] = to]
    /\ UNCHANGED <<clock, enabled, loop, spawned, wake, current, pc, order>>

\* Mutant: the watcher goes on to resume and forgets the flag.
Store_KeepsFlag(w) ==
    /\ Step(w, "store", IF enabled THEN "current" ELSE "done")
    /\ UNCHANGED <<paused, queue>>

\* The flag is cleared; with the bazaar disabled nothing is queued.
Store(w) ==
    /\ Step(w, "store", IF enabled THEN "current" ELSE "done")
    /\ paused' = FALSE
    /\ UNCHANGED queue

\* has_manage_orders, its two reads, and the enqueue.
LookCurrent(w) ==
    /\ Step(w, "current", IF current = NoCmd THEN "queue" ELSE "done")
    /\ UNCHANGED <<paused, queue>>

LookQueue(w) ==
    /\ Step(w, "queue", IF queue = <<>> THEN "enqueue" ELSE "done")
    /\ UNCHANGED <<paused, queue>>

Requeue(w) ==
    /\ Step(w, "enqueue", "done")
    /\ queue' = Append(queue, "collect")
    /\ UNCHANGED paused

Watch(w) ==
    \/ Check(w) \/ Wakes(w) \/ Store(w)
    \/ LookCurrent(w) \/ LookQueue(w) \/ Requeue(w)

-----------------------------------------------------------------------------
(* The command processor and the orders window. *)

Start ==
    /\ pc = "ready" /\ queue # <<>>
    /\ current' = Head(queue)
    /\ queue' = Tail(queue)
    /\ pc' = "gate"
    /\ UNCHANGED <<clock, paused, enabled, loop, watchers, order>>

\* Dropped in a pause, unless the inventory is full.
Gate ==
    /\ pc = "gate"
    /\ \/ paused /\ pc' = "drop"
       \/ pc' = "run"
    /\ UNCHANGED <<clock, paused, enabled, loop, watchers, queue, current, order>>

\* A window of the run finds the pause.
Abort ==
    /\ pc = "run" /\ paused
    /\ pc' = "aborted"
    /\ UNCHANGED <<clock, paused, enabled, loop, watchers, queue, current, order>>

\* complete_current: after a drop or an abort, or after a run that has done
\* its work.
Complete ==
    /\ pc \in {"drop", "aborted", "run"}
    /\ open' = (open /\ ~(pc = "run" /\ current = "cancel"))
    /\ current' = NoCmd
    /\ pc' = "ready"
    /\ UNCHANGED <<clock, paused, enabled, loop, watchers, queue, tracked>>

\* A timer or the web panel.
Collect ==
    /\ Len(queue) < Backlog
    /\ queue' = Append(queue, "collect")
    /\ UNCHANGED <<clock, paused, enabled, loop, watchers, current, pc, order>>

Switch ==
    /\ Switching
    /\ enabled' = ~enabled
    /\ UNCHANGED <<clock, paused, loop, watchers, manage, order>>

-----------------------------------------------------------------------------
Processor == Start \/ Gate \/ Complete

Next ==
    \/ Tick
    \/ Countdown \/ Pause \/ CancelOrder
    \/ \E w \in Watcher : Watch(w)
    \/ Processor \/ Abort
    \/ Collect \/ Switch

Spec == Init /\ [][Next]_vars

\* Time passes and the tasks run; nobody need ask for anything.
FairSpec ==
    /\ Spec
    /\ WF_vars(Tick) /\ WF_vars(Pause)
    /\ \A w \in Watcher : WF_vars(Watch(w))
    /\ WF_vars(Processor)

-----------------------------------------------------------------------------
(* Properties. *)

\* A watcher that has yet to clear the flag.
Active == {w \in Watcher : watch[w] \in {"check", "sleep", "store"}}

\* "The single resume watcher" (main.rs:4187): two would end each other's
\* pauses.
SingleWatcher == \A v, w \in Active : v = w

\* A set flag has a watcher to clear it, or the bazaar would stay paused for
\* good; a cleared one has none left.
PausedHasWatcher == paused <=> Active # {}

\* When the deadline is over the pause is.
PauseEnds == paused /\ now >= until ~> ~paused \/ now < until

\* main.rs:4166: "Always (re)extend the pause window to now+20s."  Between
\* events the bazaar is paused up to the deadline.
PausedToDeadline == loop = "idle" /\ now < until => paused

\* client.rs:7720: "The order will be re-queued after the AH pause."
AbortedIsRequeued ==
    pc = "aborted" /\ current = "cancel" ~> Contains(queue, "cancel")

=============================================================================
