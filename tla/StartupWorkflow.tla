--------------------------- MODULE StartupWorkflow ---------------------------
(***************************************************************************)
(* The startup workflow (src/src/bot/client.rs:7829-7964), the two ways it *)
(* is launched for every login, by a chat message (3027-3075) and by a     *)
(* watchdog (2470-2501), the reconnect loop around the client (707-744),   *)
(* and the handler of its completion (src/src/main.rs:2349-2366).          *)
(*                                                                         *)
(* A workflow is a task of the runtime.  Its commands go through the       *)
(* command queue to the executor, which CommandQueue and CommandProcessor  *)
(* describe; here they are executed first come first served, and what a    *)
(* command achieves depends on the connection that it goes out on.  Tasks  *)
(* outlive the connection they were started for.                           *)
(***************************************************************************)
EXTENDS Naturals, Sequences, Functions

CONSTANTS
    MaxConnections,   \* bound of the model: connections made
    MaxToggles,       \* bound of the model: switches of the bazaar finder
    Timeouts,         \* the deadline of a step may pass
    AutoCookie,       \* auto_cookie_hours > 0
    EnabledAtStart,   \* what enable_bazaar_flips may be at first
    OpenAtStart,      \* whether there may be open orders then
    NoCmd

ASSUME StartupAssumption ==
    /\ MaxConnections \in Nat
    /\ MaxToggles \in Nat
    /\ Timeouts \in BOOLEAN
    /\ AutoCookie \in BOOLEAN
    /\ EnabledAtStart \subseteq BOOLEAN
    /\ OpenAtStart \subseteq BOOLEAN
    /\ NoCmd \notin Nat \X Nat

Connection == 1..MaxConnections

\* A workflow is launched by the chat handler or by the watchdog of a login.
Task == {"chat", "dog"} \X Connection

\* The steps, in order: CheckCookie, ManageOrders, ClaimSoldItem,
\* ClaimPurchasedItem.
Cookie == 1
Orders == 2
LastStep == 4
Command == Task \X (1..LastStep)

VARIABLES
    conn,         \* the connection of the game client, 0 before the first
    events,       \* what event_handler has still to see of its beginning
    executor,     \* the connection whose Client the executor holds, 0 for none
    joined, teleported, joinTime,   \* joinTime: skyblock_join_time is set
    chatSaw,      \* the chat handler has read the three and found it must act
    flag,         \* startup_in_progress
    wf, step,     \* where every workflow task stands
    wonIn,        \* history, read by no action: the login in which it won the
                  \* flag, 0 for none
    queue, running,     \* their commands: waiting, being executed
    enabled, toggles,   \* enable_bazaar_flips, and how often it was switched
    open, tracked,      \* orders are open in the game, are in the tracker
    completions   \* StartupComplete events not yet handled

session == <<conn, events, executor>>
join    == <<joined, teleported, joinTime, chatSaw>>
work    == <<wf, step, wonIn>>
cmds    == <<queue, running>>
orders  == <<enabled, toggles, open, tracked>>
vars    == <<session, join, flag, work, cmds, orders, completions>>

\* Between the swap of the flag and its reset.
Working == {"enter", "ask", "wait"}

TypeOK ==
    /\ conn \in 0..MaxConnections
    /\ events \subseteq {"init", "login"}
    /\ executor \in 0..MaxConnections
    /\ joined \in BOOLEAN /\ teleported \in BOOLEAN
    /\ joinTime \in BOOLEAN /\ chatSaw \in BOOLEAN
    /\ flag \in BOOLEAN
    /\ wf \in [Task -> Working \cup {"none", "sleep", "travel", "emit", "done",
                                     "gaveUp", "duplicate"}]
    /\ step \in [Task -> 1..LastStep + 1]
    /\ wonIn \in [Task -> 0..MaxConnections]
    /\ queue \in Seq(Command)
    /\ running \in Command \cup {NoCmd}
    /\ enabled \in BOOLEAN /\ toggles \in 0..MaxToggles
    /\ open \in BOOLEAN /\ tracked \in BOOLEAN
    /\ completions \in Nat

Init ==
    /\ conn = 0 /\ events = {} /\ executor = 0
    /\ joined = FALSE /\ teleported = FALSE /\ joinTime = FALSE /\ chatSaw = FALSE
    /\ flag = FALSE
    /\ wf = [t \in Task |-> "none"] /\ step = [t \in Task |-> 1]
    /\ wonIn = [t \in Task |-> 0]
    /\ queue = <<>> /\ running = NoCmd
    /\ enabled \in EnabledAtStart /\ toggles = 0
    /\ open \in OpenAtStart /\ tracked = open
    /\ completions = 0

-----------------------------------------------------------------------------
(* The connection and the events of its beginning.  The handlers of the    *)
(* events run one at a time: none interleaves with the chat handler.       *)

\* The reconnect loop makes a client after the last one is gone.
Connect ==
    /\ conn < MaxConnections
    /\ ~chatSaw
    /\ conn' = conn + 1
    /\ events' = {"init", "login"}
    /\ UNCHANGED <<executor, join, flag, work, cmds, orders, completions>>

\* The first event of the process starts the executor, with this Client.
FirstEvent == executor' = IF executor = 0 THEN conn ELSE executor

\* The login whose handler ran last.
LoggedIn == IF "login" \in events THEN conn - 1 ELSE conn

\* Mutant: a login that leaves the flag as the old session had it.
Login_KeepsFlag ==
    /\ "login" \in events /\ ~chatSaw
    /\ events' = events \ {"login"}
    /\ FirstEvent
    /\ joined' = FALSE /\ teleported' = FALSE /\ joinTime' = FALSE
    /\ wf' = [wf EXCEPT ![<<"dog", conn>>] = "sleep"]
    /\ UNCHANGED <<conn, chatSaw, flag, step, wonIn, cmds, orders, completions>>

Login ==
    /\ "login" \in events /\ ~chatSaw
    /\ events' = events \ {"login"}
    /\ FirstEvent
    /\ joined' = FALSE /\ teleported' = FALSE /\ joinTime' = FALSE
    /\ flag' = FALSE
    /\ wf' = [wf EXCEPT ![<<"dog", conn>>] = "sleep"]
    /\ UNCHANGED <<conn, chatSaw, step, wonIn, cmds, orders, completions>>

\* Event::Init, the spawn: /play sb is sent and the time noted, unless joined.
Spawned ==
    /\ "init" \in events /\ ~chatSaw
    /\ events' = events \ {"init"}
    /\ FirstEvent
    /\ joinTime' = (joinTime \/ ~joined)
    /\ UNCHANGED <<conn, joined, teleported, chatSaw, flag, work, cmds, orders,
                   completions>>

\* A join message, or any message 15 s after /play sb.
ChatSee ==
    /\ "login" \notin events /\ ~chatSaw
    /\ joinTime /\ ~teleported
    /\ chatSaw' = TRUE
    /\ UNCHANGED <<session, joined, teleported, joinTime, flag, work, cmds, orders,
                   completions>>

ChatMark ==
    /\ chatSaw
    /\ chatSaw' = FALSE
    /\ joined' = TRUE /\ teleported' = TRUE
    /\ wf' = [wf EXCEPT ![<<"chat", conn>>] = "travel"]
    /\ UNCHANGED <<session, joinTime, flag, step, wonIn, cmds, orders, completions>>

\* The watchdog, 30 s after its login: the flag it reads may by then be that
\* of a later session.
Watchdog(t) ==
    /\ wf[t] = "sleep"
    /\ IF teleported
       THEN /\ wf' = [wf EXCEPT ![t] = "none"]
            /\ UNCHANGED <<joined, teleported>>
       ELSE /\ wf' = [wf EXCEPT ![t] = "travel"]
            /\ joined' = TRUE /\ teleported' = TRUE
    /\ UNCHANGED <<session, joinTime, chatSaw, flag, step, wonIn, cmds, orders, completions>>

-----------------------------------------------------------------------------
(* run_startup_workflow. *)

Goes(t, from, to) ==
    /\ wf[t] = from
    /\ wf' = [wf EXCEPT ![t] = to]

\* Mutant: the flag set without a look at what it was.
Swap_Blind(t) ==
    /\ Goes(t, "travel", "enter")
    /\ flag' = TRUE
    /\ wonIn' = [wonIn EXCEPT ![t] = LoggedIn]
    /\ UNCHANGED <<session, join, step, cmds, orders, completions>>

\* Mutant: the flag read, not swapped.
Swap_LoadOnly(t) ==
    /\ Goes(t, "travel", IF flag THEN "duplicate" ELSE "enter")
    /\ UNCHANGED <<session, join, flag, step, wonIn, cmds, orders, completions>>

\* After the way home and the delays around it.
Swap(t) ==
    /\ \/ flag /\ Goes(t, "travel", "duplicate") /\ UNCHANGED wonIn
       \/ ~flag /\ Goes(t, "travel", "enter")
                /\ wonIn' = [wonIn EXCEPT ![t] = LoggedIn]
    /\ flag' = TRUE
    /\ UNCHANGED <<session, join, step, cmds, orders, completions>>

\* The bot is free, at once or within a minute.
Enter(t) ==
    /\ Goes(t, "enter", "ask")
    /\ UNCHANGED <<session, join, flag, step, wonIn, cmds, orders, completions>>

\* Mutant: giving up without a reset of the flag.
GiveUp_KeepsFlag(t) ==
    /\ Goes(t, "enter", "gaveUp")
    /\ UNCHANGED <<session, join, flag, step, wonIn, cmds, orders, completions>>

\* It stays busy.
GiveUp(t) ==
    /\ Goes(t, "enter", "gaveUp")
    /\ flag' = FALSE
    /\ UNCHANGED <<session, join, step, wonIn, cmds, orders, completions>>

Skipped(s) == \/ s = Cookie /\ ~AutoCookie
              \/ s = Orders /\ ~enabled

\* Mutant: a step too many.
Ask_OneMore(t) ==
    /\ wf[t] = "ask"
    /\ \E s \in step[t]..LastStep + 1 :
           /\ ~Skipped(s) /\ \A r \in step[t]..s - 1 : Skipped(r)
           /\ step' = [step EXCEPT ![t] = s]
           /\ queue' = Append(queue, <<t, s>>)
    /\ wf' = [wf EXCEPT ![t] = "wait"]
    /\ UNCHANGED <<session, join, flag, wonIn, running, orders, completions>>

\* The next step that is not skipped: its command is enqueued, at the highest
\* priority.
Ask(t) ==
    /\ wf[t] = "ask"
    /\ \E s \in step[t]..LastStep :
           /\ ~Skipped(s) /\ \A r \in step[t]..s - 1 : Skipped(r)
           /\ step' = [step EXCEPT ![t] = s]
           /\ queue' = Append(queue, <<t, s>>)
    /\ wf' = [wf EXCEPT ![t] = "wait"]
    /\ UNCHANGED <<session, join, flag, wonIn, running, orders, completions>>

\* await_queued_command: the command is gone from the queue, or the step's own
\* deadline has passed.  The workflow goes on in either case.
Proceed(t) ==
    /\ Goes(t, "wait", "ask")
    /\ step' = [step EXCEPT ![t] = @ + 1]
    /\ UNCHANGED <<session, join, flag, wonIn, cmds, orders, completions>>

Answered(t) ==
    /\ <<t, step[t]>> \notin Range(queue) \cup {running}
    /\ Proceed(t)

TimesOut(t) == Timeouts /\ Proceed(t)

\* Mutant: the flag is never reset after a complete run.
Clear_KeepsFlag(t) ==
    /\ Goes(t, "ask", "emit")
    /\ step[t] > LastStep
    /\ UNCHANGED <<session, join, flag, step, wonIn, cmds, orders, completions>>

\* The last step is over: the state is set to Idle, the flag reset.
Clear(t) ==
    /\ Goes(t, "ask", "emit")
    /\ step[t] > LastStep
    /\ flag' = FALSE
    /\ UNCHANGED <<session, join, step, wonIn, cmds, orders, completions>>

Emit(t) ==
    /\ Goes(t, "emit", "done")
    /\ completions' = completions + 1
    /\ UNCHANGED <<session, join, flag, step, wonIn, cmds, orders>>

-----------------------------------------------------------------------------
(* The command processor and its executor, as far as startup sees them.    *)

Begin ==
    /\ running = NoCmd /\ queue # <<>>
    /\ running' = Head(queue)
    /\ queue' = Tail(queue)
    /\ UNCHANGED <<session, join, flag, work, orders, completions>>

\* The command runs its course, or it times out, or a gate drops it.  Order
\* management cancels the open orders if it gets through to the game, which
\* takes a Client of the present connection.
End ==
    /\ running # NoCmd
    /\ running' = NoCmd
    /\ \/ UNCHANGED open
       \/ running[2] = Orders /\ executor = conn /\ open' = FALSE
    /\ UNCHANGED <<session, join, flag, work, queue, enabled, toggles, tracked,
                   completions>>

-----------------------------------------------------------------------------
(* The event loop, and the web panel. *)

Complete ==
    /\ completions > 0
    /\ completions' = completions - 1
    /\ tracked' = (tracked /\ ~enabled)
    /\ UNCHANGED <<session, join, flag, work, cmds, enabled, toggles, open>>

Toggle ==
    /\ toggles < MaxToggles
    /\ toggles' = toggles + 1
    /\ enabled' = ~enabled
    /\ UNCHANGED <<session, join, flag, work, cmds, open, tracked, completions>>

-----------------------------------------------------------------------------
Advances(t) ==
    \/ Watchdog(t) \/ Swap(t) \/ Enter(t) \/ GiveUp(t)
    \/ Ask(t) \/ Answered(t) \/ Clear(t) \/ Emit(t)

\* What happens when no deadline passes and nobody uses the panel.
OnTime ==
    \/ Connect \/ Login \/ Spawned \/ ChatSee \/ ChatMark
    \/ \E t \in Task : Advances(t)
    \/ Begin \/ End
    \/ Complete

Next ==
    \/ OnTime
    \/ \E t \in Task : TimesOut(t)
    \/ Toggle

Spec == Init /\ [][Next]_vars

\* Every task of the runtime runs and every command comes to an end (that is
\* CommandProcessor!NeverWedged).  No connection, chat message or deadline of
\* a step need come.
Fairness ==
    /\ WF_vars(Login) /\ WF_vars(ChatMark)
    /\ \A t \in Task : WF_vars(Advances(t))
    /\ WF_vars(Begin) /\ WF_vars(End) /\ WF_vars(Complete)

-----------------------------------------------------------------------------
(* Properties. *)

\* While the flag is set every command but the four of startup is dropped.
\* So it must have an owner: a workflow that will reset it (the comment at
\* lines 2451-2457 tells what happens otherwise).
FlagHeld == flag => \E t \in Task : wf[t] \in Working

\* And the owner does reset it, whatever the game answers.
FlagReleased == flag ~> ~flag

\* Every login gets a startup: a workflow, its own or one still on its way from
\* an earlier login, wins the flag after it, unless the connection is replaced
\* before (lines 2468-2470).
SessionServed ==
    \A c \in Connection : conn = c ~> conn # c \/ \E t \in Task : wonIn[t] = c

\* client.rs:7841: "Prevent duplicate startup runs."
OneWorkflow ==
    \A t, u \in Task : wf[t] \in Working /\ wf[u] \in Working => t = u

\* client.rs:1447: the flag is "set while the startup workflow is running so
\* flip handlers can block bazaar flips".
Guarded == (\E t \in Task : wf[t] \in Working) => flag

\* client.rs:2444: "Reset startup flags on (re)login so the startup sequence
\* runs again".  What the session's own workflow asks for is done on the
\* session's connection.
RunsAgain ==
    running # NoCmd /\ running[1][2] = conn => executor = conn

\* main.rs:2352: the tracker is cleared "ONLY when the startup ManageOrders
\* cycle actually cancelled all in-game orders".
ClearedIfCancelled == [][tracked /\ ~tracked' => ~open]_vars

=============================================================================
