----------------------------- MODULE SessionBook -----------------------------
(***************************************************************************)
(* What outlives the process: the uptime, the profit, the flips bought and *)
(* not yet sold, and the marker of a rest break, in files next to the      *)
(* executable (src/src/main.rs:676-947), how a start takes them up         *)
(* (1113-1185, 1249, 1689-1730), how they are saved every minute           *)
(* (5640-5662), at a rest break (5682-5792) and at Ctrl+C (5995-5999), and *)
(* the purchases and sales they count (2418-2470, 2672-2705).              *)
(*                                                                         *)
(* One account, which may switch to another and be switched back to        *)
(* (session.rs, main.rs:5520-5583, web/server.rs:1228-1280), and one item, *)
(* each purchase of which is worth one coin; a file is written in one      *)
(* step.                                                                   *)
(***************************************************************************)
EXTENDS Naturals

CONSTANTS
    MaxGap,             \* MAX_SESSION_GAP_SECS, in units of time
    BreakTime,          \* how long a rest break lasts
    MaxTime,            \* bound of the model: time
    MaxPurchases        \* bound of the model: purchases

File(v) == [there : BOOLEAN, at : 0..MaxTime, value : v]
NoFile  == [there |-> FALSE, at |-> 0, value |-> 0]

VARIABLES
    now,
    times, profits, flips, marker, switchMarker,    \* the files
    phase,              \* of the account: "down", "resting", "login", "running", "away"
    afterBreak,         \* after_rest_break
    switched,           \* switched_account
    prevSecs, since,    \* previous_session_secs, session_start
    total,              \* ah_total
    entry,              \* flip_tracker's entry of the item
    saver, breaker, rotator,    \* what each task does next
    intake,             \* ~flip_intake_paused
    bought,             \* bound of the model
    kept                \* what the last rest break put away, while it is to be kept

files  == <<times, profits, flips, marker, switchMarker>>
start  == <<phase, afterBreak, switched, prevSecs, since>>
book   == <<total, entry>>
tasks  == <<saver, breaker, rotator, intake>>
vars   == <<now, files, start, book, tasks, bought, kept>>

Nothing == [counts |-> FALSE, secs |-> 0, total |-> 0, flip |-> "none"]

TypeOK ==
    /\ now \in 0..MaxTime
    /\ times \in File(0..MaxTime) /\ profits \in File(0..MaxPurchases)
    /\ flips \in {"none", "bought"}
    /\ marker \in File(0..(MaxTime + BreakTime)) /\ switchMarker \in BOOLEAN
    /\ phase \in {"down", "resting", "login", "running", "away"}
    /\ afterBreak \in BOOLEAN /\ switched \in BOOLEAN
    /\ prevSecs \in 0..now /\ since \in 0..now
    /\ total \in 0..bought /\ entry \in {"none", "offered", "bought"}
    /\ saver \in {"times", "profit", "flips"}
    /\ breaker \in {"waits", "profit", "flips", "times", "marker"}
    /\ rotator \in {"waits", "leaves"} /\ intake \in BOOLEAN
    /\ bought \in 0..MaxPurchases
    /\ kept \in [counts : BOOLEAN, secs : 0..MaxTime, total : 0..MaxPurchases,
                 flip : {"none", "bought"}]

\* What a process begins with, and what is left of it when it ends.
Fresh ==
    /\ afterBreak' = FALSE /\ switched' = FALSE /\ prevSecs' = 0 /\ since' = 0
    /\ total' = 0 /\ entry' = "none"
    /\ saver' = "times" /\ breaker' = "waits" /\ rotator' = "waits" /\ intake' = TRUE

Init ==
    /\ now = 0
    /\ times = NoFile /\ profits = NoFile /\ flips = "none"
    /\ marker = NoFile /\ switchMarker = FALSE
    /\ phase = "down" /\ afterBreak = FALSE /\ switched = FALSE
    /\ prevSecs = 0 /\ since = 0
    /\ total = 0 /\ entry = "none"
    /\ saver = "times" /\ breaker = "waits" /\ rotator = "waits" /\ intake = TRUE
    /\ bought = 0 /\ kept = Nothing

Running    == phase = "running"
Uptime     == prevSecs + (now - since)
Written(v) == [there |-> TRUE, at |-> now, value |-> v]

Tick ==
    /\ now < MaxTime /\ now' = now + 1
    /\ UNCHANGED <<files, start, book, tasks, bought, kept>>

-----------------------------------------------------------------------------
(* The start: what it takes up of the files, and when. *)

Carries(f, anew, rest) ==
    ~anew /\ f.there /\ (rest \/ now - f.at <= MaxGap)

\* A plausible bug: only a break that is not over yet counts as one.
Resumed_WhilePending == marker.there /\ now < marker.value

Resumed == marker.there                             (* resumed_from_rest_break *)

Start ==
    /\ phase = "down" /\ phase' = "resting"
    /\ afterBreak' = Resumed
    /\ switched' = switchMarker /\ switchMarker' = FALSE    (* take_account_switch *)
    /\ prevSecs' = IF Carries(times, switchMarker, Resumed) THEN times.value ELSE 0
    /\ entry' = flips                               (* restore_flip_tracker *)
    /\ kept' = IF switchMarker THEN Nothing ELSE kept
    /\ UNCHANGED <<now, times, profits, flips, marker, since, total, tasks, bought>>

\* The break is over, or there was none.
Rested ==
    /\ phase = "resting" /\ phase' = "login"
    /\ marker.there => now >= marker.value          (* pending_rest_break_secs *)
    /\ marker' = NoFile                             (* clear_rest_break_marker *)
    /\ UNCHANGED <<now, times, profits, flips, switchMarker, afterBreak, switched,
                   prevSecs, since, book, tasks, bought, kept>>

\* The profit is taken up after the waits that come before it.
LoggedIn ==
    /\ phase = "login" /\ phase' = "running"
    /\ total' = IF Carries(profits, switched, afterBreak) THEN profits.value ELSE 0
    /\ since' = now                                 (* session_start *)
    /\ UNCHANGED <<now, files, afterBreak, switched, prevSecs, entry, tasks, bought, kept>>

-----------------------------------------------------------------------------
(* Flips. *)

\* A flip is taken: its entry replaces one of the same name.
Offer ==
    /\ Running /\ intake
    /\ entry' = "offered"
    /\ UNCHANGED <<now, files, start, total, tasks, bought, kept>>

\* ItemPurchased counts the profit of an item it finds in the tracker.
Purchase ==
    /\ Running /\ bought < MaxPurchases /\ entry # "none"
    /\ entry' = "bought" /\ total' = total + 1 /\ bought' = bought + 1
    /\ UNCHANGED <<now, files, start, tasks, kept>>

Sale ==
    /\ Running /\ entry # "none"
    /\ entry' = "none"
    /\ UNCHANGED <<now, files, start, total, tasks, bought, kept>>

-----------------------------------------------------------------------------
(* The files are written. *)

Unsold == IF entry = "bought" THEN "bought" ELSE "none"

SaveTimes  == times' = Written(Uptime) /\ UNCHANGED <<profits, flips>>
SaveProfit == profits' = Written(total) /\ UNCHANGED <<times, flips>>
SaveFlips  == flips' = Unsold /\ UNCHANGED <<times, profits>>

\* Every minute, one after the other.
EveryMinute ==
    /\ Running
    /\ \/ saver = "times"  /\ SaveTimes  /\ saver' = "profit"
       \/ saver = "profit" /\ SaveProfit /\ saver' = "flips"
       \/ saver = "flips"  /\ SaveFlips  /\ saver' = "times"
    /\ UNCHANGED <<now, marker, switchMarker, start, book, breaker, rotator, intake, bought, kept>>

BreakBegins ==
    /\ Running /\ breaker = "waits"
    /\ breaker' = "profit" /\ intake' = FALSE
    /\ UNCHANGED <<now, files, start, book, saver, rotator, bought, kept>>

BreakSaves ==
    /\ Running
    /\ \/ breaker = "profit" /\ SaveProfit /\ breaker' = "flips"
       \/ breaker = "flips"  /\ SaveFlips  /\ breaker' = "times"
       \/ breaker = "times"  /\ SaveTimes  /\ breaker' = "marker"
    /\ UNCHANGED <<now, marker, switchMarker, start, book, saver, rotator, intake, bought, kept>>

\* write_rest_break_marker, then restart_process.
BreakLeaves ==
    /\ Running /\ breaker = "marker"
    /\ marker' = Written(now + BreakTime)
    /\ kept' = [counts |-> TRUE, secs |-> times.value, total |-> profits.value, flip |-> flips]
    /\ phase' = "down" /\ Fresh
    /\ UNCHANGED <<now, times, profits, flips, switchMarker, bought>>

\* Ctrl+C saves the uptime and the profit.
CtrlC ==
    /\ Running
    /\ times' = Written(Uptime) /\ profits' = Written(total)
    /\ kept' = Nothing
    /\ phase' = "down" /\ Fresh
    /\ UNCHANGED <<now, flips, marker, switchMarker, bought>>

\* The process dies. A session that has come back is not protected any more.
Crash ==
    /\ phase \in {"resting", "login", "running"}
    /\ kept' = IF phase = "resting" THEN kept ELSE Nothing
    /\ phase' = "down" /\ Fresh
    /\ UNCHANGED <<now, files, bought>>

-----------------------------------------------------------------------------
(* The account is switched: by the timer, which clears the uptime some time *)
(* before it restarts, or on the panel; and later it is switched back to.   *)

RotationBegins ==
    /\ Running /\ rotator = "waits"
    /\ rotator' = "leaves"
    /\ times' = NoFile                              (* clear_session_time *)
    /\ UNCHANGED <<now, profits, flips, marker, switchMarker, start, book,
                   saver, breaker, intake, bought, kept>>

SwitchAway ==
    /\ Running
    /\ kept' = Nothing
    /\ phase' = "away" /\ Fresh
    /\ UNCHANGED <<now, files, bought>>

SwitchBack ==
    /\ phase = "away" /\ phase' = "down"
    /\ switchMarker' = TRUE                         (* write_account_switch_marker *)
    /\ UNCHANGED <<now, times, profits, flips, marker, afterBreak, switched, prevSecs, since,
                   book, tasks, bought, kept>>

Next ==
    \/ Tick
    \/ Start \/ Rested \/ LoggedIn
    \/ Offer \/ Purchase \/ Sale
    \/ EveryMinute \/ BreakBegins \/ BreakSaves \/ BreakLeaves \/ CtrlC \/ Crash
    \/ RotationBegins \/ SwitchAway \/ SwitchBack

Spec == Init /\ [][Next]_vars

-----------------------------------------------------------------------------
(* A rest break is the same session deliberately paused: what it put away,  *)
(* uptime, profit and the flip bought and not sold, is there again when the *)
(* bot runs, however long the break was and however often the process died  *)
(* during the wait (main.rs:1132-1136, 923-928).                            *)
BreakKeepsSession ==
    kept.counts =>
        /\ phase \in {"resting", "login"} => prevSecs = kept.secs /\ entry = kept.flip
        /\ Running => Uptime >= kept.secs /\ total >= kept.total
=============================================================================
