-------------------------------- MODULE Guards --------------------------------
(***************************************************************************)
(* The two tasks that bring the bot back: the island guard                 *)
(* (src/src/main.rs:5260-5412), which looks at the sidebar every ten       *)
(* seconds, and the heartbeat (5414-5515), which looks every minute at how *)
(* long no window has opened; what they read (note_maintenance,            *)
(* mark_activity, 103-134, is_disconnect_requested) and the way home they  *)
(* order (go_to_island, bot/client.rs:57-84, with visitfriend.rs and the   *)
(* chat line that refuses a visit, main.rs:2119-2156).                     *)
(*                                                                         *)
(* A sleep is a step that may come at any time, but for the one thing the  *)
(* lengths decide: between two looks of the heartbeat pass three minutes   *)
(* at most, so that a silence of fifteen is not reached from one look to   *)
(* the next ("aged" is the one advance a round allows).  What the bot is   *)
(* doing and what the sidebar shows are any at each look.                  *)
(***************************************************************************)
EXTENDS Naturals

CONSTANTS
    MaxRejoins,         \* REJOIN_MAX_ATTEMPTS
    MaxStalls,          \* STALL_MAX_ATTEMPTS
    MaxTrips            \* bound of the model: GoToIsland commands waiting

VARIABLES
    online,             \* ~is_disconnect_requested
    maintenance,        \* skyblock_in_maintenance
    silence, aged,      \* what secs_since_activity says
    guard, rejoins,     \* the island guard, consecutive_rejoin_attempts
    beat, stalls,       \* the heartbeat, attempts
    friend, attempted,  \* visitfriend: active_friend, recently_attempted
    trips, trip,        \* GoToIsland: waiting, executing
    refusal,            \* a chat line that refuses a visit, on its way
    leftover,           \* commands each guard has ordered since the disconnect
    livened             \* has anything happened since the first of these stalls?

watch == <<online, maintenance, silence, aged>>
away  == <<friend, attempted, trip, refusal>>
home  == <<away, trips>>
seen  == <<leftover, livened>>
vars  == <<watch, guard, rejoins, beat, stalls, home, seen>>

Places == {"watch", "backoff", "lobby", "play", "home", "restart"}

TypeOK ==
    /\ online \in BOOLEAN /\ maintenance \in BOOLEAN
    /\ silence \in {"active", "quiet", "stalled"} /\ aged \in BOOLEAN
    /\ guard \in Places \ {"restart"} /\ rejoins \in 0..(MaxRejoins - 1)
    /\ beat \in Places \ {"backoff"} /\ stalls \in 0..MaxStalls
    /\ friend \in {"none", "open", "refused"} /\ attempted \in BOOLEAN
    /\ trips \in 0..MaxTrips /\ trip \in {"none", "visit"} /\ refusal \in BOOLEAN
    /\ leftover \in [{"guard", "beat"} -> 0..4] /\ livened \in BOOLEAN

None == [g \in {"guard", "beat"} |-> 0]

Init ==
    /\ online = TRUE /\ maintenance = FALSE
    /\ silence = "active" /\ aged = FALSE
    /\ guard = "watch" /\ rejoins = 0 /\ beat = "watch" /\ stalls = 0
    /\ friend \in {"none", "open"} /\ attempted = FALSE
    /\ trips = 0 /\ trip = "none" /\ refusal = FALSE
    /\ leftover = None /\ livened = FALSE

\* The guard g puts a command in the queue; the last of the three is GoToIsland.
Orders(g, trip1) ==
    /\ trips + trip1 <= MaxTrips /\ trips' = trips + trip1
    /\ leftover' = IF online THEN leftover ELSE [leftover EXCEPT ![g] = @ + 1]

-----------------------------------------------------------------------------
(* What the guards read. *)

\* The panel's Disconnect, or the begin of a rest break.
Disconnect ==
    /\ online /\ online' = FALSE
    /\ UNCHANGED <<maintenance, silence, aged, guard, rejoins, beat, stalls, home, seen>>

\* A chat line with "maintenance" in it (note_maintenance); five minutes later
\* the mark is void.
Maintenance ==
    /\ maintenance' = ~maintenance
    /\ UNCHANGED <<online, silence, aged, guard, rejoins, beat, stalls, home, seen>>

\* A spawn, a window, the end of the startup (mark_activity).
Activity ==
    /\ online
    /\ silence' = "active" /\ livened' = TRUE
    /\ UNCHANGED <<online, maintenance, aged, guard, rejoins, beat, stalls, home, leftover>>

NothingHappens ==
    /\ ~aged /\ aged' = TRUE
    /\ silence' = IF silence = "active" THEN "quiet" ELSE "stalled"
    /\ UNCHANGED <<online, maintenance, guard, rejoins, beat, stalls, home, seen>>

-----------------------------------------------------------------------------
(* The island guard. *)

\* A plausible bug: a deliberate disconnect is not asked about.
Excused_Never == maintenance
Excused == ~online \/ maintenance

\* It has looked: the bot is at work, the sidebar is empty, or it is home (a
\* friend's island counts as home while active_friend).
GuardRests ==
    /\ guard = "watch"
    /\ rejoins' \in IF Excused THEN {0} ELSE {0, rejoins}
    /\ UNCHANGED <<watch, guard, beat, stalls, home, seen>>

\* The fifth time in a row counts as the first again.  A plausible bug: the
\* counter only grows.
Attempt_Uncapped == rejoins + 1
Attempt == IF rejoins + 1 >= MaxRejoins THEN 1 ELSE rejoins + 1

\* It is on no island.
GuardSetsOut ==
    /\ guard = "watch" /\ ~Excused
    /\ rejoins' = Attempt
    /\ IF rejoins' > 1
       THEN guard' = "backoff" /\ UNCHANGED <<trips, leftover>>
       ELSE guard' = "lobby" /\ Orders("guard", 0)
    /\ UNCHANGED <<watch, beat, stalls, away, livened>>

\* After a pause it goes on, unless the bot has found work meanwhile; the pause
\* before "/lobby" asks nothing.
GuardGoesOn ==
    /\ \/ guard = "backoff" /\ guard' = "lobby" /\ Orders("guard", 0)
       \/ guard = "lobby" /\ guard' = "play" /\ Orders("guard", 0)
       \/ guard = "play" /\ guard' = "home" /\ Orders("guard", 1)
       \/ /\ guard \in {"lobby", "play", "home"} /\ guard' = "watch"
          /\ UNCHANGED <<trips, leftover>>
    /\ UNCHANGED <<watch, rejoins, beat, stalls, away, livened>>

-----------------------------------------------------------------------------
(* The heartbeat. *)

\* A plausible bug: the stalls are counted on when there has been a window.
Calm_KeepsCount == stalls' = stalls
Calm == stalls' = 0

BeatRests ==
    /\ beat = "watch" /\ (Excused \/ silence # "stalled")
    /\ Calm /\ aged' = FALSE
    /\ UNCHANGED <<online, maintenance, silence, guard, rejoins, beat, home, seen>>

BeatSuspects ==
    /\ beat = "watch" /\ ~Excused /\ silence = "stalled"
    /\ stalls' = stalls + 1 /\ aged' = FALSE
    /\ livened' = IF stalls = 0 THEN FALSE ELSE livened
    /\ IF stalls' >= MaxStalls
       THEN beat' = "restart" /\ UNCHANGED <<trips, leftover>>
       ELSE beat' = "lobby" /\ Orders("beat", 0)
    /\ UNCHANGED <<online, maintenance, silence, guard, rejoins, away>>

\* It asks nothing until it looks again.
BeatGoesOn ==
    /\ \/ beat = "lobby" /\ beat' = "play" /\ Orders("beat", 0)
       \/ beat = "play" /\ beat' = "home" /\ Orders("beat", 1)
       \/ beat = "home" /\ beat' = "watch" /\ UNCHANGED <<trips, leftover>>
    /\ UNCHANGED <<watch, guard, rejoins, stalls, away, livened>>

\* restart_process: the state of a new process, which is back online.
Restart ==
    /\ beat = "restart"
    /\ online' = TRUE /\ maintenance' = FALSE /\ silence' = "active" /\ aged' = FALSE
    /\ guard' = "watch" /\ rejoins' = 0 /\ beat' = "watch" /\ stalls' = 0
    /\ friend' = IF friend = "none" THEN "none" ELSE "open"     (* configure *)
    /\ attempted' = FALSE /\ trips' = 0 /\ trip' = "none" /\ refusal' = FALSE
    /\ leftover' = None /\ livened' = FALSE

-----------------------------------------------------------------------------
(* The way home. *)

\* The executor takes GoToIsland up: "/is", or "/visit" and a wait for the GUI.
GoToIsland ==
    /\ trips > 0 /\ trip = "none" /\ trips' = trips - 1
    /\ IF friend = "open"                           (* active_friend *)
       THEN trip' = "visit" /\ attempted' = TRUE    (* note_attempt *)
       ELSE UNCHANGED <<trip, attempted>>
    /\ UNCHANGED <<watch, guard, rejoins, beat, stalls, friend, refusal, seen>>

\* The wait is over: the GUI has opened and is clicked, which the friend may
\* refuse, or it has not and "/is" is sent.
Visit ==
    /\ trip = "visit" /\ trip' = "none"
    /\ refusal' \in {refusal, TRUE}
    /\ UNCHANGED <<watch, guard, rejoins, beat, stalls, friend, attempted, trips, seen>>

\* The refusal is read: it ends the visits of this session, if one was tried in
\* the last twenty seconds (recently_attempted, disable_for_session).
Refused ==
    /\ refusal /\ refusal' = FALSE
    /\ IF friend = "open" /\ attempted
       THEN friend' = "refused" /\ trips < MaxTrips /\ trips' = trips + 1
       ELSE UNCHANGED <<friend, trips>>
    /\ UNCHANGED <<watch, guard, rejoins, beat, stalls, attempted, trip, seen>>

AttemptAges ==
    /\ attempted /\ attempted' = FALSE
    /\ UNCHANGED <<watch, guard, rejoins, beat, stalls, friend, trips, trip, refusal, seen>>

Next ==
    \/ Disconnect \/ Maintenance \/ Activity \/ NothingHappens
    \/ GuardRests \/ GuardSetsOut \/ GuardGoesOn
    \/ BeatRests \/ BeatSuspects \/ BeatGoesOn \/ Restart
    \/ GoToIsland \/ Visit \/ Refused \/ AttemptAges

Spec == Init /\ [][Next]_vars

-----------------------------------------------------------------------------
(* After a deliberate disconnect the guards do nothing but finish the       *)
(* sequence each has begun, three commands at most: neither begins another, *)
(* however long the bot stays offline (main.rs:5280-5288, 5436-5441).       *)
OfflineIsLeftAlone == \A g \in {"guard", "beat"} : leftover[g] <= 3

(* The heartbeat restarts the process only when nothing whatever has        *)
(* happened since the first of the stalls it has counted: a session that    *)
(* shows life between two looks is not restarted (main.rs:5414-5420, 5451-  *)
(* 5455, 5477-5488).                                                        *)
RestartsAfterSilence == beat = "watch" /\ beat' = "restart" => ~livened
RestartsOnlyWhenSilent == [][RestartsAfterSilence]_vars
=============================================================================
