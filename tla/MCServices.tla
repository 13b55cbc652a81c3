------------------------------ MODULE MCServices ------------------------------
(***************************************************************************)
(* Instances of the components around the bot, side by side: every         *)
(* behaviour is that of one of them, chosen at its start.  CoflSession     *)
(* begins with FirstHost: the hosts are interchangeable.                   *)
(***************************************************************************)
EXTENDS Naturals

CONSTANTS
    \* of CoflSession
    Host, FirstHost, MaxMessages, MaxDials, MaxSwitches,
    \* of SessionBook
    MaxGap, BreakTime, MaxTime, MaxPurchases,
    \* of Guards
    MaxRejoins, MaxStalls, MaxTrips,
    \* of Relist
    Name, MaxQueued, MaxAnswers, MaxForces,
    \* of Rentals
    Id, Grace, MaxMinutes,
    \* of Panel
    Switch, Password, MaxRequests, MaxRestarts,
    \* of Upgrade
    MaxTag

ASSUME ServicesAssumption ==
    /\ FirstHost \in Host /\ {MaxMessages, MaxDials, MaxSwitches} \subseteq Nat
    /\ {MaxGap, BreakTime, MaxTime, MaxPurchases} \subseteq Nat
    /\ {MaxRejoins, MaxStalls} \subseteq Nat \ {0, 1} /\ MaxTrips \in Nat
    /\ {MaxQueued, MaxAnswers, MaxForces} \subseteq Nat
    /\ {Grace, MaxMinutes} \subseteq Nat
    /\ Switch \cap {"owner", "password"} = {}
    /\ Password \cap {"blank", "generated"} = {}
    /\ {MaxRequests, MaxRestarts} \subseteq Nat
    /\ MaxTag \in Nat \ {0}

VARIABLES
    part,
    \* of CoflSession
    multi, sockets, messages, dials, reader, host, signals, seen, loggedIn,
    linkShown, pending, trusted, taken, switches, paused, queued, panel,
    slipped,
    \* of SessionBook
    now, times, profits, flips, marker, switchMarker, phase, afterBreak,
    switched, prevSecs, since, total, entry, saver, breaker, rotator, intake,
    bought, kept,
    \* of Guards
    online, maintenance, silence, aged, guard, rejoins, beat, stalls, friend,
    attempted, trips, trip, refusal, leftover, livened,
    \* of Relist
    held, worth, noSlot, deferring, deferred, sales, owed, inquiries, up,
    answers, recent, wanted, forces, told, forcedSince,
    \* of Rentals
    minute, connected, untilLook, looked, tracked, hosted,
    \* of Panel
    toml, onNow, secret, token, task, outbox, starts, asked, torn, adrift,
    \* of Upgrade
    os, latest, binary, sidecar, version, proc, step, tag, script

Cofl   == INSTANCE CoflSession WITH conn <- sockets, events <- pending
Book   == INSTANCE SessionBook
Guard  == INSTANCE Guards
List   == INSTANCE Relist WITH
    entry <- worth, full <- noSlot, paused <- deferring, queued <- sales,
    asked <- inquiries
Rental == INSTANCE Rentals WITH
    up <- connected, ticks <- untilLook, MaxTime <- MaxMinutes
Page   == INSTANCE Panel WITH
    file <- toml, flags <- onNow, sent <- outbox, restarts <- starts, loose <- adrift
Update == INSTANCE Upgrade

ofCofl == <<
    multi, sockets, messages, dials, reader, host, signals, seen, loggedIn,
    linkShown, pending, trusted, taken, switches, paused, queued, panel,
    slipped>>
ofBook == <<
    now, times, profits, flips, marker, switchMarker, phase, afterBreak,
    switched, prevSecs, since, total, entry, saver, breaker, rotator, intake,
    bought, kept>>
ofGuards == <<
    online, maintenance, silence, aged, guard, rejoins, beat, stalls, friend,
    attempted, trips, trip, refusal, leftover, livened>>
ofRelist == <<
    held, worth, noSlot, deferring, deferred, sales, owed, inquiries, up,
    answers, recent, wanted, forces, told, forcedSince>>
ofRentals == <<
    minute, connected, untilLook, looked, tracked, hosted>>
ofPanel == <<
    toml, onNow, secret, token, task, outbox, starts, asked, torn, adrift>>
ofUpgrade == <<
    os, latest, binary, sidecar, version, proc, step, tag, script>>

-----------------------------------------------------------------------------
(* What a part that is not chosen stays at. *)
Rest == 0

NoCofl ==
    /\ multi = Rest /\ sockets = Rest /\ messages = Rest /\ dials = Rest
    /\ reader = Rest /\ host = Rest /\ signals = Rest /\ seen = Rest
    /\ loggedIn = Rest /\ linkShown = Rest /\ pending = Rest /\ trusted = Rest
    /\ taken = Rest /\ switches = Rest /\ paused = Rest /\ queued = Rest
    /\ panel = Rest /\ slipped = Rest
NoBook ==
    /\ now = Rest /\ times = Rest /\ profits = Rest /\ flips = Rest
    /\ marker = Rest /\ switchMarker = Rest /\ phase = Rest
    /\ afterBreak = Rest /\ switched = Rest /\ prevSecs = Rest /\ since = Rest
    /\ total = Rest /\ entry = Rest /\ saver = Rest /\ breaker = Rest
    /\ rotator = Rest /\ intake = Rest /\ bought = Rest /\ kept = Rest
NoGuards ==
    /\ online = Rest /\ maintenance = Rest /\ silence = Rest /\ aged = Rest
    /\ guard = Rest /\ rejoins = Rest /\ beat = Rest /\ stalls = Rest
    /\ friend = Rest /\ attempted = Rest /\ trips = Rest /\ trip = Rest
    /\ refusal = Rest /\ leftover = Rest /\ livened = Rest
NoRelist ==
    /\ held = Rest /\ worth = Rest /\ noSlot = Rest /\ deferring = Rest
    /\ deferred = Rest /\ sales = Rest /\ owed = Rest /\ inquiries = Rest
    /\ up = Rest /\ answers = Rest /\ recent = Rest /\ wanted = Rest
    /\ forces = Rest /\ told = Rest /\ forcedSince = Rest
NoRentals ==
    /\ minute = Rest /\ connected = Rest /\ untilLook = Rest /\ looked = Rest
    /\ tracked = Rest /\ hosted = Rest
NoPanel ==
    /\ toml = Rest /\ onNow = Rest /\ secret = Rest /\ token = Rest
    /\ task = Rest /\ outbox = Rest /\ starts = Rest /\ asked = Rest
    /\ torn = Rest /\ adrift = Rest
NoUpgrade ==
    /\ os = Rest /\ latest = Rest /\ binary = Rest /\ sidecar = Rest
    /\ version = Rest /\ proc = Rest /\ step = Rest /\ tag = Rest
    /\ script = Rest

-----------------------------------------------------------------------------
ServicesInit ==
    /\ part \in {"cofl", "book", "guards", "relist", "rentals", "panel", "upgrade"}
    /\ IF part = "cofl" THEN Cofl!Init /\ host = FirstHost ELSE NoCofl
    /\ IF part = "book" THEN Book!Init ELSE NoBook
    /\ IF part = "guards" THEN Guard!Init ELSE NoGuards
    /\ IF part = "relist" THEN List!Init ELSE NoRelist
    /\ IF part = "rentals" THEN Rental!Init ELSE NoRentals
    /\ IF part = "panel" THEN Page!Init ELSE NoPanel
    /\ IF part = "upgrade" THEN Update!Init ELSE NoUpgrade

Still ==
    /\ part # "cofl" => UNCHANGED ofCofl
    /\ part # "book" => UNCHANGED ofBook
    /\ part # "guards" => UNCHANGED ofGuards
    /\ part # "relist" => UNCHANGED ofRelist
    /\ part # "rentals" => UNCHANGED ofRentals
    /\ part # "panel" => UNCHANGED ofPanel
    /\ part # "upgrade" => UNCHANGED ofUpgrade
    /\ UNCHANGED part

ServicesNext ==
    \/ part = "cofl" /\ Cofl!Next /\ Still
    \/ part = "book" /\ Book!Next /\ Still
    \/ part = "guards" /\ Guard!Next /\ Still
    \/ part = "relist" /\ List!Next /\ Still
    \/ part = "rentals" /\ Rental!Next /\ Still
    \/ part = "panel" /\ Page!Next /\ Still
    \/ part = "upgrade" /\ Update!Next /\ Still

all == <<part, ofCofl, ofBook, ofGuards, ofRelist, ofRentals, ofPanel, ofUpgrade>>

ServicesSpec == ServicesInit /\ [][ServicesNext]_all

-----------------------------------------------------------------------------
\* The variables keep their types, in every part.
ServicesTypeOK ==
    /\ part = "cofl" => Cofl!TypeOK
    /\ part = "book" => Book!TypeOK
    /\ part = "guards" => Guard!TypeOK
    /\ part = "relist" => List!TypeOK
    /\ part = "rentals" => Rental!TypeOK
    /\ part = "panel" => Page!TypeOK
    /\ part = "upgrade" => Update!TypeOK

\* CoflSession: a flip of a session that was open when it came is not dropped
\* for want of authentication (websocket/client.rs:355-378, main.rs:3184-3280).
ThisVeryFlip == part = "cofl" => Cofl!ThisVeryFlip

\* CoflSession: what the panel asks of the connection comes about: no region
\* switch is lost to a reconnection, and one flip at most is queued after
\* Disconnect cleared the queue (websocket/client.rs:192-198, 285-304,
\* server.rs:1507-1544).
PanelIsObeyed == part = "cofl" => Cofl!FollowsTheSwitch /\ Cofl!OneSlips

\* SessionBook: a rest break keeps uptime, profit and the flip bought, however
\* often the process dies during it (main.rs:923-947, 1132-1185).
BreakKeepsSession == part = "book" => Book!BreakKeepsSession

\* Guards: after a deliberate disconnect neither guard begins a sequence
\* (main.rs:5280-5288, 5436-5441).
OfflineIsLeftAlone == part = "guards" => Guard!OfflineIsLeftAlone

\* Guards: the heartbeat restarts the process only when nothing has happened
\* since the first of the stalls it has counted (main.rs:5451-5455, 5477-5488).
RestartsOnlyWhenSilent == [][part = "guards" => Guard!RestartsAfterSilence]_all

\* Relist: the auto-lister orders an item once in five minutes, and once more
\* for each upload that was forced (main.rs:5890, 5919, 5939).
InstructsOnce == part = "relist" => List!InstructsOnce

\* Rentals: an instance that is tracked as running runs, and not long after its
\* time is over (vps/socket.rs:335-357).
PaidTimeEnds == part = "rentals" => Rental!PaidTimeEnds

\* Upgrade: wherever an update stops, the next bot is whole and no older than
\* .version says (loader.rs:189-204, updater.rs:140-162).
NeverHalfUpdated == part = "upgrade" => Update!NeverHalfUpdated

\* Panel: saves that overlap keep the COFL sessions and invent no setting, saves
\* that do not leave the file with the switches of the memory, and the panel
\* stays locked (server.rs:1949-1957, 2062-2068, loader.rs:190-199).
KeepsTheConfig == part = "panel" => Page!KeepsTheConfig
=============================================================================
