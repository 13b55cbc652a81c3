----------------------------- MODULE CoflSession -----------------------------
(***************************************************************************)
(* The COFL websocket and what the flips it brings have to pass: the task  *)
(* that reads it and dials it again (src/src/websocket/client.rs:202-278), *)
(* the flags of its sign-in, the switch of the region, the main loop that  *)
(* takes its events in their order (src/src/main.rs:3181-3865), and the    *)
(* panel's Disconnect (src/src/web/server.rs:1507-1544).                   *)
(*                                                                         *)
(* The flags of the sign-in belong to the process: the sockets of          *)
(* `multisocket_urls` (src/src/main.rs:1362-1449) write them too, while of *)
(* what they bring only auction flips are forwarded to the main loop.  One *)
(* such socket is modelled.  The owner of its switch_tx is dropped at once *)
(* (main.rs:1420), so each look at its signals is an error that reads as a *)
(* switch: it leaves every connection, perhaps after some messages, and    *)
(* dials its own url again.                                                *)
(*                                                                         *)
(* A flip stands for every push COFL makes only to a session it knows: an  *)
(* auction flip, a bazaar flip, a list of them.  What the bot is doing at  *)
(* the moment may drop it after the gates modelled here.                   *)
(***************************************************************************)
EXTENDS Naturals, Sequences, SequencesExt

CONSTANTS
    Host,               \* the endpoints COFL routes to
    MaxMessages,        \* bound of the model: messages of COFL
    MaxDials,           \* bound of the model: connections after the first
    MaxSwitches         \* bound of the model: region switches

VARIABLES
    multi,              \* there is an extra socket
    conn,               \* a connection: host, does COFL know it, has it asked to sign in
    messages, dials,
    reader,             \* a read task: what it does, and with which flip
    host, signals, seen,    \* full_url; the version of switch_tx and the one the reader saw
    loggedIn, linkShown,    \* COFL_LOGGED_IN, COFL_AUTH_LINK_SHOWN
    events,             \* the channel to the main loop
    trusted,            \* cofl_authenticated
    taken,              \* the main loop is between the gates of a flip and its enqueue
    switches,           \* the tasks that run switch_region, in the order they were started
    paused, queued,     \* flip_intake_paused; flips in the command queue
    panel,              \* Disconnect: "none", "paused", "cleared"
    slipped             \* flips queued after Disconnect cleared the queue

socket == <<multi, conn, messages, dials, reader, seen>>
url    == <<host, signals>>
flags  == <<loggedIn, linkShown>>
intake == <<trusted, taken, queued, slipped>>
web    == <<paused, panel>>
vars   == <<socket, url, flags, events, intake, switches, web>>

Sockets == {"primary", "extra"}
NoConn  == [up |-> FALSE]
Conns   == [up : {TRUE}, host : Host \cup {"extra"}, known : BOOLEAN, asked : BOOLEAN]
NoFlip  == [unasked |-> FALSE, open |-> FALSE, calm |-> FALSE]
Flips   == [unasked : BOOLEAN, open : BOOLEAN, calm : BOOLEAN]
Events  == [kind : {"authenticated"}] \cup [kind : {"flip"}, flip : Flips] \cup [kind : {"connect"}, host : Host]
Reading == {"read", "check", "swap", "tell", "push", "confirm"}

TypeOK ==
    /\ multi \in BOOLEAN /\ conn \in [Sockets -> Conns \cup {NoConn}]
    /\ messages \in 0..MaxMessages /\ dials \in 0..MaxDials
    /\ reader \in [Sockets -> [at : Reading \cup {"dial"}, flip : Flips]]
    /\ host \in Host /\ signals \in 0..MaxSwitches /\ seen \in 0..signals
    /\ loggedIn \in BOOLEAN /\ linkShown \in BOOLEAN
    /\ events \in Seq(Events)
    /\ trusted \in BOOLEAN /\ taken \in BOOLEAN
    /\ switches \in Seq([host : Host, at : {"store", "login", "link", "signal"}])
    /\ paused \in BOOLEAN /\ queued \in Nat /\ slipped \in 0..queued
    /\ panel \in {"none", "paused", "cleared"}

Known(s) == conn[s].up /\ conn[s].known
Fresh(h, known) == [up |-> TRUE, host |-> h, known |-> known, asked |-> FALSE]
Url(s) == IF s = "primary" THEN host ELSE "extra"

\* The startup has connected to the configured endpoint.
Init ==
    /\ multi \in BOOLEAN
    /\ host \in Host
    /\ \E known \in [Sockets -> BOOLEAN] :
          conn = [s \in Sockets |-> IF s = "primary" \/ multi THEN Fresh(Url(s), known[s]) ELSE NoConn]
    /\ messages = 0 /\ dials = 0
    /\ reader = [s \in Sockets |-> [at |-> "read", flip |-> NoFlip]]
    /\ signals = 0 /\ seen = 0
    /\ loggedIn = FALSE /\ linkShown = FALSE
    /\ events = <<>>
    /\ trusted = FALSE /\ taken = FALSE
    /\ switches = <<>>
    /\ paused = FALSE /\ queued = 0 /\ panel = "none" /\ slipped = 0

Go(s, at) == reader' = [reader EXCEPT ![s].at = at]
\* The forwarder of an extra socket drops what is not an auction flip.
Tell(s, e) ==
    events' = IF s = "primary" \/ e.kind = "flip" THEN Append(events, e) ELSE events

-----------------------------------------------------------------------------
(* COFL.  The user may sign in at any time, also while there is no           *)
(* connection: a session that was signed in then resumes silently.           *)

Message(s) ==
    /\ reader[s].at = "read" /\ conn[s].up
    /\ messages < MaxMessages /\ messages' = messages + 1

SignIn ==
    /\ \E s \in Sockets : conn[s].up /\ ~conn[s].known
    /\ conn' = [s \in Sockets |-> IF conn[s].up THEN [conn[s] EXCEPT !.known = TRUE] ELSE conn[s]]
    /\ UNCHANGED <<multi, messages, dials, reader, seen, url, flags, events, intake, switches, web>>

\* No region switch is under way that the flips of a connection could meet.
Calm == switches = <<>> /\ \A i \in DOMAIN events : events[i].kind # "connect"

(* handle_message *)
Flip(s) ==
    /\ Message(s) /\ Known(s)
    /\ reader' = [reader EXCEPT ![s] =
          [at   |-> "check",
           flip |-> [unasked |-> \A t \in Sockets : ~conn[t].up \/ ~conn[t].asked,
                     open    |-> FALSE,
                     calm    |-> Calm]]]
    /\ UNCHANGED <<multi, conn, dials, seen, url, flags, events, intake, switches, web>>

LoggedIn(s) ==
    /\ Message(s) /\ Known(s)
    /\ loggedIn' = TRUE /\ UNCHANGED linkShown
    /\ Go(s, "confirm")
    /\ UNCHANGED <<multi, conn, dials, seen, url, events, intake, switches, web>>

Confirm(s) ==
    /\ reader[s].at = "confirm"
    /\ Tell(s, [kind |-> "authenticated"]) /\ Go(s, "read")
    /\ UNCHANGED <<multi, conn, messages, dials, seen, url, flags, intake, switches, web>>

\* A chat message whose click opens the sign-in page.
AuthPrompt(s) ==
    /\ Message(s) /\ ~Known(s)
    /\ linkShown' = TRUE /\ UNCHANGED loggedIn
    /\ conn' = [conn EXCEPT ![s].asked = TRUE]
    /\ UNCHANGED <<multi, dials, reader, seen, url, events, intake, switches, web>>

\* The main loop takes "Hello <ign> (<mail>)" for the same.
Greeting(s) ==
    /\ Message(s) /\ Known(s)
    /\ Tell(s, [kind |-> "authenticated"])
    /\ UNCHANGED <<multi, conn, dials, reader, seen, url, flags, intake, switches, web>>

ConnectElsewhere(s) ==
    /\ Message(s)
    /\ \E h \in Host : Tell(s, [kind |-> "connect", host |-> h])
    /\ UNCHANGED <<multi, conn, dials, reader, seen, url, flags, intake, switches, web>>

(* note_authenticated_traffic *)
Note(s) ==
    /\ reader[s].at = "check"
    /\ reader' = [reader EXCEPT ![s] = [at   |-> IF linkShown THEN "push" ELSE "swap",
                                        flip |-> [@.flip EXCEPT !.open = ~linkShown]]]
    /\ UNCHANGED <<multi, conn, messages, dials, seen, url, flags, events, intake, switches, web>>

Swap(s) ==
    /\ reader[s].at = "swap"
    /\ loggedIn' = TRUE /\ UNCHANGED linkShown
    /\ Go(s, IF loggedIn THEN "push" ELSE "tell")
    /\ UNCHANGED <<multi, conn, messages, dials, seen, url, events, intake, switches, web>>

TellResumed(s) ==
    /\ reader[s].at = "tell"
    /\ Tell(s, [kind |-> "authenticated"]) /\ Go(s, "push")
    /\ UNCHANGED <<multi, conn, messages, dials, seen, url, flags, intake, switches, web>>

Push(s) ==
    /\ reader[s].at = "push"
    /\ Tell(s, [kind |-> "flip", flip |-> reader[s].flip])
    /\ reader' = [reader EXCEPT ![s] = [at |-> "read", flip |-> NoFlip]]
    /\ UNCHANGED <<multi, conn, messages, dials, seen, url, flags, intake, switches, web>>

-----------------------------------------------------------------------------
(* The connections. *)

\* The server closes, an error, or the panel's Disconnect; an extra socket, which
\* nobody can signal, leaves at any look.
Drop(s) ==
    /\ reader[s].at = "read" /\ conn[s].up /\ dials < MaxDials
    /\ conn' = [conn EXCEPT ![s] = NoConn]
    /\ Go(s, "dial")
    /\ UNCHANGED <<multi, messages, dials, seen, url, flags, events, intake, switches, web>>

\* select!: which branch is taken when both are ready is open.
Switched ==
    /\ reader["primary"].at = "read" /\ seen # signals
    /\ seen' = signals
    /\ conn' = [conn EXCEPT !["primary"] = NoConn]
    /\ Go("primary", "dial")
    /\ UNCHANGED <<multi, messages, dials, url, flags, events, intake, switches, web>>

\* The url is read before the connection is made; what is stored meanwhile is
\* not dialled, but its signal comes after.  A refused one is dialled again.
Dial(s) ==
    /\ reader[s].at = "dial" /\ ~conn[s].up
    /\ dials < MaxDials /\ dials' = dials + 1
    /\ \E known \in BOOLEAN : conn' = [conn EXCEPT ![s] = Fresh(Url(s), known)]
    /\ UNCHANGED <<multi, messages, reader, seen, url, flags, events, intake, switches, web>>

\* A plausible bug: a new connection counts as the answer to every switch asked
\* for by then.
Dialled_Seen(s) ==
    /\ reader[s].at = "dial" /\ conn[s].up
    /\ seen' = (IF s = "primary" THEN signals ELSE seen) /\ Go(s, "read")
    /\ UNCHANGED <<multi, conn, messages, dials, url, flags, events, intake, switches, web>>

Dialled(s) ==
    /\ reader[s].at = "dial" /\ conn[s].up
    /\ Go(s, "read")
    /\ UNCHANGED <<multi, conn, messages, dials, seen, url, flags, events, intake, switches, web>>

(* switch_region, in a task of its own *)
Step(i, at) == switches' = [switches EXCEPT ![i].at = at]

\* A plausible bug: a switch leaves the flag of the connection it replaces.
SwitchRegion_KeepsLogin(i) ==
    \/ /\ switches[i].at = "store"
       /\ host' = switches[i].host /\ UNCHANGED <<signals, flags>>
       /\ Step(i, "link")
    \/ /\ switches[i].at = "link"
       /\ linkShown' = FALSE /\ UNCHANGED <<url, loggedIn>>
       /\ Step(i, "signal")
    \/ /\ switches[i].at = "signal"
       /\ signals' = signals + 1 /\ UNCHANGED <<host, flags>>
       /\ switches' = RemoveAt(switches, i)

SwitchRegion(i) ==
    \/ /\ switches[i].at = "store"
       /\ host' = switches[i].host /\ UNCHANGED <<signals, flags>>
       /\ Step(i, "login")
    \/ /\ switches[i].at = "login"
       /\ loggedIn' = FALSE /\ UNCHANGED <<url, linkShown>>
       /\ Step(i, "link")
    \/ /\ switches[i].at = "link"
       /\ linkShown' = FALSE /\ UNCHANGED <<url, loggedIn>>
       /\ Step(i, "signal")
    \/ /\ switches[i].at = "signal"
       /\ signals' = signals + 1 /\ UNCHANGED <<host, flags>>
       /\ switches' = RemoveAt(switches, i)

Switching ==
    /\ \E i \in DOMAIN switches : SwitchRegion(i)
    /\ UNCHANGED <<socket, events, intake, web>>

-----------------------------------------------------------------------------
(* The main loop, and the panel. *)

Takes(kind) == events # <<>> /\ Head(events).kind = kind /\ ~taken /\ events' = Tail(events)

Authenticated ==
    /\ Takes("authenticated")
    /\ trusted' = TRUE
    /\ UNCHANGED <<socket, url, flags, taken, queued, slipped, switches, web>>

\* The gates: the intake is paused, COFL is not authenticated, and what the bot
\* is doing.
FlipDropped ==
    /\ Takes("flip")
    /\ UNCHANGED <<socket, url, flags, intake, switches, web>>

FlipPasses ==
    /\ Takes("flip") /\ ~paused /\ trusted
    /\ taken' = TRUE
    /\ UNCHANGED <<socket, url, flags, trusted, queued, slipped, switches, web>>

Enqueue ==
    /\ taken /\ taken' = FALSE
    /\ queued' = queued + 1
    /\ slipped' = slipped + (IF panel = "cleared" THEN 1 ELSE 0)
    /\ UNCHANGED <<socket, url, flags, events, trusted, switches, web>>

Connect ==
    /\ Takes("connect")
    /\ Len(switches) + signals < MaxSwitches
    /\ trusted' = FALSE
    /\ switches' = Append(switches, [host |-> Head(events).host, at |-> "store"])
    /\ UNCHANGED <<socket, url, flags, taken, queued, slipped, web>>

\* A plausible bug: the queue is cleared before the intake is paused.
Disconnect_ClearsFirst ==
    \/ /\ panel = "none"
       /\ panel' = "cleared" /\ queued' = 0
       /\ UNCHANGED <<socket, url, flags, events, trusted, taken, slipped, switches, paused>>
    \/ /\ panel = "cleared" /\ ~paused
       /\ paused' = TRUE
       /\ UNCHANGED <<socket, url, flags, events, intake, switches, panel>>

Disconnect ==
    \/ /\ panel = "none"
       /\ panel' = "paused" /\ paused' = TRUE
       /\ UNCHANGED <<socket, url, flags, events, intake, switches>>
    \/ /\ panel = "paused"
       /\ panel' = "cleared" /\ queued' = 0
       /\ UNCHANGED <<socket, url, flags, events, trusted, taken, slipped, switches, paused>>

-----------------------------------------------------------------------------
Next ==
    \/ SignIn
    \/ \E s \in Sockets : Flip(s) \/ LoggedIn(s) \/ Confirm(s) \/ AuthPrompt(s) \/ Greeting(s)
                           \/ Note(s) \/ Swap(s) \/ TellResumed(s) \/ Push(s)
                           \/ Drop(s) \/ Dial(s) \/ Dialled(s)
    \/ ConnectElsewhere("primary") \/ Switched \/ Switching
    \/ Authenticated \/ FlipDropped \/ FlipPasses \/ Enqueue \/ Connect \/ Disconnect

Spec == Init /\ [][Next]_vars

-----------------------------------------------------------------------------
(* A flip of a session that no link was shown for clears the gate itself:    *)
(* unless a region switch is under way when it arrives, the gate is open, or *)
(* will be opened by an event before it, when the main loop takes it ("this  *)
(* very flip clears the gate (same ordered channel)", client.rs:443).  That  *)
(* is so with the primary socket alone.                                      *)
Opened(i) == trusted \/ \E j \in 1..(i - 1) : events[j].kind = "authenticated"

ThisVeryFlip ==
    ~multi => \A i \in DOMAIN events :
                 (events[i].kind = "flip" /\ events[i].flip.open /\ events[i].flip.calm) => Opened(i)

\* When nothing is under way any more, the connection is the one of the url that
\* was stored last: no switch is lost to a reconnection that overlaps it.
FollowsTheSwitch ==
    (switches = <<>> /\ reader["primary"].at = "read" /\ seen = signals)
       => conn["primary"].host = host

\* At most one flip gets into the queue after the panel's Disconnect paused the
\* intake and cleared the queue (server.rs:1510-1526).
OneSlips == slipped <= 1

\* Flips that reach a session COFL never asked to sign in are not dropped for
\* want of authentication: such a session "should have been auto-confirmed" and
\* the drop "is a bug if it ever appears" (main.rs:3222-3226).
ResumesSilently ==
    \A i \in DOMAIN events :
       (events[i].kind = "flip" /\ events[i].flip.unasked /\ events[i].flip.calm) => Opened(i)

\* A session that COFL has asked to sign in is not trusted ("the session really
\* is unauthenticated and the gate must keep holding", client.rs:362-363).
GateHolds ==
    LET c == conn["primary"]
    IN (c.up /\ c.asked /\ ~c.known /\ events = <<>> /\ switches = <<>>) => ~trusted
=============================================================================
