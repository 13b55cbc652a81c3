---------------------------- MODULE PurchaseFlow ----------------------------
(***************************************************************************)
(* Buying an auction: the command (src/src/bot/client.rs:3605-3831), the   *)
(* fast-path task it leaves behind, the handler of every window that opens *)
(* (4061-4503), the chat messages that end or prolong a purchase (2626-    *)
(* 2655, 2870-2925) and the watchdog of the window (3149-3218), with the   *)
(* processor's deadline of 10 s (src/src/main.rs:4611).                    *)
(*                                                                         *)
(* The client's own view of a window follows the game.  The event handler  *)
(* hears of it later than the fast path.  A task that can run does so      *)
(* before the game answers or time passes (Settled); among themselves the  *)
(* tasks run in any order.  Buy speed and messages are left out.           *)
(***************************************************************************)
EXTENDS Naturals, Sequences, Functions

CONSTANTS
    Auction,
    Skip,               \* the confirmation is clicked ahead of its window
    MaxConfirmRetries,
    MaxWindow,          \* bound of the model: window ids before they start again
    MaxCommands,        \* bound of the model: purchases begun
    MaxByHand,          \* bound of the model: auctions the operator opens
    MaxSent             \* bound of the model: packets on their way when a bed is clicked

Window  == 1..MaxWindow
Command == 1..MaxCommands
Packet  == [op : {"close", "buy", "confirm"}, win : Window]
           \cup [op : {"view"}, auction : Auction]
NextId(w) == (w % MaxWindow) + 1

VARIABLES
    offer,              \* what slot 31 of an auction's window holds
    shown, lastId,      \* the open window, the id of the last one
    sent, events,       \* packets to the game; events not yet handled
    botState, lastWindow,
    fastBuy, skipSent,  \* fast_buy_clicked, skip_click_sent
    bed, spam,          \* bed_timing_active, and the window of the grace-period task
    fast, handler, dog, \* the tasks
    exec, begun, byHand

game  == <<offer, shown, lastId>>
wire  == <<sent, events>>
bot   == <<botState, lastWindow>>
flags == <<fastBuy, skipSent, bed>>
tasks == <<spam, fast, handler, dog>>
vars  == <<game, wire, bot, flags, tasks, exec, begun, byHand>>

None   == [kind |-> "none"]
Is(kind) == shown.kind = kind
Shows(w, kind) == Is(kind) /\ shown.id = w

TypeOK ==
    /\ offer \in [Auction -> {"bed", "gold_nugget", "potato"}]
    /\ shown \in {None} \cup [kind : {"view"}, id : Window, auction : Auction, loaded : BOOLEAN]
                        \cup [kind : {"confirm"}, id : Window, auction : Auction]
    /\ lastId \in Window
    /\ sent \in Seq(Packet)
    /\ events \in Seq({"fail", "grace", "close"} \X {0} \cup {"view", "confirm"} \X Window)
    /\ botState \in {"Idle", "Purchasing"}
    /\ lastWindow \in Window \cup {0} /\ spam \in Window \cup {0}
    /\ fastBuy \in BOOLEAN /\ skipSent \in BOOLEAN /\ bed \in BOOLEAN
    /\ fast \in [Command -> [pc : {"none", "wait", "title", "slot", "mark"}, win : Window \cup {0}]]
    /\ handler \in [Window -> [pc : {"none", "view", "slot", "bed", "confirm", "retry"},
                               tries : 0..MaxConfirmRetries]]
    /\ dog \in 0..MaxCommands
    /\ exec \in {"none", "close", "poll"}
    /\ begun \in 0..MaxCommands /\ byHand \in 0..MaxByHand

Init ==
    /\ offer \in [Auction -> {"bed", "gold_nugget", "potato"}]
    /\ shown = None /\ lastId = MaxWindow
    /\ sent = <<>> /\ events = <<>>
    /\ botState = "Idle" /\ lastWindow = 0
    /\ fastBuy = FALSE /\ skipSent = FALSE /\ bed = FALSE /\ spam = 0
    /\ fast = [c \in Command |-> [pc |-> "none", win |-> 0]]
    /\ handler = [w \in Window |-> [pc |-> "none", tries |-> 0]] /\ dog = 0
    /\ exec = "none" /\ begun = 0 /\ byHand = 0

Buy(w)     == [op |-> "buy", win |-> w]
Confirm(w) == [op |-> "confirm", win |-> w]
View(a)    == [op |-> "view", auction |-> a]

\* send_raw_close: the packet, and the tracking of whatever window is current.
SendClose(w) ==
    /\ sent' = Append(sent, [op |-> "close", win |-> w])
    /\ lastWindow' = 0

\* What bot.menu() has in slot 31.  Without an auction's window it is a slot of
\* the player's inventory.
Slot31 ==
    IF Is("view") THEN {IF shown.loaded THEN offer[shown.auction] ELSE "air"}
    ELSE {"air", "other"}

-----------------------------------------------------------------------------
(* Time, and the short waits (50 to 500 ms) that are over before the next   *)
(* command, command_delay_ms after the last, or a deadline of seconds.      *)

Loaded  == Is("view") /\ shown.loaded
Settled ==
    /\ events = <<>>
    /\ \A c \in Command : fast[c].pc \notin {"title", "mark"} /\ (Loaded => fast[c].pc # "slot")
    /\ \A w \in Window : handler[w].pc \notin {"view", "confirm"} /\ (Loaded => handler[w].pc # "slot")

Quiet ==
    /\ Settled /\ sent = <<>>
    /\ \A c \in Command : fast[c].pc \in {"none", "wait"}
    /\ \A w \in Window : handler[w].pc \in {"none", "bed"}

-----------------------------------------------------------------------------
(* The command. *)

\* execute_command: a window still open is closed first.
Begin ==
    /\ exec = "none" /\ botState = "Idle" /\ Quiet
    /\ begun < MaxCommands
    /\ begun' = begun + 1
    /\ exec' = "close"
    /\ IF lastWindow # 0 THEN SendClose(lastWindow) ELSE UNCHANGED <<sent, lastWindow>>
    /\ UNCHANGED <<game, events, botState, flags, tasks, byHand>>

\* /viewauction, and the fast-path task, which waits for the next window
\* whatever becomes of the purchase.
Execute ==
    /\ exec = "close"
    /\ \E a \in Auction : sent' = Append(sent, View(a))
    /\ fastBuy' = FALSE
    /\ botState' = "Purchasing"
    /\ fast' = [fast EXCEPT ![begun].pc = "wait"]
    /\ exec' = "poll"
    /\ UNCHANGED <<game, events, lastWindow, skipSent, bed, spam, handler, dog, begun, byHand>>

\* The processor sees the bot idle.
Complete ==
    /\ exec = "poll" /\ botState = "Idle"
    /\ exec' = "none"
    /\ UNCHANGED <<game, wire, bot, flags, tasks, begun, byHand>>

\* 10 s have passed.
Timeout ==
    /\ exec = "poll" /\ botState = "Purchasing" /\ Quiet
    /\ exec' = "none"
    /\ botState' = "Idle"
    /\ UNCHANGED <<game, wire, lastWindow, flags, tasks, begun, byHand>>

\* The operator sends /viewauction from the panel while the bot is free.
ByHand ==
    /\ byHand < MaxByHand
    /\ botState = "Idle" /\ exec = "none" /\ Quiet
    /\ byHand' = byHand + 1
    /\ \E a \in Auction : sent' = Append(sent, View(a))
    /\ UNCHANGED <<game, events, bot, flags, tasks, exec, begun>>

-----------------------------------------------------------------------------
(* The fast-path task. *)

Fast(c, pc) == fast' = [fast EXCEPT ![c].pc = pc]

FastTitle(c) ==
    /\ fast[c].pc = "title"
    /\ Fast(c, IF botState = "Purchasing" /\ Shows(fast[c].win, "view") THEN "slot" ELSE "none")
    /\ UNCHANGED <<game, wire, bot, flags, spam, handler, dog, exec, begun, byHand>>

\* The buy click on the nugget, and the confirmation ahead of its window.
Clicks(w) ==
    /\ sent' = sent \o (IF Skip THEN <<Buy(w), Confirm(NextId(w))>> ELSE <<Buy(w)>>)
    /\ skipSent' = (Skip \/ skipSent)

FastSlot(c) ==
    /\ fast[c].pc = "slot"
    /\ \E kind \in Slot31 :
           IF kind = "gold_nugget"
           THEN /\ Clicks(fast[c].win)
                /\ Fast(c, "mark")
           ELSE /\ Fast(c, "none")
                /\ UNCHANGED <<sent, skipSent>>
    /\ UNCHANGED <<game, events, bot, fastBuy, bed, spam, handler, dog, exec, begun, byHand>>

\* The flag that keeps the handler from clicking too comes after the clicks.
FastMark(c) ==
    /\ fast[c].pc = "mark"
    /\ fastBuy' = TRUE
    /\ Fast(c, "none")
    /\ UNCHANGED <<game, wire, bot, skipSent, bed, spam, handler, dog, exec, begun, byHand>>

-----------------------------------------------------------------------------
(* handle_window_interaction. *)

Becomes(w, pc) == handler' = [handler EXCEPT ![w] = [pc |-> pc, tries |-> 0]]

\* An auction opened while the bot is free is bought.
ViewBegins(w) ==
    /\ handler[w].pc = "view"
    /\ botState' = "Purchasing"
    /\ fastBuy' = (botState = "Purchasing" /\ fastBuy)
    /\ Becomes(w, "slot")
    /\ UNCHANGED <<game, wire, lastWindow, skipSent, bed, spam, fast, dog, exec, begun, byHand>>

SeesBed(w) ==
    /\ handler[w].pc = "slot" /\ "bed" \in Slot31
    /\ bed' = TRUE
    /\ Becomes(w, "bed")
    /\ UNCHANGED <<game, wire, bot, fastBuy, skipSent, spam, fast, dog, exec, begun, byHand>>

SeesNugget(w) ==
    /\ handler[w].pc = "slot" /\ "gold_nugget" \in Slot31
    /\ IF fastBuy THEN UNCHANGED <<sent, skipSent>> ELSE Clicks(w)
    /\ Becomes(w, "none")
    /\ UNCHANGED <<game, events, bot, fastBuy, bed, spam, fast, dog, exec, begun, byHand>>

\* Not for sale: the window is closed, unless the chat message has done so.
SeesOther(w) ==
    /\ handler[w].pc = "slot" /\ Slot31 \cap {"potato", "other"} # {}
    /\ IF botState = "Purchasing"
       THEN SendClose(w) /\ botState' = "Idle"
       ELSE UNCHANGED <<sent, bot>>
    /\ Becomes(w, "none")
    /\ UNCHANGED <<game, events, flags, spam, fast, dog, exec, begun, byHand>>

\* The slot stayed empty for 500 ms.
SeesNothing(w) ==
    /\ handler[w].pc = "slot" /\ "air" \in Slot31
    /\ Becomes(w, "none")
    /\ UNCHANGED <<game, wire, bot, flags, spam, fast, dog, exec, begun, byHand>>

\* Mutant: the handler of a bed clicks whatever window is current.
BedMayClick_Always(w) == TRUE
BedMayClick(w) == lastWindow = w

\* Up to five clicks in 500 ms while the bed is there (bed timing mode).
BedClick(w) ==
    /\ handler[w].pc = "bed" /\ "bed" \in Slot31
    /\ BedMayClick(w)
    /\ Len(sent) < MaxSent
    /\ sent' = Append(sent, Buy(w))
    /\ UNCHANGED <<game, events, bot, flags, tasks, exec, begun, byHand>>

BedNugget(w) ==
    /\ handler[w].pc = "bed" /\ "gold_nugget" \in Slot31
    /\ bed' = FALSE
    /\ sent' = IF BedMayClick(w) THEN Append(sent, Buy(w)) ELSE sent
    /\ Becomes(w, "none")
    /\ UNCHANGED <<game, events, bot, fastBuy, skipSent, spam, fast, dog, exec, begun, byHand>>

\* The window is gone, the auction is sold, or 70 s are over.  Nothing is asked
\* about whose purchase is under way.
BedEnds(w) ==
    /\ handler[w].pc = "bed"
    /\ Slot31 \cap {"air", "potato", "other"} # {} \/ Settled
    /\ bed' = FALSE
    /\ SendClose(w)
    /\ botState' = "Idle"
    /\ Becomes(w, "none")
    /\ UNCHANGED <<game, events, fastBuy, skipSent, spam, fast, dog, exec, begun, byHand>>

\* Confirm Purchase: clicked at once unless a click was sent ahead.
ConfirmBegins(w) ==
    /\ handler[w].pc = "confirm"
    /\ IF botState = "Purchasing"
       THEN /\ sent' = IF skipSent THEN sent ELSE Append(sent, Confirm(w))
            /\ skipSent' = FALSE
            /\ Becomes(w, "retry")
       ELSE /\ Becomes(w, "none")
            /\ UNCHANGED <<sent, skipSent>>
    /\ UNCHANGED <<game, events, bot, fastBuy, bed, spam, fast, dog, exec, begun, byHand>>

ConfirmCurrent == lastWindow # 0 /\ Is("confirm")

\* Every 50 ms, while such a window is current, whichever it is.
ConfirmRetries(w) ==
    /\ Settled
    /\ handler[w].pc = "retry" /\ handler[w].tries < MaxConfirmRetries
    /\ ConfirmCurrent
    /\ handler' = [handler EXCEPT ![w].tries = @ + 1]
    /\ sent' = Append(sent, Confirm(w))
    /\ UNCHANGED <<game, events, bot, flags, spam, fast, dog, exec, begun, byHand>>

ConfirmEnds(w) ==
    /\ Settled
    /\ handler[w].pc = "retry"
    /\ handler[w].tries = MaxConfirmRetries \/ ~ConfirmCurrent
    /\ SendClose(w)
    /\ botState' = "Idle"
    /\ Becomes(w, "none")
    /\ UNCHANGED <<game, events, flags, spam, fast, dog, exec, begun, byHand>>

Handle(w) ==
    \/ ViewBegins(w) \/ SeesBed(w) \/ SeesNugget(w) \/ SeesOther(w) \/ SeesNothing(w)
    \/ BedClick(w) \/ BedNugget(w) \/ BedEnds(w)
    \/ ConfirmBegins(w) \/ ConfirmRetries(w) \/ ConfirmEnds(w)

-----------------------------------------------------------------------------
(* Events: packets of the game and its chat. *)

Event(kind) == events # <<>> /\ Head(events)[1] = kind /\ events' = Tail(events)

\* OpenScreen: the window becomes current and gets a handler and a watchdog.
OpenScreen ==
    /\ \E kind \in {"view", "confirm"} :
           /\ Event(kind)
           /\ LET w == Head(events)[2]
              IN lastWindow' = w /\ Becomes(w, kind)
    /\ dog' = begun
    /\ UNCHANGED <<game, sent, botState, flags, spam, fast, exec, begun, byHand>>

ContainerClose ==
    /\ Event("close")
    /\ lastWindow' = 0
    /\ bed' = FALSE
    /\ spam' = 0
    /\ UNCHANGED <<game, sent, botState, fastBuy, skipSent, fast, handler, dog, exec, begun, byHand>>

\* A message that ends a purchase: is_terminal_purchase_failure_message.
Failure ==
    /\ Event("fail")
    /\ IF botState = "Purchasing"
       THEN /\ botState' = "Idle"
            /\ skipSent' = FALSE /\ bed' = FALSE /\ spam' = 0
            /\ IF lastWindow # 0 THEN SendClose(lastWindow) ELSE UNCHANGED <<sent, lastWindow>>
       ELSE UNCHANGED <<sent, bot, skipSent, bed, spam>>
    /\ UNCHANGED <<game, fastBuy, fast, handler, dog, exec, begun, byHand>>

\* "still in its grace period": one task clicks on in this window.
Grace ==
    /\ Event("grace")
    /\ spam' = IF botState = "Purchasing" /\ spam = 0 THEN lastWindow ELSE spam
    /\ UNCHANGED <<game, sent, bot, flags, fast, handler, dog, exec, begun, byHand>>

Spam ==
    /\ spam # 0 /\ Settled
    /\ \/ /\ lastWindow # spam
          /\ spam' = 0
          /\ UNCHANGED <<sent, botState>>
       \/ /\ lastWindow = spam /\ "gold_nugget" \in Slot31 /\ Len(sent) < MaxSent
          /\ sent' = Append(sent, Buy(spam))
          /\ UNCHANGED <<spam, botState>>
       \/ /\ lastWindow = spam /\ "gold_nugget" \notin Slot31
          /\ spam' = 0
          /\ botState' = "Idle"
          /\ UNCHANGED sent
    /\ UNCHANGED <<game, events, lastWindow, flags, fast, handler, dog, exec, begun, byHand>>

\* The window is 5 s old.
Watchdog ==
    /\ Quiet
    /\ lastWindow # 0 /\ botState = "Purchasing" /\ ~bed /\ dog = begun
    /\ SendClose(lastWindow)
    /\ botState' = "Idle"
    /\ spam' = 0
    /\ UNCHANGED <<game, events, flags, fast, handler, dog, exec, begun, byHand>>

-----------------------------------------------------------------------------
(* The game. *)

Opens(win) ==
    /\ shown' = win
    /\ lastId' = win.id
    /\ events' = Append(events, <<win.kind, win.id>>)
    /\ fast' = [c \in Command |-> IF fast[c].pc = "wait" THEN [pc |-> "title", win |-> win.id]
                                  ELSE fast[c]]

Says(e) == events' = Append(events, <<e, 0>>) /\ UNCHANGED <<shown, lastId, fast, offer>>
Silent  == UNCHANGED <<shown, lastId, events, fast, offer>>

\* The answer to a packet.  The game may also ignore it.
Answer(p) ==
    \/ /\ p.op = "view"
       /\ \/ \E l \in BOOLEAN : Opens([kind |-> "view", id |-> NextId(lastId),
                                       auction |-> p.auction, loaded |-> l])
          \/ Says("fail")
       /\ UNCHANGED offer
    \/ /\ p.op = "buy" /\ Shows(p.win, "view") /\ shown.loaded
       /\ offer[shown.auction] = "gold_nugget"
       /\ \/ Opens([kind |-> "confirm", id |-> NextId(lastId), auction |-> shown.auction])
             /\ UNCHANGED offer
          \/ Says("grace")
    \/ /\ p.op = "confirm" /\ Shows(p.win, "confirm")
       /\ shown' = None
       /\ events' = events \o (IF offer[shown.auction] = "potato" THEN << <<"fail", 0>>, <<"close", 0>> >>
                               ELSE << <<"close", 0>> >>)
       /\ offer' = [offer EXCEPT ![shown.auction] = "potato"]
       /\ UNCHANGED <<lastId, fast>>
    \/ /\ p.op = "close" /\ ~Is("none") /\ shown.id = p.win
       /\ shown' = None
       /\ UNCHANGED <<lastId, events, fast, offer>>
    \/ Silent

Game ==
    /\ sent # <<>> /\ Settled
    /\ Answer(Head(sent))
    /\ sent' = Tail(sent)
    /\ UNCHANGED <<bot, flags, spam, handler, dog, exec, begun, byHand>>

\* The contents of a window arrive.
Fills ==
    /\ Settled
    /\ Is("view") /\ ~shown.loaded
    /\ shown' = [shown EXCEPT !.loaded = TRUE]
    /\ UNCHANGED <<offer, lastId, wire, bot, flags, tasks, exec, begun, byHand>>

\* A grace period ends; somebody else buys.
Turns ==
    /\ Settled
    /\ \E a \in Auction, to \in {"gold_nugget", "potato"} :
           /\ offer[a] # "potato" /\ offer[a] # to
           /\ offer' = [offer EXCEPT ![a] = to]
    /\ UNCHANGED <<shown, lastId, wire, bot, flags, tasks, exec, begun, byHand>>

Next ==
    \/ Begin \/ Execute \/ Complete \/ Timeout \/ ByHand
    \/ \E c \in Command : FastTitle(c) \/ FastSlot(c) \/ FastMark(c)
    \/ \E w \in Window : Handle(w)
    \/ OpenScreen \/ ContainerClose \/ Failure \/ Grace
    \/ Spam \/ Watchdog
    \/ Game \/ Fills \/ Turns

Spec == Init /\ [][Next]_vars

-----------------------------------------------------------------------------
(* Properties. *)

Sends(p) == p \in Range(SubSeq(sent', Len(sent) + 1, Len(sent')))

\* client.rs:4129: "Do NOT click slot 31 ... until we know what item the server
\* placed there."  Every buy click is for the window that is open, with its
\* contents there and the nugget or the bed among them, although the handler of
\* an earlier purchase may still be looking at the slots.  (In the 20 to 70 ms in
\* which a new window is shown but not yet current that handler may be wrong.)
ClickSeen ==
    \A w \in Window :
        Sends(Buy(w)) /\ events = <<>> =>
            Shows(w, "view") /\ Loaded /\ offer[shown.auction] # "potato"
ClicksWhatItSees == [][ClickSeen]_vars

\* client.rs:3154: "the BIN Auction View must stay open for up to 60 s while
\* waiting for the grace period to end."  No command closes the window of a bed
\* that is still there.
BedKept ==
    [][\A w \in Window :
           handler[w].pc = "bed" /\ lastWindow = w /\ "bed" \in Slot31 => exec' # "close"]_vars

\* client.rs:3825: the flag is set "so the Event::Packet handler doesn't send a
\* duplicate click".
OneClick ==
    [][\A c \in Command : fast[c].pc = "mark" => ~Sends(Buy(fast[c].win))]_vars
=============================================================================
