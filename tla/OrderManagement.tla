--------------------------- MODULE OrderManagement ---------------------------
(***************************************************************************)
(* A ManageOrders run: the command (src/src/bot/client.rs:3966-4033), the  *)
(* windows it meets (3080-3278, 5456-6066), and the tasks that may end it  *)
(* behind its back: the GUI watchdog of every window, the retry of /bz,    *)
(* the internal deadline, and the processor's timeout.                     *)
(*                                                                         *)
(* Every window has a handler task of its own, which goes on until it sees *)
(* that the window is no longer the current one.  The game answers packets *)
(* in the order they are sent.  It and the clock are the environment: any  *)
(* timer may expire once what it waits for has not come.  The pause of the *)
(* bazaar is in BazaarPause and left out here, as are prices and names: an *)
(* order stands for the entry of its item and side.                        *)
(***************************************************************************)
EXTENDS Naturals, Sequences, FiniteSets, SequencesExt, FiniteSetsExt

CONSTANTS
    Order,
    Buys,               \* the buy orders; the others are sell offers
    Stale,              \* orders past cancel_minutes_per_million once they are not young
    Window,             \* container ids; one is used again when nobody holds it
    MaxCancelRetries,
    MaxRuns,            \* bound of the model: runs queued, from outside or for the rest
    MaxSent,            \* bound of the model: packets on their way
    MaxUpsets,          \* bound of the model: packets the game ignores, windows it
                        \* closes, and changes of an order or the inventory
    None

ASSUME OrderAssumption ==
    /\ Buys \subseteq Order /\ Stale \subseteq Order
    /\ Window \subseteq Nat \ {0}
    /\ MaxCancelRetries \in Nat
    /\ MaxRuns \in Nat /\ MaxSent \in Nat /\ MaxUpsets \in Nat
    /\ None \notin Order

Cmd    == [open : BOOLEAN, target : Order \cup {None}]
Packet == [op : {"bz", "close", "orders", "pick", "collect", "cancel"},
           win : Window \cup {0}, order : Order \cup {None}]

VARIABLES
    fill, young,              \* each order in the game; those under five minutes old
    room,                     \* the inventory has free slots
    shown, page, sent,        \* the window the game has open, what each shows, packets
    botState, lastWindow,
    cancelOpen, target, processed, deadline, context, invFull,
    failures,                 \* order_cancel_failures
    handler,                  \* handle_window_interaction, one task for each window
    dog,                      \* the watchdog of the current window
    retry,                    \* the tasks that send /bz again
    queue, current, runs,
    upsets

game    == <<fill, young, room>>
wire    == <<shown, page, sent>>
run     == <<cancelOpen, target, processed, deadline, context, invFull, failures>>
tasks   == <<handler, dog, retry>>
bot     == <<botState, lastWindow>>
manage  == <<queue, current, runs>>
vars    == <<game, wire, bot, run, tasks, manage, upsets>>

Off == [pc |-> "none", order |-> None, open |-> FALSE, target |-> None,
        young |-> FALSE, more |-> FALSE]

Buttons == {"probe", "search", "collect", "collectThenCancel", "cancel", "cancelRest"}

TypeOK ==
    /\ fill \in [Order -> {"open", "part", "full", "gone"}]
    /\ young \subseteq Order /\ room \in BOOLEAN
    /\ shown \in Window \cup {0} /\ lastWindow \in Window \cup {0}
    /\ page \in [Window -> [kind : {"bazaar", "list", "options"}, order : Order \cup {None}]]
    /\ sent \in Seq(Packet)
    /\ botState \in {"Idle", "ManagingOrders"}
    /\ cancelOpen \in BOOLEAN /\ invFull \in BOOLEAN
    /\ target \in Order \cup {None} /\ context \in Order \cup {None}
    /\ processed \subseteq Order
    /\ deadline \in {"none", "running", "passed"}
    /\ failures \in [Order -> Nat]
    /\ handler \in [Window -> [pc : {"none", "start", "bazaar", "list", "wait", "requeue"}
                                    \cup Buttons,
                               order : Order \cup {None}, open : BOOLEAN,
                               target : Order \cup {None}, young : BOOLEAN, more : BOOLEAN]]
    /\ dog \in {"none", "armed", "extended"}
    /\ retry \subseteq {"first", "second"}
    /\ queue \in Seq(Cmd) /\ current \in Cmd \cup {None}
    /\ runs \in 0..MaxRuns /\ upsets \in 0..MaxUpsets

Init ==
    /\ fill \in [Order -> {"open", "part", "full"}]
    /\ young \in SUBSET Order /\ room = TRUE
    /\ shown = 0 /\ lastWindow = 0 /\ sent = <<>>
    /\ page = [w \in Window |-> [kind |-> "bazaar", order |-> None]]
    /\ botState = "Idle"
    /\ cancelOpen = FALSE /\ invFull = FALSE
    /\ target = None /\ context = None
    /\ processed = {} /\ deadline = "none"
    /\ failures = [o \in Order |-> 0]
    /\ handler = [w \in Window |-> Off]
    /\ dog = "none"
    /\ retry = {}
    /\ queue = <<>> /\ current = None /\ runs = 0 /\ upsets = 0

-----------------------------------------------------------------------------
(* The command and the processor. *)

\* has_manage_orders looks at the executing command too.
HasManageOrders == current # None \/ queue # <<>>

\* The timer asks for a collection if none is there; the startup and the web
\* panel for the cancellation of all orders, the panel and COFL for that of one.
Ask ==
    /\ runs < MaxRuns
    /\ runs' = runs + 1
    /\ \E c \in Cmd :
        /\ c.target # None => c.open
        /\ ~c.open => ~HasManageOrders
        /\ queue' = IF c.target = None THEN Append(queue, c) ELSE <<c>> \o queue
    /\ UNCHANGED <<upsets, game, wire, bot, run, tasks, current>>

Send(packets) ==
    /\ Len(sent) + Len(packets) <= MaxSent
    /\ sent' = sent \o packets

\* A task runs at once up to its next sleep: the game is slower than that.
Settled == \A w \in Window : handler[w].pc \notin {"start", "requeue"}

\* A timer of seconds expires when no answer is on its way and no handler is in
\* one of its short sleeps.
Silence ==
    /\ sent = <<>>
    /\ \A w \in Window :
          \/ handler[w].pc = "none"
          \/ /\ handler[w].pc \in {"wait", "collect", "collectThenCancel", "cancel", "cancelRest"}
             /\ lastWindow = w

Pkt(op, w, o) == [op |-> op, win |-> w, order |-> o]

\* SafeClose of a window that is still open; then the run's fields, /bz and the
\* task that retries it.
Start ==
    /\ current = None /\ queue # <<>> /\ botState = "Idle"
    /\ current' = Head(queue) /\ queue' = Tail(queue)
    /\ Send((IF lastWindow = 0 THEN <<>> ELSE <<Pkt("close", lastWindow, None)>>)
            \o <<Pkt("bz", 0, None)>>)
    /\ lastWindow' = 0
    /\ cancelOpen' = current'.open /\ target' = current'.target
    /\ processed' = {} /\ deadline' = "running"
    /\ botState' = "ManagingOrders"
    /\ retry' = retry \cup {"first"}
    /\ UNCHANGED <<upsets, game, shown, page, context, invFull, failures, handler, dog, runs>>

\* The poll loop finds the bot free, or gives up after fifteen seconds.
Complete ==
    /\ current # None
    /\ botState = "Idle" \/ (Silence /\ deadline # "running")
    /\ current' = None /\ botState' = "Idle"
    /\ UNCHANGED <<upsets, game, wire, lastWindow, run, tasks, queue, runs>>

DeadlinePasses ==
    /\ Settled
    /\ deadline = "running"
    /\ deadline' = "passed"
    /\ UNCHANGED <<upsets, game, wire, bot, cancelOpen, target, processed, context, invFull,
                   failures, tasks, manage>>

\* Five seconds after /bz, and again: nothing to do when a window is open.
Retry(phase) ==
    /\ Silence
    /\ phase \in retry
    /\ IF botState = "ManagingOrders" /\ lastWindow = 0
       THEN IF phase = "first"
            THEN Send(<<Pkt("bz", 0, None)>>) /\ retry' = (retry \ {phase}) \cup {"second"}
                 /\ UNCHANGED botState
            ELSE botState' = "Idle" /\ retry' = retry \ {phase} /\ UNCHANGED sent
       ELSE retry' = retry \ {phase} /\ UNCHANGED <<botState, sent>>
    /\ UNCHANGED <<upsets, game, shown, page, lastWindow, run, handler, dog, manage>>

-----------------------------------------------------------------------------
(* The end of a run, as the handlers and the watchdog write it. *)

\* Mutant: an id no window has is stored where 0 means that no window is open.
Close_NoId(w) == Send(<<Pkt("close", w, None)>>) /\ lastWindow' = 1000

\* send_raw_close clears the tracking of whatever window is open.
Close(w) == Send(<<Pkt("close", w, None)>>) /\ lastWindow' = 0

CloseIfCurrent(w) == IF lastWindow = w THEN Close(w) ELSE UNCHANGED <<sent, lastWindow>>

GoIdle == deadline' = "none" /\ botState' = "Idle"

Become(w, pc) == handler' = [handler EXCEPT ![w].pc = pc]

Quit(w) == handler' = [handler EXCEPT ![w] = Off]

\* The end of the Order options branch; again: it goes on to ask for another run.
Leave(w, again) ==
    /\ processed' = processed \cup {handler[w].order}
    /\ CloseIfCurrent(w)
    /\ GoIdle
    /\ IF again THEN Become(w, "requeue") ELSE Quit(w)
    /\ UNCHANGED <<cancelOpen, target, context, invFull>>

\* One more run for the rest, unless one is there.
Requeue(w) ==
    /\ handler[w].pc = "requeue"
    /\ IF HasManageOrders
       THEN UNCHANGED <<queue, runs>>
       ELSE /\ runs < MaxRuns
            /\ runs' = runs + 1
            /\ queue' = Append(queue, [open |-> handler[w].open, target |-> None])
    /\ Quit(w)
    /\ UNCHANGED <<upsets, game, wire, bot, run, dog, retry, current>>

\* click_window_slot refuses a window that is not the current one.
Click(w, op, o) ==
    IF lastWindow = w THEN Send(<<Pkt(op, w, o)>>) ELSE UNCHANGED sent

-----------------------------------------------------------------------------
(* The handlers. *)

Aged(o) == o \in Stale \ young

\* Mutant: an order options window whose order is young is treated like another.
TooYoung_Never(o) == FALSE

TooYoung(o) == o \in young

\* Mutant: the attempts are not counted against the limit.
Exceeded_Never(o) == FALSE

Exceeded(o) == failures[o] >= MaxCancelRetries

\* A window's task starts: it reads the state, the mode and the context once.
Begin(w) ==
    /\ handler[w].pc = "start"
    /\ IF botState # "ManagingOrders"
       THEN Quit(w) /\ UNCHANGED <<sent, bot, run>>
       ELSE IF deadline = "passed"
       THEN Close(w) /\ GoIdle /\ Quit(w)
            /\ UNCHANGED <<cancelOpen, target, processed, context, invFull>>
       ELSE LET here == [Off EXCEPT !.open = cancelOpen, !.target = target]
                opt  == [here EXCEPT !.order = context, !.young = TooYoung(context)]
                collectOnly == opt.young \/ (~cancelOpen /\ ~Aged(context))
            IN \/ /\ page[w].kind # "options"
                  /\ handler' = [handler EXCEPT ![w] = [here EXCEPT !.pc = page[w].kind]]
                  /\ UNCHANGED <<sent, bot, cancelOpen, target, processed, deadline,
                                 context, invFull>>
               \/ /\ page[w].kind = "options"
                  /\ \/ context \in processed /\ Close(w)
                     \/ /\ context \notin processed
                        /\ ~collectOnly /\ Exceeded(context)
                        /\ CloseIfCurrent(w)
                  /\ GoIdle /\ Quit(w)
                  /\ processed' = processed \cup {context}
                  /\ UNCHANGED <<cancelOpen, target, context, invFull>>
               \/ /\ page[w].kind = "options"
                  /\ context \notin processed /\ (collectOnly \/ ~Exceeded(context))
                  /\ handler' = [handler EXCEPT ![w] =
                         [opt EXCEPT !.pc = IF collectOnly THEN "probe" ELSE "search"]]
                  /\ UNCHANGED <<sent, bot, cancelOpen, target, processed, deadline,
                                 context, invFull>>
    /\ UNCHANGED <<upsets, game, shown, page, failures, dog, retry, manage>>

\* The bazaar page: go on to the orders, unless another window has come.
Bazaar(w) ==
    /\ handler[w].pc = "bazaar"
    /\ Click(w, "orders", None)
    /\ Quit(w)
    /\ UNCHANGED <<upsets, game, shown, page, bot, run, dog, retry, manage>>

\* The candidates of the first tier that has any.
Chosen(h, full) ==
    LET seen      == {o \in Order : fill[o] # "gone" /\ o \notin processed}
        ready     == {o \in seen : fill[o] # "open"}
        aged      == {o \in seen \ ready : Aged(o)}
        tiers     == IF h.target # None THEN <<seen \cap {h.target}>>
                     ELSE IF h.open THEN <<seen \ Buys, seen \cap Buys>>
                     ELSE <<ready \ Buys, IF full THEN {} ELSE ready \cap Buys,
                            aged \ Buys, aged \cap Buys>>
        first     == SelectInSeq(tiers, LAMBDA t : t # {})
    IN IF first = 0 THEN {} ELSE tiers[first]

\* Mutant: the context is that of the order clicked before.
Pick_KeepsContext(w, o) ==
    /\ Click(w, "pick", o)
    /\ context' = IF context = None THEN o ELSE context
    /\ handler' = [handler EXCEPT ![w].pc = "wait", ![w].order = o,
           ![w].more = Cardinality({x \in Order \ processed : fill[x] # "gone"}) > 1]
    /\ UNCHANGED <<bot, deadline, processed>>

\* managing_order_context is set before the click that opens Order options.
Pick(w, o) ==
    /\ Click(w, "pick", o)
    /\ context' = o
    /\ handler' = [handler EXCEPT ![w].pc = "wait", ![w].order = o,
           ![w].more = Cardinality({x \in Order \ processed : fill[x] # "gone"}) > 1]
    /\ UNCHANGED <<bot, deadline, processed>>

\* The list of orders, a quarter of a second later: choose one and click it.
List(w) ==
    /\ handler[w].pc = "list"
    /\ LET h    == handler[w]
           full == invFull /\ ~room
           pick == Chosen(h, full)
       IN \/ /\ deadline = "passed"
             /\ Close(w) /\ GoIdle /\ Quit(w)
             /\ UNCHANGED <<processed, context, invFull>>
          \/ /\ deadline # "passed" /\ lastWindow # w
             /\ Quit(w)
             /\ UNCHANGED <<sent, bot, deadline, processed, context, invFull>>
          \/ /\ deadline # "passed" /\ lastWindow = w
             /\ invFull' = full
             /\ \/ /\ pick = {}
                   /\ Close(w) /\ GoIdle /\ Quit(w)
                   /\ UNCHANGED <<processed, context>>
                \/ \E o \in pick :
                     IF o \in Buys /\ ~h.open /\ full
                     THEN /\ processed' = processed \cup {o}
                          /\ Close(w) /\ GoIdle /\ Quit(w)
                          /\ UNCHANGED context
                     ELSE Pick(w, o)
    /\ UNCHANGED <<upsets, game, shown, page, cancelOpen, target, failures, dog, retry, manage>>

\* Mutant: no answer in five seconds counts as Order options as well.
OptionsOpened_Always(w) == TRUE

\* Another window than the list means Order options, unless its title says not.
OptionsOpened(w) ==
    \/ lastWindow # w /\ (lastWindow = 0 \/ page[lastWindow].kind = "options")
    \/ lastWindow = w /\ invFull /\ handler[w].order \in Buys

\* The answer to the click, or five seconds without one, which count as collected.
Wait(w) ==
    /\ handler[w].pc = "wait"
    /\ lastWindow # w \/ (invFull /\ handler[w].order \in Buys) \/ Silence
    /\ CloseIfCurrent(w)
    /\ IF OptionsOpened(w)
       THEN Quit(w) /\ UNCHANGED <<botState, deadline, processed>>
       ELSE /\ processed' = processed \cup {handler[w].order}
            /\ GoIdle
            /\ IF handler[w].more /\ handler[w].target = None
               THEN Become(w, "requeue") ELSE Quit(w)
    /\ UNCHANGED <<upsets, game, shown, page, cancelOpen, target, context, invFull, failures,
                   dog, retry, manage>>

HasCollect(w) == lastWindow = w /\ fill[page[w].order] \in {"part", "full"}
HasCancel(w)  == lastWindow = w /\ fill[page[w].order] # "gone"

ClickButton(w, op, pc) ==
    /\ Send(<<Pkt(op, w, page[w].order)>>)
    /\ Become(w, pc)
    /\ UNCHANGED <<bot, cancelOpen, target, processed, deadline, context, invFull, failures>>

\* Order options, collect only: a partial fill has a Collect button.
Probe(w) ==
    /\ handler[w].pc = "probe"
    /\ \/ HasCollect(w) /\ ClickButton(w, "collect", "collect")
       \/ (~HasCollect(w)) /\ Leave(w, FALSE) /\ UNCHANGED failures
    /\ UNCHANGED <<upsets, game, shown, page, dog, retry, manage>>

\* Order options, cancelling: collect first, if there is something.
Search(w) ==
    /\ handler[w].pc = "search"
    /\ \/ HasCollect(w) /\ ClickButton(w, "collect", "collectThenCancel")
       \/ HasCancel(w) /\ ~HasCollect(w) /\ ClickButton(w, "cancel", "cancel")
       \/ (~HasCancel(w)) /\ Leave(w, TRUE) /\ UNCHANGED failures
    /\ UNCHANGED <<upsets, game, shown, page, dog, retry, manage>>

\* The Collect button is gone, or the window: the collection counts as confirmed.
\* A buy order that is not young is then cancelled as well.
Collect(w) ==
    /\ handler[w].pc \in {"collect", "collectThenCancel"}
    /\ ~HasCollect(w) \/ Silence
    /\ LET h == handler[w]
           confirmed == ~HasCollect(w)
           goesOn == HasCancel(w) /\ (h.pc = "collectThenCancel"
                                      \/ (confirmed /\ h.order \in Buys /\ ~h.young))
       IN IF goesOn
          THEN ClickButton(w, "cancel", IF h.pc = "collect" THEN "cancelRest" ELSE "cancel")
          ELSE Leave(w, TRUE) /\ UNCHANGED failures
    /\ UNCHANGED <<upsets, game, shown, page, dog, retry, manage>>

\* The Cancel button is gone, or the window; a failure counts, but not that of
\* the rest of a buy order.
Cancel(w) ==
    /\ handler[w].pc \in {"cancel", "cancelRest"}
    /\ ~HasCancel(w) \/ Silence
    /\ failures' = [failures EXCEPT ![handler[w].order] =
                       IF ~HasCancel(w) THEN 0
                       ELSE IF handler[w].pc = "cancel" THEN @ + 1 ELSE @]
    /\ Leave(w, TRUE)
    /\ UNCHANGED <<upsets, game, shown, page, dog, retry, manage>>

\* The watchdog of a window: five seconds, and for a running deadline two more
\* than that.  That of an older window finds another one open and does nothing;
\* so does one of an earlier command, whose windows SafeClose has closed.
Watchdog ==
    /\ Silence
    /\ dog # "none"
    /\ IF dog = "armed" /\ botState = "ManagingOrders" /\ deadline = "running"
       THEN dog' = "extended" /\ UNCHANGED <<sent, bot, deadline>>
       ELSE /\ dog = "extended" => deadline # "running"
            /\ dog' = "none"
            /\ IF lastWindow # 0 /\ botState = "ManagingOrders"
               THEN Close(lastWindow) /\ GoIdle
               ELSE UNCHANGED <<sent, bot, deadline>>
    /\ UNCHANGED <<upsets, game, shown, page, cancelOpen, target, processed, context,
                   invFull, failures, handler, retry, manage>>

-----------------------------------------------------------------------------
(* The game. *)

\* OpenScreen: the window is recorded, its watchdog and its handler start.
OpenScreen(kind, o) ==
    LET free == {w \in Window : /\ handler[w].pc = "none"
                                /\ w \notin {lastWindow, shown}
                                /\ \A i \in DOMAIN sent : sent[i].win # w}
        w == Min(free)
    IN /\ free # {}
       /\ shown' = w /\ lastWindow' = w
       /\ page' = [page EXCEPT ![w] = [kind |-> kind, order |-> o]]
       /\ handler' = [handler EXCEPT ![w] = [Off EXCEPT !.pc = "start"]]
       /\ dog' = "armed"

SameWindow == UNCHANGED <<shown, page, lastWindow, handler, dog>>

\* Something of the order is taken: it goes, and a new list may open.
Taken(o, left) ==
    /\ fill' = [fill EXCEPT ![o] = left]
    /\ SameWindow \/ OpenScreen("list", None)
    /\ UNCHANGED invFull

\* What was bought cannot be taken without room; the chat says so.
NoRoom == invFull' = TRUE /\ SameWindow /\ UNCHANGED fill

Nothing == SameWindow /\ UNCHANGED <<fill, invFull>>

\* The game takes the next packet.
Answer ==
    /\ Settled
    /\ sent # <<>>
    /\ sent' = Tail(sent)
    /\ LET p == Head(sent)
           there == p.win = shown /\ (p.order # None => fill[p.order] # "gone")
           space == room \/ p.order \notin Buys
       IN \/ p.op = "bz" /\ OpenScreen("bazaar", None) /\ UNCHANGED <<fill, invFull>>
          \/ /\ p.op = "close" /\ shown' = 0
             /\ UNCHANGED <<page, lastWindow, handler, dog, fill, invFull>>
          \/ p.op = "orders" /\ there /\ OpenScreen("list", None) /\ UNCHANGED <<fill, invFull>>
          \/ /\ p.op = "pick" /\ there /\ fill[p.order] # "full"
             /\ OpenScreen("options", p.order) /\ UNCHANGED <<fill, invFull>>
          \/ p.op = "pick" /\ there /\ fill[p.order] = "full" /\ space /\ Taken(p.order, "gone")
          \/ p.op = "collect" /\ there /\ space /\ fill[p.order] = "part" /\ Taken(p.order, "open")
          \/ p.op = "collect" /\ there /\ space /\ fill[p.order] = "full" /\ Taken(p.order, "gone")
          \/ /\ p.op \in {"pick", "collect", "cancel"} /\ there /\ ~space
             /\ fill[p.order] \in (IF p.op = "pick" THEN {"full"} ELSE {"part", "full"})
             /\ NoRoom
          \/ p.op = "collect" /\ there /\ fill[p.order] = "open" /\ Nothing
          \/ p.op = "cancel" /\ there /\ (space \/ fill[p.order] = "open") /\ Taken(p.order, "gone")
          \/ p.op \notin {"bz", "close"} /\ ~there /\ Nothing
    /\ UNCHANGED <<upsets, young, room, botState, cancelOpen, target, processed, deadline, context,
                   failures, retry, manage>>

Upset == upsets < MaxUpsets /\ upsets' = upsets + 1

\* The next packet has no effect.
Ignore ==
    /\ Upset
    /\ sent # <<>> /\ Head(sent).op # "close"
    /\ sent' = Tail(sent)
    /\ UNCHANGED <<game, shown, page, bot, run, tasks, manage>>

\* ContainerClose that nobody asked for.
GameCloses ==
    /\ Upset
    /\ shown # 0
    /\ shown' = 0 /\ lastWindow' = 0
    /\ UNCHANGED <<game, page, sent, botState, run, tasks, manage>>

\* An order fills, ages, or the inventory changes.
Changes ==
    /\ Upset
    /\ \/ \E o \in Order : /\ fill[o] \in {"open", "part"}
                           /\ fill' \in {[fill EXCEPT ![o] = "part"], [fill EXCEPT ![o] = "full"]}
                           /\ UNCHANGED <<young, room>>
       \/ \E o \in young : young' = young \ {o} /\ UNCHANGED <<fill, room>>
       \/ room' = ~room /\ UNCHANGED <<fill, young>>
    /\ UNCHANGED <<wire, bot, run, tasks, manage>>

Handle(w) ==
    \/ Begin(w) \/ Bazaar(w) \/ List(w) \/ Wait(w) \/ Probe(w) \/ Search(w)
    \/ Collect(w) \/ Cancel(w) \/ Requeue(w)

Next ==
    \/ Ask \/ Start \/ Complete \/ DeadlinePasses
    \/ \E phase \in {"first", "second"} : Retry(phase)
    \/ \E w \in Window : Handle(w)
    \/ Watchdog
    \/ Answer \/ Ignore \/ GameCloses \/ Changes

Spec == Init /\ [][Next]_vars

-----------------------------------------------------------------------------
(* Properties. *)

\* The handler of an Order options window acts on the order that window is of,
\* whatever lists and runs have come in between: the context it read on opening
\* is that of the click the game answered.  And what it cancels has been open
\* for five minutes, even at startup (client.rs:5572-5640, 5800-6040).
TakesItsOrder ==
    /\ \A w \in Window : handler[w].pc \in Buttons => page[w].order = handler[w].order
    /\ \A i \in DOMAIN sent : sent[i].op = "cancel" => sent[i].order \notin young

\* An order the game does not let go is given up after MAX_CANCEL_RETRIES.
GivesUp == \A o \in Order : failures[o] <= MaxCancelRetries

\* A run under way always has somebody who will end it before the processor's
\* timeout, even when a handler is gone: the watchdog of the window that is open,
\* and, as long as the game has ignored and closed nothing, the retry of /bz while
\* none is (client.rs:3180-3278, 3990-4033).
EndsItself ==
    botState = "ManagingOrders" =>
        /\ lastWindow # 0 => dog # "none"
        /\ (upsets = 0 /\ lastWindow = 0) => retry # {}

\* When a run that cancels everything is over and has taken an order, another is
\* queued for the old orders it has left.
RestIsRequeued ==
    /\ botState = "Idle" /\ current = None
    /\ \A w \in Window : handler[w].pc = "none"
    /\ cancelOpen /\ target = None
    /\ \E o \in processed : fill[o] = "gone"
    /\ \E o \in Order \ (young \cup processed) : fill[o] # "gone"
    => queue # <<>>
=============================================================================
