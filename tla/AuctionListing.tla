---------------------------- MODULE AuctionListing ----------------------------
(***************************************************************************)
(* Listing an item: SellToAuction (src/src/bot/client.rs:3916-3937), the   *)
(* handler of every window in the state Selling (5178-5455), the price and *)
(* duration signs (3406-3447), and the chat: an item stuck in the auction  *)
(* slot, with its retries (2765-2826), and the confirmation (2827-2870).   *)
(*                                                                         *)
(* Starting bid and duration of a command are its number.  A slot whose    *)
(* contents have not come yet looks empty.  An inventory slot computed at  *)
(* the upload is taken to still hold the item.                             *)
(***************************************************************************)
EXTENDS Naturals, Sequences

CONSTANTS
    Item,
    MaxStuckRetries,
    MaxWindow,          \* bound of the model: window ids before they start again
    MaxCommands,        \* bound of the model: listings asked for
    MaxLost             \* bound of the model: packets the game ignores

Window  == 1..MaxWindow
Command == 1..MaxCommands
Number  == 0..MaxCommands
NextId(w) == (w % MaxWindow) + 1

Pages == {"ah", "manage", "type", "bin", "duration", "sure"}
Steps == {"Initial", "OpenManage", "ClickCreate", "SelectBIN", "PriceSign", "SetDuration",
          "DurationSign", "ConfirmSell", "FinalConfirm"}
Nobody == "none"

VARIABLES
    shown, lastId,      \* the open window, the id of the last one
    slot,               \* the auction being made: [item, price, hours]
    auctions,           \* the auctions made
    sent, events,       \* packets to the game; events not yet handled
    botState, lastWindow,
    field,              \* auction_item_name and its companions: of which command
    step, aborted,      \* auction_step, auction_sell_aborted
    stuck, blocked,     \* auction_stuck_item_retries, auction_slot_blocked
    atLimit,            \* auction_at_limit
    handler,
    dog,                \* no command has begun since the current window opened
    retry,              \* the tasks that send /ah again after AUCTION_RETRY_AFTER_STUCK_ITEM_MS
    exec, begun, asked, \* the processor; the commands begun and the item of each
    lost

game  == <<shown, lastId, slot, auctions>>
wire  == <<sent, events>>
bot   == <<botState, lastWindow>>
flow  == <<field, step>>
flags == <<aborted, stuck, blocked, atLimit>>
tasks == <<handler, dog, retry>>
proc  == <<exec, begun, asked>>
vars  == <<game, wire, bot, flow, flags, tasks, proc, lost>>

None  == [page |-> "none", id |-> 0]
Empty == [item |-> Nobody, price |-> 0, hours |-> 0]
Off   == [pc |-> "none", page |-> "none", item |-> Nobody]
Free(w) == handler[w].pc = "none"

TypeOK ==
    /\ shown \in [page : Pages \cup {"none", "priceSign", "hoursSign"}, id : 0..MaxWindow]
    /\ slot \in [item : Item \cup {Nobody}, price : Number, hours : Number]
    /\ auctions \subseteq [item : Item, price : Number, hours : Number]
    /\ lastId \in Window /\ lastWindow \in 0..MaxWindow
    /\ botState \in {"Idle", "Selling"} /\ step \in Steps
    /\ aborted \in BOOLEAN /\ blocked \in BOOLEAN /\ atLimit \in BOOLEAN
    /\ stuck \in 0..MaxStuckRetries + 1
    /\ \A w \in Window : handler[w].pc \in {"none", "start", "item", "place", "price", "click", "done"}
    /\ retry \in BOOLEAN /\ dog \in BOOLEAN /\ field \in Number
    /\ exec \in {"none", "close", "poll"} /\ begun \in Number /\ lost \in 0..MaxLost

Init ==
    /\ shown = None /\ lastId = MaxWindow
    /\ \E i \in Item \cup {Nobody} : slot = [Empty EXCEPT !.item = i]
    /\ auctions = {} /\ sent = <<>> /\ events = <<>>
    /\ botState = "Idle" /\ lastWindow = 0 /\ step = "Initial"
    /\ aborted = FALSE /\ stuck = 0 /\ blocked = FALSE /\ atLimit = FALSE
    /\ handler = [w \in Window |-> Off] /\ dog = FALSE /\ retry = FALSE /\ field = 0
    /\ exec = "none" /\ begun = 0 /\ lost = 0
    /\ asked \in [Command -> Item]

Ah          == [op |-> "ah"]
Click(w, s) == [op |-> "click", win |-> w, slot |-> s]
Close(w)    == [op |-> "close", win |-> w]
Nothing     == sent = <<>> /\ events = <<>>
AllFree     == \A w \in Window : Free(w)

SendClose(w) == sent' = Append(sent, Close(w)) /\ lastWindow' = 0

-----------------------------------------------------------------------------
(* The processor and the command. *)

\* At the limit, or with the slot blocked, the processor drops the command.
Begin ==
    /\ exec = "none" /\ botState = "Idle"
    /\ begun < MaxCommands
    /\ begun' = begun + 1
    /\ IF atLimit \/ blocked
       THEN UNCHANGED <<exec, sent, lastWindow, dog>>
       ELSE /\ exec' = "close" /\ dog' = FALSE
            /\ IF lastWindow # 0 THEN SendClose(lastWindow) ELSE UNCHANGED <<sent, lastWindow>>
    /\ UNCHANGED <<game, events, botState, flow, flags, handler, retry, asked, lost>>

\* The count of stuck items is kept.
Execute ==
    /\ exec = "close"
    /\ exec' = "poll"
    /\ field' = begun /\ step' = "Initial" /\ aborted' = FALSE
    /\ sent' = Append(sent, Ah)
    /\ botState' = "Selling"
    /\ UNCHANGED <<game, events, lastWindow, stuck, blocked, atLimit, tasks, begun, asked, lost>>

Complete ==
    /\ exec = "poll" /\ botState = "Idle"
    /\ exec' = "none"
    /\ UNCHANGED <<game, wire, bot, flow, flags, tasks, begun, asked, lost>>

\* 15 s have passed.
Timeout ==
    /\ exec = "poll" /\ botState = "Selling" /\ Nothing /\ AllFree
    /\ exec' = "none"
    /\ botState' = "Idle"
    /\ UNCHANGED <<game, wire, lastWindow, flow, flags, tasks, begun, asked, lost>>

\* The start of a session and the idle inventory check clear block and count.
ClearBlocked ==
    /\ blocked /\ botState = "Idle" /\ exec = "none"
    /\ blocked' = FALSE /\ stuck' = 0
    /\ UNCHANGED <<game, wire, bot, flow, aborted, atLimit, tasks, proc, lost>>

-----------------------------------------------------------------------------
(* The handler of window w: 300 ms after it opened it reads the step. *)

Becomes(w, pc) == handler' = [handler EXCEPT ![w].pc = pc]
Ends(w)        == handler' = [handler EXCEPT ![w] = Off]

\* click_window_slot refuses a window that is not the current one.
ClickIfCurrent(w, s) ==
    sent' = IF lastWindow = w THEN Append(sent, Click(w, s)) ELSE sent

GoesIdle(w) == SendClose(w) /\ botState' = "Idle" /\ Ends(w)

At(w, pc) == handler[w].pc = pc
Reads(w, s, pages) == At(w, "start") /\ ~aborted /\ step = s /\ handler[w].page \in pages

\* Aborted: the window is closed, and the retry is left to go on.
Bails(w) ==
    /\ At(w, "start") /\ aborted
    /\ SendClose(w) /\ Ends(w)
    /\ UNCHANGED <<game, events, botState, flow, flags, dog, retry, proc, lost>>

\* One step on, and a click 200 ms later.
Goes(w, from, pages, to) ==
    /\ Reads(w, from, pages)
    /\ step' = to
    /\ Becomes(w, "click")

Steers(w) ==
    /\ \/ Goes(w, "Initial", {"ah"}, "OpenManage")
       \/ Goes(w, "OpenManage", {"manage"}, "ClickCreate")
       \/ Goes(w, "OpenManage", {"type"}, "SelectBIN")
       \/ Goes(w, "ClickCreate", {"type"}, "SelectBIN")
       \/ Goes(w, "SetDuration", {"bin"}, "DurationSign")
       \/ Goes(w, "DurationSign", {"duration"}, "DurationSign")
       \/ Goes(w, "ConfirmSell", {"bin"}, "FinalConfirm")
       \/ Goes(w, "FinalConfirm", {"sure"}, "FinalConfirm")
    /\ UNCHANGED <<game, wire, bot, field, flags, dog, retry, proc, lost>>

\* What a page's click is: to the list, the new auction, the kind BIN, the
\* duration, its sign, the confirmation.
Target == [ah |-> "manage", manage |-> "create", type |-> "bin", bin |-> "next",
           duration |-> "sign", sure |-> "confirm"]

Presses(w) ==
    /\ At(w, "click")
    /\ ClickIfCurrent(w, Target[handler[w].page])
    /\ IF handler[w].page = "sure" THEN Becomes(w, "done") ELSE Ends(w)
    /\ UNCHANGED <<game, events, bot, flow, flags, dog, retry, proc, lost>>

\* 500 ms after the last click.
Done(w) ==
    /\ At(w, "done")
    /\ GoesIdle(w)
    /\ UNCHANGED <<game, events, flow, flags, dog, retry, proc, lost>>

\* No room for another auction, or no button.
LimitReached(w) ==
    /\ Reads(w, "OpenManage", {"manage"})
    /\ atLimit' \in {atLimit, TRUE}
    /\ GoesIdle(w)
    /\ UNCHANGED <<game, events, flow, aborted, stuck, blocked, dog, retry, proc, lost>>

\* Any other window of the flow is left alone.
Waits(w) ==
    /\ At(w, "start") /\ ~aborted
    /\ <<step, handler[w].page>> \notin
           {<<"Initial", "ah">>, <<"OpenManage", "manage">>, <<"OpenManage", "type">>,
            <<"OpenManage", "bin">>, <<"ClickCreate", "type">>, <<"ClickCreate", "bin">>,
            <<"SelectBIN", "bin">>, <<"SetDuration", "bin">>, <<"DurationSign", "duration">>,
            <<"ConfirmSell", "bin">>, <<"FinalConfirm", "sure">>}
    /\ Ends(w)
    /\ UNCHANGED <<game, wire, bot, flow, flags, dog, retry, proc, lost>>

ToPlace(w) == handler' = [handler EXCEPT ![w].pc = "place", ![w].item = asked[field]]

\* Create BIN Auction: clear_auction_preview_slot, when the contents show an item
\* there; or the item is not found among the slots.
Selects(w) ==
    /\ \E s \in {"OpenManage", "ClickCreate", "SelectBIN"} : Reads(w, s, {"bin"})
    /\ \/ /\ IF slot.item # Nobody THEN ClickIfCurrent(w, "preview") ELSE UNCHANGED sent
          /\ ToPlace(w)
          /\ UNCHANGED bot
       \/ /\ ToPlace(w) /\ UNCHANGED <<bot, sent>>
       \/ GoesIdle(w)
    /\ UNCHANGED <<game, events, flow, flags, dog, retry, proc, lost>>

Places(w) ==
    /\ At(w, "place")
    /\ ClickIfCurrent(w, handler[w].item)
    /\ Becomes(w, "price")
    /\ UNCHANGED <<game, events, bot, flow, flags, dog, retry, proc, lost>>

\* 300 ms later the step moves on, whatever the answer was.
Prices(w) ==
    /\ At(w, "price")
    /\ step' = "PriceSign"
    /\ ClickIfCurrent(w, "price")
    /\ Ends(w)
    /\ UNCHANGED <<game, events, bot, field, flags, dog, retry, proc, lost>>

\* The window is 5 s old.
Watchdog ==
    /\ botState = "Selling" /\ lastWindow # 0 /\ dog
    /\ Nothing /\ AllFree
    /\ SendClose(lastWindow)
    /\ botState' = "Idle"
    /\ UNCHANGED <<game, events, flow, flags, tasks, proc, lost>>

\* 2 s after an item was stuck.
RetryTask ==
    /\ retry /\ Nothing /\ AllFree
    /\ retry' = FALSE
    /\ IF botState = "Selling"
       THEN aborted' = FALSE /\ sent' = Append(sent, Ah)
       ELSE UNCHANGED <<aborted, sent>>
    /\ UNCHANGED <<game, events, bot, flow, stuck, blocked, atLimit, handler, dog, proc, lost>>

-----------------------------------------------------------------------------
(* Events. *)

Event(kind) == events # <<>> /\ Head(events)[1] = kind /\ events' = Tail(events)

\* The state is read when the window opens, the rest 300 ms later.
OpenScreen ==
    /\ Event("open")
    /\ LET w == Head(events)[2]
       IN /\ lastWindow' = w /\ dog' = TRUE
          /\ handler' = [handler EXCEPT ![w] = IF botState = "Selling"
                                               THEN [Off EXCEPT !.pc = "start", !.page = Head(events)[3]]
                                               ELSE Off]
    /\ UNCHANGED <<game, sent, botState, flow, flags, retry, proc, lost>>

\* The bid at PriceSign, the hours at DurationSign, and nothing once aborted.
SignEditor ==
    /\ Event("sign")
    /\ IF botState = "Selling" /\ ~aborted /\ step \in {"PriceSign", "DurationSign"}
       THEN /\ step' = IF step = "PriceSign" THEN "SetDuration" ELSE "ConfirmSell"
            /\ sent' = Append(sent, [op |-> "sign", text |-> field])
       ELSE UNCHANGED <<step, sent>>
    /\ UNCHANGED <<game, bot, field, flags, tasks, proc, lost>>

\* Mutant: the message is not recognised.
IsStuckMessage_Never(e) == FALSE
IsStuckMessage(e) == e = "stuck"

\* "You already have an item in the auction slot": up to MaxStuckRetries times
\* the window is closed and the flow begun again.
StuckItem ==
    /\ Event("stuck")
    /\ IF IsStuckMessage("stuck") /\ botState = "Selling"
       THEN /\ stuck' = stuck + 1
            /\ aborted' = TRUE
            /\ IF lastWindow # 0
               THEN /\ sent' = sent \o <<Click(lastWindow, "preview"), Close(lastWindow)>>
                    /\ lastWindow' = 0
               ELSE UNCHANGED <<sent, lastWindow>>
            /\ IF stuck >= MaxStuckRetries
               THEN blocked' = TRUE /\ botState' = "Idle" /\ UNCHANGED <<step, retry>>
               ELSE step' = "Initial" /\ retry' = TRUE /\ UNCHANGED <<blocked, botState>>
       ELSE UNCHANGED <<sent, bot, step, aborted, stuck, blocked, retry>>
    /\ UNCHANGED <<game, field, atLimit, handler, dog, proc, lost>>

\* "BIN Auction started for".
Started ==
    /\ Event("started")
    /\ atLimit' = FALSE /\ stuck' = 0
    /\ UNCHANGED <<game, sent, bot, flow, aborted, blocked, tasks, proc, lost>>

-----------------------------------------------------------------------------
(* The game. *)

Opens(page) ==
    /\ Free(NextId(lastId))
    /\ shown' = [page |-> page, id |-> NextId(lastId)]
    /\ lastId' = NextId(lastId)
    /\ events' = Append(events, <<"open", NextId(lastId), page>>)

SignFor(page) ==
    /\ shown' = [page |-> page, id |-> 0]
    /\ events' = Append(events, <<"sign">>)
    /\ UNCHANGED lastId

Says(e) == events' = Append(events, <<e>>) /\ UNCHANGED <<shown, lastId>>
On(p, what, page) == p.slot = what /\ shown.page = page

Answer(p) ==
    \/ p.op = "ah" /\ Opens("ah") /\ UNCHANGED <<slot, auctions>>
    \/ /\ p.op = "click" /\ p.win = shown.id
       /\ \/ /\ \/ On(p, "manage", "ah") /\ \E page \in {"manage", "type", "bin"} : Opens(page)
                \/ On(p, "create", "manage") /\ \E page \in {"type", "bin"} : Opens(page)
                \/ On(p, "bin", "type") /\ Opens("bin")
                \/ On(p, "price", "bin") /\ slot.item # Nobody /\ SignFor("priceSign")
                \/ On(p, "next", "bin") /\ slot.item # Nobody /\ slot.hours = 0 /\ Opens("duration")
                \/ On(p, "next", "bin") /\ slot.item # Nobody /\ slot.hours # 0 /\ Opens("sure")
                \/ On(p, "sign", "duration") /\ SignFor("hoursSign")
             /\ UNCHANGED <<slot, auctions>>
          \/ /\ On(p, "preview", "bin")
             /\ slot' = Empty
             /\ UNCHANGED <<shown, lastId, events, auctions>>
          \/ /\ p.slot \in Item /\ shown.page = "bin"
             /\ IF slot.item = Nobody
                THEN slot' = [Empty EXCEPT !.item = p.slot] /\ UNCHANGED <<shown, lastId, events>>
                ELSE Says("stuck") /\ UNCHANGED slot
             /\ UNCHANGED auctions
          \/ /\ On(p, "confirm", "sure")
             /\ auctions' = auctions \cup {slot}
             /\ slot' = Empty
             /\ shown' = None
             /\ events' = Append(events, <<"started">>)
             /\ UNCHANGED lastId
    \/ /\ p.op = "sign"
       /\ slot' = IF shown.page = "priceSign" THEN [slot EXCEPT !.price = p.text]
                  ELSE [slot EXCEPT !.hours = p.text]
       /\ shown.page \in {"priceSign", "hoursSign"}
       /\ Opens("bin")
       /\ UNCHANGED auctions
    \/ /\ p.op = "close" /\ p.win = shown.id
       /\ shown' = None
       /\ slot' \in {slot, Empty}
       /\ UNCHANGED <<lastId, events, auctions>>

\* A click on the item or on the preview is never lost: the bot does not look
\* whether the slot holds what it wanted there.
NoAnswer(p) ==
    /\ \/ p.op \in {"click", "close"} /\ p.win # shown.id /\ UNCHANGED lost
       \/ p.op = "sign" /\ shown.page \notin {"priceSign", "hoursSign"} /\ UNCHANGED lost
       \/ /\ p.op = "click" => p.slot \notin Item \cup {"preview"}
          /\ lost < MaxLost /\ lost' = lost + 1
    /\ UNCHANGED <<game, events>>

Game ==
    /\ sent # <<>>
    /\ \/ Answer(Head(sent)) /\ UNCHANGED lost
       \/ NoAnswer(Head(sent))
    /\ sent' = Tail(sent)
    /\ UNCHANGED <<bot, flow, flags, tasks, proc>>

Handle(w) ==
    \/ Bails(w) \/ Steers(w) \/ Presses(w) \/ Done(w) \/ LimitReached(w) \/ Waits(w)
    \/ Selects(w) \/ Places(w) \/ Prices(w)

Next ==
    \/ Begin \/ Execute \/ Complete \/ Timeout \/ ClearBlocked
    \/ \E w \in Window : Handle(w)
    \/ Watchdog \/ RetryTask
    \/ OpenScreen \/ SignEditor \/ StuckItem \/ Started
    \/ Game

Spec == Init /\ [][Next]_vars

-----------------------------------------------------------------------------
(* Properties. *)

\* Whatever is left in the auction slot by a listing that was given up, an
\* auction has the item, the bid and the duration of one command.
ListedAsAsked ==
    \A a \in auctions : \E c \in 1..begun : a = [item |-> asked[c], price |-> c, hours |-> c]

\* client.rs:2802: "Restart the auction flow: reset step and re-open /ah".
RetryStartsOver ==
    [][retry /\ ~retry' /\ sent' # sent => step = "Initial"]_vars
=============================================================================
