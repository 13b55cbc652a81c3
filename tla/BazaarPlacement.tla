--------------------------- MODULE BazaarPlacement ---------------------------
(***************************************************************************)
(* Placing a bazaar order: the commands (src/src/bot/client.rs:3831-3884), *)
(* the handler of every window (4504-4745), the sign editor (3350-3405),   *)
(* the chat lines that reject an order (2931-2958) and the processor, which*)
(* interrupts a BUY for a SELL (src/src/main.rs:4594-4651).                *)
(*                                                                         *)
(* Amount and price of a command are its number.  A handler polls the      *)
(* slots of the window shown, which may be another than its own for the    *)
(* moment in which the event of the new one is not yet handled.  A poll    *)
(* gives up, and the processor too, only when nothing is on its way.       *)
(***************************************************************************)
EXTENDS Naturals, Sequences, Functions

CONSTANTS
    Item,
    MaxWindow,          \* bound of the model: window ids before they start again
    MaxCommands,        \* bound of the model: orders asked for
    MaxLost             \* bound of the model: packets the game ignores

Window  == 1..MaxWindow
Command == 1..MaxCommands
Number  == 0..MaxCommands
NextId(w) == (w % MaxWindow) + 1

Pages == {"search", "item", "amount", "price", "confirm"}
Order == [item : Item, buy : BOOLEAN, amount : Number, price : Number]
Steps == {"Initial", "SearchResults", "SelectOrderType", "SetAmount", "SetPrice", "Confirm"}

VARIABLES
    shown, draft, lastId,   \* the open window, the order it is about, the id of the last one
    placed,                 \* the orders the game has recorded
    sent, events,           \* packets to the game; events not yet handled
    botState, lastWindow,
    field, step,            \* bazaar_item_name .. bazaar_is_buy_order; bazaar_step
    limit, rejected,        \* bazaar_at_limit, bazaar_order_rejected
    handler,
    dog,                    \* no command has begun since the current window opened
    report,                 \* the last BazaarOrderPlaced
    exec, begun, asked,     \* the processor; the commands begun and what each asks
    urgent, lost

game  == <<shown, draft, lastId, placed>>
wire  == <<sent, events>>
bot   == <<botState, lastWindow>>
flow  == <<field, step>>
flags == <<limit, rejected>>
proc  == <<exec, begun, asked, urgent>>
vars  == <<game, wire, bot, flow, flags, handler, dog, report, proc, lost>>

None == [page |-> "none", id |-> 0]
Off  == [pc |-> "none", page |-> "none", item |-> "none", buy |-> FALSE, step |-> "Initial"]
Free(w) == handler[w].pc = "none"

\* What a command asks of the game.  A sell offer is for all there is.
Asks(c) == [item |-> asked[c].item, buy |-> asked[c].buy,
            amount |-> IF asked[c].buy THEN c ELSE 0, price |-> c]

TypeOK ==
    /\ shown \in [page : Pages \cup {"none", "signAmount", "signPrice"}, id : 0..MaxWindow]
    /\ draft \in Order /\ placed \subseteq Order
    /\ lastId \in Window /\ lastWindow \in 0..MaxWindow
    /\ botState \in {"Idle", "Bazaar"}
    /\ field \in [item : Item, buy : BOOLEAN, ask : Number] /\ step \in Steps
    /\ limit \in BOOLEAN /\ rejected \in BOOLEAN /\ urgent \in BOOLEAN
    /\ \A w \in Window : handler[w].pc \in {"none", "start", "button", "find", "ready", "report", "custom"}
                         /\ handler[w].step \in Steps
    /\ dog \in BOOLEAN
    /\ report \in {<<>>} \cup [item : Item, buy : BOOLEAN, ask : Number]
    /\ exec \in {"none", "close", "poll"} /\ begun \in Number /\ lost \in 0..MaxLost

Init ==
    /\ shown = None /\ lastId = MaxWindow /\ placed = {}
    /\ \E i \in Item : draft = [item |-> i, buy |-> FALSE, amount |-> 0, price |-> 0]
                       /\ field = [item |-> i, buy |-> FALSE, ask |-> 0]
    /\ sent = <<>> /\ events = <<>>
    /\ botState = "Idle" /\ lastWindow = 0
    /\ step = "Initial" /\ limit \in BOOLEAN /\ rejected = FALSE
    /\ handler = [w \in Window |-> Off] /\ dog = FALSE /\ report = <<>>
    /\ exec = "none" /\ begun = 0 /\ urgent = FALSE /\ lost = 0
    /\ asked \in [Command -> [item : Item, buy : BOOLEAN]]

Bz(i)       == [op |-> "bz", item |-> i]
Click(w, s) == [op |-> "click", win |-> w, slot |-> s]
Sign(n)     == [op |-> "sign", text |-> n]

SendClose(w) ==
    /\ sent' = Append(sent, [op |-> "close", win |-> w])
    /\ lastWindow' = 0

Nothing == sent = <<>> /\ events = <<>>

-----------------------------------------------------------------------------
(* The processor and the command. *)

\* After an interruption the next command is the urgent one.  A BUY met at the
\* limit is dropped.
Begin ==
    /\ exec = "none" /\ botState = "Idle"
    /\ begun < MaxCommands
    /\ begun' = begun + 1
    /\ urgent => ~asked[begun'].buy
    /\ urgent' = FALSE
    /\ IF asked[begun'].buy /\ limit
       THEN UNCHANGED <<exec, sent, lastWindow, dog>>
       ELSE /\ exec' = "close" /\ dog' = FALSE
            /\ IF lastWindow # 0 THEN SendClose(lastWindow) ELSE UNCHANGED <<sent, lastWindow>>
    /\ UNCHANGED <<game, events, botState, flow, flags, handler, report, asked, lost>>

\* Mutant: the side of the order before is kept.
Context_KeepsSide(c) == [item |-> asked[c].item, buy |-> field.buy \/ asked[c].buy, ask |-> c]
Context(c) == [item |-> asked[c].item, buy |-> asked[c].buy, ask |-> c]

Execute ==
    /\ exec = "close"
    /\ exec' = "poll"
    /\ IF asked[begun].buy /\ limit
       THEN UNCHANGED <<flow, sent, botState>>
       ELSE /\ field' = Context(begun)
            /\ step' = "Initial"
            /\ sent' = Append(sent, Bz(asked[begun].item))
            /\ botState' = "Bazaar"
    /\ UNCHANGED <<game, events, lastWindow, flags, handler, dog, report, begun, asked, urgent, lost>>

Complete ==
    /\ exec = "poll" /\ botState = "Idle"
    /\ exec' = "none"
    /\ UNCHANGED <<game, wire, bot, flow, flags, handler, dog, report, begun, asked, urgent, lost>>

\* A SELL is Critical, a BUY Normal and interruptible.
Interrupt ==
    /\ exec = "poll" /\ botState = "Bazaar"
    /\ asked[begun].buy /\ begun < MaxCommands /\ ~asked[begun + 1].buy
    /\ exec' = "none" /\ urgent' = TRUE
    /\ botState' = "Idle"
    /\ UNCHANGED <<game, wire, lastWindow, flow, flags, handler, dog, report, begun, asked, lost>>

\* 20 s have passed.
Timeout ==
    /\ exec = "poll" /\ botState = "Bazaar"
    /\ Nothing /\ \A w \in Window : Free(w)
    /\ exec' = "none"
    /\ botState' = "Idle"
    /\ UNCHANGED <<game, wire, lastWindow, flow, flags, handler, dog, report, begun, asked, urgent, lost>>

-----------------------------------------------------------------------------
(* The handler of window w. *)

Becomes(w, pc) == handler' = [handler EXCEPT ![w].pc = pc]
Ends(w)        == handler' = [handler EXCEPT ![w] = Off]

\* It reads item, side and step once; at the confirmation it moves the step on.
\* That an order gets so far takes longer than the 250 ms of one before.
Starts(w) ==
    /\ handler[w].pc = "start"
    /\ \A v \in Window : handler[v].pc # "report"
    /\ IF botState # "Bazaar"
       THEN Ends(w) /\ UNCHANGED <<step, rejected>>
       ELSE /\ handler' = [handler EXCEPT ![w] =
                   [pc   |-> CASE step \in {"Initial", "SearchResults"} -> "button"
                               [] step = "SetPrice" -> "ready"
                               [] OTHER -> "custom",
                    page |-> @.page, item |-> field.item, buy |-> field.buy, step |-> step]]
            /\ IF step = "SetPrice"
               THEN step' = "Confirm" /\ rejected' = FALSE
               ELSE UNCHANGED <<step, rejected>>
    /\ UNCHANGED <<game, wire, bot, field, limit, dog, report, proc, lost>>

Current(w) == lastWindow = w

Superseded(w) ==
    /\ handler[w].pc \in {"button", "find", "ready", "custom"}
    /\ ~Current(w)
    /\ Ends(w)
    /\ UNCHANGED <<game, wire, bot, flow, flags, dog, report, proc, lost>>

Polls(w, pc) == handler[w].pc = pc /\ Current(w)

Clicks(w, slot, to) ==
    /\ step' = to
    /\ sent' = Append(sent, Click(w, slot))
    /\ Ends(w)

GoesIdle(w) ==
    /\ SendClose(w)
    /\ botState' = "Idle"
    /\ Ends(w)

OrderButton(w) ==
    /\ Polls(w, "button") /\ shown.page = "item"
    /\ Clicks(w, IF handler[w].buy THEN "buy" ELSE "sell", "SelectOrderType")
    /\ UNCHANGED <<game, events, bot, field, flags, dog, report, proc, lost>>

\* No such button: the title, a Custom slot, or 1.5 s say so.
NoButton(w) ==
    /\ Polls(w, "button")
    /\ handler[w].page = "search" \/ shown.page \in {"amount", "price"} \/ Nothing
    /\ shown.page # "item"
    /\ IF handler[w].page = "search" /\ handler[w].step = "Initial"
       THEN step' = "SearchResults" /\ Becomes(w, "find")
       ELSE Becomes(w, "custom") /\ UNCHANGED step
    /\ UNCHANGED <<game, wire, bot, field, flags, dog, report, proc, lost>>

\* The item among the results, or not.
Find(w) ==
    /\ Polls(w, "find")
    /\ \/ /\ shown.page = "search" /\ draft.item = handler[w].item
          /\ Clicks(w, "item", step)
          /\ UNCHANGED bot
       \/ Nothing /\ GoesIdle(w) /\ UNCHANGED step
    /\ UNCHANGED <<game, events, field, flags, dog, report, proc, lost>>

Custom(w) ==
    /\ Polls(w, "custom")
    /\ LET h == handler[w]
       IN \/ /\ shown.page = "amount" /\ h.buy
             /\ IF h.step = "SelectOrderType" THEN Clicks(w, "custom", "SetAmount")
                ELSE Ends(w) /\ UNCHANGED <<step, sent>>
          \/ /\ shown.page = "price"
             /\ IF h.step \in {"SelectOrderType", "SetAmount"} THEN Clicks(w, "custom", "SetPrice")
                ELSE Ends(w) /\ UNCHANGED <<step, sent>>
          \/ Nothing /\ Ends(w) /\ UNCHANGED <<step, sent>>
    /\ UNCHANGED <<game, events, bot, field, flags, dog, report, proc, lost>>

\* Slot 13: some item is there, or none for 0.8 s.
Ready(w) ==
    /\ Polls(w, "ready")
    /\ \/ /\ shown.page # "none"
          /\ sent' = Append(sent, Click(w, "confirm"))
          /\ Becomes(w, "report")
          /\ UNCHANGED bot
       \/ Nothing /\ GoesIdle(w)
    /\ UNCHANGED <<game, events, flow, flags, dog, report, proc, lost>>

\* Mutant: the report does not wait for the answer.
Answered_Always(w) == TRUE

\* 250 ms later, in which the game has answered.
Answered(w) ==
    /\ Click(w, "confirm") \notin Range(sent)
    /\ \A e \in Range(events) : e[1] \notin {"limit", "reject"}

Reports(w) ==
    /\ handler[w].pc = "report"
    /\ Answered(w)
    /\ report' = IF limit \/ rejected THEN report
                 ELSE [item |-> handler[w].item, buy |-> handler[w].buy, ask |-> field.ask]
    /\ GoesIdle(w)
    /\ UNCHANGED <<game, events, flow, flags, dog, proc, lost>>

-----------------------------------------------------------------------------
(* Events. *)

Event(kind) == events # <<>> /\ Head(events)[1] = kind /\ events' = Tail(events)

OpenScreen ==
    /\ Event("open")
    /\ LET w == Head(events)[2]
       IN /\ lastWindow' = w /\ dog' = TRUE
          /\ handler' = [handler EXCEPT ![w] = [Off EXCEPT !.pc = "start", !.page = Head(events)[3]]]
    /\ UNCHANGED <<game, sent, botState, flow, flags, report, proc, lost>>

\* The window is 5 s old.
Watchdog ==
    /\ botState = "Bazaar" /\ lastWindow # 0 /\ dog
    /\ Nothing /\ \A w \in Window : Free(w)
    /\ SendClose(lastWindow)
    /\ botState' = "Idle"
    /\ UNCHANGED <<game, events, flow, flags, handler, dog, report, proc, lost>>

ContainerClose ==
    /\ Event("close")
    /\ lastWindow' = 0
    /\ UNCHANGED <<game, sent, botState, flow, flags, handler, dog, report, proc, lost>>

\* The sign is written at once, by the step the bot is in.
SignEditor ==
    /\ Event("sign")
    /\ IF botState = "Bazaar" /\ step \in {"SetAmount", "SetPrice", "SelectOrderType"}
       THEN /\ sent' = Append(sent, Sign(field.ask))
            /\ step' = IF step = "SelectOrderType" THEN "SetPrice" ELSE step
       ELSE UNCHANGED <<sent, step>>
    /\ UNCHANGED <<game, bot, field, flags, handler, dog, report, proc, lost>>

Chat ==
    /\ \/ Event("limit") /\ limit' = TRUE /\ UNCHANGED rejected
       \/ Event("reject") /\ rejected' = TRUE /\ UNCHANGED limit
    /\ UNCHANGED <<game, sent, bot, flow, handler, dog, report, proc, lost>>

\* An order is collected in between.
Claimed ==
    /\ limit /\ exec = "none" /\ Nothing /\ \A w \in Window : Free(w)
    /\ limit' = FALSE
    /\ UNCHANGED <<game, wire, bot, flow, rejected, handler, dog, report, proc, lost>>

-----------------------------------------------------------------------------
(* The game. *)

Opens(page) ==
    /\ Free(NextId(lastId))
    /\ shown' = [page |-> page, id |-> NextId(lastId)]
    /\ lastId' = NextId(lastId)
    /\ events' = Append(events, <<"open", NextId(lastId), page>>)

\* A sign takes the place of the window, which the game may say.
SignFor(page) ==
    /\ shown' = [page |-> page, id |-> 0]
    /\ \E told \in {<<>>, << <<"close">> >>} : events' = events \o told \o << <<"sign">> >>
    /\ UNCHANGED lastId

Answer(p) ==
    \/ /\ p.op = "bz"
       /\ \E page \in {"search", "item"} : Opens(page)
       /\ draft' = [item |-> p.item, buy |-> FALSE, amount |-> 0, price |-> 0]
       /\ UNCHANGED placed
    \/ /\ p.op = "click" /\ p.win = shown.id
       /\ \/ p.slot = "item" /\ shown.page = "search" /\ Opens("item") /\ UNCHANGED <<draft, placed>>
          \/ /\ p.slot \in {"buy", "sell"} /\ shown.page = "item"
             /\ draft' = [draft EXCEPT !.buy = (p.slot = "buy")]
             /\ IF p.slot = "buy" THEN Opens("amount") ELSE Opens("price") \/ SignFor("signPrice")
             /\ UNCHANGED placed
          \/ /\ p.slot = "custom" /\ shown.page \in {"amount", "price"}
             /\ SignFor(IF shown.page = "amount" THEN "signAmount" ELSE "signPrice")
             /\ UNCHANGED <<draft, placed>>
          \/ /\ p.slot = "confirm" /\ shown.page = "confirm"
             /\ shown' = None
             /\ \/ placed' = placed \cup {draft} /\ UNCHANGED events
                \/ /\ \E no \in {"limit", "reject"} : events' = Append(events, <<no>>)
                   /\ UNCHANGED placed
             /\ UNCHANGED <<draft, lastId>>
    \/ /\ p.op = "sign"
       /\ \/ /\ shown.page = "signAmount"
             /\ draft' = [draft EXCEPT !.amount = p.text] /\ Opens("price")
          \/ /\ shown.page = "signPrice"
             /\ draft' = [draft EXCEPT !.price = p.text] /\ Opens("confirm")
       /\ UNCHANGED placed
    \/ /\ p.op = "close" /\ p.win = shown.id
       /\ shown' = None
       /\ UNCHANGED <<draft, lastId, placed, events>>

\* A packet about a window that is gone has no effect; a few others are lost,
\* but no command and no confirmation.
NoAnswer(p) ==
    /\ \/ p.op \in {"click", "close"} /\ p.win # shown.id /\ UNCHANGED lost
       \/ p.op = "sign" /\ shown.page \notin {"signAmount", "signPrice"} /\ UNCHANGED lost
       \/ p.op = "click" /\ p.win = shown.id /\ p.slot = "confirm" /\ shown.page # "confirm"
          /\ UNCHANGED lost
       \/ p.op # "bz" /\ Click(shown.id, "confirm") # p /\ lost < MaxLost /\ lost' = lost + 1
    /\ UNCHANGED <<game, events>>

Game ==
    /\ sent # <<>>
    /\ \/ Answer(Head(sent)) /\ UNCHANGED lost
       \/ NoAnswer(Head(sent))
    /\ sent' = Tail(sent)
    /\ UNCHANGED <<bot, flow, flags, handler, dog, report, proc>>

Handle(w) ==
    \/ Starts(w) \/ Superseded(w) \/ OrderButton(w) \/ NoButton(w) \/ Find(w)
    \/ Custom(w) \/ Ready(w) \/ Reports(w)

Next ==
    \/ Begin \/ Execute \/ Complete \/ Interrupt \/ Timeout
    \/ \E w \in Window : Handle(w)
    \/ OpenScreen \/ Watchdog \/ ContainerClose \/ SignEditor \/ Chat \/ Claimed
    \/ Game

Spec == Init /\ [][Next]_vars

-----------------------------------------------------------------------------
(* Properties. *)

\* Whatever a command finds half done when it takes over (a window on its way, a
\* sign waiting for its text, the handlers of the order before), every order the
\* game records is what one command asked for: item, side, amount and price.
PlacedAsAsked == \A o \in placed : \E c \in 1..begun : o = Asks(c)

\* client.rs:4678: what is reported, at least in item and side, the game has
\* recorded: a rejection comes in time to be seen.
ReportRecorded ==
    report' # report => \E o \in placed : o.item = report'.item /\ o.buy = report'.buy
ReportedIsRecorded == [][ReportRecorded]_vars

\* client.rs:4678: the reply is awaited "otherwise we'd log/emit a placed order
\* that the server actually rejected".  What BazaarOrderPlaced says is what one
\* command asked for.
ReportedAsAsked ==
    report # <<>> => \E c \in 1..begun : report = [item |-> asked[c].item, buy |-> asked[c].buy, ask |-> c]
=============================================================================
