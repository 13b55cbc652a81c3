----------------------------- MODULE CookieCheck -----------------------------
(***************************************************************************)
(* The check of the booster cookie, which buys and consumes one when it    *)
(* runs out, and the sale of the whole inventory in the bazaar: commands   *)
(* (src/src/bot/client.rs:3954-3965, 4046-4051), the handlers of their     *)
(* windows (6068-6329) and the chat line that nothing can be sold          *)
(* (3013-3024).                                                            *)
(*                                                                         *)
(* A slot number means on every page what it is there.  The 2 s after the  *)
(* confirmation are enough for its answer.  The game numbers its windows   *)
(* from 1 to 100 and then anew: here no number comes twice, as a check     *)
(* opens a few.                                                            *)
(***************************************************************************)
EXTENDS Naturals, Sequences, FiniteSets

CONSTANTS
    MaxWindow,          \* bound of the model: windows that open, 100 at most of the code
    MaxCommands,        \* bound of the model: commands
    MaxStray            \* bound of the model: windows that open by themselves

Window == 1..MaxWindow

Bazaar == {"bazaar", "search", "detail"}
Pages  == Bazaar \cup {"menu", "buy", "gui", "sell", "other"}
Steps  == {"Initial", "ItemDetail", "BuyConfirm", "WaitingForCookie", "ConsumingCookie"}
States == {"CheckingCookie", "BuyingCookie", "SellingInventoryBz"}

VARIABLES
    shown, lastId,          \* the open window, the id of the last one
    bought, cookies, sold,  \* cookies bought, cookies in the inventory, sales of it
    sent, events,           \* packets to the game; events not yet handled
    botState, lastWindow,
    step, selling,          \* cookie_step; bazaar_step is SearchResults
    handler,
    dog,                    \* no command has begun since the current window opened
    exec, begun, asked,     \* the processor; the commands begun and what each is
    stray

game  == <<shown, lastId, bought, cookies, sold>>
wire  == <<sent, events>>
bot   == <<botState, lastWindow>>
flow  == <<step, selling>>
tasks == <<handler, dog>>
proc  == <<exec, begun, asked>>
vars  == <<game, wire, bot, flow, tasks, proc, stray>>

None == [page |-> "none", id |-> 0]
Off  == [pc |-> "none", page |-> "none", step |-> "Initial", after |-> {}]
Free(w) == handler[w].pc = "none"

TypeOK ==
    /\ shown \in [page : Pages \cup {"none"}, id : 0..MaxWindow]
    /\ bought \in Nat /\ cookies \in 0..bought /\ sold \in Nat
    /\ lastId \in 0..MaxWindow /\ lastWindow \in 0..MaxWindow
    /\ botState \in States \cup {"Idle"} /\ step \in Steps /\ selling \in BOOLEAN
    /\ \A w \in Window :
          /\ handler[w].pc \in {"none", "scan", "enough", "short", "buy", "wait", "find", "eat", "ate",
                                "offer", "accept", "accepted"}
          /\ handler[w].step \in Steps /\ handler[w].after \subseteq Window
    /\ dog \in BOOLEAN /\ exec \in {"none", "close", "poll"}
    /\ begun \in 0..MaxCommands /\ stray \in 0..MaxStray

Init ==
    /\ shown = None /\ lastId = 0
    /\ bought = 0 /\ cookies = 0 /\ sold = 0
    /\ sent = <<>> /\ events = <<>>
    /\ botState = "Idle" /\ lastWindow = 0
    /\ step = "Initial" /\ selling \in BOOLEAN
    /\ handler = [w \in Window |-> Off] /\ dog = FALSE
    /\ exec = "none" /\ begun = 0 /\ stray = 0
    /\ asked \in [1..MaxCommands -> {"cookie", "sell"}]

Open(page)  == [op |-> "open", page |-> page]
Click(w, s) == [op |-> "click", win |-> w, slot |-> s]
Close(w)    == [op |-> "close", win |-> w]
UseItem     == [op |-> "use"]
Nothing     == sent = <<>> /\ events = <<>>
AllFree     == \A w \in Window : Free(w)

SendClose(w) == sent' = Append(sent, Close(w)) /\ lastWindow' = 0

-----------------------------------------------------------------------------
(* The processor and the commands. *)

Begin ==
    /\ exec = "none" /\ botState = "Idle"
    /\ begun < MaxCommands
    /\ begun' = begun + 1 /\ exec' = "close" /\ dog' = FALSE
    /\ IF lastWindow # 0 THEN SendClose(lastWindow) ELSE UNCHANGED <<sent, lastWindow>>
    /\ UNCHANGED <<game, events, botState, flow, handler, asked, stray>>

CheckCookie ==
    /\ asked[begun] = "cookie"
    /\ step' = "Initial" /\ UNCHANGED selling
    /\ sent' = Append(sent, Open("menu"))
    /\ botState' = "CheckingCookie"

SellInventoryBz ==
    /\ asked[begun] = "sell"
    /\ selling' = FALSE /\ UNCHANGED step
    /\ sent' = Append(sent, Open("bazaar"))
    /\ botState' = "SellingInventoryBz"

Execute ==
    /\ exec = "close"
    /\ exec' = "poll"
    /\ CheckCookie \/ SellInventoryBz
    /\ UNCHANGED <<game, events, lastWindow, tasks, begun, asked, stray>>

Complete ==
    /\ exec = "poll" /\ botState = "Idle"
    /\ exec' = "none"
    /\ UNCHANGED <<game, wire, bot, flow, tasks, begun, asked, stray>>

\* 60 s, or 10 s, have passed.
Timeout ==
    /\ exec = "poll" /\ botState # "Idle" /\ Nothing /\ AllFree
    /\ exec' = "none"
    /\ botState' = "Idle"
    /\ UNCHANGED <<game, wire, lastWindow, flow, tasks, begun, asked, stray>>

-----------------------------------------------------------------------------
(* The handler of window w.  At its opening it has read state and step. *)

\* All wait the same 500 ms first, so that the oldest goes first, and after the
\* 300 ms that others were in when the window opened.
Fresh(w)      == handler[w].pc \in {"scan", "buy"}
Deciding      == {w \in Window : handler[w].pc \in {"enough", "short"}}
Due(w)        == /\ \A v \in Window : Fresh(v) => w <= v
                 /\ handler[w].after \cap Deciding = {}
At(w, pc)     == handler[w].pc = pc /\ (Fresh(w) => Due(w))
Goes(w, pc)   == handler' = [handler EXCEPT ![w].pc = pc]
Ends(w)       == handler' = [handler EXCEPT ![w] = Off]
\* click_window_slot refuses a window that is not the current one.
ClickIfCurrent(w, s) == sent' = IF lastWindow = w THEN Append(sent, Click(w, s)) ELSE sent

\* 500 ms: some slot of the menu shown tells the time left, or none does.
Scan(w) ==
    /\ At(w, "scan")
    /\ \E time \in {"enough", "short"} : Goes(w, time)
    /\ SendClose(w)
    /\ UNCHANGED <<botState, flow>>

\* 300 ms later, whatever the bot is doing by then.
Decide(w) ==
    /\ \/ At(w, "enough") /\ botState' = "Idle" /\ UNCHANGED <<step, sent>>
       \/ /\ At(w, "short")
          /\ step' = "Initial"
          /\ sent' = Append(sent, Open("search"))
          /\ botState' = "BuyingCookie"
    /\ Ends(w)
    /\ UNCHANGED <<lastWindow, selling>>

\* 500 ms after the window opened, by the step of its opening.
ToDetail(w) ==
    /\ At(w, "buy") /\ handler[w].step = "Initial"
    /\ IF handler[w].page \in Bazaar
       THEN ClickIfCurrent(w, 11) /\ step' = "ItemDetail"
       ELSE UNCHANGED <<sent, step>>
    /\ Ends(w)
    /\ UNCHANGED <<bot, selling>>

ToConfirm(w) ==
    /\ At(w, "buy") /\ handler[w].step = "ItemDetail"
    /\ ClickIfCurrent(w, 10)
    /\ step' = "BuyConfirm"
    /\ Ends(w)
    /\ UNCHANGED <<bot, selling>>

\* The step is looked at again, and moved on before the click.
Claims(s) == step = s
\* Mutant: it is moved on when the purchase is through.
Claimed_Late == "BuyConfirm"
Claimed == "WaitingForCookie"

Confirm(w) ==
    /\ At(w, "buy") /\ handler[w].step = "BuyConfirm"
    /\ IF Claims("BuyConfirm")
       THEN /\ step' = Claimed
            /\ ClickIfCurrent(w, 10) /\ UNCHANGED lastWindow
            /\ Goes(w, "wait")
       ELSE SendClose(w) /\ Ends(w) /\ UNCHANGED step
    /\ UNCHANGED <<botState, selling>>

Refuse(w) ==
    /\ At(w, "buy") /\ handler[w].step = "WaitingForCookie"
    /\ SendClose(w) /\ Ends(w)
    /\ UNCHANGED <<botState, flow>>

Consume(w) ==
    /\ At(w, "buy") /\ handler[w].step = "ConsumingCookie"
    /\ IF Claims("ConsumingCookie")
       THEN step' = "Initial" /\ Goes(w, "eat") /\ UNCHANGED <<sent, lastWindow>>
       ELSE SendClose(w) /\ Ends(w) /\ UNCHANGED step
    /\ UNCHANGED <<botState, selling>>

\* 2 s after the confirmation.
Waited(w) ==
    /\ At(w, "wait") /\ Nothing
    /\ SendClose(w) /\ Goes(w, "find")
    /\ UNCHANGED <<botState, flow>>

\* 1 s later: the cookie is taken in the hand and used, or is not there.
FindCookie(w) ==
    /\ At(w, "find")
    /\ IF cookies > 0
       THEN sent' = Append(sent, UseItem) /\ step' = "ConsumingCookie" /\ UNCHANGED botState
       ELSE botState' = "Idle" /\ UNCHANGED <<sent, step>>
    /\ Ends(w)
    /\ UNCHANGED <<lastWindow, selling>>

Eat(w) ==
    /\ At(w, "eat")
    /\ ClickIfCurrent(w, 11)
    /\ Goes(w, "ate")
    /\ UNCHANGED <<bot, flow>>

Ate(w) ==
    /\ At(w, "ate")
    /\ SendClose(w) /\ botState' = "Idle" /\ Ends(w)
    /\ UNCHANGED flow

\* 300 ms after a bazaar page opened.
Offer(w) ==
    /\ At(w, "offer")
    /\ IF lastWindow = w
       THEN selling' = TRUE /\ sent' = Append(sent, Click(w, 47))
       ELSE UNCHANGED <<selling, sent>>
    /\ Ends(w)
    /\ UNCHANGED <<bot, step>>

\* 300 ms after the next window opened, and 500 ms later.
Accept(w) ==
    /\ At(w, "accept")
    /\ IF lastWindow = w
       THEN sent' = Append(sent, Click(w, 11)) /\ Goes(w, "accepted")
       ELSE Ends(w) /\ UNCHANGED sent
    /\ UNCHANGED <<bot, flow>>

Accepted(w) ==
    /\ At(w, "accepted")
    /\ SendClose(w) /\ botState' = "Idle" /\ Ends(w)
    /\ selling' = FALSE /\ UNCHANGED step

Handle(w) ==
    /\ \/ Scan(w) \/ Decide(w) \/ ToDetail(w) \/ ToConfirm(w) \/ Confirm(w) \/ Refuse(w) \/ Consume(w)
       \/ Waited(w) \/ FindCookie(w) \/ Eat(w) \/ Ate(w) \/ Offer(w) \/ Accept(w) \/ Accepted(w)
    /\ UNCHANGED <<game, events, dog, proc, stray>>

\* The window is 5 s old.  A cookie may take longer.
Watchdog ==
    /\ botState = "SellingInventoryBz" /\ lastWindow # 0 /\ dog
    /\ Nothing /\ AllFree
    /\ SendClose(lastWindow)
    /\ botState' = "Idle"
    /\ UNCHANGED <<game, events, flow, tasks, proc, stray>>

-----------------------------------------------------------------------------
(* Events. *)

Event(kind) == events # <<>> /\ Head(events)[1] = kind /\ events' = Tail(events)

Handler(page) ==
    [page |-> page, step |-> step, after |-> Deciding,
     pc   |-> CASE botState = "CheckingCookie" -> "scan"
                [] botState = "BuyingCookie" -> "buy"
                [] botState = "SellingInventoryBz" /\ selling -> "accept"
                [] botState = "SellingInventoryBz" /\ ~selling /\ page \in Bazaar -> "offer"
                [] OTHER -> "none"]

OpenScreen ==
    /\ Event("open")
    /\ LET w == Head(events)[2]  h == Handler(Head(events)[3])
       IN /\ lastWindow' = w /\ dog' = TRUE
          /\ handler' = [handler EXCEPT ![w] = IF h.pc = "none" THEN Off ELSE h]
    /\ UNCHANGED <<game, sent, botState, flow, proc, stray>>

\* "You don't have anything to sell!"
NothingToSell ==
    /\ Event("unsold")
    /\ IF botState = "SellingInventoryBz"
       THEN /\ selling' = FALSE /\ botState' = "Idle"
            /\ IF lastWindow # 0 THEN SendClose(lastWindow) ELSE UNCHANGED <<sent, lastWindow>>
       ELSE UNCHANGED <<selling, sent, bot>>
    /\ UNCHANGED <<game, step, tasks, proc, stray>>

-----------------------------------------------------------------------------
(* The game. *)

Opens(page) ==
    /\ lastId < MaxWindow
    /\ shown' = [page |-> page, id |-> lastId + 1]
    /\ lastId' = lastId + 1
    /\ events' = Append(events, <<"open", lastId + 1, page>>)

\* What a click leads to: a page, by page and slot.
Leads == {<<"search", 11, "detail">>, <<"search", 10, "detail">>, <<"detail", 10, "buy">>,
          <<"detail", 11, "other">>, <<"bazaar", 11, "other">>, <<"bazaar", 47, "sell">>,
          <<"search", 47, "sell">>, <<"detail", 47, "sell">>}

\* The bazaar may show the item again after a purchase.
Buys == bought' = bought + 1 /\ cookies' = cookies + 1

Answer(p) ==
    \/ p.op = "open" /\ Opens(p.page) /\ UNCHANGED <<bought, cookies, sold>>
    \/ p.op = "use" /\ cookies > 0 /\ Opens("gui") /\ UNCHANGED <<bought, cookies, sold>>
    \/ /\ p.op = "click" /\ p.win = shown.id
       /\ \/ \E l \in Leads : /\ l[1] = shown.page /\ l[2] = p.slot
                              /\ Opens(l[3]) /\ UNCHANGED <<bought, cookies, sold>>
          \/ /\ p.slot = 47 /\ shown.page \in Bazaar
             /\ events' = Append(events, <<"unsold">>)
             /\ UNCHANGED <<shown, lastId, bought, cookies, sold>>
          \/ /\ p.slot = 10 /\ shown.page = "buy"
             /\ Buys
             /\ Opens("detail") \/ UNCHANGED <<shown, lastId, events>>
             /\ UNCHANGED sold
          \/ /\ p.slot = 11 /\ shown.page = "gui" /\ cookies > 0
             /\ cookies' = cookies - 1 /\ shown' = None
             /\ UNCHANGED <<lastId, events, bought, sold>>
          \/ /\ p.slot = 11 /\ shown.page = "sell"
             /\ sold' = sold + 1
             /\ UNCHANGED <<shown, lastId, events, bought, cookies>>
    \/ p.op = "close" /\ p.win = shown.id /\ shown' = None /\ UNCHANGED <<lastId, events, bought, cookies, sold>>

Means(p) ==
    \/ p.op = "open"
    \/ p.op = "use" /\ cookies > 0
    \/ p.op = "close" /\ p.win = shown.id
    \/ /\ p.op = "click" /\ p.win = shown.id
       /\ \/ \E l \in Leads : l[1] = shown.page /\ l[2] = p.slot
          \/ <<shown.page, p.slot>> \in {<<"buy", 10>>, <<"gui", 11>>, <<"sell", 11>>}

Game ==
    /\ sent # <<>>
    /\ \/ Answer(Head(sent))
       \/ ~Means(Head(sent)) /\ UNCHANGED <<game, events>>
    /\ sent' = Tail(sent)
    /\ UNCHANGED <<bot, flow, tasks, proc, stray>>

\* A window asked for before, or one of the game's own, but none of the bazaar.
Stray ==
    /\ stray < MaxStray
    /\ stray' = stray + 1
    /\ \E page \in {"menu", "other"} : Opens(page)
    /\ UNCHANGED <<bought, cookies, sold, sent, bot, flow, tasks, proc>>

Next ==
    \/ Begin \/ Execute \/ Complete \/ Timeout
    \/ \E w \in Window : Handle(w)
    \/ Watchdog \/ OpenScreen \/ NothingToSell
    \/ Game \/ Stray

Spec == Init /\ [][Next]_vars

-----------------------------------------------------------------------------
(* Properties. *)

\* client.rs:6190-6193: however often the bazaar shows its pages again, and
\* though two windows may both find the time short, a check buys one cookie.
CookieOnce == bought <= Cardinality({c \in 1..begun : asked[c] = "cookie"})
=============================================================================
