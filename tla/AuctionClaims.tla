---------------------------- MODULE AuctionClaims ----------------------------
(***************************************************************************)
(* Collecting what auctions brought and cancelling them: ClaimSoldItem,    *)
(* ClaimPurchasedItem and CancelAuction (src/src/bot/client.rs:3933-3953,  *)
(* 4037-4043), the handlers of their windows (4869-5171), the chat lines   *)
(* about them (2655-2765) and whose auction one is (auction_ownership.rs).  *)
(*                                                                         *)
(* An auction is [item, bid, by, priced]; its slot shows the item and, when *)
(* priced, a bid the bot can read.  A slot of the player's inventory may be *)
(* taken for an auction; the game has no answer to a click on it.           *)
(* auction_slot_blocked and auction_at_limit, which most ways out clear,   *)
(* belong to AuctionListing.  The window that asks to confirm a            *)
(* cancellation never comes (2686-2692).                                   *)
(***************************************************************************)
EXTENDS Naturals, Sequences, Functions

CONSTANTS
    Auction,            \* [item, bid, by, priced]; by = "bot" for the bot's own
    Within,             \* <<m, n>>: the name m is part of the name n
    MaxUuids,           \* MAX_CLAIM_SOLD_UUID_QUEUE
    MaxWindow,          \* bound of the model: window ids before they start again
    MaxCommands         \* bound of the model: commands

Window  == 1..MaxWindow
NextId(w) == (w % MaxWindow) + 1
Own     == {a \in Auction : a.by = "bot"}

Nobody == [item |-> "none", bid |-> 0, by |-> "none", priced |-> FALSE]
Pages  == {"ah", "manage", "view", "bids"}
States == {"ClaimingSold", "ClaimingPurchased", "CancellingAuction"}

VARIABLES
    status,             \* of each auction: "active", "sold", "claimed", "cancelled"
    shown, lastId,      \* the open window and what it is about; the id of the last one
    sent, events,       \* packets to the game; events not yet handled
    botState, lastWindow,
    uuids, uuid,        \* claim_sold_uuid_queue, claim_sold_uuid
    want,               \* cancel_auction_item_name, cancel_auction_starting_bid
    onlyOwn,            \* only_claim_own_auctions
    listed,             \* OWN_LISTINGS
    remote, fetched,    \* REMOTE_AUCTIONS, REMOTE_FETCHED
    handler,
    dogs,               \* the states whose 1.5 s and 2 s watchdogs run
    dog,                \* no command has begun since the current window opened
    exec, begun, asked  \* the processor; the commands begun and what each asks

game  == <<status, shown, lastId>>
wire  == <<sent, events>>
bot   == <<botState, lastWindow>>
sold  == <<uuids, uuid>>
owned == <<onlyOwn, listed, remote, fetched>>
tasks == <<handler, dogs, dog>>
proc  == <<exec, begun, asked>>
vars  == <<game, wire, bot, sold, want, owned, tasks, proc>>

None == [page |-> "none", id |-> 0, about |-> Nobody]
Off  == [page |-> "none", state |-> "none"]
Free(w) == handler[w] = Off

\* What a command may name: a name and a bid of the panel's list, which may be of
\* an earlier listing; a bid that was not read is 0.
Given(a) == IF a.priced THEN a.bid ELSE 0
Targets  == [item : {a.item : a \in Own}, bid : {Given(a) : a \in Own}]
NoTarget == [item |-> "none", bid |-> 0]
Ask      == [kind : {"sold", "bought"}, of : {NoTarget}] \cup [kind : {"cancel"}, of : Targets]

TypeOK ==
    /\ status \in [Auction -> {"active", "sold", "claimed", "cancelled"}]
    /\ shown.page \in Pages \cup {"none"} /\ shown.about \in Auction \cup {Nobody}
    /\ lastId \in Window /\ lastWindow \in 0..MaxWindow
    /\ botState \in States \cup {"Idle"}
    /\ Range(uuids) \subseteq Auction /\ Len(uuids) <= MaxUuids
    /\ uuid \in Auction \cup {Nobody} /\ want \in Targets \cup {NoTarget}
    /\ listed \subseteq Own /\ remote \subseteq Own /\ fetched \in BOOLEAN
    /\ \A w \in Window : handler[w].page \in Pages \cup {"none"}
                         /\ handler[w].state \in States \cup {"none"}
    /\ dogs \subseteq States /\ dog \in BOOLEAN
    /\ exec \in {"none", "close", "poll"} /\ begun \in 0..MaxCommands

Init ==
    /\ status \in [Auction -> {"active", "sold"}] /\ \A a \in Own : status[a] = "active"
    /\ shown = None /\ lastId = MaxWindow /\ sent = <<>> /\ events = <<>>
    /\ botState = "Idle" /\ lastWindow = 0
    /\ uuids = <<>> /\ uuid = Nobody /\ want = NoTarget
    /\ onlyOwn \in BOOLEAN /\ listed = {} /\ remote = {} /\ fetched = FALSE
    /\ handler = [w \in Window |-> Off] /\ dogs = {} /\ dog = FALSE
    /\ exec = "none" /\ begun = 0
    /\ asked \in [1..MaxCommands -> Ask]

Ah          == [op |-> "ah"]
View(a)     == [op |-> "view", about |-> a]
Click(w, s) == [op |-> "click", win |-> w, slot |-> s]
Pick(w, a)  == [op |-> "pick", win |-> w, about |-> a]
Close(w)    == [op |-> "close", win |-> w]
Nothing     == sent = <<>> /\ events = <<>>
AllFree     == \A w \in Window : Free(w)

SendClose(w) == sent' = Append(sent, Close(w)) /\ lastWindow' = 0

-----------------------------------------------------------------------------
(* Whose auction it is. *)

Contains(long, short) == long = short \/ <<short, long>> \in Within

\* Is the auction b the one the slot of a shows?  One name holds the other, and
\* the bids are equal if the slot has one.
Matches(b, a) ==
    /\ Contains(a.item, b.item) \/ Contains(b.item, a.item)
    /\ a.priced => b.bid = a.bid

HasData == listed # {} \/ fetched

Ownership(a) ==
    IF \E b \in listed \cup remote : Matches(b, a) THEN "Ours"
    ELSE IF HasData THEN "Foreign" ELSE "Unknown"

IsOurs(a) == Ownership(a) = "Ours"

\* "BIN Auction started for": the bot lists, in between its other commands.
NoteOwnListing ==
    /\ exec = "none" /\ Nothing /\ listed # Own
    /\ listed' = Own
    /\ UNCHANGED <<game, wire, bot, sold, want, onlyOwn, remote, fetched, tasks, proc>>

\* The API answers, or never does.
RefreshRemote ==
    /\ exec = "none" /\ Nothing /\ onlyOwn /\ ~fetched
    /\ remote' = Own /\ fetched' = TRUE
    /\ UNCHANGED <<game, wire, bot, sold, want, onlyOwn, listed, tasks, proc>>

-----------------------------------------------------------------------------
(* The processor and the commands. *)

Begin ==
    /\ exec = "none" /\ botState = "Idle"
    /\ begun < MaxCommands
    /\ begun' = begun + 1 /\ exec' = "close" /\ dog' = FALSE
    /\ IF lastWindow # 0 THEN SendClose(lastWindow) ELSE UNCHANGED <<sent, lastWindow>>
    /\ UNCHANGED <<game, events, botState, sold, want, owned, handler, dogs, asked>>

ClaimSold ==
    /\ asked[begun].kind = "sold"
    /\ IF uuids # <<>>
       THEN /\ sent' = Append(sent, View(Head(uuids)))
            /\ uuids' = Tail(uuids) /\ UNCHANGED uuid
       ELSE /\ sent' = Append(sent, IF uuid # Nobody THEN View(uuid) ELSE Ah)
            /\ uuid' = Nobody /\ UNCHANGED uuids
    /\ botState' = "ClaimingSold"
    /\ UNCHANGED want

ClaimPurchased ==
    /\ asked[begun].kind = "bought"
    /\ uuids' = <<>> /\ uuid' = Nobody
    /\ sent' = Append(sent, Ah)
    /\ botState' = "ClaimingPurchased"
    /\ UNCHANGED want

CancelAuction ==
    /\ asked[begun].kind = "cancel"
    /\ want' = asked[begun].of
    /\ sent' = Append(sent, Ah)
    /\ botState' = "CancellingAuction"
    /\ UNCHANGED sold

Execute ==
    /\ exec = "close"
    /\ exec' = "poll"
    /\ ClaimSold \/ ClaimPurchased \/ CancelAuction
    /\ UNCHANGED <<game, events, lastWindow, owned, tasks, begun, asked>>

Complete ==
    /\ exec = "poll" /\ botState = "Idle"
    /\ exec' = "none"
    /\ UNCHANGED <<game, wire, bot, sold, want, owned, tasks, begun, asked>>

\* The time of the command is up.
Timeout ==
    /\ exec = "poll" /\ botState # "Idle" /\ Nothing /\ AllFree
    /\ exec' = "none"
    /\ botState' = "Idle"
    /\ UNCHANGED <<game, wire, lastWindow, sold, want, owned, tasks, begun, asked>>

-----------------------------------------------------------------------------
(* The handler of window w, 200 or 300 ms after it opened: it goes by the    *)
(* state of then, and reads the slots of now.                                *)

At(w, state, page) == handler[w] = [page |-> page, state |-> state]
Ends(w) == handler' = [handler EXCEPT ![w] = Off]

\* click_window_slot refuses a window that is not the current one.
ClickIfCurrent(w, s) == IF lastWindow = w THEN Append(sent, Click(w, s)) ELSE sent

Clicks(w, s)    == sent' = ClickIfCurrent(w, s) /\ UNCHANGED bot
Picks(w, a)     == sent' = (IF lastWindow = w THEN Append(sent, Pick(w, a)) ELSE sent) /\ UNCHANGED bot
GoesIdle(w)     == SendClose(w) /\ botState' = "Idle"
ClickAndIdle(w, s) ==
    /\ sent' = Append(ClickIfCurrent(w, s), Close(w)) /\ lastWindow' = 0
    /\ botState' = "Idle"

AuctionHouse(w) ==
    \/ \E s \in {"ClaimingSold", "CancellingAuction"} : At(w, s, "ah") /\ Clicks(w, "manage")
    \/ At(w, "ClaimingPurchased", "ah") /\ Clicks(w, "bids")

\* The bids that were won: all of them, one of them, or none.
Bids(w) ==
    /\ At(w, "ClaimingPurchased", "bids")
    /\ ClickAndIdle(w, "all") \/ Clicks(w, "bid") \/ GoesIdle(w)

CollectBid(w) ==
    /\ At(w, "ClaimingPurchased", "view")
    /\ ClickAndIdle(w, "collect")

Claimable(a) == status[a] = "sold"

\* Claim All unless only the bot's own are wanted; then the first of those.
Sweep(w) ==
    /\ At(w, "ClaimingSold", "manage")
    /\ \/ ~onlyOwn /\ ClickAndIdle(w, "all")
       \/ \E a \in Auction : Claimable(a) /\ (onlyOwn => IsOurs(a)) /\ Picks(w, a)
       \/ /\ shown.id # w \/ \A a \in Auction : Claimable(a) => onlyOwn /\ ~IsOurs(a)
          /\ GoesIdle(w)

\* Slot 31 unless it offers to sell again.  In either case a watchdog starts.
ClaimView(w) ==
    /\ At(w, "ClaimingSold", "view")
    /\ IF shown.id = w /\ shown.about \in Auction /\ status[shown.about] = "claimed"
       THEN GoesIdle(w)
       ELSE Clicks(w, "collect")

\* Does the slot of a answer to the name and the bid t?  The name need only hold
\* the one of t, and a bid that cannot be read is not compared.
Meant(t, a) == Contains(a.item, t.item) /\ (a.priced => a.bid = t.bid)

\* Mutant: the bid is not compared.
Target_ByName(a) == Contains(a.item, want.item) /\ status[a] = "active"
Target(a) == Meant(want, a) /\ status[a] = "active"

\* The auctions of the window come first, then the player's own items.
FindTarget(w) ==
    /\ At(w, "CancellingAuction", "manage")
    /\ \/ \E a \in Auction : Target(a) /\ Picks(w, a)
       \/ /\ shown.id # w \/ \A a \in Auction : ~Target(a)
          /\ Clicks(w, "inventory") \/ GoesIdle(w)

CollectButton(s) == s.about \in Auction /\ status[s.about] = "sold"
CancelButton(s)  == s.about \in Own /\ status[s.about] = "active"

CancelView(w) ==
    /\ At(w, "CancellingAuction", "view")
    /\ IF shown.id = w /\ ~CancelButton(shown) THEN GoesIdle(w) ELSE Clicks(w, "cancel")

\* A window of no use: closed, but for a cancellation, which waits.
Unexpected(w) ==
    \/ At(w, "ClaimingSold", "bids") /\ GoesIdle(w)
    \/ At(w, "ClaimingPurchased", "manage") /\ GoesIdle(w)
    \/ At(w, "CancellingAuction", "bids") /\ UNCHANGED <<sent, bot>>

Handle(w) ==
    /\ \/ /\ AuctionHouse(w) \/ Bids(w) \/ CollectBid(w) \/ Sweep(w) \/ FindTarget(w) \/ Unexpected(w)
          /\ UNCHANGED dogs
       \/ (ClaimView(w) \/ CancelView(w)) /\ dogs' = dogs \cup {handler[w].state}
    /\ Ends(w)
    /\ UNCHANGED <<game, events, sold, want, owned, dog, proc>>

\* 1.5 s or 2 s after a view, whatever has happened since.
FollowUpWatchdog(s) ==
    /\ s \in dogs
    /\ dogs' = dogs \ {s}
    /\ botState' = IF botState = s THEN "Idle" ELSE botState
    /\ UNCHANGED <<game, wire, lastWindow, sold, want, owned, handler, dog, proc>>

\* The window is 5 s old.
Watchdog ==
    /\ botState # "Idle" /\ lastWindow # 0 /\ dog
    /\ Nothing /\ AllFree
    /\ SendClose(lastWindow)
    /\ botState' = "Idle"
    /\ UNCHANGED <<game, events, sold, want, owned, tasks, proc>>

-----------------------------------------------------------------------------
(* Events. *)

Event(kind) == events # <<>> /\ Head(events)[1] = kind /\ events' = Tail(events)

OpenScreen ==
    /\ Event("open")
    /\ LET w == Head(events)[2]
       IN /\ lastWindow' = w /\ dog' = TRUE
          /\ handler' = [handler EXCEPT ![w] =
                 IF botState = "Idle" THEN Off ELSE [page |-> Head(events)[3], state |-> botState]]
    /\ UNCHANGED <<game, sent, botState, sold, want, owned, dogs, proc>>

\* "This auction wasn't found!"
NotFound ==
    /\ Event("lost")
    /\ IF botState \in {"ClaimingSold", "ClaimingPurchased"}
       THEN /\ botState' = "Idle"
            /\ IF lastWindow # 0 THEN SendClose(lastWindow) ELSE UNCHANGED <<sent, lastWindow>>
       ELSE UNCHANGED <<sent, bot>>
    /\ UNCHANGED <<game, sold, want, owned, tasks, proc>>

\* "[Auction] ... bought ... for ... coins", which a sale of a co-op member says too.
Sold ==
    /\ Event("sold")
    /\ LET a == Head(events)[2]
       IN /\ uuids' = IF a \in Range(uuids) THEN uuids
                      ELSE Append(IF Len(uuids) >= MaxUuids THEN Tail(uuids) ELSE uuids, a)
          /\ uuid' = a
    /\ UNCHANGED <<game, sent, bot, want, owned, tasks, proc>>

-----------------------------------------------------------------------------
(* The game. *)

Opens(page, a) ==
    /\ Free(NextId(lastId))
    /\ shown' = [page |-> page, id |-> NextId(lastId), about |-> a]
    /\ lastId' = NextId(lastId)
    /\ events' = Append(events, <<"open", NextId(lastId), page>>)

Becomes(S, st) == status' = [a \in Auction |-> IF a \in S THEN st ELSE status[a]]
Says(what, a)  == events' = Append(events, <<what, a>>)
On(p, s, page) == p.slot = s /\ shown.page = page

\* A view that was claimed leads back to the list.
Answer(p) ==
    \/ p.op = "ah" /\ Opens("ah", Nobody) /\ UNCHANGED status
    \/ /\ p.op = "view"
       /\ \/ status[p.about] # "claimed" /\ Opens("view", p.about)
          \/ status[p.about] = "claimed" /\ Says("lost", p.about) /\ UNCHANGED <<shown, lastId>>
       /\ UNCHANGED status
    \/ /\ p.op = "click" /\ p.win = shown.id
       /\ \/ On(p, "manage", "ah") /\ Opens("manage", Nobody) /\ UNCHANGED status
          \/ On(p, "bids", "ah") /\ Opens("bids", Nobody) /\ UNCHANGED status
          \/ On(p, "bid", "bids") /\ Opens("view", Nobody) /\ UNCHANGED status
          \/ /\ On(p, "all", "manage")
             /\ Becomes({a \in Auction : status[a] = "sold"}, "claimed")
             /\ UNCHANGED <<shown, lastId, events>>
          \/ /\ On(p, "collect", "view") /\ CollectButton(shown)
             /\ Becomes({shown.about}, "claimed")
             /\ Opens("manage", Nobody) \/ UNCHANGED <<shown, lastId, events>>
          \/ /\ On(p, "cancel", "view") /\ CancelButton(shown)
             /\ Becomes({shown.about}, "cancelled")
             /\ shown' = None /\ UNCHANGED <<lastId, events>>
    \/ p.op = "pick" /\ p.win = shown.id /\ Opens("view", p.about) /\ UNCHANGED status
    \/ p.op = "close" /\ p.win = shown.id /\ shown' = None /\ UNCHANGED <<status, lastId, events>>

\* What the window has no answer to.
NoAnswer(p) ==
    /\ \/ p.op \in {"click", "pick", "close"} /\ p.win # shown.id
       \/ /\ p.op = "click" /\ p.win = shown.id
          /\ \/ p.slot = "inventory"
             \/ p.slot = "all" /\ shown.page # "manage"
             \/ p.slot = "cancel" /\ ~CancelButton(shown)
             \/ p.slot = "collect" /\ ~CollectButton(shown)
    /\ UNCHANGED <<game, events>>

Game ==
    /\ sent # <<>>
    /\ Answer(Head(sent)) \/ NoAnswer(Head(sent))
    /\ sent' = Tail(sent)
    /\ UNCHANGED <<bot, sold, want, owned, tasks, proc>>

\* Someone buys an auction.
Buyer ==
    /\ \E a \in Auction : status[a] = "active" /\ Becomes({a}, "sold") /\ Says("sold", a)
    /\ UNCHANGED <<shown, lastId, sent, bot, sold, want, owned, tasks, proc>>

Next ==
    \/ Begin \/ Execute \/ Complete \/ Timeout
    \/ \E w \in Window : Handle(w)
    \/ \E s \in {"ClaimingSold", "CancellingAuction"} : FollowUpWatchdog(s)
    \/ Watchdog
    \/ OpenScreen \/ NotFound \/ Sold
    \/ NoteOwnListing \/ RefreshRemote
    \/ Game \/ Buyer

Spec == Init /\ [][Next]_vars

-----------------------------------------------------------------------------
(* Properties. *)

\* However late a window comes, and whichever command it meets, an auction is
\* cancelled only if a command to cancel gave a name that its own holds and, where
\* its slot shows a bid, that bid.
CancelledAsAsked ==
    \A a \in Auction : status[a] = "cancelled" =>
        \E c \in 1..begun : asked[c].kind = "cancel" /\ Meant(asked[c].of, a)

\* README.md:352: "only claim auctions this account listed itself, leaving co-op
\* members' sales for them".
OthersAreLeft ==
    onlyOwn => \A a \in Auction \ Own : status[a] # "claimed"
=============================================================================
