----------------------------- MODULE AuctionCycle -----------------------------
(***************************************************************************)
(* What keeps auctions and purchases from being left in the game: who      *)
(* orders the claims (src/src/main.rs:2429-2445, 2672-2677, 4229-4241), the *)
(* two timers that order them anyhow (5130-5254), the gates at which the    *)
(* processor loses a claim or a listing (4438-4448, 4551-4588), and         *)
(* the two flags that stop listings, with those who change them             *)
(* (src/src/bot/client.rs).                                                 *)
(*                                                                         *)
(* A command is one step, whose ways to go are those of AuctionListing and  *)
(* AuctionClaims.  The queue is left to CommandQueue: commands are taken in *)
(* any order.  An auction that has ended keeps its slot until it is         *)
(* claimed; of purchases only whether one waits in the collect bin.  The    *)
(* timers run only if config.enable_ah_flips was on at the start: it was.   *)
(***************************************************************************)
EXTENDS Naturals

CONSTANTS
    Slots,              \* auctions the account may have at a time
    MaxQueued,          \* bound of the model: ClaimSoldItem that wait
    MaxUpsets           \* bound of the model: failures, and what nobody is bound to do

VARIABLES
    onSale, over,       \* auctions that run; those that have ended, unclaimed
    bin,                \* a purchase lies in the collect bin
    limit, blocked,     \* auction_at_limit, auction_slot_blocked
    near,               \* is_inventory_near_full
    sold, bought, list, \* ClaimSoldItem, ClaimPurchasedItem, SellToAuction that wait
    running,            \* what the bot does
    ago,                \* last_auction_listed_at, in half thresholds: 2 is half an hour
    upsets

game  == <<onSale, over, bin>>
flags == <<limit, blocked>>
queue == <<sold, bought, list>>
vars  == <<game, flags, near, queue, running, ago, upsets>>

TypeOK ==
    /\ onSale \in 0..Slots /\ over \in 0..Slots /\ onSale + over <= Slots
    /\ bin \in BOOLEAN /\ limit \in BOOLEAN /\ blocked \in BOOLEAN /\ near \in BOOLEAN
    /\ sold \in 0..MaxQueued /\ bought \in BOOLEAN /\ list \in BOOLEAN
    /\ running \in {"none", "sold", "bought", "list", "other"}
    /\ ago \in 0..2 /\ upsets \in 0..MaxUpsets

\* The claims of the startup wait (client.rs:7949-7955).
Init ==
    /\ onSale = 0 /\ over \in 0..Slots /\ bin \in BOOLEAN
    /\ limit = FALSE /\ blocked = FALSE /\ near \in BOOLEAN
    /\ sold = 1 /\ bought = TRUE /\ list = FALSE
    /\ running = "none" /\ ago = 0 /\ upsets = 0

Upset == upsets < MaxUpsets /\ upsets' = upsets + 1
Idle  == running = "none"

OneMore(n) == IF n < MaxQueued THEN n + 1 ELSE n

-----------------------------------------------------------------------------
(* Who orders a claim. *)

\* ItemPurchased: no claim while the inventory is near full, nor a second one.
Purchased ==
    /\ bin' = TRUE
    /\ bought' = (bought \/ ~near)
    /\ UNCHANGED <<onSale, over, flags, near, sold, list, running, ago, upsets>>

\* "[Auction] ... bought ... for ... coins", of the bot's auction or of a co-op
\* member's: the flag goes, though no slot is free.
ItemSold ==
    /\ \/ onSale > 0 /\ onSale' = onSale - 1 /\ over' = over + 1
       \/ UNCHANGED <<onSale, over>>
    /\ limit' = FALSE
    /\ sold' = OneMore(sold)
    /\ UNCHANGED <<bin, blocked, near, bought, list, running, ago, upsets>>

CollectAuctions ==
    /\ sold = 0 /\ running # "sold" /\ over > 0     (* has_claim_sold *)
    /\ sold' = 1
    /\ UNCHANGED <<game, flags, near, bought, list, running, ago, upsets>>

\* The panel or the backend.
ClaimPurchases ==
    /\ ~bought /\ Upset /\ bought' = TRUE
    /\ UNCHANGED <<game, flags, near, sold, list, running, ago>>

\* Every five minutes (should_enqueue_periodic_auction_claim).
PeriodicClaim ==
    /\ Idle /\ sold = 0 /\ ~bought /\ ~list
    /\ sold' = 1
    /\ UNCHANGED <<game, flags, near, bought, list, running, ago, upsets>>

\* A minute or more later: nothing has been listed for half an hour.
\* Plausible bug: the flags are left to the claims.
IdleFailsafe_KeepsFlags ==
    /\ ago = 2 /\ Idle
    /\ sold' = OneMore(sold) /\ bought' = (bought \/ ~near)
    /\ ago' = 0
    /\ UNCHANGED <<game, flags, near, list, running, upsets>>
IdleFailsafe ==
    /\ ago = 2 /\ Idle
    /\ limit' = FALSE /\ blocked' = FALSE
    /\ sold' = OneMore(sold) /\ bought' = (bought \/ ~near)
    /\ ago' = 0
    /\ UNCHANGED <<game, near, list, running, upsets>>

Tick ==
    /\ ago < 2 /\ ago' = ago + 1
    /\ UNCHANGED <<game, flags, near, queue, running, upsets>>

-----------------------------------------------------------------------------
(* The processor. *)

TakeSold ==
    /\ Idle /\ sold > 0 /\ sold' = sold - 1 /\ running' = "sold"
    /\ UNCHANGED <<game, flags, near, bought, list, ago, upsets>>

\* "Deferring": it is gone.
TakeBought ==
    /\ Idle /\ bought /\ bought' = FALSE
    /\ running' = IF near THEN "none" ELSE "bought"
    /\ UNCHANGED <<game, flags, near, sold, list, ago, upsets>>

TakeList ==
    /\ Idle /\ list /\ list' = FALSE
    /\ running' = IF limit \/ blocked THEN "none" ELSE "list"
    /\ UNCHANGED <<game, flags, near, sold, bought, ago, upsets>>

\* Relist says who orders an item to be listed.
OrderListing ==
    /\ ~list /\ list' = TRUE
    /\ UNCHANGED <<game, flags, near, sold, bought, running, ago, upsets>>

-----------------------------------------------------------------------------
(* What becomes of a command. *)

\* All that ended are claimed or nothing has; or one is, and no window follows.
SoldClaimed ==
    /\ running = "sold" /\ running' = "none"
    /\ \/ over' = 0 /\ blocked' = FALSE
       \/ over > 0 /\ over' = over - 1 /\ UNCHANGED blocked
    /\ UNCHANGED <<onSale, bin, limit, near, queue, ago, upsets>>

PurchasesClaimed ==
    /\ running = "bought" /\ running' = "none"
    /\ bin' = FALSE
    /\ UNCHANGED <<onSale, over, flags, near, queue, ago, upsets>>

\* "BIN Auction started for"
Started ==
    /\ running = "list" /\ running' = "none"
    /\ onSale + over < Slots /\ onSale' = onSale + 1
    /\ limit' = FALSE /\ ago' = 0
    /\ UNCHANGED <<over, bin, blocked, near, queue, upsets>>

LimitReached ==
    /\ running = "list" /\ running' = "none"
    /\ onSale + over = Slots /\ limit' = TRUE
    /\ UNCHANGED <<game, blocked, near, queue, ago, upsets>>

StuckItem ==
    /\ running = "list" /\ running' = "none"
    /\ Upset /\ blocked' = TRUE
    /\ UNCHANGED <<game, limit, near, queue, ago>>

\* It is interrupted, times out, or loses its window; or something else begins.
Fails ==
    /\ ~Idle /\ running # "other" /\ Upset /\ running' = "none"
    /\ UNCHANGED <<game, flags, near, queue, ago>>

Other ==
    /\ \/ Idle /\ Upset /\ running' = "other"
       \/ running = "other" /\ running' = "none" /\ UNCHANGED upsets
    /\ UNCHANGED <<game, flags, near, queue, ago>>

-----------------------------------------------------------------------------
(* The game and a startup. *)

\* An auction that nobody buys ends without a word.
Expires ==
    /\ onSale > 0 /\ onSale' = onSale - 1 /\ over' = over + 1
    /\ UNCHANGED <<bin, flags, near, queue, running, ago, upsets>>

\* "cancelled your auction for"
Cancelled ==
    /\ onSale > 0 /\ onSale' = onSale - 1
    /\ limit' = FALSE /\ blocked' = FALSE
    /\ UNCHANGED <<over, bin, near, queue, running, ago, upsets>>

RoomChanges ==
    /\ near' = ~near
    /\ UNCHANGED <<game, flags, queue, running, ago, upsets>>

\* A login begins with the claims and ends with StartupComplete.
Startup ==
    /\ Upset /\ blocked' = FALSE
    /\ sold' = OneMore(sold) /\ bought' = TRUE
    /\ UNCHANGED <<game, limit, near, list, running, ago>>

Ends == SoldClaimed \/ PurchasesClaimed \/ Started \/ LimitReached

Next ==
    \/ Purchased \/ ItemSold \/ CollectAuctions \/ ClaimPurchases
    \/ PeriodicClaim \/ IdleFailsafe \/ Tick
    \/ TakeSold \/ TakeBought \/ TakeList \/ OrderListing
    \/ Ends \/ StuckItem \/ Fails \/ Other
    \/ Expires \/ Cancelled \/ RoomChanges \/ Startup

(* Commands end, and the queue is worked off: no claim waits forever behind *)
(* orders to list.  The timers run on; half an hour without a listing       *)
(* passes unless there is one in its second half.                           *)
Fairness ==
    /\ WF_vars(Ends) /\ WF_vars(running = "other" /\ Other)
    /\ SF_vars(TakeSold) /\ SF_vars(TakeBought) /\ SF_vars(TakeList)
    /\ WF_vars(ago = 0 /\ Tick) /\ WF_vars(ago = 1 /\ Tick)
    /\ WF_vars(PeriodicClaim) /\ SF_vars(IdleFailsafe)

FairSpec == Init /\ [][Next]_vars /\ Fairness

-----------------------------------------------------------------------------
\* When nothing but ended auctions holds the slots, one is claimed, though an
\* auction that expires says nothing and a claim may be lost (main.rs:5130-5156).
EndedIsCollected == over = Slots ~> over < Slots

\* No flag stops listings for good, nor the two in turn, whoever should have cleared it: a sale
\* clears auction_at_limit before its slot is free, and a listing before the claim
\* sets it again (client.rs:2759-2763, 5212-5220; main.rs:5188-5206).
HoldUpsEnd == (limit \/ blocked) ~> (~limit /\ ~blocked)

\* A purchase is collected once there is room, unless listings go on for ever: they
\* alone keep back the timer that remembers it (main.rs:5173-5179, 5214-5221).
BoughtIsCollected == []<><<Started>>_vars \/ (bin ~> ~bin \/ near)

(* Does not hold: "The purchases are safe in the AH collect bin and will be      *)
(* claimed once inventory drains" (main.rs:4551-4554).                           *)
ClaimedOnceDrained == bin ~> ~bin \/ near
=============================================================================
