------------------------------ MODULE MCParts ------------------------------
(***************************************************************************)
(* Instances of the startup and of the window flows, side by side: every   *)
(* behaviour is that of one of them, chosen at its start.  StartupWorkflow *)
(* has one connection; the others have two of what they deal with.         *)
(***************************************************************************)
EXTENDS StartupWorkflow

CONSTANTS
    Lots, Goods, Deals,     \* auctions to buy, what is traded, auctions to claim
    Within,                 \* <<m, n>>: the name m of what is traded is part of the name n
    Skip,
    MaxStuckRetries, MaxConfirmRetries, MaxUuids,
    \* bounds of the models
    MaxWindow, MaxClaimWindow, MaxCookieWindow, MaxCommands, MaxByHand, MaxSent, MaxLost,
    MaxStray

ASSUME PartsAssumption ==
    /\ Goods \cap {"none", "manage", "create", "bin", "next", "sign", "confirm", "preview", "price"} = {}
    /\ Deals \subseteq [item : Goods, bid : Nat, by : {"bot", "other"}, priced : BOOLEAN]
    /\ Within \subseteq Goods \X Goods
    /\ Skip \in BOOLEAN
    /\ MaxStuckRetries \in Nat \ {0} /\ MaxConfirmRetries \in Nat /\ MaxUuids \in Nat \ {0}
    /\ MaxWindow \in Nat \ {0} /\ MaxClaimWindow \in Nat \ {0} /\ MaxCookieWindow \in Nat
    /\ MaxCommands \in Nat /\ MaxByHand \in Nat /\ MaxSent \in Nat /\ MaxLost \in Nat /\ MaxStray \in Nat

\* For the cfg: an auction, and one of a longer name whose bid the bot cannot read.
Listings ==
    {[item |-> "x", bid |-> 1, by |-> "bot", priced |-> TRUE],
     [item |-> "y", bid |-> 2, by |-> "bot", priced |-> FALSE]}
LongerNames == {<<"x", "y">>}

VARIABLES
    part,
    \* of every window flow, and of several
    shown, lastId, sent, pending, botState, lastWindow, handler, dog, exec,
    begun, asked, field, stage, lost,
    \* of PurchaseFlow
    offer, fastBuy, skipSent, bed, spam, fast, byHand,
    \* of BazaarPlacement
    draft, placed, limit, rejected, report, urgent,
    \* of AuctionListing
    slot, auctions, aborted, stuck, blocked, atLimit, retry,
    \* of AuctionClaims
    status, uuids, uuid, want, onlyOwn, listed, remote, fetched, dogs,
    \* of CookieCheck
    cookies, bought, sold, selling, stray

Purchase == INSTANCE PurchaseFlow WITH
    events <- pending, Auction <- Lots
Placement == INSTANCE BazaarPlacement WITH
    step <- stage, events <- pending, Item <- Goods
Listing == INSTANCE AuctionListing WITH
    step <- stage, events <- pending, Item <- Goods
Claims == INSTANCE AuctionClaims WITH
    events <- pending, Auction <- Deals, MaxWindow <- MaxClaimWindow
Check == INSTANCE CookieCheck WITH
    step <- stage, events <- pending, MaxWindow <- MaxCookieWindow

ofPurchase == <<
    offer, fastBuy, skipSent, bed, spam, fast, byHand>>
ofPlacement == <<
    draft, placed, limit, rejected, report, urgent>>
ofListing == <<
    slot, auctions, aborted, stuck, blocked, atLimit, retry>>
ofClaims == <<
    status, uuids, uuid, want, onlyOwn, listed, remote, fetched, dogs>>
ofCheck == <<
    cookies, bought, sold, selling, stray>>
flow == <<
    shown, lastId, sent, pending, botState, lastWindow, handler, dog, exec, begun>>

-----------------------------------------------------------------------------
(* What a part that is not chosen stays at. *)
Rest == 0

NoPurchase ==
    /\ offer = Rest /\ fastBuy = Rest /\ skipSent = Rest /\ bed = Rest
    /\ spam = Rest /\ fast = Rest /\ byHand = Rest
NoPlacement ==
    /\ draft = Rest /\ placed = Rest /\ limit = Rest /\ rejected = Rest
    /\ report = Rest /\ urgent = Rest
NoListing ==
    /\ slot = Rest /\ auctions = Rest /\ aborted = Rest /\ stuck = Rest
    /\ blocked = Rest /\ atLimit = Rest /\ retry = Rest
NoClaims ==
    /\ status = Rest /\ uuids = Rest /\ uuid = Rest /\ want = Rest /\ onlyOwn = Rest
    /\ listed = Rest /\ remote = Rest /\ fetched = Rest /\ dogs = Rest
NoCheck ==
    /\ cookies = Rest /\ bought = Rest /\ sold = Rest /\ selling = Rest /\ stray = Rest
NoFlow ==
    /\ shown = Rest /\ lastId = Rest /\ sent = Rest /\ pending = Rest
    /\ botState = Rest /\ lastWindow = Rest /\ handler = Rest /\ dog = Rest /\ exec = Rest /\ begun = Rest

-----------------------------------------------------------------------------
WithWindows == {"purchase", "placement", "listing", "claims", "cookie"}
Parts == WithWindows \cup {"startup"}

\* The variables that several parts use, and those parts.
Asks  == {"placement", "listing", "claims", "cookie"}
Steps == {"placement", "listing", "cookie"}
Loses == {"placement", "listing"}

PartsInit ==
    /\ part \in Parts
    /\ Init /\ (part # "startup" => ~enabled /\ ~open)
    /\ IF part = "purchase" THEN Purchase!Init ELSE NoPurchase
    /\ IF part = "placement" THEN Placement!Init ELSE NoPlacement
    /\ IF part = "listing" THEN Listing!Init ELSE NoListing
    /\ IF part = "claims" THEN Claims!Init ELSE NoClaims
    /\ IF part = "cookie" THEN Check!Init ELSE NoCheck
    /\ part \notin WithWindows => NoFlow
    /\ part \notin Asks => asked = Rest
    /\ part \notin Steps => stage = Rest
    /\ part \notin Loses => field = Rest /\ lost = Rest

Still ==
    /\ part # "startup" => UNCHANGED vars
    /\ part # "purchase" => UNCHANGED ofPurchase
    /\ part # "placement" => UNCHANGED ofPlacement
    /\ part # "listing" => UNCHANGED ofListing
    /\ part # "claims" => UNCHANGED ofClaims
    /\ part # "cookie" => UNCHANGED ofCheck
    /\ part \notin WithWindows => UNCHANGED flow
    /\ part \notin Asks => UNCHANGED asked
    /\ part \notin Steps => UNCHANGED stage
    /\ part \notin Loses => UNCHANGED <<field, lost>>
    /\ UNCHANGED part

PartsNext ==
    \/ part = "startup" /\ Next /\ Still
    \/ part = "purchase" /\ Purchase!Next /\ Still
    \/ part = "placement" /\ Placement!Next /\ Still
    \/ part = "listing" /\ Listing!Next /\ Still
    \/ part = "claims" /\ Claims!Next /\ Still
    \/ part = "cookie" /\ Check!Next /\ Still

all == <<part, vars, ofPurchase, ofPlacement, ofListing, ofClaims, ofCheck, flow, asked,
         field, stage, lost>>

PartsSpec == PartsInit /\ [][PartsNext]_all

-----------------------------------------------------------------------------
\* The variables keep their types, in every part.
PartsTypeOK ==
    /\ TypeOK
    /\ part = "purchase" => Purchase!TypeOK
    /\ part = "placement" => Placement!TypeOK
    /\ part = "listing" => Listing!TypeOK
    /\ part = "claims" => Claims!TypeOK
    /\ part = "cookie" => Check!TypeOK

\* PurchaseFlow: a bed or a nugget is clicked only in the window the bot read
\* it in (client.rs:4106-4195, 4396-4424).
ClicksWhatItSees == [][part = "purchase" => Purchase!ClickSeen]_all

\* BazaarPlacement, AuctionListing, AuctionClaims and CookieCheck: the game has
\* recorded no order and no auction and sold no cookie but as a command asked, in
\* every value of it; it has cancelled only auctions that answer to the name and,
\* where they show one, the bid of a command; and a check buys one cookie at most
\* (client.rs:4531-4744, 5188-5445, 5079-5142, 6200-6228).
AsAsked ==
    /\ part = "placement" => Placement!PlacedAsAsked
    /\ part = "listing" => Listing!ListedAsAsked
    /\ part = "claims" => Claims!CancelledAsAsked
    /\ part = "cookie" => Check!CookieOnce

\* BazaarPlacement: what is reported as placed the game has recorded
\* (client.rs:4674-4696).
ReportedIsRecorded == [][part = "placement" => Placement!ReportRecorded]_all
=============================================================================
