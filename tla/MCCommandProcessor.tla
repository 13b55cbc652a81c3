------------------------- MODULE MCCommandProcessor -------------------------
(* Instances of CommandProcessor for TLC. *)
EXTENDS CommandProcessor

Req(kind, prio, intr) == [kind |-> kind, prio |-> prio, intr |-> intr]

\* An AH flip (src/src/main.rs:3304), a bazaar buy order (3452), a listing
\* (4120), a claim (2440).
MCRequests == {
    Req("PurchaseAuction", Critical, FALSE),
    Req("BazaarBuyOrder", Normal, TRUE),
    Req("SellToAuction", High, FALSE),
    Req("ClaimPurchasedItem", Normal, FALSE) }

\* A listing and a buy order, one that may run in selling mode and one that
\* may not.
MCFull == {
    Req("SellToAuction", High, FALSE),
    Req("BazaarBuyOrder", Normal, TRUE) }

MCUrgent == MCFull \cup {Req("PurchaseAuction", Critical, FALSE)}

\* A trade answer (3957) before a flip and a listing.
MCTrade == {
    Req("ClickSlot", High, FALSE),
    Req("PurchaseAuction", Critical, FALSE),
    Req("SellToAuction", High, FALSE) }
=============================================================================
