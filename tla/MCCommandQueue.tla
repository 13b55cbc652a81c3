--------------------------- MODULE MCCommandQueue ---------------------------
(* Instances of CommandQueue for TLC. *)
EXTENDS CommandQueue

Req(kind, prio, intr) == [kind |-> kind, prio |-> prio, intr |-> intr]

\* Call sites of src/src/main.rs: an AH flip (3304), a bazaar buy and sell
\* order (3452), order management after a fill (3126), a claim after a
\* purchase (2440).
MCRequests == {
    Req("PurchaseAuction", Critical, FALSE),
    Req("BazaarBuyOrder", Normal, TRUE),
    Req("ManageOrders", High, FALSE),
    Req("ClaimPurchasedItem", Normal, FALSE) }

\* The startup workflow (src/src/bot/client.rs:7891) against the event loop.
MCClaims == {
    Req("ClaimPurchasedItem", Critical, FALSE),
    Req("ClaimPurchasedItem", Normal, FALSE),
    Req("CheckCookie", Critical, FALSE) }
=============================================================================
