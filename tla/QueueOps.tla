------------------------------ MODULE QueueOps ------------------------------
(***************************************************************************)
(* What src/state/command_queue.rs does to a queue value: the priorities,  *)
(* the insertion point, the trimming, the search by kind.  The operators   *)
(* ask of an entry only that it has a kind and a prio, so CommandQueue     *)
(* uses them on entries with an id and CommandProcessor on entries         *)
(* without.                                                                *)
(***************************************************************************)
EXTENDS SequencesExt

CONSTANT MaxQueueSize    \* MAX_QUEUE_SIZE

\* CommandPriority: the smaller number runs first.
Critical == 1
High     == 2
Normal   == 3
Low      == 4
Priority == {Critical, High, Normal, Low}

CommandKind == {"PurchaseAuction", "BazaarBuyOrder", "BazaarSellOrder",
                "SellToAuction", "ManageOrders", "ClaimPurchasedItem",
                "ClaimSoldItem", "CheckCookie", "SellInventoryBz",
                "CancelAuction", "SendChat", "ClickSlot", "SwapProfile",
                "AcceptTrade", "GoToIsland", "DiscoverOrders", "ExecuteOrders"}

\* A QueuedCommand without its id.
Request == [kind : CommandKind, prio : Priority, intr : BOOLEAN]

ASSUME LimitAssumption == MaxQueueSize \in Nat \ {0}

\* What trimming may never remove, and what grows stale.
Essential == {"BazaarSellOrder", "SellToAuction", "ManageOrders",
              "PurchaseAuction"}
BazaarOrder == {"BazaarBuyOrder", "BazaarSellOrder"}

-----------------------------------------------------------------------------
(* The critical sections of enqueue and retain, on a queue value.          *)

\* Mutant: >= where the code has >, last come first served.
InsertPos_Lifo(q, p) ==
    CHOOSE i \in 1..Len(q) + 1 :
        /\ \A j \in 1..i - 1 : q[j].prio < p
        /\ i <= Len(q) => q[i].prio >= p

\* Position of the first entry of strictly larger priority number, or the end.
InsertPos(q, p) ==
    CHOOSE i \in 1..Len(q) + 1 :
        /\ \A j \in 1..i - 1 : q[j].prio <= p
        /\ i <= Len(q) => q[i].prio > p

Droppable(q) == {i \in DOMAIN q : q[i].kind \notin Essential}

\* Mutants: position where the code has rposition; pop_back without the test.
Trim_First(q) ==
    IF Len(q) > MaxQueueSize /\ Droppable(q) # {}
    THEN RemoveAt(q, CHOOSE i \in Droppable(q) : \A j \in Droppable(q) : i <= j)
    ELSE q
Trim_Back(q) == IF Len(q) > MaxQueueSize THEN Front(q) ELSE q

\* The trimming loop.  One insertion makes the queue at most one entry too
\* long for every entry that is droppable, so its body runs at most once
\* (CommandQueueProofs!TrimOnce).
Trim(q) ==
    IF Len(q) > MaxQueueSize /\ Droppable(q) # {}
    THEN RemoveAt(q, CHOOSE i \in Droppable(q) : \A j \in Droppable(q) : j <= i)
    ELSE q

\* Mutant: trimming before the insertion.
Inserted_TrimFirst(q, c) == InsertAt(Trim(q), InsertPos(Trim(q), c.prio), c)

Inserted(q, c) == Trim(InsertAt(q, InsertPos(q, c.prio), c))

\* A command of this kind waits.
QueuedKind(q, kind) == \E i \in DOMAIN q : q[i].kind = kind

=============================================================================
