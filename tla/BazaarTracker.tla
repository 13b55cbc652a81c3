---------------------------- MODULE BazaarTracker ----------------------------
(***************************************************************************)
(* The tracker of bazaar orders (src/src/bazaar_tracker.rs), the events    *)
(* from which it learns of the orders in the game (emitted in              *)
(* src/src/bot/client.rs, handled in src/src/main.rs:2359-3141) and the    *)
(* others who change it: the web panel and the flip service, which cancel, *)
(* and the clean-up timer.                                                 *)
(*                                                                         *)
(* The game's orders are the truth.  The tracker sees them through a       *)
(* channel of events, forgets what a user cancels before the game does,    *)
(* and keeps both its orders and the cost of what was bought in files.     *)
(* Prices are left out, amounts are counted in lots.  The runs of order    *)
(* management that handlers queue are not followed: what a run does to an  *)
(* order may happen at any time.                                           *)
(***************************************************************************)
EXTENDS Integers, Sequences, SequencesExt

CONSTANTS
    Order, Item,     \* the orders ever placed, and the items
    KeyOf,           \* the item and side of each
    Lots,            \* the size of an order
    MaxEvents,       \* bound of the model: the bot emits nothing while so many
                     \* events wait
    MaxUpsets,       \* bound of the model: restarts, startups, clicks without
                     \* answer, orders that come or go unannounced, what the
                     \* web panel and the timer take off the list
    Others           \* of "web" and "timer", those that act

Side == {"buy", "sell"}
Key  == {KeyOf[o] : o \in Order}

ASSUME TrackerAssumption ==
    /\ KeyOf \in [Order -> Item \X Side] /\ Order # {}
    /\ Lots \in Nat \ {0}
    /\ MaxEvents \in Nat
    /\ MaxUpsets \in Nat
    /\ Others \subseteq {"web", "timer"}

Actor == {"loop", "web", "timer"}

VARIABLES
    stage, left, done,   \* of each order: where it is; the lots it waits for
                         \* and those that wait to be collected
    processed,    \* manage_orders_processed: keys the run leaves alone
    events,       \* the channel to the event loop
    tracked,      \* orders
    suppressed,   \* pending_cancels younger than CANCEL_SUPPRESS_SECS
    costs,        \* last_buy_costs: lots, 0 for no entry
    pc, buf,      \* where each actor stands in an operation, what it will write
    target,       \* the key the web panel cancels
    sale,         \* what the event loop has still to do to the costs
    file, costFile,   \* the two files
    upsets,
    clean         \* history: the keys that nothing but events has touched
                  \* since a reading of the orders window

game    == <<stage, left, done, processed>>
memory  == <<tracked, suppressed, costs>>
actors  == <<pc, buf, target, sale>>
disk    == <<file, costFile>>
vars    == <<game, events, memory, actors, disk, upsets, clean>>

Entry == [key : Key, filled : BOOLEAN]
Event == [what : {"placed", "filled"}, key : Key]
    \cup [what : {"collected"}, key : Key, lots : 1..Lots]
    \cup [what : {"cancelled"}, key : Key, already : BOOLEAN]
    \cup [what : {"snapshot"}, shown : [Key -> Nat]]
    \cup [what : {"startup"}]

NoSale == [what |-> "none"]
Sale   == [what : {"bought", "sold"}, item : Item, lots : 1..Lots] \cup {NoSale}

TypeOK ==
    /\ stage \in [Order -> {"none", "placed", "told", "gone"}]
    /\ left \in [Order -> 0..Lots] /\ done \in [Order -> 0..Lots]
    /\ processed \subseteq Key
    /\ events \in Seq(Event)
    /\ tracked \in Seq(Entry)
    /\ suppressed \subseteq Key
    /\ costs \in [Item -> Nat]
    /\ pc \in [Actor -> {"idle", "marked", "read", "write", "cost", "costSave"}]
    /\ buf \in [Actor -> Seq(Entry)]
    /\ target \in Key
    /\ sale \in Sale
    /\ file \in Seq(Entry) /\ costFile \in [Item -> Nat]
    /\ upsets \in 0..MaxUpsets
    /\ clean \subseteq Key

Init ==
    /\ stage = [o \in Order |-> "none"]
    /\ left = [o \in Order |-> Lots] /\ done = [o \in Order |-> 0]
    /\ processed = {}
    /\ events = <<>>
    /\ tracked = <<>> /\ suppressed = {} /\ costs = [i \in Item |-> 0]
    /\ pc = [a \in Actor |-> "idle"] /\ buf = [a \in Actor |-> <<>>]
    /\ target \in Key /\ sale = NoSale
    /\ file = <<>> /\ costFile = [i \in Item |-> 0] /\ upsets = 0
    /\ clean = Key

-----------------------------------------------------------------------------
(* The tracker's operations, on a list of orders. *)

Matches(es, k) == {i \in DOMAIN es : es[i].key = k}
Newest(S) == CHOOSE i \in S : \A j \in S : j <= i
Keys(es) == {es[i].key : i \in DOMAIN es}
Tracked(es, k) == Cardinality(Matches(es, k))

AddOrder(es, k) == Append(es, [key |-> k, filled |-> FALSE])

MarkFilled(es, k) ==
    LET open == {i \in Matches(es, k) : ~es[i].filled}
    IN  IF open = {} THEN es ELSE [es EXCEPT ![Newest(open)].filled = TRUE]

RemoveOrder(es, k) ==
    IF Matches(es, k) = {} THEN es ELSE RemoveAt(es, Newest(Matches(es, k)))

\* The entries at the positions of S, in order.
Sub(es, S) ==
    LET at == SetToSortSeq(S, <)
    IN  [i \in 1..Len(at) |-> es[at[i]]]

\* The first so many entries of a key stay.
Kept(es, shown) ==
    Sub(es, {i \in DOMAIN es :
               Cardinality({j \in Matches(es, es[i].key) : j < i}) < shown[es[i].key]})

\* An open entry for each order of a key not in "without" that the window
\* shows and the list has not.
AddMissing(es, shown, without) ==
    LET Missing(k) == 1..(IF k \in without THEN 0 ELSE shown[k] - Tracked(es, k))
        Copies(k)  == [i \in Missing(k) |-> [key |-> k, filled |-> FALSE]]
    IN  FoldLeft(LAMBDA s, k : s \o Copies(k), es, SetToSeq(Key))

\* Mutant: an order the user has cancelled is added again.
Reconciled_All(es, shown, without) == AddMissing(Kept(es, shown), shown, {})

Reconciled(es, shown, without) == AddMissing(Kept(es, shown), shown, without)

\* Mutant: the cancellation of a collected order removes another one.
Cancelled_Twice(es, e) == RemoveOrder(es, e.key)

Cancelled(es, e) == IF e.already THEN es ELSE RemoveOrder(es, e.key)

\* What the event loop makes of the list when it handles an event.
Apply(es, e) ==
    CASE e.what = "placed"    -> AddOrder(es, e.key)
      [] e.what = "filled"    -> MarkFilled(es, e.key)
      [] e.what = "collected" -> RemoveOrder(es, e.key)
      [] e.what = "cancelled" -> Cancelled(es, e)
      [] e.what = "snapshot"  -> Reconciled(es, e.shown, suppressed)
      [] e.what = "startup"   -> <<>>

-----------------------------------------------------------------------------
(* The game and the bot's flows, which tell the event loop what they saw. *)

Emit(es) ==
    /\ Len(events) + Len(es) <= MaxEvents
    /\ events' = events \o es

Upset == upsets < MaxUpsets /\ upsets' = upsets + 1

Live(k) == {o \in Order : KeyOf[o] = k /\ stage[o] = "told"}
Forget(K) == clean' = clean \ K

\* The confirming click has been answered; 250 ms go by before it is told.
Place(o) ==
    /\ stage[o] = "none"
    /\ stage' = [stage EXCEPT ![o] = "placed"]
    /\ UNCHANGED <<left, done, processed, events, memory, actors, disk, upsets, clean>>

Announce(o) ==
    /\ stage[o] = "placed"
    /\ Emit(<<[what |-> "placed", key |-> KeyOf[o]]>>)
    /\ stage' = [stage EXCEPT ![o] = "told"]
    /\ UNCHANGED <<left, done, processed, memory, actors, disk, upsets, clean>>

\* An order placed by hand, or taken for rejected: no event.
PlaceUnannounced(o) ==
    /\ stage[o] = "none" /\ Upset
    /\ stage' = [stage EXCEPT ![o] = "told"]
    /\ Forget({KeyOf[o]})
    /\ UNCHANGED <<left, done, processed, events, memory, actors, disk>>

\* An order cancelled or collected by hand, or by a click that was not
\* confirmed in time: no event.
GoUnannounced(o) ==
    /\ stage[o] = "told" /\ Upset
    /\ stage' = [stage EXCEPT ![o] = "gone"]
    /\ Forget({KeyOf[o]})
    /\ UNCHANGED <<left, done, processed, events, memory, actors, disk>>

\* The chat tells of an order only when all of it is filled.
Fill(o) ==
    /\ stage[o] \in {"placed", "told"} /\ left[o] > 0
    /\ left' = [left EXCEPT ![o] = @ - 1]
    /\ done' = [done EXCEPT ![o] = @ + 1]
    /\ IF left[o] = 1 THEN Emit(<<[what |-> "filled", key |-> KeyOf[o]]>>)
                      ELSE UNCHANGED events
    /\ UNCHANGED <<stage, processed, memory, actors, disk, upsets, clean>>

\* A handler reads the orders window: the first of a run, or a list the game
\* opens again, from which the run leaves out the keys it is done with.  An
\* order whose placement is not finished is in neither.
Snapshot(p) ==
    /\ \A o \in Order : stage[o] # "placed"
    /\ LET shown == [k \in Key |-> IF k \in p THEN 0 ELSE Cardinality(Live(k))]
           read  == IF \E i \in DOMAIN events : events[i].what = "startup" THEN {}
                    ELSE Key \ (p \cup suppressed)
       IN  /\ Emit(<<[what |-> "snapshot", shown |-> shown]>>)
           /\ clean' = (clean \ p) \cup read
    /\ processed' = p
    /\ UNCHANGED <<stage, left, done, memory, actors, disk, upsets>>

\* What is filled is collected, as much as the list showed when it was read.
\* What is not filled stays in the game, unknown to the tracker, or is
\* cancelled in the same visit.
Collect(o, lots, cancels) ==
    LET k == KeyOf[o]
        claimed == [what |-> "collected", key |-> k, lots |-> lots]
        closed  == [what |-> "cancelled", key |-> k, already |-> TRUE]
    IN  /\ stage[o] = "told" /\ lots \in 1..done[o]
        /\ cancels => left[o] > 0
        /\ Emit(IF cancels THEN <<claimed, closed>> ELSE <<claimed>>)
        /\ done' = [done EXCEPT ![o] = 0]
        /\ IF cancels \/ left[o] = 0
           THEN stage' = [stage EXCEPT ![o] = "gone"] /\ UNCHANGED clean
           ELSE Forget({k}) /\ UNCHANGED stage
        /\ processed' = processed \cup {k}
        /\ UNCHANGED <<left, memory, actors, disk, upsets>>

\* A click the game does not answer in five seconds passes for a collection.
CollectUnanswered(o) ==
    /\ stage[o] = "told" /\ done[o] > 0 /\ Upset
    /\ Emit(<<[what |-> "collected", key |-> KeyOf[o], lots |-> done[o]]>>)
    /\ processed' = processed \cup {KeyOf[o]}
    /\ Forget({KeyOf[o]})
    /\ UNCHANGED <<stage, left, done, memory, actors, disk>>

Cancel(o) ==
    /\ stage[o] = "told" /\ done[o] = 0
    /\ Emit(<<[what |-> "cancelled", key |-> KeyOf[o], already |-> FALSE]>>)
    /\ stage' = [stage EXCEPT ![o] = "gone"]
    /\ processed' = processed \cup {KeyOf[o]}
    /\ UNCHANGED <<left, done, memory, actors, disk, upsets, clean>>

\* The startup workflow is through, whether or not it found every order.
FinishStartup ==
    /\ Upset
    /\ Emit(<<[what |-> "startup"]>>)
    /\ Forget({k \in Key : Live(k) # {}})
    /\ UNCHANGED <<game, memory, actors, disk>>

-----------------------------------------------------------------------------
(* The event loop.  The list changes under its lock; it is then copied under
   a lock taken anew, and the copy written without one. *)

Goto(a, l) == pc' = [pc EXCEPT ![a] = l]

\* The part of a sale that is left once the order is off the list.
SaleOf(e) ==
    IF e.what = "collected" /\ Matches(tracked, e.key) # {}
    THEN [what |-> IF e.key[2] = "buy" THEN "bought" ELSE "sold",
          item |-> e.key[1], lots |-> e.lots]
    ELSE NoSale

Saves(e) ==
    CASE e.what = "cancelled" -> ~e.already
      [] e.what = "snapshot"  -> Apply(tracked, e) # tracked
      [] OTHER                -> TRUE

Handle ==
    /\ pc["loop"] = "idle" /\ events # <<>>
    /\ LET e == Head(events)
       IN  /\ tracked' = Apply(tracked, e)
           /\ suppressed' = IF e.what = "startup" THEN suppressed \cup Keys(tracked)
                            ELSE suppressed
           /\ sale' = SaleOf(e)
           /\ IF Saves(e) THEN Goto("loop", "read") ELSE UNCHANGED pc
    /\ events' = Tail(events)
    /\ UNCHANGED <<game, costs, buf, target, disk, upsets, clean>>

SaveRead(a) ==
    /\ pc[a] = "read"
    /\ buf' = [buf EXCEPT ![a] = tracked]
    /\ Goto(a, "write")
    /\ UNCHANGED <<game, events, memory, target, sale, disk, upsets, clean>>

SaveWrite(a) ==
    /\ pc[a] = "write"
    /\ file' = buf[a]
    /\ buf' = [buf EXCEPT ![a] = <<>>]
    /\ Goto(a, IF a = "loop" /\ sale # NoSale THEN "cost" ELSE "idle")
    /\ UNCHANGED <<game, events, memory, target, sale, costFile, upsets, clean>>

\* Mutant: a sale takes what it sold, whether or not it was recorded.
Account_Subtract ==
    /\ pc["loop"] = "cost"
    /\ costs' = [costs EXCEPT ![sale.item] =
                    IF sale.what = "bought" THEN @ + sale.lots ELSE @ - sale.lots]
    /\ Goto("loop", "costSave")
    /\ UNCHANGED <<game, events, tracked, suppressed, buf, target, sale, disk, upsets, clean>>

\* record_buy_cost adds to the item's cost, take_buy_cost takes all of it.
Account ==
    /\ pc["loop"] = "cost"
    /\ costs' = [costs EXCEPT ![sale.item] =
                    IF sale.what = "bought" THEN @ + sale.lots ELSE 0]
    /\ Goto("loop", "costSave")
    /\ UNCHANGED <<game, events, tracked, suppressed, buf, target, sale, disk, upsets, clean>>

SaveCosts ==
    /\ pc["loop"] = "costSave"
    /\ costFile' = costs
    /\ sale' = NoSale
    /\ Goto("loop", "idle")
    /\ UNCHANGED <<game, events, memory, buf, target, file, upsets, clean>>

-----------------------------------------------------------------------------
(* The web panel and the flip service, the clean-up timer, time, a restart. *)

\* mark_cancelling, for an order the user sees or the service names.
WebMark(k) ==
    /\ "web" \in Others /\ pc["web"] = "idle"
    /\ Upset
    /\ target' = k
    /\ suppressed' = suppressed \cup {k}
    /\ Goto("web", "marked")
    /\ Forget({k})
    /\ UNCHANGED <<game, events, tracked, costs, buf, sale, disk>>

WebRemove ==
    /\ pc["web"] = "marked"
    /\ tracked' = RemoveOrder(tracked, target)
    /\ Goto("web", "read")
    /\ UNCHANGED <<game, events, suppressed, costs, buf, target, sale, disk, upsets, clean>>

\* clear_all_orders, which marks and clears under the list's lock.
WebClear ==
    /\ "web" \in Others /\ pc["web"] = "idle"
    /\ Upset
    /\ suppressed' = suppressed \cup Keys(tracked)
    /\ tracked' = <<>>
    /\ Goto("web", "read")
    /\ Forget(Keys(tracked))
    /\ UNCHANGED <<game, events, costs, buf, target, sale, disk>>

\* The oldest entries, which are the first of the list.
RemoveStale(n) ==
    /\ "timer" \in Others /\ pc["timer"] = "idle"
    /\ Upset
    /\ n \in 1..Len(tracked)
    /\ tracked' = SubSeq(tracked, n + 1, Len(tracked))
    /\ Goto("timer", "read")
    /\ Forget(Keys(SubSeq(tracked, 1, n)))
    /\ UNCHANGED <<game, events, suppressed, costs, buf, target, sale, disk>>

\* Thirty seconds outlast the two calls of a cancellation.
Expire(k) ==
    /\ k \in suppressed
    /\ pc["web"] # "marked"
    /\ suppressed' = suppressed \ {k}
    /\ UNCHANGED <<game, events, tracked, costs, actors, disk, upsets, clean>>

Restart ==
    /\ Upset
    /\ stage' = [o \in Order |-> IF stage[o] = "placed" THEN "told" ELSE stage[o]]
    /\ processed' = {} /\ events' = <<>>
    /\ tracked' = file /\ suppressed' = {} /\ costs' = costFile
    /\ pc' = [a \in Actor |-> "idle"] /\ buf' = [a \in Actor |-> <<>>] /\ sale' = NoSale
    /\ clean' = {}
    /\ UNCHANGED <<left, done, target, disk>>

Next ==
    \/ \E o \in Order :
          \/ Place(o) \/ Announce(o) \/ PlaceUnannounced(o) \/ GoUnannounced(o)
          \/ Fill(o) \/ Cancel(o) \/ CollectUnanswered(o)
          \/ \E lots \in 1..Lots, cancels \in BOOLEAN : Collect(o, lots, cancels)
    \/ \E p \in {{}, processed} : Snapshot(p)
    \/ FinishStartup
    \/ Handle \/ Account \/ SaveCosts
    \/ \E a \in Actor : SaveRead(a) \/ SaveWrite(a)
    \/ \E k \in Key : WebMark(k) \/ Expire(k)
    \/ WebRemove \/ WebClear
    \/ \E n \in 1..Len(tracked) : RemoveStale(n)
    \/ Restart

Spec == Init /\ [][Next]_vars

-----------------------------------------------------------------------------
(* The list is the game's orders, seen through the events on their way: for
   every item and side that only events have touched since the window was last
   read, handling what waits in the channel leaves one entry for each order in
   the game.  So no event is counted twice or forgotten, a partial collection
   with its cancellation removes one order, and one reading of the window
   repairs what a restart, a user or the clean-up timer has put out of step
   (bazaar_tracker.rs:205-313, main.rs:2794-3141).                          *)
InStep ==
    \A k \in clean : Tracked(FoldLeft(Apply, tracked, events), k) = Cardinality(Live(k))

(* From the moment a user cancels until the suppression ends, a list of orders
   read before the cancellation took effect does not bring the order back:
   only a placement adds to the item and side (bazaar_tracker.rs:20-26,
   84-92; server.rs:1424-1427).                                             *)
Asked(k) == k \in suppressed \/ (pc["web"] = "marked" /\ target = k)
NoFlicker ==
    [][\A k \in Key :
          Asked(k) /\ Asked(k)' /\ Tracked(tracked', k) > Tracked(tracked, k)
            => Head(events) = [what |-> "placed", key |-> k]]_vars

(* A sale takes from the recorded cost of an item no more than was sold: "This
   correctly handles partial sells (e.g. sold 21 of 64 bought)"
   (main.rs:2919-2921), so that the rest has its cost when it is sold.      *)
SaleTakesWhatWasSold ==
    [][\A i \in Item : upsets' = upsets /\ costs'[i] < costs[i]
                        => costs[i] - costs'[i] <= sale.lots]_vars

(* Does not hold with two savers: each writes what it read, the older one
   perhaps last.  "Orders and buy costs are persisted to disk so profit
   tracking survives across bot restarts" (bazaar_tracker.rs:6-7).          *)
FileCatchesUp == (\A a \in Actor : pc[a] = "idle") => file = tracked
=============================================================================
