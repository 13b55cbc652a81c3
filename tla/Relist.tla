-------------------------------- MODULE Relist --------------------------------
(***************************************************************************)
(* Who orders an item to be listed: COFL's createAuction                   *)
(* (src/src/main.rs:3975-4131), the instructions that answer an inventory  *)
(* sent over a COFL socket (4288-4348), among them those that are asked    *)
(* for when a purchase is still held after a while (2478-2533), and the    *)
(* auto-lister with its own connection to the finder (5795-5986).          *)
(*                                                                         *)
(* The flip tracker says of each name whether it may be listed: "barred"   *)
(* by the do_not_relist lists (tracked_finder_profit, relist_block_reason) *)
(* or "loss", bought above what it is worth.  What an upload is priced at, *)
(* and which names are left out, is the finder's.  The lengths of the      *)
(* timers decide nothing but that the one of listed_recently is the        *)
(* longest an answer takes.                                                *)
(***************************************************************************)
EXTENDS Naturals, Sequences

CONSTANTS
    Name,
    MaxQueued,          \* bound of the model: commands for an item that wait
    MaxAnswers,         \* bound of the model: uploads under way
    MaxForces           \* bound of the model: uploads somebody has forced

VARIABLES
    held,               \* the names in the cached inventory
    entry,              \* flip_tracker
    full,               \* auction_at_limit or auction_slot_blocked
    paused,             \* bazaar_flips_paused
    deferred,           \* of each name: the createAuction tasks that wait
    queued,             \* of each name: the SellToAuction commands that wait
    owed,               \* purchases whose grace has not run out
    asked,              \* inventories sent over a COFL socket, unanswered
    up, answers,        \* the auto-lister's connection, and what is on it
    recent,             \* listed_recently
    wanted, forces,     \* force_notify's permit; uploads forced so far
    told, forcedSince   \* of each name: instructions of the auto-lister, and
                        \* forced uploads, in the last five minutes

stock  == <<held, entry, full, paused>>
cofl   == <<deferred, owed, asked>>
lister == <<up, answers, recent>>
force  == <<wanted, forces>>
count  == <<told, forcedSince>>
vars   == <<stock, cofl, queued, lister, force, count>>

Entries == {"none", "fair", "loss", "barred"}

TypeOK ==
    /\ held \subseteq Name /\ entry \in [Name -> Entries]
    /\ full \in BOOLEAN /\ paused \in BOOLEAN
    /\ deferred \in [Name -> 0..MaxQueued] /\ queued \in [Name -> 0..MaxQueued]
    /\ owed \subseteq Name /\ asked \in 0..MaxAnswers
    /\ up \in BOOLEAN /\ answers \in Seq(SUBSET Name) /\ Len(answers) <= MaxAnswers
    /\ recent \subseteq Name
    /\ wanted \in BOOLEAN /\ forces \in 0..MaxForces
    /\ told \in [Name -> 0..(1 + MaxForces)] /\ forcedSince \in [Name -> 0..MaxForces]

Zero == [n \in Name |-> 0]

Init ==
    /\ held = {} /\ entry = [n \in Name |-> "none"] /\ full = FALSE /\ paused = FALSE
    /\ deferred = Zero /\ queued = Zero /\ owed = {} /\ asked = 0
    /\ up = FALSE /\ answers = <<>> /\ recent = {}
    /\ wanted = FALSE /\ forces = 0
    /\ told = Zero /\ forcedSince = Zero

Barred(n) == entry[n] = "barred"
Queue(ns) ==
    /\ \A n \in ns : queued[n] < MaxQueued
    /\ queued' = [n \in Name |-> IF n \in ns THEN queued[n] + 1 ELSE queued[n]]

-----------------------------------------------------------------------------
(* The bot. *)

Bought(n, e) ==
    /\ n \notin held /\ held' = held \cup {n}
    /\ entry' = [entry EXCEPT ![n] = e]
    /\ owed' = owed \cup {n}
    /\ UNCHANGED <<full, paused, deferred, asked, queued, lister, force, count>>

\* The command lists the item, or finds it gone.
Listed(n) ==
    /\ queued[n] > 0 /\ queued' = [queued EXCEPT ![n] = @ - 1]
    /\ held' = held \ {n}
    /\ UNCHANGED <<entry, full, paused, cofl, lister, force, count>>

FlagsChange ==
    /\ \/ full' = ~full /\ UNCHANGED paused
       \/ paused' = ~paused /\ UNCHANGED full
    /\ UNCHANGED <<held, entry, cofl, queued, lister, force, count>>

-----------------------------------------------------------------------------
(* COFL. *)

\* The name is COFL's, or that of what now lies in the slot it names.
CreateAuction(n) ==
    /\ entry[n] \notin {"loss", "barred"}
    /\ IF paused
       THEN /\ deferred[n] < MaxQueued
            /\ deferred' = [deferred EXCEPT ![n] = @ + 1]
            /\ UNCHANGED queued
       ELSE Queue({n}) /\ UNCHANGED deferred
    /\ UNCHANGED <<stock, owed, asked, lister, force, count>>

\* The pause has ended, or thirty seconds have passed.
DeferralEnds(n) ==
    /\ deferred[n] > 0 /\ deferred' = [deferred EXCEPT ![n] = @ - 1]
    /\ Queue({n})
    /\ UNCHANGED <<stock, owed, asked, lister, force, count>>

\* The inventory goes out over the COFL socket: every minute, or because a
\* purchase is still held.
Ask ==
    /\ asked < MaxAnswers /\ asked' = asked + 1
    /\ \/ ~full /\ UNCHANGED owed                       (* is_auction_at_limit *)
       \/ \E n \in owed \cap held : owed' = owed \ {n}
    /\ UNCHANGED <<stock, deferred, queued, lister, force, count>>
Sold ==
    /\ \E n \in owed \ held : owed' = owed \ {n}
    /\ UNCHANGED <<stock, deferred, asked, queued, lister, force, count>>

ListInstructions(ns) ==
    /\ asked > 0 /\ asked' = asked - 1
    /\ Queue({n \in ns : ~Barred(n)})
    /\ UNCHANGED <<stock, deferred, owed, lister, force, count>>

-----------------------------------------------------------------------------
(* The auto-lister. *)

\* A plausible bug: a new connection begins with an empty map.
Connect_Forgets == up' = TRUE /\ recent' = {}
Connect == up' = TRUE /\ UNCHANGED recent

Connects ==
    /\ ~up /\ Connect
    /\ UNCHANGED <<stock, cofl, queued, answers, force, count>>

\* What is on it is lost.
Disconnects ==
    /\ up /\ up' = FALSE /\ answers' = <<>>
    /\ UNCHANGED <<stock, cofl, queued, recent, force, count>>

\* A slot is free again, the inventory has changed, or a minute has passed.
Upload ==
    /\ up /\ ~full /\ Len(answers) < MaxAnswers
    /\ answers' = Append(answers, held)
    /\ UNCHANGED <<stock, cofl, queued, up, recent, force, count>>

\* "/trex sellinv" on the console: both ways.
SellInventory ==
    /\ ~wanted /\ forces < MaxForces /\ asked < MaxAnswers
    /\ wanted' = TRUE /\ forces' = forces + 1 /\ asked' = asked + 1
    /\ UNCHANGED <<stock, deferred, owed, queued, lister, count>>

ForcedUpload ==
    /\ up /\ wanted /\ wanted' = FALSE
    /\ Len(answers) < MaxAnswers /\ answers' = Append(answers, held)
    /\ recent' = {}
    /\ forcedSince' = [n \in Name |-> forcedSince[n] + 1]
    /\ UNCHANGED <<stock, cofl, queued, up, forces, told>>

\* The finder prices some of what it was sent.
Instructions(ns) ==
    /\ up /\ answers # <<>> /\ ns \subseteq Head(answers) /\ answers' = Tail(answers)
    /\ LET new == {n \in ns : ~Barred(n)} \ recent IN
          /\ Queue(new)
          /\ recent' = recent \cup new
          /\ told' = [n \in Name |-> IF n \in new THEN told[n] + 1 ELSE told[n]]
    /\ UNCHANGED <<stock, cofl, up, force, forcedSince>>

\* Five minutes after the last instruction for n.
Expires(n) ==
    /\ told[n] > 0
    /\ recent' = recent \ {n}
    /\ told' = [told EXCEPT ![n] = 0] /\ forcedSince' = [forcedSince EXCEPT ![n] = 0]
    /\ UNCHANGED <<stock, cofl, queued, up, answers, force>>

Next ==
    \/ \E n \in Name, e \in Entries \ {"none"} : Bought(n, e)
    \/ \E n \in Name : Listed(n) \/ CreateAuction(n) \/ DeferralEnds(n) \/ Expires(n)
    \/ FlagsChange \/ Ask \/ Sold
    \/ \E ns \in SUBSET Name : ListInstructions(ns) \/ Instructions(ns)
    \/ Connects \/ Disconnects \/ Upload \/ SellInventory \/ ForcedUpload

Spec == Init /\ [][Next]_vars

-----------------------------------------------------------------------------
(* The auto-lister does not order an item to be listed again while the      *)
(* listing it ordered may be under way, however often it connects anew or   *)
(* the answers cross: once in five minutes, and once more for each upload   *)
(* that was forced (main.rs:5820-5822, 5890, 5919, 5939).                   *)
InstructsOnce == \A n \in Name : told[n] <= 1 + forcedSince[n]
=============================================================================
