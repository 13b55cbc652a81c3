--------------------------- MODULE MCBazaarTracker ---------------------------
(* Instances of BazaarTracker: two sell offers of one item, and a purchase of
   it with a sell offer. *)
EXTENDS BazaarTracker, FiniteSets

CONSTANTS o1, o2, coal

Offers == [o \in Order |-> <<coal, "sell">>]
Flip   == [o \in Order |-> <<coal, IF o = o1 THEN "buy" ELSE "sell">>]
Swap   == Permutations({o1, o2})

\* When no restart can come any more nothing reads what is being saved.
Matter ==
    <<game, events, memory, pc, target, sale, upsets, clean,
      IF upsets = MaxUpsets THEN <<>> ELSE <<disk, buf>> >>
=============================================================================
