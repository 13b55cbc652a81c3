-------------------------- MODULE MCOrderManagement --------------------------
(* An instance of OrderManagement: a sell offer and a buy order that a
   collection cancels for its age. *)
EXTENDS OrderManagement

CONSTANTS sell, buy

\* Bound: how the two orders are at first, with a run of any kind waiting.
MCInit ==
    /\ Init
    /\ fill[sell] # "part" /\ sell \notin young
    /\ fill[buy] = "part"

MCSpec == MCInit /\ [][Next]_vars

\* The watchdog of a window that is closed, what such a window showed, and what
\* the next run sets anew.
Matter ==
    LET busy == {w \in Window : handler[w].pc # "none"}
    IN <<game, shown, sent, bot, invFull, failures, handler, retry, manage, upsets,
         IF lastWindow = 0 THEN "none" ELSE dog,
         [w \in busy \cup ({lastWindow, shown} \ {0}) |-> page[w]],
         IF current = None /\ busy = {} THEN <<>>
         ELSE <<cancelOpen, target, processed, deadline, context>> >>
=============================================================================
