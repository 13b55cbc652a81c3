-------------------------- MODULE PendingCommands ---------------------------
(***************************************************************************)
(* What the command queue of src/state/command_queue.rs promises its       *)
(* users, without saying how: a set of pending commands, at most one       *)
(* running, the most urgent and then oldest served first, and a capacity   *)
(* that only ever costs the least urgent command that may be dropped.      *)
(* CommandQueue implements it with a sequence (see CommandQueue!Promise).  *)
(***************************************************************************)
EXTENDS Naturals, FiniteSets

CONSTANTS Capacity, Keep(_), Idle

VARIABLES pending, running

\* Service order: urgency first, then age.
Before(c, d) == c.prio < d.prio \/ (c.prio = d.prio /\ c.id < d.id)

Init == pending = {} /\ running = Idle

\* A new command, younger than every pending one, is accepted while there is
\* room, or when nothing can be dropped for it.
Accept(c) ==
    /\ \A d \in pending : d.id < c.id
    /\ pending' = pending \cup {c}
    /\ \/ Cardinality(pending) < Capacity
       \/ \A d \in pending' : Keep(d)
    /\ UNCHANGED running

\* Over capacity it is accepted at the cost of the last droppable command.
\* When that is the new command itself nothing changes.
AcceptFor(c, v) ==
    /\ \A d \in pending : d.id < c.id
    /\ Cardinality(pending) >= Capacity
    /\ v \in pending /\ ~Keep(v)
    /\ \A d \in (pending \cup {c}) \ {v} : ~Keep(d) => Before(d, v)
    /\ pending' = (pending \cup {c}) \ {v}
    /\ UNCHANGED running

Begin ==
    /\ running = Idle
    /\ \E c \in pending :
        /\ \A d \in pending \ {c} : Before(c, d)
        /\ pending' = pending \ {c}
        /\ running' = c

Finish == running # Idle /\ running' = Idle /\ UNCHANGED pending

\* A user or a housekeeping task withdraws pending commands.
Withdraw == pending' \subseteq pending /\ UNCHANGED running

Next ==
    \/ \E c \in pending' \ pending : Accept(c)
    \/ \E c \in pending' \ pending, v \in pending \ pending' : AcceptFor(c, v)
    \/ Begin
    \/ Finish
    \/ Withdraw

Spec == Init /\ [][Next]_<<pending, running>>

=============================================================================
