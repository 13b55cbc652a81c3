---------------------------- MODULE CommandQueue ----------------------------
(***************************************************************************)
(* The priority command queue of src/state/command_queue.rs, shared by     *)
(* every task of the bot (event loop, websocket loop, timers, web panel,   *)
(* startup workflow) and drained by one command processor.                 *)
(*                                                                         *)
(* The queue and the executing command sit behind two separate RwLocks.    *)
(* One action is one critical section: an operation that takes one lock,   *)
(* releases it and takes the other is two actions, and any other task may  *)
(* run between them.  The processor appears here only as far as it waits   *)
(* on the queue; CommandProcessor models what it does with a command.      *)
(***************************************************************************)
EXTENDS QueueOps

CONSTANTS
    Callers,        \* tasks that hold a clone of the queue
    Requests,       \* [kind, prio, intr] combinations the tasks enqueue
    MaxCommands,    \* bound of the model: commands created in a behaviour
    NoCmd           \* current_command = None

\* A QueuedCommand.  The id stands for the uuid and, because ids are dealt
\* in the order of insertion, for queued_at as well.
Cmd == [id : Nat, kind : CommandKind, prio : Priority, intr : BOOLEAN]

ASSUME QueueAssumption ==
    /\ Requests \subseteq Request
    /\ MaxCommands \in Nat
    /\ NoCmd \notin Cmd

\* retain(|c| c.id is not in ids): the other entries in their order.
Without(q, ids) ==
    LET kept  == {i \in DOMAIN q : q[i].id \notin ids}
        at(n) == CHOOSE i \in kept : Cardinality({j \in kept : j <= i}) = n
    IN  [n \in 1..Cardinality(kept) |-> q[at(n)]]

-----------------------------------------------------------------------------
VARIABLES
    queue,      \* the VecDeque
    current,    \* current_command
    nextId,     \* id of the next command
    permit,     \* the permit stored by notify.notify_one()
    proc,       \* the processor: "ready" to look, "empty" after finding
                \* nothing, "parked" on notified, "busy" with a command
    claiming,   \* per caller: priority of a claim past the duplicate check, or 0
    probe,      \* per caller: the question of a two-lock read, or NoProbe
    answer      \* per caller: what its last finished probe returned

vars == <<queue, current, nextId, permit, proc, claiming, probe, answer>>

\* A question: does a command with this id (0: any) and of this kind ("any")
\* wait or execute?  contains_command_id asks by id, has_manage_orders and
\* has_claim_sold by kind.
Question == [id : Nat, kind : CommandKind \cup {"any"}]
NoProbe  == [id |-> 0, kind |-> "any"]
Matches(c, w) == (w.id = 0 \/ c.id = w.id) /\ (w.kind = "any" \/ c.kind = w.kind)

InQueue(w)   == \E i \in DOMAIN queue : Matches(queue[i], w)
InCurrent(w) == current # NoCmd /\ Matches(current, w)

TypeOK ==
    /\ queue \in Seq(Cmd)
    /\ current \in Cmd \cup {NoCmd}
    /\ nextId \in Nat
    /\ permit \in BOOLEAN
    /\ proc \in {"ready", "empty", "parked", "busy"}
    /\ claiming \in [Callers -> Priority \cup {0}]
    /\ probe \in [Callers -> Question]
    /\ answer \in [Callers -> {"none", "yes", "no"}]

Init ==
    /\ queue = <<>>
    /\ current = NoCmd
    /\ nextId = 1
    /\ permit = FALSE
    /\ proc = "ready"
    /\ claiming = [t \in Callers |-> 0]
    /\ probe = [t \in Callers |-> NoProbe]
    /\ answer = [t \in Callers |-> "none"]

Free(t) == claiming[t] = 0 /\ probe[t] = NoProbe

-----------------------------------------------------------------------------
(* enqueue *)

\* Mutant: notify_waiters, which leaves no permit behind.
Insert_NotifyWaiters(kind, prio, intr) ==
    LET c == [id |-> nextId, kind |-> kind, prio |-> prio, intr |-> intr]
    IN  /\ nextId <= MaxCommands
        /\ queue' = Inserted(queue, c)
        /\ nextId' = nextId + 1
        /\ permit' = (permit \/ proc = "parked")
        /\ UNCHANGED <<current, proc, probe>>

\* Mutant: priorities counted from 0 where CommandPriority counts from 1.
Insert_FromZero(kind, prio, intr) ==
    LET c == [id |-> nextId, kind |-> kind, prio |-> prio - 1, intr |-> intr]
    IN  /\ nextId <= MaxCommands
        /\ queue' = Inserted(queue, c)
        /\ nextId' = nextId + 1
        /\ permit' = TRUE
        /\ UNCHANGED <<current, proc, probe>>

\* The write-locked part: insert, trim, then notify_one.
Insert(kind, prio, intr) ==
    LET c == [id |-> nextId, kind |-> kind, prio |-> prio, intr |-> intr]
    IN  /\ nextId <= MaxCommands
        /\ queue' = Inserted(queue, c)
        /\ nextId' = nextId + 1
        /\ permit' = TRUE
        /\ UNCHANGED <<current, proc, probe>>

Enqueue(t, r) ==
    /\ Free(t)
    /\ r.kind # "ClaimPurchasedItem"
    /\ Insert(r.kind, r.prio, r.intr)
    /\ UNCHANGED <<claiming, answer>>

\* ClaimPurchasedItem looks for a queued copy under the read lock.  With one
\* it returns that id and changes nothing; without one it goes on to insert,
\* but only after giving the lock back.
ClaimCheck(t, r) ==
    /\ Free(t)
    /\ r.kind = "ClaimPurchasedItem"
    /\ ~QueuedKind(queue, "ClaimPurchasedItem")
    /\ claiming' = [claiming EXCEPT ![t] = r.prio]
    /\ UNCHANGED <<queue, current, nextId, permit, proc, probe, answer>>

ClaimInsert(t) ==
    /\ claiming[t] # 0
    /\ Insert("ClaimPurchasedItem", claiming[t], FALSE)
    /\ claiming' = [claiming EXCEPT ![t] = 0]
    /\ UNCHANGED answer

-----------------------------------------------------------------------------
(* The processor's side. *)

\* Mutant: the front is cloned, not popped.
StartCurrent_Front ==
    /\ proc = "ready"
    /\ queue # <<>>
    /\ current' = Head(queue)
    /\ proc' = "busy"
    /\ UNCHANGED <<queue, nextId, permit, claiming, probe, answer>>

\* start_current holds the queue lock while it sets current_command.
StartCurrent ==
    /\ proc = "ready"
    /\ queue # <<>>
    /\ current' = Head(queue)
    /\ queue' = Tail(queue)
    /\ proc' = "busy"
    /\ UNCHANGED <<nextId, permit, claiming, probe, answer>>

StartNothing ==
    /\ proc = "ready"
    /\ queue = <<>>
    /\ proc' = "empty"
    /\ UNCHANGED <<queue, current, nextId, permit, claiming, probe, answer>>

\* Having found nothing, the loop awaits the future it created beforehand.
Park ==
    /\ proc = "empty"
    /\ proc' = "parked"
    /\ UNCHANGED <<queue, current, nextId, permit, claiming, probe, answer>>

\* notified resolves with the stored permit, and consumes it.
Wake ==
    /\ proc = "parked"
    /\ permit
    /\ permit' = FALSE
    /\ proc' = "ready"
    /\ UNCHANGED <<queue, current, nextId, claiming, probe, answer>>

\* The 500 ms timeout around notified.
WakeTimeout ==
    /\ proc = "parked"
    /\ proc' = "ready"
    /\ UNCHANGED <<queue, current, nextId, permit, claiming, probe, answer>>

\* complete_current, and interrupt_current, which does the same.
CompleteCurrent ==
    /\ proc = "busy"
    /\ current' = NoCmd
    /\ proc' = "ready"
    /\ UNCHANGED <<queue, nextId, permit, claiming, probe, answer>>

-----------------------------------------------------------------------------
(* Whole-queue operations. *)

Retained(ids) ==
    /\ queue' = Without(queue, ids)
    /\ UNCHANGED <<current, nextId, permit, proc, claiming, probe, answer>>

Clear ==
    /\ queue' = <<>>
    /\ UNCHANGED <<current, nextId, permit, proc, claiming, probe, answer>>

ClearBazaarOrders ==
    Retained({queue[i].id : i \in {j \in DOMAIN queue : queue[j].kind \in BazaarOrder}})

\* peek with nothing executing drops the bazaar orders older than 60 s: those
\* up to some id, since ids grow with queued_at.
Peek(oldest) ==
    /\ current = NoCmd
    /\ Retained({queue[i].id : i \in {j \in DOMAIN queue :
                    queue[j].kind \in BazaarOrder /\ queue[j].id <= oldest}})

-----------------------------------------------------------------------------
(* contains_command_id, has_manage_orders, has_claim_sold: current_command *)
(* under its lock, then, if that is no match, the queue under its own.     *)

ProbeCurrent(t, w) ==
    /\ Free(t)
    /\ w # NoProbe
    /\ IF InCurrent(w)
       THEN answer' = [answer EXCEPT ![t] = "yes"] /\ UNCHANGED probe
       ELSE probe' = [probe EXCEPT ![t] = w] /\ answer' = [answer EXCEPT ![t] = "none"]
    /\ UNCHANGED <<queue, current, nextId, permit, proc, claiming>>

ProbeQueue(t) ==
    /\ probe[t] # NoProbe
    /\ answer' = [answer EXCEPT ![t] = IF InQueue(probe[t]) THEN "yes" ELSE "no"]
    /\ probe' = [probe EXCEPT ![t] = NoProbe]
    /\ UNCHANGED <<queue, current, nextId, permit, proc, claiming>>

\* The questions the program asks: by id of a command it enqueued, and for
\* the two kinds that have a helper.
Questions ==
    [id : 1..nextId - 1, kind : {"any"}]
        \cup [id : {0}, kind : {"ManageOrders", "ClaimSoldItem"}]

-----------------------------------------------------------------------------
CallerStep(t) ==
    \/ \E r \in Requests : Enqueue(t, r) \/ ClaimCheck(t, r)
    \/ ClaimInsert(t)
    \/ \E w \in Questions : ProbeCurrent(t, w)
    \/ ProbeQueue(t)

ProcessorStep ==
    \/ StartCurrent \/ StartNothing \/ Park \/ Wake \/ WakeTimeout
    \/ CompleteCurrent

Next ==
    \/ \E t \in Callers : CallerStep(t)
    \/ ProcessorStep
    \/ Clear
    \/ ClearBazaarOrders
    \/ \E oldest \in 1..nextId - 1 : Peek(oldest)

Spec == Init /\ [][Next]_vars

\* The processor task runs: its only unbounded wait is on notified, and no
\* fairness is assumed of the timeout around it.  Callers owe nothing.
FairSpec ==
    /\ Spec
    /\ WF_vars(StartCurrent)
    /\ WF_vars(StartNothing)
    /\ WF_vars(Park)
    /\ WF_vars(Wake)
    /\ WF_vars(CompleteCurrent)

-----------------------------------------------------------------------------
(* Properties. *)

Before(c, d) == c.prio < d.prio \/ (c.prio = d.prio /\ c.id < d.id)

\* The queue is in service order: by priority, and first come first served
\* within one priority (the insertion point of enqueue, lines 75-81).
ServiceOrder ==
    \A i, j \in DOMAIN queue : i < j => Before(queue[i], queue[j])

\* A command is in one place: queued once, or executing, never both, and a
\* busy processor is the one that holds current_command (start_current and
\* complete_current, lines 128-144).
OnePlace ==
    /\ \A i, j \in DOMAIN queue : queue[i].id = queue[j].id => i = j
    /\ current # NoCmd => \A i \in DOMAIN queue : queue[i].id # current.id
    /\ (proc = "busy") = (current # NoCmd)

\* The queue outgrows MAX_QUEUE_SIZE only when it holds nothing that may be
\* trimmed (lines 83-104).
BoundedUnlessEssential ==
    Len(queue) > MaxQueueSize => Droppable(queue) = {}

\* The commands the comments of enqueue (lines 13-15, 36-39) promise to keep.
Revenue(c) == c.kind \in {"BazaarSellOrder", "SellToAuction", "ManageOrders",
                          "PurchaseAuction"}

\* An enqueue costs at most one command; it is none of those promised to be
\* kept, and everything else droppable was to be served before it.
TrimsTheLast ==
    [][nextId' # nextId =>
        \A c \in ToSet(queue) \ ToSet(queue') :
            /\ ~Revenue(c)
            /\ ToSet(queue) \subseteq ToSet(queue') \cup {c}
            /\ \A d \in ToSet(queue') : Revenue(d) \/ Before(d, c)]_vars

\* No lost wake-up: once the processor has found the queue empty, a command
\* that arrives before or while it waits leaves a permit for it (the comment
\* at src/src/main.rs:4388-4392).
NoLostWakeup ==
    proc \in {"empty", "parked"} /\ queue # <<>> => permit

\* Waiting commands get the processor's attention without the help of the
\* 500 ms timeout.
QueueServed == queue # <<>> ~> (proc = "busy" \/ queue = <<>>)

\* The sequence implements the promise of PendingCommands.
Abstract == INSTANCE PendingCommands WITH
    Capacity <- MaxQueueSize, Keep <- Revenue, Idle <- NoCmd,
    pending <- ToSet(queue), running <- current
Promise == Abstract!Spec

\* What the comments say and the two-lock reads do not give.
\* contains_command_id (lines 252-253): "Returns true if a command with the
\* given ID is still queued or currently executing."
ContainsIsExact ==
    [][\A t \in Callers :
        probe[t].id # 0 /\ probe'[t] = NoProbe /\ answer'[t] = "no"
            => ~(InQueue(probe[t])' \/ InCurrent(probe[t])')]_vars

\* enqueue (lines 49-50): "Collapse duplicates onto the pending one instead
\* of queueing."
OneQueuedClaim ==
    \A i, j \in DOMAIN queue :
        queue[i].kind = "ClaimPurchasedItem" /\ queue[j].kind = "ClaimPurchasedItem"
            => i = j

=============================================================================
