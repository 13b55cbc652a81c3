------------------------------- MODULE Rentals -------------------------------
(***************************************************************************)
(* The instances a backend has a host run (src/src/vps/socket.rs,          *)
(* src/src/vps/types.rs): the connection, the full list that begins it     *)
(* (handle_init), the later changes (handle_config_update), and the task   *)
(* that stops what is no longer paid for, which lives as long as the       *)
(* connection (check_and_stop_expired).                                    *)
(*                                                                         *)
(* start_instance and stop_instance are hooks of the orchestration layer:  *)
(* here they start and stop.  An update that validate refuses has an id,   *)
(* which is all that handle_init reads of it.  A unit of time is the       *)
(* minute between two looks at what has expired; a message is handled in   *)
(* no time, and the connection takes none to come back.                    *)
(***************************************************************************)
EXTENDS Integers, FiniteSets

CONSTANTS
    Id,
    Grace,              \* PAID_UNTIL_GRACE_SECS
    MaxTime             \* bound of the model

VARIABLES
    minute,
    up, ticks,          \* the connection; minutes until its task looks again
    looked,             \* has the task of this connection looked?
    tracked,            \* instances: paid until when, turned off?, running?
    hosted              \* what start_instance has started and nobody stopped

vars == <<minute, up, ticks, looked, tracked, hosted>>

None == [paid |-> 0, off |-> TRUE, running |-> FALSE, there |-> FALSE]
Times == 0..MaxTime
Known == {i \in Id : tracked[i].there}

TypeOK ==
    /\ minute \in Times /\ up \in BOOLEAN /\ ticks \in 0..1 /\ looked \in BOOLEAN
    /\ tracked \in [Id -> [paid : Times, off : BOOLEAN, running : BOOLEAN,
                           there : BOOLEAN]]
    /\ hosted \subseteq Id

Init ==
    /\ minute = 0 /\ up = FALSE /\ ticks = 0 /\ looked = FALSE
    /\ tracked = [i \in Id |-> None] /\ hosted = {}

\* What an update says of an instance.  A time below zero is one that validate
\* refuses, as it refuses an instance without an owner.
Instance == [paid : {-1} \cup Times, off : BOOLEAN]
Valid(u) == u.paid >= 0
Expired(u) == u.paid < minute                               (* is_expired *)
ShouldRun(u) == ~u.off /\ ~Expired(u)
Managed(u) == [paid |-> u.paid, off |-> u.off, running |-> ShouldRun(u), there |-> TRUE]

Hooks(i, u) ==
    IF ShouldRun(u) THEN hosted \cup {i}
    ELSE IF tracked[i].running THEN hosted \ {i} ELSE hosted

-----------------------------------------------------------------------------
Tick ==
    /\ minute < MaxTime /\ minute' = minute + 1
    /\ up => ticks > 0
    /\ ticks' = 0
    /\ UNCHANGED <<up, looked, tracked, hosted>>

\* The task begins with a minute's sleep.
Connect ==
    /\ ~up /\ up' = TRUE /\ ticks' = 1 /\ looked' = FALSE
    /\ UNCHANGED <<minute, tracked, hosted>>

Disconnect ==
    /\ up /\ up' = FALSE /\ ticks' = 0 /\ looked' = FALSE
    /\ UNCHANGED <<minute, tracked, hosted>>

\* handle_init: `list` is a partial function, from ids to updates.  What runs
\* and is not named is stopped; what is named and turned off is not.
HandleInit ==
    /\ up
    /\ \E named \in SUBSET Id : \E list \in [named -> Instance] :
          LET valid == {i \in named : Valid(list[i])}
              gone  == {i \in Known \ named : tracked[i].running}
          IN /\ tracked' = [i \in Id |-> IF i \in valid THEN Managed(list[i])
                                         ELSE IF i \in named THEN tracked[i] ELSE None]
             /\ hosted' = (hosted \ gone) \cup {i \in valid : ShouldRun(list[i])}
    /\ UNCHANGED <<minute, up, ticks, looked>>

\* handle_config_update
HandleConfigUpdate(i, u) ==
    /\ up /\ Valid(u)
    /\ tracked' = [tracked EXCEPT ![i] = Managed(u)]
    /\ hosted' = Hooks(i, u)
    /\ UNCHANGED <<minute, up, ticks, looked>>

\* A plausible bug: the grace is counted twice.
GraceOver_Twice(paid) == minute > paid + 2 * Grace
GraceOver(paid) == minute > paid + Grace

\* check_and_stop_expired
CheckExpired ==
    /\ up /\ ticks = 0 /\ ticks' = 1 /\ looked' = TRUE
    /\ LET over == {i \in Id : tracked[i].running /\ GraceOver(tracked[i].paid)}
       IN /\ hosted' = hosted \ over
          /\ tracked' = [i \in Id |-> [tracked[i] EXCEPT !.running = @ /\ i \notin over]]
    /\ UNCHANGED <<minute, up>>

Next ==
    \/ Tick \/ Connect \/ Disconnect \/ HandleInit \/ CheckExpired
    \/ \E i \in Id, u \in Instance : HandleConfigUpdate(i, u)

Spec == Init /\ [][Next]_vars

-----------------------------------------------------------------------------
(* An instance that is tracked as running runs; and once a connection has   *)
(* lived for a look, the instance outlives what was paid for by the grace   *)
(* and one look at most, whatever updates, lists and earlier connections    *)
(* there were (vps/socket.rs:335-357, 220-261, 279-320).                    *)
PaidTimeEnds ==
    \A i \in Id : tracked[i].running =>
        /\ i \in hosted
        /\ looked => minute <= tracked[i].paid + Grace + 1
=============================================================================
