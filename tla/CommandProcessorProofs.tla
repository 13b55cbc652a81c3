----------------------- MODULE CommandProcessorProofs -----------------------
(***************************************************************************)
(* Proofs about CommandProcessor: its type invariant, and that flows do    *)
(* not overlap as long as every execute_command is through by the first    *)
(* poll and nobody opens an auction by hand.                               *)
(*                                                                         *)
(* The second rests on Outstanding: whatever was sent and is not done with *)
(* has the processor waiting in its poll loop.  The poll loop is left only *)
(* with the channel empty, the executor idle and the bot free.             *)
(***************************************************************************)
EXTENDS CommandProcessor, QueueLemmas

\* The processor holds a command exactly from start_current to complete_current.
Holding == (current # NoCmd) = (pc \notin {"ready", "escape", "manage", "instasell"})

Typed == TypeOK /\ Holding

\* At most one command is in the channel or the executor, before its flow has
\* begun, and while one is, or its flow runs, the processor polls.
Outstanding ==
    /\ channel # <<>> \/ exec # NoCmd \/ ~Allows(botState) => pc = "poll"
    /\ channel # <<>> => Len(channel) = 1 /\ exec = NoCmd /\ Allows(botState)
    /\ exec # NoCmd => Allows(botState)

-----------------------------------------------------------------------------
(* Every queue operation keeps the queue a sequence of requests.           *)
LEMMA QueueTyped ==
  ASSUME NEW q \in Seq(Request), NEW r \in Request
  PROVE  Inserted(q, r) \in Seq(Request)
<1>1. \A x \in Request : x.prio \in Priority BY DEF Request
<1> QED BY <1>1, InsertedType

LEMMA CmdTyped ==
  ASSUME NEW k \in CommandKind, NEW p \in {High, Normal}
  PROVE  Cmd(k, p) \in Request
BY DEF Cmd, Request, Priority

LEMMA InitTyped == Init => Typed
<1> SUFFICES ASSUME Init PROVE Typed OBVIOUS
<1>1. <<>> \in Seq(Request) OBVIOUS
<1>2. TypeOK BY <1>1 DEF Init, TypeOK, Gate, BotState
<1>3. Holding BY DEF Init, Holding
<1> QED BY <1>2, <1>3 DEF Typed

(* The gates, the drops and the escape.                                    *)
LEMMA GatesTyped ==
  ASSUME Typed, Start \/ Gates
  PROVE  Typed'
<1> USE DEF Typed, Holding, procVars, execVars, flags, pause
<1>1. CASE Start
  <2>1. Head(queue) \in Request /\ Tail(queue) \in Seq(Request)
    BY <1>1 DEF Start, TypeOK
  <2> QED BY <1>1, <2>1, ProcessorAssumption DEF Start, TypeOK, Gate
<1>2. CASE GateStartup BY <1>2 DEF GateStartup, TypeOK, Gate
<1>3. CASE GatePause BY <1>3 DEF GatePause, ReadFull, IsFull, TypeOK, Gate
<1>4. CASE GateLimit BY <1>4 DEF GateLimit, TypeOK, Gate
<1>5. CASE SellingTimer BY <1>5 DEF SellingTimer, ReadFull, IsFull, TypeOK, Gate
<1>6. CASE GateFull BY <1>6 DEF GateFull, ReadFull, IsFull, TypeOK, Gate
<1>7. CASE GateLast BY <1>7 DEF GateLast, TypeOK, Gate
<1>8. CASE Drop BY <1>8 DEF Drop, TypeOK, Gate
<1>9. CASE Escape BY <1>9 DEF Escape, TypeOK, Gate
<1>10. CASE EscapeManage
  <2>1. Cmd("ManageOrders", High) \in Request BY CmdTyped DEF CommandKind
  <2>2. queue' \in Seq(Request) BY <1>10, <2>1, QueueTyped DEF EscapeManage, TypeOK
  <2> QED BY <1>10, <2>2 DEF EscapeManage, TypeOK, Gate
<1>11. CASE EscapeInstaSell
  <2>1. Cmd("SellInventoryBz", High) \in Request BY CmdTyped DEF CommandKind
  <2>2. queue' \in Seq(Request)
    BY <1>11, <2>1, QueueTyped DEF EscapeInstaSell, TypeOK
  <2> QED BY <1>11, <2>2 DEF EscapeInstaSell, TypeOK, Gate
<1>12. CASE Send
  <2>1. current \in Request BY <1>12 DEF Send, TypeOK
  <2>2. channel' \in Seq(Request) BY <1>12, <2>1 DEF Send, TypeOK
  <2> QED BY <1>12, <2>2 DEF Send, TypeOK, Gate
<1> QED BY <1>1, <1>2, <1>3, <1>4, <1>5, <1>6, <1>7, <1>8, <1>9, <1>10, <1>11,
           <1>12 DEF Gates

(* The poll loop, the executor and the flows.                              *)
LEMMA ExecutionTyped ==
  ASSUME Typed, Poll \/ PollTimeout \/ Executor \/ FlowDone
  PROVE  Typed'
<1> USE DEF Typed, Holding, procVars, execVars, flags, pause
<1>1. CASE Poll \/ PollTimeout
  <2>1. /\ Completed
        /\ botState' = botState \/ botState' = "Idle"
    BY <1>1 DEF Poll, PollDone, PollInterrupt, PollTimeout
  <2>2. botState' \in BotState BY <2>1 DEF TypeOK, BotState
  <2> QED BY <2>1, <2>2 DEF Completed, TypeOK, Gate
<1>2. CASE ExecTake
  <2>1. Head(channel) \in Request /\ Tail(channel) \in Seq(Request)
    BY <1>2 DEF ExecTake, TypeOK
  <2> QED BY <1>2, <2>1 DEF ExecTake, TypeOK
<1>3. CASE ExecDone
  <2>1. botState' \in BotState
    <3>1. botState' = botState
            \/ (exec.kind \in DOMAIN BotStateOf /\ botState' = BotStateOf[exec.kind])
      BY <1>3 DEF ExecDone
    <3> QED BY <3>1 DEF TypeOK, BotState
  <2> QED BY <1>3, <2>1 DEF ExecDone, TypeOK
<1>4. CASE FlowDone BY <1>4 DEF FlowDone, TypeOK, BotState
<1> QED BY <1>1, <1>2, <1>3, <1>4 DEF Executor

(* The rest of the program.                                                *)
LEMMA OthersTyped ==
  ASSUME Typed,
         \/ Countdown \/ Watcher
         \/ \E r \in Requests : Enqueue(r)
         \/ StartupBegins \/ StartupEnds \/ Login
         \/ RoomChanges \/ LimitsChange
         \/ OperatorPauses \/ OperatorClears \/ AutoBuy
  PROVE  Typed'
<1> USE DEF Typed, Holding, procVars, execVars, flags, pause
<1>1. CASE Countdown
  <2>1. UNCHANGED <<queue, current, pc, channel, exec>> BY <1>1 DEF Countdown
  <2>2. TypeOK' BY <1>1, <2>1 DEF Countdown, TypeOK, BotState
  <2> QED BY <2>1, <2>2
<1>2. CASE Resume
  <2>1. UNCHANGED <<queue, current, pc, channel, exec, botState, startup, fullFlag,
                    room, sellingSince, limited, macroPaused, countdown>>
    BY <1>2 DEF Resume
  <2>2. paused' = FALSE /\ watcher' = "current" BY <1>2 DEF Resume
  <2>3. /\ paused' \in BOOLEAN
        /\ watcher' \in {"none", "wait", "current", "queue", "enqueue"}
    BY <2>2
  <2>4. TypeOK' BY <2>1, <2>3 DEF TypeOK
  <2> QED BY <2>1, <2>4
<1>3. CASE ResumeCurrent BY <1>3 DEF ResumeCurrent, TypeOK
<1>4. CASE ResumeQueue BY <1>4 DEF ResumeQueue, TypeOK
<1>5. CASE ResumeEnqueue
  <2>1. Cmd("ManageOrders", Normal) \in Request BY CmdTyped DEF CommandKind
  <2>2. queue' \in Seq(Request)
    BY <1>5, <2>1, QueueTyped DEF ResumeEnqueue, TypeOK
  <2> QED BY <1>5, <2>2 DEF ResumeEnqueue, TypeOK
<1>6. CASE \E r \in Requests : Enqueue(r)
  <2>1. PICK r \in Requests : Enqueue(r) BY <1>6
  <2>2. r \in Request BY ProcessorAssumption
  <2>3. queue' \in Seq(Request) BY <2>1, <2>2, QueueTyped DEF Enqueue, TypeOK
  <2> QED BY <2>1, <2>3 DEF Enqueue, TypeOK
<1>7. CASE RoomChanges
  <2>1. UNCHANGED <<queue, current, pc, channel, exec>> BY <1>7 DEF RoomChanges
  <2>2. room' \in {"none", "few", "some"} BY <1>7 DEF RoomChanges, TypeOK
  <2>3. fullFlag' = fullFlag \/ fullFlag' = TRUE \/ fullFlag' = FALSE
    BY <1>7 DEF RoomChanges
  <2>4. fullFlag' \in BOOLEAN BY <2>3 DEF TypeOK
  <2>5. UNCHANGED <<botState, pause, startup, sellingSince, limited, macroPaused>>
    BY <1>7 DEF RoomChanges
  <2>6. TypeOK' BY <2>1, <2>2, <2>4, <2>5 DEF TypeOK
  <2> QED BY <2>1, <2>6
<1>8. CASE StartupBegins \/ StartupEnds \/ Login
  <2>1. UNCHANGED <<queue, current, pc, channel, exec, pause, fullFlag, room,
                    sellingSince, limited, macroPaused>>
    BY <1>8 DEF StartupBegins, StartupEnds, Login
  <2>2. startup' \in BOOLEAN /\ botState' \in BotState
    BY <1>8 DEF StartupBegins, StartupEnds, Login, TypeOK, BotState
  <2> QED BY <2>1, <2>2 DEF TypeOK
<1>9. CASE LimitsChange BY <1>9 DEF LimitsChange, TypeOK
<1>10. CASE OperatorPauses BY <1>10 DEF OperatorPauses, TypeOK
<1>11. CASE OperatorClears
  <2>1. <<>> \in Seq(Request) OBVIOUS
  <2> QED BY <1>11, <2>1 DEF OperatorClears, TypeOK
<1>12. CASE AutoBuy
  <2>1. "Purchasing" \in BotState
    <3>1. "PurchaseAuction" \in DOMAIN BotStateOf
            /\ BotStateOf["PurchaseAuction"] = "Purchasing"
      BY DEF BotStateOf
    <3> QED BY <3>1 DEF BotState
  <2> QED BY <1>12, <2>1 DEF AutoBuy, TypeOK
<1> QED BY <1>1, <1>2, <1>3, <1>4, <1>5, <1>6, <1>7, <1>8, <1>9, <1>10, <1>11,
           <1>12 DEF Watcher

(* Typed is inductive.                                                     *)
LEMMA NextTyped == Typed /\ [Next]_vars => Typed'
<1> SUFFICES ASSUME Typed, [Next]_vars PROVE Typed' OBVIOUS
<1>1. CASE UNCHANGED vars
  BY <1>1 DEF vars, procVars, execVars, flags, pause, Typed, TypeOK, Holding
<1>2. CASE Next
  BY <1>2, GatesTyped, ExecutionTyped, OthersTyped DEF Next
<1> QED BY <1>1, <1>2

(* The state of the processor, the executor and the flags has its type in  *)
(* every reachable state; in particular only commands that were queued     *)
(* reach the channel and the executor.                                     *)
THEOREM ProcessorTypeCorrect == Spec => []TypeOK
<1>1. Typed => TypeOK BY DEF Typed
<1> QED BY <1>1, InitTyped, NextTyped, PTL DEF Spec

-----------------------------------------------------------------------------
(* Flows do not overlap.  These steps take the assumption that by the      *)
(* first poll every execute_command is through.                            *)
LEMMA OutstandingStep ==
  ASSUME Slow = {}, "hand" \notin Varying, Typed, Outstanding, [Next]_vars
  PROVE  Outstanding'
<1> USE DEF procVars, execVars, flags, pause
<1>1. CASE UNCHANGED vars BY <1>1 DEF vars, Outstanding
<1>2. CASE Start \/ Gates
  <2>1. CASE Send
    <3>1. channel = <<>> /\ exec = NoCmd /\ Allows(botState)
      BY <2>1 DEF Send, Outstanding
    <3>2. channel' = <<current>> /\ Len(<<current>>) = 1
      BY <2>1, <3>1 DEF Send
    <3>3. UNCHANGED <<exec, botState>> /\ pc' = "poll" BY <2>1 DEF Send
    <3> QED BY <3>1, <3>2, <3>3 DEF Outstanding
  <2>2. CASE ~Send
    <3>1. UNCHANGED <<channel, exec, botState>> /\ pc # "poll"
      BY <1>2, <2>2 DEF Gates, Start, GateStartup, GatePause, GateLimit,
         SellingTimer, GateFull, GateLast, Drop, Escape, EscapeManage,
         EscapeInstaSell
    <3> QED BY <3>1 DEF Outstanding
  <2> QED BY <2>1, <2>2
<1>3. CASE Poll \/ PollTimeout
  <2>1. /\ channel = <<>> /\ exec = NoCmd
        /\ Allows(botState')
        /\ UNCHANGED <<channel, exec>>
    BY <1>3 DEF Poll, PollDone, PollInterrupt, PollTimeout, Completed, FirstPollDue,
       Allows
  <2> QED BY <2>1 DEF Outstanding, Allows
<1>4. CASE ExecTake
  <2>1. /\ pc = "poll" /\ Len(channel) = 1 /\ Allows(botState)
        /\ UNCHANGED <<pc, botState>>
    BY <1>4 DEF ExecTake, Outstanding
  <2>2. channel' = <<>> BY <1>4, <2>1 DEF ExecTake, Typed, TypeOK
  <2> QED BY <2>1, <2>2 DEF Outstanding, Allows
<1>5. CASE ExecDone
  <2>1. /\ pc = "poll" /\ channel = <<>> /\ exec' = NoCmd
        /\ UNCHANGED <<pc, channel>>
    BY <1>5 DEF ExecDone, Outstanding
  <2> QED BY <2>1 DEF Outstanding
<1>6. CASE FlowDone
  BY <1>6 DEF FlowDone, Outstanding, Allows
<1>7. CASE Countdown
  <2>1. /\ UNCHANGED <<pc, channel, exec>>
        /\ botState' = botState \/ botState' = "Idle"
    BY <1>7 DEF Countdown
  <2> QED BY <2>1 DEF Outstanding, Allows
<1>8. CASE \/ Watcher \/ \E r \in Requests : Enqueue(r)
           \/ RoomChanges \/ StartupBegins \/ LimitsChange
           \/ OperatorPauses \/ OperatorClears
  <2>1. UNCHANGED <<pc, channel, exec, botState>>
    BY <1>8 DEF Watcher, Resume, ResumeCurrent, ResumeQueue, ResumeEnqueue, Enqueue,
       RoomChanges, StartupBegins, LimitsChange, OperatorPauses, OperatorClears
  <2> QED BY <2>1 DEF Outstanding
<1>9. CASE AutoBuy BY <1>9 DEF AutoBuy
<1>10. CASE StartupEnds \/ Login
  <2>1. /\ UNCHANGED <<pc, channel, exec>>
        /\ botState' = botState \/ Allows(botState')
    BY <1>10 DEF StartupEnds, Login, Allows
  <2> QED BY <2>1 DEF Outstanding, Allows
<1> QED BY <1>1, <1>2, <1>3, <1>4, <1>5, <1>6, <1>7, <1>8, <1>9, <1>10 DEF Next, Executor

(* As long as execute_command is through by the first poll, and nobody     *)
(* opens an auction by hand, the executor begins a command only when no    *)
(* flow is under way (types.rs:242): the poll loop is what separates them. *)
THEOREM FlowsDoNotOverlap ==
  ASSUME Slow = {}, "hand" \notin Varying
  PROVE  Spec => BusyAcceptsNothing
<1>1. Init => Typed /\ Outstanding
  BY InitTyped DEF Init, Outstanding, Allows
<1>2. Typed /\ Outstanding /\ [Next]_vars => Typed' /\ Outstanding'
  BY NextTyped, OutstandingStep
<1>3. Typed /\ Outstanding /\ [Next]_vars
        => [exec = NoCmd /\ exec' # NoCmd => Allows(botState)]_vars
  <2> SUFFICES ASSUME Typed, Outstanding, Next, exec = NoCmd, exec' # NoCmd
               PROVE  Allows(botState)
    OBVIOUS
  <2>1. exec' # exec OBVIOUS
  <2>2. ExecTake \/ ExecDone
    BY <2>1 DEF Next, Gates, Start, GateStartup, GatePause, GateLimit, SellingTimer,
       GateFull, GateLast, Drop, Escape, EscapeManage, EscapeInstaSell, Send, Poll,
       PollDone, PollInterrupt, PollTimeout, Completed, Executor, FlowDone, Countdown,
       Watcher, Resume, ResumeCurrent, ResumeQueue, ResumeEnqueue, Enqueue,
       RoomChanges, StartupBegins, StartupEnds, Login, LimitsChange, OperatorPauses,
       OperatorClears, AutoBuy, procVars, execVars
  <2>3. channel # <<>> BY <2>2 DEF ExecTake, ExecDone
  <2> QED BY <2>3 DEF Outstanding
<1> QED BY <1>1, <1>2, <1>3, PTL DEF Spec, BusyAcceptsNothing

=============================================================================
