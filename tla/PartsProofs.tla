---------------------------- MODULE PartsProofs ----------------------------
(***************************************************************************)
(* Proofs about the startup, about the other window flows, and about all   *)
(* the parts side by side.                                                 *)
(*                                                                         *)
(* StartupWorkflow: its type invariant; that a set flag always has an      *)
(* owner, over any number of connections; and that over one connection     *)
(* there is one owner.  The argument of FlagHeld is that no action takes a *)
(* working task's place from it.  Two assign a task without a look at      *)
(* where it stands, Login and ChatMark: Unlaunched says that the task they *)
(* start was never started before.                                         *)
(*                                                                         *)
(* BazaarPlacement and CookieCheck: their types, which need that the       *)
(* processor has a command while it executes.  OrderInv follows a bazaar   *)
(* order from the command to the confirmation: every packet on its way has *)
(* an owner, the command it speaks for.  CookieAsked counts cookies: a     *)
(* check that has been executed has bought one, or sent the click that     *)
(* does, or may still do so, and of the three one.                         *)
(***************************************************************************)
EXTENDS AuctionProofs, FiniteSetTheorems

Future == \A t \in Task : t[2] > conn => wf[t] = "none"

Unlaunched ==
    /\ events # {} \/ joinTime \/ chatSaw => conn > 0
    /\ chatSaw => "login" \notin events /\ wf[<<"chat", conn>>] = "none"
    /\ conn > 0 /\ ~teleported /\ "login" \notin events => wf[<<"chat", conn>>] = "none"
    /\ "login" \in events => wf[<<"chat", conn>>] = "none" /\ wf[<<"dog", conn>>] = "none"

Asked == \A t \in Task : wf[t] = "wait" => step[t] <= LastStep

FlagInv == TypeOK /\ Asked /\ Future /\ Unlaunched /\ FlagHeld

\* With one connection: the flag is set exactly by a task that works.
SoleInv ==
    /\ FlagInv
    /\ OneWorkflow
    /\ Guarded

-----------------------------------------------------------------------------
LEMMA InitInv == Init => SoleInv
<1> SUFFICES ASSUME Init PROVE SoleInv OBVIOUS
<1> USE StartupAssumption DEF Init
<1>1. TypeOK
  <2>1. <<>> \in Seq(Command) OBVIOUS
  <2>2. step \in [Task -> 1..LastStep + 1] /\ wonIn \in [Task -> 0..MaxConnections]
    BY DEF LastStep
  <2>3. wf \in [Task -> Working \cup {"none", "sleep", "travel", "emit", "done",
                                    "gaveUp", "duplicate"}]
    OBVIOUS
  <2>5. conn \in 0..MaxConnections /\ executor \in 0..MaxConnections
    OBVIOUS
  <2>6. toggles \in 0..MaxToggles /\ running \in Command \cup {NoCmd} OBVIOUS
  <2>4. enabled \in BOOLEAN /\ open \in BOOLEAN /\ tracked \in BOOLEAN OBVIOUS
  <2> QED BY <2>1, <2>2, <2>3, <2>4, <2>5, <2>6 DEF TypeOK
<1>2. Future /\ Unlaunched /\ FlagHeld /\ Asked
  BY DEF Future, Unlaunched, FlagHeld, Asked
<1>3. OneWorkflow /\ Guarded BY DEF OneWorkflow, Guarded, Working
<1> QED BY <1>1, <1>2, <1>3 DEF SoleInv, FlagInv

(* The events of a connection, which assign wf at a task of their own.     *)
LEMMA EventsKeep ==
  ASSUME FlagInv, Connect \/ Login \/ Spawned \/ ChatSee \/ ChatMark
  PROVE  FlagInv'
<1> USE DEF session, join, work, cmds, orders
<1> USE StartupAssumption DEF FlagInv
<1>t. "chat" \in {"chat", "dog"} /\ "dog" \in {"chat", "dog"} OBVIOUS
<1>0. \A k \in {"chat", "dog"} : conn > 0 => <<k, conn>> \in Task
  BY DEF TypeOK, Task, Connection
<1>1. CASE Connect
  <2>1. TypeOK' BY <1>1 DEF Connect, TypeOK
  <2>2. conn' = conn + 1 /\ wf' = wf /\ conn + 1 \in Connection /\ conn \in Nat
    BY <1>1 DEF Connect, TypeOK, Connection
  <2>3. \A k \in {"chat", "dog"} : wf[<<k, conn + 1>>] = "none"
    BY <2>2 DEF Future, Task
  <2>4. Future' BY <2>2 DEF Future, Task, Connection
  <2>5. Unlaunched' BY <1>1, <2>2, <2>3 DEF Unlaunched, Connect
  <2>6. FlagHeld' /\ Asked' BY <1>1 DEF FlagHeld, Asked, Connect
  <2> QED BY <2>1, <2>4, <2>5, <2>6
<1>2. CASE Login
  <2>1. <<"dog", conn>> \in Task /\ conn > 0 BY <1>2, <1>0 DEF Login, Unlaunched
  <2>2. TypeOK' BY <1>2, <2>1 DEF Login, FirstEvent, TypeOK
  <2>3. Future' BY <1>2, <2>1 DEF Login, Future, TypeOK
  <2>4. wf'[<<"chat", conn>>] = "none" BY <1>2, <2>1, <1>0 DEF Login, Unlaunched, TypeOK
  <2>5. Unlaunched' BY <1>2, <2>1, <2>4 DEF Unlaunched, Login
  <2>6. FlagHeld' /\ Asked' BY <1>2, <2>1 DEF FlagHeld, Asked, Login, TypeOK
  <2> QED BY <2>2, <2>3, <2>5, <2>6
<1>3. CASE Spawned
  <2>1. TypeOK' BY <1>3 DEF Spawned, FirstEvent, TypeOK
  <2>2. Future' BY <1>3 DEF Spawned, Future
  <2>3. FlagHeld' /\ Asked' BY <1>3 DEF Spawned, FlagHeld, Asked
  <2> QED BY <1>3, <2>1, <2>2, <2>3 DEF Spawned, Unlaunched
<1>4. CASE ChatSee
  <2>1. TypeOK' BY <1>4 DEF ChatSee, TypeOK
  <2>2. Future' /\ FlagHeld' /\ Asked' BY <1>4 DEF ChatSee, Future, FlagHeld, Asked
  <2> QED BY <1>4, <2>1, <2>2 DEF ChatSee, Unlaunched
<1>5. CASE ChatMark
  <2>1. <<"chat", conn>> \in Task /\ conn > 0 BY <1>5, <1>0 DEF ChatMark, Unlaunched
  <2>2. TypeOK' BY <1>5, <2>1 DEF ChatMark, TypeOK
  <2>3. Future' BY <1>5, <2>1 DEF ChatMark, Future, TypeOK
  <2>4. Unlaunched' BY <1>5, <2>1 DEF Unlaunched, ChatMark
  <2>5. \A t \in Task : wf[t] \in Working => wf'[t] = wf[t]
    BY <1>5, <2>1 DEF ChatMark, Unlaunched, TypeOK, Working
  <2>6. FlagHeld' BY <1>5, <2>5 DEF ChatMark, FlagHeld
  <2>7. Asked' BY <1>5, <2>1 DEF ChatMark, Asked, TypeOK
  <2> QED BY <2>2, <2>3, <2>4, <2>6, <2>7
<1> QED BY <1>1, <1>2, <1>3, <1>4, <1>5

(* What the steps of a workflow have in common: they leave the connection  *)
(* alone and move one task that was started.                               *)
LEMMA TaskFrame ==
  ASSUME TypeOK, NEW t \in Task, Advances(t) \/ TimesOut(t)
  PROVE  /\ UNCHANGED <<session, joinTime, chatSaw>>
         /\ wf[t] # "none"
         /\ \A u \in Task : u # t => wf'[u] = wf[u]
         /\ teleported => teleported'
<1> USE DEF TypeOK
<1>1. CASE Watchdog(t) BY <1>1 DEF Watchdog
<1>2. CASE Swap(t) BY <1>2 DEF Swap, Goes, join
<1>3. CASE Enter(t) \/ GiveUp(t) BY <1>3 DEF Enter, GiveUp, Goes, join
<1>4. CASE Ask(t) BY <1>4 DEF Ask, join
<1>5. CASE Answered(t) \/ TimesOut(t) BY <1>5 DEF Answered, TimesOut, Proceed, Goes, join
<1>6. CASE Clear(t) \/ Emit(t) BY <1>6 DEF Clear, Emit, Goes, join
<1> QED BY <1>1, <1>2, <1>3, <1>4, <1>5, <1>6 DEF Advances

LEMMA TaskTyped ==
  ASSUME TypeOK, Future, Asked, NEW t \in Task, Advances(t) \/ TimesOut(t)
  PROVE  TypeOK' /\ Asked'
<1> USE StartupAssumption DEF TypeOK, Asked, session, join, work, cmds, orders
<1>1. CASE Watchdog(t) BY <1>1 DEF Watchdog
<1>2. CASE Swap(t)
  <2>1. wf[t] = "travel" BY <1>2 DEF Swap, Goes
  <2>0. ~(t[2] > conn) BY <2>1 DEF Future
  <2>a. t[2] \in Nat /\ t[2] > 0 BY DEF Task, Connection
  <2>2. conn > 0 BY <2>0, <2>a
  <2>3. LoggedIn \in 0..MaxConnections BY <2>2 DEF LoggedIn
  <2>4. wonIn' \in [Task -> 0..MaxConnections] BY <1>2, <2>3 DEF Swap
  <2>5. \E s \in {"duplicate", "enter"} : wf' = [wf EXCEPT ![t] = s]
    BY <1>2 DEF Swap, Goes
  <2> QED BY <1>2, <2>4, <2>5 DEF Swap, Working
<1>3. CASE Enter(t) \/ GiveUp(t) BY <1>3 DEF Enter, GiveUp, Goes, Working
<1>4. CASE Ask(t)
  <2>1. PICK s \in step[t]..LastStep : /\ step' = [step EXCEPT ![t] = s]
                                       /\ queue' = Append(queue, <<t, s>>)
    BY <1>4 DEF Ask
  <2>2. s \in 1..LastStep BY DEF LastStep
  <2>3. <<t, s>> \in Command BY <2>2 DEF Command
  <2>4. step' \in [Task -> 1..LastStep + 1] BY <2>1, <2>2 DEF LastStep
  <2>5. queue' \in Seq(Command) BY <2>1, <2>3
  <2> QED BY <1>4, <2>1, <2>2, <2>4, <2>5 DEF Ask, Working
<1>5. CASE Answered(t) \/ TimesOut(t)
  <2>1. Proceed(t) BY <1>5 DEF Answered, TimesOut
  <2>2. step[t] + 1 \in 1..LastStep + 1 BY <2>1 DEF Proceed, Goes, LastStep
  <2>3. step' \in [Task -> 1..LastStep + 1] BY <2>1, <2>2 DEF Proceed
  <2> QED BY <2>1, <2>3 DEF Proceed, Goes, Working
<1>6. CASE Clear(t) BY <1>6 DEF Clear, Goes, Working
<1>7. CASE Emit(t) BY <1>7 DEF Emit, Goes, Working
<1> QED BY <1>1, <1>2, <1>3, <1>4, <1>5, <1>6, <1>7 DEF Advances

LEMMA TaskKeeps ==
  ASSUME FlagInv, NEW t \in Task, Advances(t) \/ TimesOut(t)
  PROVE  FlagInv'
<1> USE DEF FlagInv, session, join, work
<1>1. TypeOK' /\ Asked' BY TaskTyped
<1>2. Future' BY TaskFrame DEF Future, session
<1>3. Unlaunched'
  <2>0. \A k \in {"chat", "dog"} : conn > 0 => <<k, conn>> \in Task
    BY DEF TypeOK, Task, Connection
  <2>1. \A k \in {"chat", "dog"} :
           conn > 0 /\ wf[<<k, conn>>] = "none" => wf'[<<k, conn>>] = "none"
    BY <2>0, TaskFrame
  <2> QED BY <2>1, TaskFrame DEF Unlaunched, session
<1>4. FlagHeld'
  <2>1. CASE Watchdog(t) BY <2>1 DEF Watchdog, FlagHeld, TypeOK, Working
  <2>2. CASE Swap(t)
    <3>1. CASE flag
      <4>1. \A u \in Task : wf[u] \in Working => wf'[u] = wf[u]
        BY <2>2, <3>1 DEF Swap, Goes, TypeOK, Working
      <4> QED BY <2>2, <3>1, <4>1 DEF FlagHeld
    <3>2. CASE ~flag BY <2>2, <3>2 DEF Swap, Goes, FlagHeld, TypeOK, Working
    <3> QED BY <3>1, <3>2
  <2>3. CASE Enter(t) BY <2>3 DEF Enter, Goes, FlagHeld, TypeOK, Working
  <2>4. CASE GiveUp(t) BY <2>4 DEF GiveUp, FlagHeld
  <2>5. CASE Ask(t) BY <2>5 DEF Ask, FlagHeld, TypeOK, Working
  <2>6. CASE Answered(t) \/ TimesOut(t)
    BY <2>6 DEF Answered, TimesOut, Proceed, Goes, FlagHeld, TypeOK, Working
  <2>7. CASE Clear(t) BY <2>7 DEF Clear, FlagHeld
  <2>8. CASE Emit(t) BY <2>8 DEF Emit, Goes, FlagHeld, TypeOK, Working
  <2> QED BY <2>1, <2>2, <2>3, <2>4, <2>5, <2>6, <2>7, <2>8 DEF Advances
<1> QED BY <1>1, <1>2, <1>3, <1>4

(* The rest of the program touches none of it.                             *)
LEMMA RestKeeps ==
  ASSUME FlagInv, Begin \/ End \/ Complete \/ Toggle \/ UNCHANGED vars
  PROVE  FlagInv' /\ UNCHANGED <<session, join, flag, work>>
<1> USE StartupAssumption DEF FlagInv, session, join, work, cmds, orders
<1>1. CASE Begin
  <2>1. Head(queue) \in Command /\ Tail(queue) \in Seq(Command)
    BY <1>1 DEF Begin, TypeOK
  <2> QED BY <1>1, <2>1 DEF Begin, TypeOK, Asked, Future, Unlaunched, FlagHeld
<1>2. CASE End BY <1>2 DEF End, TypeOK, Asked, Future, Unlaunched, FlagHeld
<1>3. CASE Complete BY <1>3 DEF Complete, TypeOK, Asked, Future, Unlaunched, FlagHeld
<1>4. CASE Toggle BY <1>4 DEF Toggle, TypeOK, Asked, Future, Unlaunched, FlagHeld
<1>5. CASE UNCHANGED vars BY <1>5 DEF vars, TypeOK, Asked, Future, Unlaunched, FlagHeld
<1> QED BY <1>1, <1>2, <1>3, <1>4, <1>5

LEMMA FlagInvStep == FlagInv /\ [Next]_vars => FlagInv'
BY EventsKeep, TaskKeeps, RestKeeps DEF Next, OnTime

\* Every variable keeps its type, over any number of connections.
THEOREM StartupTypeCorrect == Spec => []TypeOK
<1>1. Init => FlagInv BY InitInv DEF SoleInv
<1>2. FlagInv => TypeOK BY DEF FlagInv
<1> QED BY <1>1, <1>2, FlagInvStep, PTL DEF Spec

\* startup_in_progress never stays set without a workflow that will reset it,
\* whatever connections come and go (client.rs:2451-2458).
THEOREM FlagAlwaysHeld == Spec => []FlagHeld
<1>1. Init => FlagInv BY InitInv DEF SoleInv
<1>2. FlagInv => FlagHeld BY DEF FlagInv
<1> QED BY <1>1, <1>2, FlagInvStep, PTL DEF Spec

-----------------------------------------------------------------------------
(* One connection. *)
LEMMA SoleInvStep ==
  ASSUME MaxConnections = 1, SoleInv, [Next]_vars
  PROVE  SoleInv'
<1> USE DEF SoleInv
<1>1. FlagInv' BY FlagInvStep
<1>2. CASE Connect BY <1>1, <1>2 DEF Connect, work, OneWorkflow, Guarded
<1>3. CASE Login
  <2>1. conn = 1 BY <1>3 DEF Login, FlagInv, Unlaunched, TypeOK
  <2>2. \A t \in Task : wf[t] = "none"
    BY <1>3, <2>1 DEF Login, FlagInv, Unlaunched, Task, Connection
  <2>3. \A t \in Task : wf'[t] \notin Working
    BY <1>3, <2>2 DEF Login, FlagInv, TypeOK, Working
  <2> QED BY <1>1, <2>3 DEF OneWorkflow, Guarded
<1>4. CASE Spawned \/ ChatSee
  BY <1>1, <1>4 DEF Spawned, ChatSee, work, OneWorkflow, Guarded
<1>5. CASE ChatMark
  <2>1. \A t \in Task : wf'[t] \in Working => wf'[t] = wf[t]
    BY <1>5 DEF ChatMark, FlagInv, TypeOK, Working
  <2> QED BY <1>1, <1>5, <2>1 DEF ChatMark, OneWorkflow, Guarded
<1>6. ASSUME NEW t \in Task, Advances(t) \/ TimesOut(t)
      PROVE  OneWorkflow' /\ Guarded'
  <2> USE <1>6
  <2>0. \A u \in Task : u # t => wf'[u] = wf[u] BY TaskFrame DEF FlagInv
  <2>1. CASE wf[t] \in Working
    <3>1. \A u \in Task : u # t => wf'[u] \notin Working BY <2>0, <2>1 DEF OneWorkflow
    <3>2. wf'[t] \in Working => flag' = flag
      BY <2>1 DEF Advances, Watchdog, Swap, Enter, GiveUp, Ask, Answered, TimesOut,
                  Proceed, Clear, Emit, Goes, Working, FlagInv, TypeOK
    <3> QED BY <2>1, <3>1, <3>2 DEF OneWorkflow, Guarded
  <2>2. CASE wf[t] \notin Working /\ wf'[t] \in Working
    <3>1. ~flag /\ flag' = TRUE
      BY <2>2 DEF Advances, Watchdog, Swap, Enter, GiveUp, Ask, Answered, TimesOut,
                  Proceed, Clear, Emit, Goes, Working, FlagInv, TypeOK
    <3>2. \A u \in Task : wf[u] \notin Working BY <3>1 DEF Guarded
    <3> QED BY <2>0, <3>1, <3>2 DEF OneWorkflow, Guarded
  <2>3. CASE wf[t] \notin Working /\ wf'[t] \notin Working
    <3>1. flag => flag'
      BY <2>3 DEF Advances, Watchdog, Swap, Enter, GiveUp, Ask, Answered, TimesOut,
                  Proceed, Clear, Emit, Goes, Working
    <3> QED BY <2>0, <2>3, <3>1 DEF OneWorkflow, Guarded
  <2> QED BY <2>1, <2>2, <2>3
<1>7. CASE Begin \/ End \/ Complete \/ Toggle \/ UNCHANGED vars
  BY <1>1, <1>7, RestKeeps DEF work, OneWorkflow, Guarded
<1> QED BY <1>1, <1>2, <1>3, <1>4, <1>5, <1>6, <1>7 DEF Next, OnTime

\* Over one connection the chat handler and the watchdog start one workflow
\* between them, and the flag is set all the while it works.
THEOREM OneStartupPerConnection ==
  ASSUME MaxConnections = 1
  PROVE  Spec => [](OneWorkflow /\ Guarded)
<1>1. Init => SoleInv BY InitInv
<1>2. SoleInv /\ [Next]_vars => SoleInv' BY SoleInvStep
<1>3. SoleInv => OneWorkflow /\ Guarded BY DEF SoleInv
<1> QED BY <1>1, <1>2, <1>3, PTL DEF Spec

-----------------------------------------------------------------------------
(* Bazaar orders. *)

PlacementPacket ==
    [op : {"bz"}, item : Goods] \cup [op : {"sign"}, text : Placement!Number]
    \cup [op : {"click"}, win : Placement!Window, slot : {"buy", "sell", "item", "custom", "confirm"}]
    \cup [op : {"close"}, win : Placement!Window]
PlacementEvent ==
    ({"open"} \X Placement!Window \X Placement!Pages)
    \cup {<<"close">>, <<"sign">>, <<"limit">>, <<"reject">>}
PlacementTask ==
    [pc : {"none", "start", "button", "find", "ready", "report", "custom"},
     page : Placement!Pages \cup {"none"}, item : Goods \cup {"none"}, buy : BOOLEAN,
     step : Placement!Steps]

\* A handler that has read the order has its item.
PlacementInv ==
    /\ Placement!TypeOK
    /\ sent \in Seq(PlacementPacket) /\ pending \in Seq(PlacementEvent)
    /\ handler \in [Placement!Window -> PlacementTask]
    /\ \A w \in Placement!Window : handler[w].pc \notin {"none", "start"} => handler[w].item \in Goods
    /\ asked \in [Placement!Command -> [item : Goods, buy : BOOLEAN]]
    /\ exec = "close" => begun # 0

LEMMA PlacementPackets ==
  /\ \A i \in Goods : Placement!Bz(i) \in PlacementPacket
  /\ \A n \in Placement!Number : Placement!Sign(n) \in PlacementPacket
  /\ \A w \in Placement!Window :
        /\ \A s \in {"buy", "sell", "item", "custom", "confirm"} : Placement!Click(w, s) \in PlacementPacket
        /\ [op |-> "close", win |-> w] \in PlacementPacket
        /\ Placement!NextId(w) \in Placement!Window
BY PartsAssumption DEF PlacementPacket, Placement!Bz, Placement!Sign, Placement!Click, Placement!Window,
   Placement!NextId

LEMMA PlacementJoins ==
  ASSUME PlacementInv, NEW p \in PlacementPacket, sent' = Append(sent, p)
  PROVE  sent' \in Seq(PlacementPacket)
BY DEF PlacementInv

LEMMA PlacementCloses ==
  ASSUME PlacementInv, NEW w \in Placement!Window, Placement!SendClose(w)
  PROVE  sent' \in Seq(PlacementPacket) /\ lastWindow' \in 0..MaxWindow
<1> DEFINE p == [op |-> "close", win |-> w]
<1>1. p \in PlacementPacket /\ sent' = Append(sent, p) /\ lastWindow' = 0
  BY PlacementPackets DEF Placement!SendClose
<1> HIDE DEF p
<1>2. 0 \in 0..MaxWindow BY PartsAssumption
<1> QED BY <1>1, <1>2, PlacementJoins

LEMMA PlacementWindow ==
  ASSUME PlacementInv
  PROVE  /\ lastWindow # 0 => lastWindow \in Placement!Window
         /\ lastWindow \in 0..MaxWindow /\ 0 \in 0..MaxWindow /\ Placement!Window \subseteq 0..MaxWindow
BY PartsAssumption DEF PlacementInv, Placement!TypeOK, Placement!Window

(* What a handler becomes.                                                  *)
LEMMA PlacementEnds ==
  ASSUME PlacementInv, NEW w \in Placement!Window, Placement!Ends(w)
  PROVE  /\ handler' \in [Placement!Window -> PlacementTask]
         /\ \A v \in Placement!Window : handler'[v].pc \notin {"none", "start"} => handler'[v].item \in Goods
<1>1. Placement!Off \in PlacementTask /\ Placement!Off.pc = "none"
  BY DEF Placement!Off, PlacementTask, Placement!Steps
<1>2. handler' = [handler EXCEPT ![w] = Placement!Off] BY DEF Placement!Ends
<1> QED BY <1>1, <1>2 DEF PlacementInv

LEMMA PlacementBecomes ==
  ASSUME PlacementInv, NEW w \in Placement!Window, handler[w].pc \notin {"none", "start"},
         NEW pc \in {"none", "start", "button", "find", "ready", "report", "custom"},
         Placement!Becomes(w, pc)
  PROVE  /\ handler' \in [Placement!Window -> PlacementTask]
         /\ \A v \in Placement!Window : handler'[v].pc \notin {"none", "start"} => handler'[v].item \in Goods
<1>1. handler' = [handler EXCEPT ![w].pc = pc] BY DEF Placement!Becomes
<1>2. handler \in [Placement!Window -> PlacementTask] /\ handler[w].item \in Goods BY DEF PlacementInv
<1>3. handler' \in [Placement!Window -> PlacementTask] /\ handler'[w].item = handler[w].item
      /\ \A v \in Placement!Window : v # w => handler'[v] = handler[v]
  BY <1>1, <1>2 DEF PlacementTask
<1> QED BY <1>2, <1>3 DEF PlacementInv

LEMMA PlacementHandleKeeps ==
  ASSUME PlacementInv, NEW w \in Placement!Window, Placement!Handle(w)
  PROVE  PlacementInv'
<1> USE DEF Placement!game, Placement!wire, Placement!bot, Placement!flow, Placement!flags, Placement!proc
<1>0. Placement!TypeOK BY DEF PlacementInv
<1>1. UNCHANGED <<shown, draft, lastId, placed, pending, field, limit, dog, exec, begun, asked, urgent,
                  lost>>
  BY DEF Placement!Handle, Placement!Starts, Placement!Superseded, Placement!OrderButton,
     Placement!NoButton, Placement!Find, Placement!Custom, Placement!Ready, Placement!Reports
<1>2. /\ handler' \in [Placement!Window -> PlacementTask]
      /\ \A v \in Placement!Window : handler'[v].pc \notin {"none", "start"} => handler'[v].item \in Goods
  <2>1. CASE Placement!Ends(w) BY <2>1, PlacementEnds
  <2>2. CASE \E pc \in {"find", "custom", "report"} :
                 Placement!Becomes(w, pc) /\ handler[w].pc \notin {"none", "start"}
    BY <2>2, PlacementBecomes
  <2>3. CASE Placement!Starts(w) /\ ~Placement!Ends(w)
    <3> DEFINE to == CASE stage \in {"Initial", "SearchResults"} -> "button"
                       [] stage = "SetPrice" -> "ready"
                       [] OTHER -> "custom"
               h == [pc |-> to, page |-> handler[w].page, item |-> field.item, buy |-> field.buy,
                     step |-> stage]
    <3>1. handler' = [handler EXCEPT ![w] = h] BY <2>3 DEF Placement!Starts
    <3>2. to \in {"button", "ready", "custom"} OBVIOUS
    <3>3. field.item \in Goods /\ field.buy \in BOOLEAN /\ stage \in Placement!Steps
      BY <1>0 DEF Placement!TypeOK
    <3> HIDE DEF to
    <3>4. handler \in [Placement!Window -> PlacementTask] BY DEF PlacementInv
    <3>5. handler[w].page \in Placement!Pages \cup {"none"} BY <3>4 DEF PlacementTask
    <3>6. h \in PlacementTask /\ h.item \in Goods BY <3>2, <3>3, <3>5 DEF PlacementTask
    <3> HIDE DEF h
    <3> QED BY <3>1, <3>4, <3>6 DEF PlacementInv
  <2> QED BY <2>1, <2>2, <2>3 DEF Placement!Handle, Placement!Starts, Placement!Superseded,
     Placement!OrderButton, Placement!NoButton, Placement!Find, Placement!Custom, Placement!Ready,
     Placement!Reports, Placement!Polls, Placement!Clicks, Placement!GoesIdle
<1>3. sent' \in Seq(PlacementPacket) /\ lastWindow' \in 0..MaxWindow
  <2>1. CASE UNCHANGED <<sent, lastWindow>> BY <2>1, <1>0 DEF PlacementInv, Placement!TypeOK
  <2>2. CASE Placement!SendClose(w) BY <2>2, PlacementCloses
  <2>3. CASE /\ UNCHANGED lastWindow
             /\ \E s \in {"buy", "sell", "item", "custom", "confirm"} :
                    sent' = Append(sent, Placement!Click(w, s))
    BY <2>3, <1>0, PlacementPackets, PlacementJoins DEF Placement!TypeOK
  <2>4. CASE Placement!OrderButton(w) BY <2>3, <2>4 DEF Placement!OrderButton, Placement!Clicks
  <2>5. CASE Placement!Find(w)
    BY <2>2, <2>3, <2>5 DEF Placement!Find, Placement!Clicks, Placement!GoesIdle
  <2>6. CASE Placement!Custom(w)
    BY <2>1, <2>3, <2>6 DEF Placement!Custom, Placement!Clicks
  <2>7. CASE Placement!Ready(w) BY <2>2, <2>3, <2>7 DEF Placement!Ready, Placement!GoesIdle
  <2>8. CASE Placement!Reports(w) BY <2>2, <2>8 DEF Placement!Reports, Placement!GoesIdle
  <2> QED BY <2>1, <2>4, <2>5, <2>6, <2>7, <2>8
     DEF Placement!Handle, Placement!Starts, Placement!Superseded, Placement!NoButton
<1>4. /\ botState' \in {"Idle", "Bazaar"} /\ stage' \in Placement!Steps /\ rejected' \in BOOLEAN
      /\ report' \in {<<>>} \cup [item : Goods, buy : BOOLEAN, ask : Placement!Number]
  <2>0. /\ botState \in {"Idle", "Bazaar"} /\ stage \in Placement!Steps /\ rejected \in BOOLEAN
        /\ report \in {<<>>} \cup [item : Goods, buy : BOOLEAN, ask : Placement!Number]
    BY <1>0 DEF Placement!TypeOK
  <2> USE DEF Placement!Steps
  <2>1. CASE Placement!Starts(w) BY <2>0, <2>1 DEF Placement!Starts
  <2>2. CASE Placement!Superseded(w) BY <2>0, <2>2 DEF Placement!Superseded
  <2>3. CASE Placement!OrderButton(w) BY <2>0, <2>3 DEF Placement!OrderButton, Placement!Clicks
  <2>4. CASE Placement!NoButton(w) BY <2>0, <2>4 DEF Placement!NoButton
  <2>5. CASE Placement!Find(w)
    BY <2>0, <2>5 DEF Placement!Find, Placement!Clicks, Placement!GoesIdle
  <2>6. CASE Placement!Custom(w) BY <2>0, <2>6 DEF Placement!Custom, Placement!Clicks
  <2>7. CASE Placement!Ready(w) BY <2>0, <2>7 DEF Placement!Ready, Placement!GoesIdle
  <2>8. CASE Placement!Reports(w)
    <3>1. UNCHANGED <<stage, rejected>> /\ botState' = "Idle"
          /\ report' \in {report, [item |-> handler[w].item, buy |-> handler[w].buy, ask |-> field.ask]}
      BY <2>8 DEF Placement!Reports, Placement!GoesIdle
    <3>2. handler[w].item \in Goods /\ handler[w].buy \in BOOLEAN /\ field.ask \in Placement!Number
      BY <2>8, <1>0 DEF Placement!Reports, PlacementInv, PlacementTask, Placement!TypeOK
    <3> QED BY <2>0, <3>1, <3>2
  <2> QED BY <2>1, <2>2, <2>3, <2>4, <2>5, <2>6, <2>7, <2>8 DEF Placement!Handle
<1>5. \A v \in Placement!Window :
         /\ handler'[v].pc \in {"none", "start", "button", "find", "ready", "report", "custom"}
         /\ handler'[v].step \in Placement!Steps
  BY <1>2 DEF PlacementTask
<1>6. Placement!TypeOK' BY <1>0, <1>1, <1>3, <1>4, <1>5 DEF Placement!TypeOK
<1> QED BY <1>1, <1>2, <1>3, <1>6 DEF PlacementInv

(* The processor, and what comes without a packet.                          *)
LEMMA PlacementProcessorKeeps ==
  ASSUME PlacementInv,
         \/ Placement!Begin \/ Placement!Execute \/ Placement!Complete \/ Placement!Interrupt
         \/ Placement!Timeout \/ Placement!Watchdog \/ Placement!Claimed
         \/ UNCHANGED Placement!vars
  PROVE  PlacementInv'
<1> USE DEF Placement!game, Placement!wire, Placement!bot, Placement!flow, Placement!flags,
        Placement!proc, Placement!vars
<1>0. Placement!TypeOK BY DEF PlacementInv
<1>1. UNCHANGED <<shown, draft, lastId, placed, pending, rejected, handler, report, asked, lost>>
  BY DEF Placement!Begin, Placement!Execute, Placement!Complete, Placement!Interrupt,
     Placement!Timeout, Placement!Watchdog, Placement!Claimed
<1>2. sent' \in Seq(PlacementPacket) /\ lastWindow' \in 0..MaxWindow
  <2>1. CASE UNCHANGED <<sent, lastWindow>> BY <2>1, <1>0 DEF PlacementInv, Placement!TypeOK
  <2>2. CASE lastWindow # 0 /\ Placement!SendClose(lastWindow)
    BY <2>2, PlacementWindow, PlacementCloses
  <2>3. CASE Placement!Execute
    <3>1. CASE sent' = Append(sent, Placement!Bz(asked[begun].item))
      <4>1. begun \in Placement!Command
        BY <2>3, <1>0, PartsAssumption
           DEF Placement!Execute, PlacementInv, Placement!TypeOK, Placement!Command, Placement!Number
      <4>2. asked[begun].item \in Goods BY <4>1 DEF PlacementInv
      <4>3. Placement!Bz(asked[begun].item) \in PlacementPacket BY <4>2, PlacementPackets
      <4>4. UNCHANGED lastWindow BY <2>3 DEF Placement!Execute
      <4> QED BY <3>1, <4>3, <4>4, <1>0, PlacementJoins DEF Placement!TypeOK
    <3> QED BY <2>1, <2>3, <3>1 DEF Placement!Execute
  <2> QED BY <2>1, <2>2, <2>3 DEF Placement!Begin, Placement!Complete, Placement!Interrupt,
     Placement!Timeout, Placement!Watchdog, Placement!Claimed
<1>3. /\ field' \in [item : Goods, buy : BOOLEAN, ask : Placement!Number]
      /\ stage' \in Placement!Steps /\ botState' \in {"Idle", "Bazaar"}
  <2>1. CASE Placement!Execute /\ field' = Placement!Context(begun)
    <3>1. begun \in Placement!Command /\ begun \in Placement!Number
      BY <2>1, <1>0, PartsAssumption
         DEF Placement!Execute, PlacementInv, Placement!TypeOK, Placement!Command, Placement!Number
    <3>2. asked[begun] \in [item : Goods, buy : BOOLEAN] BY <3>1 DEF PlacementInv
    <3>3. field' = [item |-> asked[begun].item, buy |-> asked[begun].buy, ask |-> begun]
      BY <2>1 DEF Placement!Context
    <3>4. stage' \in {stage, "Initial"} /\ botState' \in {botState, "Bazaar"}
      BY <2>1 DEF Placement!Execute
    <3> QED BY <1>0, <3>1, <3>2, <3>3, <3>4 DEF Placement!TypeOK, Placement!Steps
  <2>2. CASE UNCHANGED <<field, stage>> /\ botState' \in {botState, "Idle"}
    BY <2>2, <1>0 DEF Placement!TypeOK
  <2> QED BY <2>1, <2>2 DEF Placement!Begin, Placement!Execute, Placement!Complete,
     Placement!Interrupt, Placement!Timeout, Placement!Watchdog, Placement!Claimed
<1>4. begun' \in Placement!Number /\ (exec' = "close" => begun' # 0)
  <2>1. CASE Placement!Begin
    <3>1. begun \in 0..MaxCommands /\ begun < MaxCommands /\ begun' = begun + 1
      BY <1>0, <2>1 DEF Placement!Begin, Placement!TypeOK, Placement!Number
    <3> QED BY <3>1, PartsAssumption DEF Placement!Number
  <2>2. CASE begun' = begun /\ exec' \in {"none", "poll", exec}
    BY <2>2, <1>0 DEF PlacementInv, Placement!TypeOK
  <2> QED BY <2>1, <2>2 DEF Placement!Execute, Placement!Complete,
     Placement!Interrupt, Placement!Timeout, Placement!Watchdog, Placement!Claimed
<1>5. exec' \in {"none", "close", "poll"} /\ urgent' \in BOOLEAN /\ limit' \in BOOLEAN
      /\ dog' \in BOOLEAN
  <2>0. exec \in {"none", "close", "poll"} /\ urgent \in BOOLEAN /\ limit \in BOOLEAN /\ dog \in BOOLEAN
    BY <1>0 DEF Placement!TypeOK
  <2>1. CASE Placement!Begin BY <2>0, <2>1 DEF Placement!Begin
  <2>2. CASE Placement!Execute BY <2>0, <2>2 DEF Placement!Execute
  <2>3. CASE Placement!Complete \/ Placement!Timeout BY <2>0, <2>3 DEF Placement!Complete, Placement!Timeout
  <2>4. CASE Placement!Interrupt BY <2>0, <2>4 DEF Placement!Interrupt
  <2>5. CASE Placement!Watchdog \/ Placement!Claimed BY <2>0, <2>5 DEF Placement!Watchdog, Placement!Claimed
  <2>6. CASE UNCHANGED Placement!vars BY <2>0, <2>6
  <2> QED BY <2>1, <2>2, <2>3, <2>4, <2>5, <2>6
<1>6. Placement!TypeOK' BY <1>0, <1>1, <1>2, <1>3, <1>4, <1>5 DEF Placement!TypeOK
<1> QED BY <1>1, <1>2, <1>4, <1>6 DEF PlacementInv

LEMMA PlacementEvents ==
  ASSUME PlacementInv, NEW kind, Placement!Event(kind)
  PROVE  /\ pending' \in Seq(PlacementEvent)
         /\ kind = "open" => Head(pending)[2] \in Placement!Window
                             /\ Head(pending)[3] \in Placement!Pages
<1>1. pending \in Seq(PlacementEvent) /\ pending # <<>> /\ Head(pending)[1] = kind
      /\ pending' = Tail(pending)
  BY DEF PlacementInv, Placement!Event
<1>2. Head(pending) \in PlacementEvent /\ pending' \in Seq(PlacementEvent) BY <1>1, Leaves
<1>3. ASSUME kind = "open" PROVE Head(pending) \in {"open"} \X Placement!Window \X Placement!Pages
  BY <1>1, <1>2, <1>3 DEF PlacementEvent
<1> QED BY <1>2, <1>3

LEMMA PlacementEventKeeps ==
  ASSUME PlacementInv,
         \/ Placement!OpenScreen \/ Placement!ContainerClose \/ Placement!SignEditor \/ Placement!Chat
  PROVE  PlacementInv'
<1> USE DEF Placement!game, Placement!bot, Placement!flow, Placement!flags, Placement!proc
<1>0. Placement!TypeOK BY DEF PlacementInv
<1>1. UNCHANGED <<shown, draft, lastId, placed, botState, field, report, exec, begun, asked, urgent, lost>>
  BY DEF Placement!OpenScreen, Placement!ContainerClose, Placement!SignEditor, Placement!Chat
<1>2. pending' \in Seq(PlacementEvent)
  BY PlacementEvents DEF Placement!OpenScreen, Placement!ContainerClose, Placement!SignEditor,
     Placement!Chat
<1>3. CASE Placement!OpenScreen
  <2> DEFINE w == Head(pending)[2]
             h == [Placement!Off EXCEPT !.pc = "start", !.page = Head(pending)[3]]
  <2>1. w \in Placement!Window /\ Head(pending)[3] \in Placement!Pages
    BY <1>3, PlacementEvents DEF Placement!OpenScreen
  <2>2. h \in PlacementTask /\ h.pc = "start"
    BY <2>1 DEF Placement!Off, PlacementTask, Placement!Steps
  <2>3. handler' = [handler EXCEPT ![w] = h] /\ lastWindow' = w /\ dog' = TRUE
        /\ UNCHANGED <<sent, stage, limit, rejected>>
    BY <1>3 DEF Placement!OpenScreen
  <2> HIDE DEF w, h
  <2>4. /\ handler' \in [Placement!Window -> PlacementTask]
        /\ \A v \in Placement!Window : handler'[v].pc \notin {"none", "start"} => handler'[v].item \in Goods
    BY <2>1, <2>2, <2>3 DEF PlacementInv
  <2>5. \A v \in Placement!Window :
           /\ handler'[v].pc \in {"none", "start", "button", "find", "ready", "report", "custom"}
           /\ handler'[v].step \in Placement!Steps
    BY <2>4 DEF PlacementTask
  <2>6. lastWindow' \in 0..MaxWindow BY <2>1, <2>3, PlacementWindow
  <2>7. Placement!TypeOK' BY <1>0, <1>1, <2>3, <2>5, <2>6 DEF Placement!TypeOK
  <2> QED BY <1>1, <1>2, <2>3, <2>4, <2>7 DEF PlacementInv
<1>4. CASE Placement!ContainerClose \/ Placement!SignEditor \/ Placement!Chat
  <2>1. UNCHANGED <<handler, dog>> /\ lastWindow' \in {lastWindow, 0}
    BY <1>4 DEF Placement!ContainerClose, Placement!SignEditor, Placement!Chat
  <2>2. lastWindow' \in 0..MaxWindow BY <2>1, PlacementWindow
  <2>3. sent' \in Seq(PlacementPacket) /\ stage' \in Placement!Steps
    <3>1. CASE UNCHANGED <<sent, stage>> BY <3>1, <1>0 DEF PlacementInv, Placement!TypeOK
    <3>2. CASE Placement!SignEditor /\ sent' = Append(sent, Placement!Sign(field.ask))
               /\ stage' \in {stage, "SetPrice"}
      <4>1. field.ask \in Placement!Number /\ stage \in Placement!Steps BY <1>0 DEF Placement!TypeOK
      <4>2. Placement!Sign(field.ask) \in PlacementPacket BY <4>1, PlacementPackets
      <4> QED BY <3>2, <4>1, <4>2, PlacementJoins DEF Placement!Steps
    <3> QED BY <1>4, <3>1, <3>2 DEF Placement!ContainerClose, Placement!SignEditor, Placement!Chat
  <2>4. limit' \in BOOLEAN /\ rejected' \in BOOLEAN
    BY <1>0, <1>4 DEF Placement!ContainerClose, Placement!SignEditor, Placement!Chat, Placement!TypeOK
  <2>5. Placement!TypeOK' BY <1>0, <1>1, <2>1, <2>2, <2>3, <2>4 DEF Placement!TypeOK
  <2> QED BY <1>1, <1>2, <2>1, <2>3, <2>5 DEF PlacementInv
<1> QED BY <1>3, <1>4

(* The game.                                                                *)
PlacementShown == [page : Placement!Pages \cup {"none", "signAmount", "signPrice"}, id : 0..MaxWindow]

LEMMA PlacementOpens ==
  ASSUME PlacementInv, NEW page \in Placement!Pages, Placement!Opens(page)
  PROVE  shown' \in PlacementShown /\ lastId' \in Placement!Window /\ pending' \in Seq(PlacementEvent)
<1> DEFINE e == <<"open", Placement!NextId(lastId), page>>
<1>1. Placement!NextId(lastId) \in Placement!Window /\ Placement!NextId(lastId) \in 0..MaxWindow
  BY PlacementPackets, PlacementWindow DEF PlacementInv, Placement!TypeOK
<1>2. e \in PlacementEvent BY <1>1 DEF PlacementEvent
<1>3. /\ shown' = [page |-> page, id |-> Placement!NextId(lastId)]
      /\ lastId' = Placement!NextId(lastId) /\ pending' = Append(pending, e)
  BY DEF Placement!Opens
<1> HIDE DEF e
<1> QED BY <1>1, <1>2, <1>3 DEF PlacementInv, PlacementShown

LEMMA PlacementSigns ==
  ASSUME PlacementInv, NEW page \in {"signAmount", "signPrice"}, Placement!SignFor(page)
  PROVE  shown' \in PlacementShown /\ lastId' \in Placement!Window /\ pending' \in Seq(PlacementEvent)
<1>1. <<"close">> \in PlacementEvent /\ <<"sign">> \in PlacementEvent BY DEF PlacementEvent
<1>2. << <<"close">> >> \in Seq(PlacementEvent) /\ << <<"sign">> >> \in Seq(PlacementEvent)
      /\ <<>> \in Seq(PlacementEvent)
  BY <1>1
<1>3. PICK told : told \in {<<>>, << <<"close">> >>} /\ pending' = pending \o told \o << <<"sign">> >>
  BY DEF Placement!SignFor
<1>4. told \in Seq(PlacementEvent) /\ pending \in Seq(PlacementEvent) BY <1>2, <1>3 DEF PlacementInv
<1>5. pending \o told \in Seq(PlacementEvent) BY <1>4, JoinsAll
<1> DEFINE b == << <<"sign">> >>
<1>b. b \in Seq(PlacementEvent) /\ pending' = (pending \o told) \o b BY <1>2, <1>3
<1> HIDE DEF b
<1>6. pending' \in Seq(PlacementEvent) BY <1>b, <1>5, JoinsAll
<1>7. shown' = [page |-> page, id |-> 0] /\ lastId' = lastId /\ 0 \in 0..MaxWindow
  BY PlacementWindow DEF Placement!SignFor
<1> QED BY <1>6, <1>7 DEF PlacementInv, Placement!TypeOK, PlacementShown

LEMMA PlacementAnswer ==
  ASSUME PlacementInv, NEW p \in PlacementPacket, Placement!Answer(p)
  PROVE  /\ shown' \in PlacementShown /\ lastId' \in Placement!Window
         /\ pending' \in Seq(PlacementEvent)
         /\ draft' \in Placement!Order /\ placed' \subseteq Placement!Order
<1>0. /\ shown \in PlacementShown /\ lastId \in Placement!Window /\ pending \in Seq(PlacementEvent)
      /\ draft \in Placement!Order /\ placed \subseteq Placement!Order
      /\ Placement!None \in PlacementShown /\ 0 \in Placement!Number
  BY PlacementWindow, PartsAssumption DEF PlacementInv, Placement!TypeOK, PlacementShown,
     Placement!None, Placement!Number
<1>p. {"search", "item", "amount", "price", "confirm"} = Placement!Pages BY DEF Placement!Pages
<1>1. /\ shown' \in PlacementShown /\ lastId' \in Placement!Window
      /\ pending' \in Seq(PlacementEvent)
  <2>1. CASE \E page \in Placement!Pages : Placement!Opens(page) BY <2>1, PlacementOpens
  <2>2. CASE \E page \in {"signAmount", "signPrice"} : Placement!SignFor(page) BY <2>2, PlacementSigns
  <2>3. CASE shown' = Placement!None /\ UNCHANGED <<lastId, pending>> BY <1>0, <2>3
  <2>4. CASE /\ shown' = Placement!None /\ UNCHANGED lastId
             /\ \E no \in {"limit", "reject"} : pending' = Append(pending, <<no>>)
    <3>1. PICK no : no \in {"limit", "reject"} /\ pending' = Append(pending, <<no>>) BY <2>4
    <3> DEFINE e == <<no>>
    <3>2. e \in PlacementEvent /\ pending' = Append(pending, e) BY <3>1 DEF PlacementEvent
    <3> HIDE DEF e
    <3> QED BY <1>0, <2>4, <3>2
  <2>5. CASE p.op = "bz" BY <1>p, <2>1, <2>5 DEF Placement!Answer
  <2>6. CASE p.op = "click" BY <1>p, <2>1, <2>2, <2>3, <2>4, <2>6 DEF Placement!Answer
  <2>7. CASE p.op = "sign" BY <1>p, <2>1, <2>7 DEF Placement!Answer
  <2>8. CASE p.op = "close" BY <2>3, <2>8 DEF Placement!Answer
  <2> QED BY <2>5, <2>6, <2>7, <2>8 DEF Placement!Answer
<1>2. draft' \in Placement!Order
  <2>1. CASE UNCHANGED draft BY <1>0, <2>1
  <2>2. CASE p.op = "bz"
    <3>1. p.item \in Goods BY <2>2 DEF PlacementPacket
    <3>2. draft' = [item |-> p.item, buy |-> FALSE, amount |-> 0, price |-> 0]
      BY <2>2 DEF Placement!Answer
    <3> QED BY <1>0, <3>1, <3>2 DEF Placement!Order
  <2>3. CASE p.op = "click" /\ draft' = [draft EXCEPT !.buy = (p.slot = "buy")]
    <3>1. (p.slot = "buy") \in BOOLEAN OBVIOUS
    <3> QED BY <1>0, <2>3, <3>1 DEF Placement!Order
  <2>4. CASE p.op = "sign"
    <3>1. p.text \in Placement!Number BY <2>4 DEF PlacementPacket
    <3>2. draft' = [draft EXCEPT !.amount = p.text] \/ draft' = [draft EXCEPT !.price = p.text]
      BY <2>4 DEF Placement!Answer
    <3> QED BY <1>0, <3>1, <3>2 DEF Placement!Order
  <2> QED BY <2>1, <2>2, <2>3, <2>4 DEF Placement!Answer
<1>3. placed' \subseteq Placement!Order
  <2>1. placed' = placed \/ placed' = placed \cup {draft} BY DEF Placement!Answer
  <2> QED BY <1>0, <2>1
<1> QED BY <1>1, <1>2, <1>3

LEMMA PlacementGameKeeps ==
  ASSUME PlacementInv, Placement!Game
  PROVE  PlacementInv'
<1> USE DEF Placement!game, Placement!bot, Placement!flow, Placement!flags, Placement!proc
<1>0. Placement!TypeOK BY DEF PlacementInv
<1>1. UNCHANGED <<botState, lastWindow, field, stage, limit, rejected, handler, dog, report, exec, begun,
                  asked, urgent>>
  BY DEF Placement!Game
<1>2. Head(sent) \in PlacementPacket /\ sent' \in Seq(PlacementPacket)
  BY Leaves DEF Placement!Game, PlacementInv
<1>3. /\ shown' \in PlacementShown /\ lastId' \in Placement!Window
      /\ pending' \in Seq(PlacementEvent)
      /\ draft' \in Placement!Order /\ placed' \subseteq Placement!Order
  <2>1. CASE Placement!Answer(Head(sent)) BY <1>2, <2>1, PlacementAnswer
  <2>2. CASE Placement!NoAnswer(Head(sent))
    BY <1>0, <2>2 DEF Placement!NoAnswer, PlacementInv, Placement!TypeOK, PlacementShown
  <2> QED BY <2>1, <2>2 DEF Placement!Game
<1>4. lost' \in 0..MaxLost
  <2>1. lost \in 0..MaxLost BY <1>0 DEF Placement!TypeOK
  <2>2. lost' = lost \/ (lost < MaxLost /\ lost' = lost + 1) BY DEF Placement!Game, Placement!NoAnswer
  <2> QED BY <2>1, <2>2, PartsAssumption
<1>5. Placement!TypeOK' BY <1>0, <1>1, <1>3, <1>4 DEF Placement!TypeOK, PlacementShown
<1> QED BY <1>1, <1>2, <1>3, <1>5 DEF PlacementInv

LEMMA PlacementInit == Placement!Init => PlacementInv
<1> SUFFICES ASSUME Placement!Init PROVE PlacementInv OBVIOUS
<1> USE DEF Placement!Init
<1>1. 0 \in 0..MaxWindow /\ 0 \in 0..MaxLost /\ 0 \in Placement!Number /\ MaxWindow \in Placement!Window
  BY PartsAssumption DEF Placement!Number, Placement!Window
<1>2. sent \in Seq(PlacementPacket) /\ pending \in Seq(PlacementEvent) BY EmptyLine
<1>3. Placement!Off \in PlacementTask /\ Placement!Off.pc = "none"
  BY DEF Placement!Off, PlacementTask, Placement!Steps
<1>4. handler \in [Placement!Window -> PlacementTask]
      /\ \A w \in Placement!Window : handler[w].pc = "none"
  BY <1>3
<1>5. \A w \in Placement!Window : handler[w].step \in Placement!Steps BY <1>4 DEF PlacementTask
<1>6. PICK i \in Goods : draft = [item |-> i, buy |-> FALSE, amount |-> 0, price |-> 0]
                         /\ field = [item |-> i, buy |-> FALSE, ask |-> 0]
  OBVIOUS
<1>7. draft \in Placement!Order /\ field \in [item : Goods, buy : BOOLEAN, ask : Placement!Number]
  BY <1>1, <1>6 DEF Placement!Order
<1>8. shown \in [page : Placement!Pages \cup {"none", "signAmount", "signPrice"}, id : 0..MaxWindow]
  BY <1>1 DEF Placement!None
<1>9. /\ placed = {} /\ lastId = MaxWindow /\ lastWindow = 0 /\ botState = "Idle" /\ stage = "Initial"
      /\ limit \in BOOLEAN /\ rejected = FALSE /\ urgent = FALSE /\ dog = FALSE /\ report = <<>>
      /\ exec = "none" /\ begun = 0 /\ lost = 0
      /\ asked \in [Placement!Command -> [item : Goods, buy : BOOLEAN]]
  OBVIOUS
<1> HIDE DEF Placement!Init
<1>10. Placement!TypeOK BY <1>1, <1>4, <1>5, <1>7, <1>8, <1>9 DEF Placement!TypeOK, Placement!Steps
<1> QED BY <1>2, <1>4, <1>9, <1>10 DEF PlacementInv

LEMMA PlacementNext ==
  ASSUME PlacementInv, [Placement!Next]_(Placement!vars)
  PROVE  PlacementInv'
<1>1. CASE \/ Placement!Begin \/ Placement!Execute \/ Placement!Complete \/ Placement!Interrupt
           \/ Placement!Timeout \/ Placement!Watchdog \/ Placement!Claimed
           \/ UNCHANGED Placement!vars
  BY <1>1, PlacementProcessorKeeps
<1>2. CASE \E w \in Placement!Window : Placement!Handle(w) BY <1>2, PlacementHandleKeeps
<1>3. CASE \/ Placement!OpenScreen \/ Placement!ContainerClose \/ Placement!SignEditor \/ Placement!Chat
  BY <1>3, PlacementEventKeeps
<1>4. CASE Placement!Game BY <1>4, PlacementGameKeeps
<1> QED BY <1>1, <1>2, <1>3, <1>4 DEF Placement!Next

(* Orders as asked.                                                         *)

\* What packet p says is what command c asks.
OrderFits(p, c) ==
    /\ p.op = "bz" => c # 0 /\ p.item = asked[c].item
    /\ p.op = "sign" => p.text = c
    /\ p.op = "click" /\ p.slot \in {"buy", "sell"} => c # 0 /\ (p.slot = "buy" <=> asked[c].buy)

\* The draft before the game is of command c, as far as its page says.
OrderDrafted(c) ==
    shown.page # "none" =>
        /\ c # 0 /\ draft.item = asked[c].item
        /\ shown.page \in {"search", "item"} => draft.amount = 0
        /\ shown.page \in {"amount", "signAmount"} => asked[c].buy /\ draft.buy
        /\ shown.page \in {"price", "signPrice", "confirm"} =>
              (draft.buy <=> asked[c].buy) /\ draft.amount = Placement!Asks(c).amount
        /\ shown.page = "confirm" => draft.price = c

\* own[1] is the command of the draft, own[i + 1] that of packet i.  It changes at
\* an opening packet only, and the last is the command in the fields.
OrderOwners(own) ==
    /\ own[Len(sent) + 1] = field.ask
    /\ OrderDrafted(own[1])
    /\ \A i \in 1..Len(sent) : /\ OrderFits(sent[i], own[i + 1])
                               /\ sent[i].op # "bz" => own[i + 1] = own[i]

\* The fields are those of their command, and a handler that will press a button
\* in the current window has read them.
OrderFields ==
    /\ field.ask # 0 => field = Placement!Context(field.ask)
    /\ botState = "Bazaar" => field.ask # 0
    /\ exec = "close" => botState = "Idle"
    /\ \A w \in Placement!Window : handler[w].pc = "button" =>
          /\ field.ask # 0
          /\ lastWindow = w => exec # "close" /\ (handler[w].buy <=> field.buy)

OrderInv ==
    /\ Placement!PlacedAsAsked
    /\ OrderFields
    /\ \E own \in [1..Len(sent) + 1 -> 0..begun] : OrderOwners(own)

LEMMA OrderSame ==
  ASSUME UNCHANGED asked
  PROVE  /\ \A p, c : OrderFits(p, c)' <=> OrderFits(p, c)
         /\ UNCHANGED <<shown, draft>> => \A c : OrderDrafted(c)' <=> OrderDrafted(c)
BY DEF OrderFits, OrderDrafted, Placement!Asks

\* Nothing is sent.
LEMMA OrderStays ==
  ASSUME PlacementInv, OrderInv, UNCHANGED <<shown, draft, asked, sent, field>>,
         begun' \in Nat, begun <= begun'
  PROVE  \E o \in [1..Len(sent') + 1 -> 0..begun'] : OrderOwners(o)'
<1>1. PICK own \in [1..Len(sent) + 1 -> 0..begun] : OrderOwners(own) BY DEF OrderInv
<1>2. begun \in Nat BY PartsAssumption DEF PlacementInv, Placement!TypeOK, Placement!Number
<1>3. own \in [1..Len(sent') + 1 -> 0..begun'] BY <1>1, <1>2
<1>4. OrderOwners(own)' BY <1>1, OrderSame DEF OrderOwners
<1> QED BY <1>3, <1>4

\* A packet is sent; an opening packet is of the command that is then in the fields.
LEMMA OrderSends ==
  ASSUME PlacementInv, OrderInv, UNCHANGED <<shown, draft, asked>>,
         begun' \in Nat, begun <= begun',
         NEW p, NEW c \in 0..begun', sent' = Append(sent, p), OrderFits(p, c),
         p.op # "bz" => c = field.ask, field'.ask = c
  PROVE  \E o \in [1..Len(sent') + 1 -> 0..begun'] : OrderOwners(o)'
<1>1. PICK own \in [1..Len(sent) + 1 -> 0..begun] : OrderOwners(own) BY DEF OrderInv
<1>2. begun \in Nat BY PartsAssumption DEF PlacementInv, Placement!TypeOK, Placement!Number
<1> DEFINE n == Len(sent)
<1>3. sent \in Seq(PlacementPacket) /\ n \in Nat BY DEF PlacementInv
<1>4. Len(sent') = n + 1 /\ sent'[n + 1] = p /\ \A i \in 1..n : sent'[i] = sent[i]
  BY <1>3
<1>5. Len(sent') + 1 = n + 2 BY <1>3, <1>4
<1>6. \A i \in 1..n + 1 : own[i] \in 0..begun' BY <1>1, <1>2
<1>a. \E o : /\ o \in [1..n + 2 -> 0..begun']
             /\ \A i \in 1..n + 1 : o[i] = own[i]
             /\ o[n + 2] = c
  <2> DEFINE f == [i \in 1..n + 2 |-> IF i <= n + 1 THEN own[i] ELSE c]
  <2>1. f \in [1..n + 2 -> 0..begun'] BY <1>3, <1>6
  <2>2. (\A i \in 1..n + 1 : f[i] = own[i]) /\ f[n + 2] = c BY <1>3
  <2> HIDE DEF f
  <2> QED BY <2>1, <2>2
<1>8. SUFFICES ASSUME NEW o, o \in [1..n + 2 -> 0..begun'],
                      \A i \in 1..n + 1 : o[i] = own[i], o[n + 2] = c
               PROVE  OrderOwners(o)'
  BY <1>5, <1>a
<1>9. own[n + 1] = field.ask /\ OrderDrafted(own[1])
      /\ \A i \in 1..n : OrderFits(sent[i], own[i + 1]) /\ (sent[i].op # "bz" => own[i + 1] = own[i])
  BY <1>1 DEF OrderOwners
<1> HIDE DEF n
<1>10. OrderDrafted(o[1])' BY <1>3, <1>8, <1>9, OrderSame
<1>11. ASSUME NEW i \in 1..n + 1
       PROVE  OrderFits(sent'[i], o[i + 1]) /\ (sent'[i].op # "bz" => o[i + 1] = o[i])
  <2>1. CASE i = n + 1
    <3>1. sent'[i] = p /\ o[i + 1] = c /\ o[i] = own[n + 1] BY <1>3, <1>4, <1>8, <2>1
    <3> QED BY <3>1, <1>9
  <2>2. CASE i # n + 1
    <3>1. i \in 1..n /\ i + 1 \in 1..n + 1 /\ i \in 1..n + 1 BY <1>3, <2>2
    <3>2. sent'[i] = sent[i] /\ o[i + 1] = own[i + 1] /\ o[i] = own[i] BY <3>1, <1>4, <1>8
    <3> QED BY <3>1, <3>2, <1>9
  <2> QED BY <2>1, <2>2
<1>12. o[Len(sent') + 1] = field'.ask BY <1>5, <1>8
<1>13. \A i \in 1..Len(sent') :
          OrderFits(sent[i], o[i + 1])' /\ (sent'[i].op # "bz" => o[i + 1] = o[i])
  BY <1>4, <1>11, OrderSame DEF OrderFits
<1> QED BY <1>10, <1>12, <1>13 DEF OrderOwners

\* The game has answered the first packet, or not.
LEMMA OrderLeaves ==
  ASSUME PlacementInv, UNCHANGED <<asked, field, begun>>, sent # <<>>, sent' = Tail(sent),
         NEW own \in [1..Len(sent) + 1 -> 0..begun], OrderOwners(own), OrderDrafted(own[2])'
  PROVE  \E o \in [1..Len(sent') + 1 -> 0..begun'] : OrderOwners(o)'
<1> DEFINE n == Len(sent)
<1>1. sent \in Seq(PlacementPacket) /\ n \in Nat /\ n > 0 /\ Len(sent') = n - 1
      /\ \A i \in 1..n - 1 : sent'[i] = sent[i + 1]
  BY DEF PlacementInv
<1>2. Len(sent') + 1 = n /\ \A i \in 1..n : i + 1 \in 1..n + 1 BY <1>1
<1>a. \E o : o \in [1..n -> 0..begun'] /\ \A i \in 1..n : o[i] = own[i + 1]
  <2> DEFINE f == [i \in 1..n |-> own[i + 1]]
  <2>1. f \in [1..n -> 0..begun'] BY <1>1, <1>2
  <2>2. \A i \in 1..n : f[i] = own[i + 1] OBVIOUS
  <2> HIDE DEF f
  <2> QED BY <2>1, <2>2
<1>4. SUFFICES ASSUME NEW o, o \in [1..n -> 0..begun'], \A i \in 1..n : o[i] = own[i + 1]
               PROVE  OrderOwners(o)'
  BY <1>2, <1>a
<1>5. own[n + 1] = field.ask
      /\ \A i \in 1..n : OrderFits(sent[i], own[i + 1]) /\ (sent[i].op # "bz" => own[i + 1] = own[i])
  BY DEF OrderOwners
<1> HIDE DEF n
<1>6. o[Len(sent') + 1] = field'.ask BY <1>1, <1>2, <1>4, <1>5
<1>7. o[1] = own[2] BY <1>1, <1>4
<1>8. ASSUME NEW i \in 1..n - 1
      PROVE  OrderFits(sent'[i], o[i + 1]) /\ (sent'[i].op # "bz" => o[i + 1] = o[i])
  <2>1. i \in 1..n /\ i + 1 \in 1..n BY <1>1
  <2>2. sent'[i] = sent[i + 1] /\ o[i + 1] = own[(i + 1) + 1] /\ o[i] = own[i + 1] BY <1>1, <1>4, <2>1
  <2> QED BY <2>1, <2>2, <1>5
<1>9. \A i \in 1..Len(sent') :
         OrderFits(sent[i], o[i + 1])' /\ (sent'[i].op # "bz" => o[i + 1] = o[i])
  BY <1>1, <1>8, OrderSame DEF OrderFits
<1>10. OrderDrafted(o[1])' BY <1>7
<1> QED BY <1>6, <1>9, <1>10 DEF OrderOwners

LEMMA OrderPlaced ==
  ASSUME PlacementInv, OrderInv, UNCHANGED <<placed, asked>>, begun' \in Nat, begun <= begun'
  PROVE  Placement!PlacedAsAsked'
<1>1. begun \in Nat BY PartsAssumption DEF PlacementInv, Placement!TypeOK, Placement!Number
<1>2. \A c \in 1..begun : c \in 1..begun' /\ Placement!Asks(c)' = Placement!Asks(c)
  BY <1>1 DEF Placement!Asks
<1>3. \A o \in placed : \E c \in 1..begun : o = Placement!Asks(c)
  BY DEF OrderInv, Placement!PlacedAsAsked
<1> QED BY <1>2, <1>3 DEF Placement!PlacedAsAsked

LEMMA OrderHandleKeeps ==
  ASSUME PlacementInv, OrderInv, NEW w \in Placement!Window, Placement!Handle(w)
  PROVE  OrderInv'
<1> USE DEF Placement!game, Placement!wire, Placement!bot, Placement!flow, Placement!flags, Placement!proc
<1>0. Placement!TypeOK /\ begun \in Nat /\ begun <= begun
  BY PartsAssumption DEF PlacementInv, Placement!TypeOK, Placement!Number
<1>1. UNCHANGED <<shown, draft, placed, field, exec, begun, asked>>
  BY DEF Placement!Handle, Placement!Starts, Placement!Superseded, Placement!OrderButton,
     Placement!NoButton, Placement!Find, Placement!Custom, Placement!Ready, Placement!Reports
<1>2. Placement!PlacedAsAsked' BY <1>0, <1>1, OrderPlaced
<1>3. \E o \in [1..Len(sent') + 1 -> 0..begun'] : OrderOwners(o)'
  <2>1. CASE UNCHANGED sent BY <2>1, <1>0, <1>1, OrderStays
  <2>2. ASSUME NEW p, sent' = Append(sent, p), OrderFits(p, field.ask)
        PROVE  \E o \in [1..Len(sent') + 1 -> 0..begun'] : OrderOwners(o)'
    <3>1. PICK own \in [1..Len(sent) + 1 -> 0..begun] : OrderOwners(own) BY DEF OrderInv
    <3>2. sent \in Seq(PlacementPacket) BY DEF PlacementInv
    <3>3. Len(sent) + 1 \in 1..Len(sent) + 1 BY <3>2
    <3>4. field.ask \in 0..begun BY <3>1, <3>3 DEF OrderOwners
    <3> QED BY <2>2, <3>4, <1>0, <1>1, OrderSends
  <2>3. CASE Placement!SendClose(w)
    <3> DEFINE p == [op |-> "close", win |-> w]
    <3>1. sent' = Append(sent, p) BY <2>3 DEF Placement!SendClose
    <3>2. OrderFits(p, field.ask) BY DEF OrderFits
    <3> HIDE DEF p
    <3> QED BY <2>2, <3>1, <3>2
  <2>4. CASE \E s \in {"item", "custom", "confirm"} : sent' = Append(sent, Placement!Click(w, s))
    <3>1. PICK s : s \in {"item", "custom", "confirm"} /\ sent' = Append(sent, Placement!Click(w, s))
      BY <2>4
    <3> DEFINE p == Placement!Click(w, s)
    <3>2. OrderFits(p, field.ask) BY <3>1 DEF OrderFits, Placement!Click
    <3>3. sent' = Append(sent, p) BY <3>1
    <3> HIDE DEF p
    <3> QED BY <2>2, <3>2, <3>3
  <2>5. CASE Placement!OrderButton(w)
    <3> DEFINE s == IF handler[w].buy THEN "buy" ELSE "sell"
               p == Placement!Click(w, s)
    <3>1. sent' = Append(sent, p) BY <2>5 DEF Placement!OrderButton, Placement!Clicks
    <3>2. /\ field.ask # 0 /\ (handler[w].buy <=> field.buy)
          /\ field = Placement!Context(field.ask)
      BY <2>5 DEF Placement!OrderButton, Placement!Polls, Placement!Current, OrderInv, OrderFields
    <3>3. field.buy = asked[field.ask].buy BY <3>2 DEF Placement!Context
    <3>4. s = "buy" <=> asked[field.ask].buy BY <3>2, <3>3
    <3>5. p.op = "click" /\ p.slot = s BY DEF Placement!Click
    <3> HIDE DEF s, p
    <3>6. OrderFits(p, field.ask) BY <3>2, <3>4, <3>5 DEF OrderFits
    <3> QED BY <2>2, <3>1, <3>6
  <2>6. CASE Placement!Find(w) BY <2>3, <2>4, <2>6 DEF Placement!Find, Placement!Clicks, Placement!GoesIdle
  <2>7. CASE Placement!Custom(w) BY <2>1, <2>4, <2>7 DEF Placement!Custom, Placement!Clicks
  <2>8. CASE Placement!Ready(w) BY <2>3, <2>4, <2>8 DEF Placement!Ready, Placement!GoesIdle
  <2>9. CASE Placement!Reports(w) BY <2>3, <2>9 DEF Placement!Reports, Placement!GoesIdle
  <2> QED BY <2>1, <2>5, <2>6, <2>7, <2>8, <2>9
     DEF Placement!Handle, Placement!Starts, Placement!Superseded, Placement!NoButton
<1>4. /\ botState' \in {botState, "Idle"} /\ lastWindow' \in {lastWindow, 0}
      /\ \A v \in Placement!Window : v # w => handler'[v] = handler[v]
      /\ handler'[w].pc = "button" => botState = "Bazaar" /\ handler'[w].buy = field.buy
  <2>0. handler \in [Placement!Window -> PlacementTask] BY DEF PlacementInv
  <2>1. CASE Placement!Starts(w)
    <3>1. CASE Placement!Ends(w) BY <2>0, <2>1, <3>1 DEF Placement!Starts, Placement!Ends, Placement!Off
    <3>2. CASE botState = "Bazaar"
      BY <2>0, <2>1, <3>2 DEF Placement!Starts
    <3> QED BY <2>1, <3>1, <3>2 DEF Placement!Starts
  <2>2. CASE UNCHANGED <<botState, lastWindow>> /\ Placement!Ends(w)
    BY <2>0, <2>2 DEF Placement!Ends, Placement!Off
  <2>3. CASE Placement!GoesIdle(w)
    BY <2>0, <2>3 DEF Placement!GoesIdle, Placement!SendClose, Placement!Ends, Placement!Off
  <2>4. CASE UNCHANGED <<botState, lastWindow>>
             /\ \E pc \in {"find", "custom", "report"} : Placement!Becomes(w, pc)
    BY <2>0, <2>4 DEF Placement!Becomes, PlacementTask
  <2> QED BY <2>1, <2>2, <2>3, <2>4 DEF Placement!Handle, Placement!Superseded,
     Placement!OrderButton, Placement!NoButton, Placement!Find, Placement!Custom, Placement!Ready,
     Placement!Reports, Placement!Clicks
<1>5. OrderFields'
  <2>1. field.ask # 0 => Placement!Context(field.ask)' = Placement!Context(field.ask)
    BY <1>1 DEF Placement!Context
  <2>2. ASSUME NEW v \in Placement!Window, handler'[v].pc = "button"
        PROVE  field.ask # 0 /\ (lastWindow' = v => exec # "close" /\ (handler'[v].buy <=> field.buy))
    <3>1. v # 0 BY PartsAssumption DEF Placement!Window
    <3>2. CASE v = w BY <1>4, <2>2, <3>2 DEF OrderInv, OrderFields
    <3>3. CASE v # w
      <4>1. handler'[v] = handler[v] /\ (lastWindow' = v => lastWindow = v) BY <1>4, <3>1, <3>3
      <4> QED BY <2>2, <4>1 DEF OrderInv, OrderFields
    <3> QED BY <3>2, <3>3
  <2> QED BY <1>1, <1>4, <2>1, <2>2 DEF OrderInv, OrderFields, Placement!Context
<1> QED BY <1>2, <1>3, <1>5 DEF OrderInv

LEMMA OrderProcessorKeeps ==
  ASSUME PlacementInv, PlacementInv', OrderInv,
         \/ Placement!Begin \/ Placement!Execute \/ Placement!Complete \/ Placement!Interrupt
         \/ Placement!Timeout \/ Placement!Watchdog \/ Placement!Claimed
         \/ UNCHANGED Placement!vars
  PROVE  OrderInv'
<1> USE DEF Placement!game, Placement!wire, Placement!bot, Placement!flow, Placement!flags,
        Placement!proc, Placement!vars
<1>0. Placement!TypeOK /\ begun \in Nat /\ begun' \in Nat
  BY PartsAssumption DEF PlacementInv, Placement!TypeOK, Placement!Number
<1>1. UNCHANGED <<shown, draft, placed, handler, asked>> /\ begun <= begun'
  BY <1>0 DEF Placement!Begin, Placement!Execute, Placement!Complete, Placement!Interrupt,
     Placement!Timeout, Placement!Watchdog, Placement!Claimed
<1>2. Placement!PlacedAsAsked' BY <1>0, <1>1, OrderPlaced
<1>a. field.ask \in 0..begun
  <2>1. PICK own \in [1..Len(sent) + 1 -> 0..begun] : OrderOwners(own) BY DEF OrderInv
  <2>2. sent \in Seq(PlacementPacket) BY DEF PlacementInv
  <2>3. Len(sent) + 1 \in 1..Len(sent) + 1 BY <2>2
  <2> QED BY <2>1, <2>3 DEF OrderOwners
<1>3. \E o \in [1..Len(sent') + 1 -> 0..begun'] : OrderOwners(o)'
  <2>1. CASE UNCHANGED <<sent, field>> BY <2>1, <1>0, <1>1, OrderStays
  <2>2. CASE UNCHANGED field /\ lastWindow # 0 /\ Placement!SendClose(lastWindow)
    <3> DEFINE p == [op |-> "close", win |-> lastWindow]
    <3>1. sent' = Append(sent, p) BY <2>2 DEF Placement!SendClose
    <3>2. OrderFits(p, field.ask) BY DEF OrderFits
    <3> HIDE DEF p
    <3>3. field.ask \in 0..begun' /\ field'.ask = field.ask BY <2>2, <1>0, <1>1, <1>a
    <3> QED BY <3>1, <3>2, <3>3, <1>0, <1>1, OrderSends
  <2>3. CASE Placement!Execute /\ field' = Placement!Context(begun)
             /\ sent' = Append(sent, Placement!Bz(asked[begun].item))
    <3> DEFINE p == Placement!Bz(asked[begun].item)
    <3>1. begun' = begun /\ begun # 0 /\ sent' = Append(sent, p)
      BY <2>3 DEF Placement!Execute, PlacementInv
    <3>2. p.op = "bz" /\ p.item = asked[begun].item BY DEF Placement!Bz
    <3> HIDE DEF p
    <3>3. OrderFits(p, begun) BY <3>1, <3>2 DEF OrderFits
    <3>4. field'.ask = begun BY <2>3 DEF Placement!Context
    <3>5. begun \in 0..begun' BY <1>0, <3>1
    <3> QED BY <3>1, <3>2, <3>3, <3>4, <3>5, <1>0, <1>1, OrderSends
  <2> QED BY <2>1, <2>2, <2>3 DEF Placement!Begin, Placement!Execute, Placement!Complete,
     Placement!Interrupt, Placement!Timeout, Placement!Watchdog, Placement!Claimed
<1>4. OrderFields'
  <2>1. CASE Placement!Begin
    <3>1. UNCHANGED <<field, botState>> /\ botState = "Idle" /\ exec = "none"
          /\ (exec' = "close" => lastWindow' = 0) /\ (exec' # "close" => UNCHANGED lastWindow)
      BY <2>1 DEF Placement!Begin, Placement!SendClose
    <3>2. \A w \in Placement!Window : w # 0 BY DEF Placement!Window
    <3> QED BY <1>1, <3>1, <3>2 DEF OrderInv, OrderFields, Placement!Context
  <2>2. CASE Placement!Execute
    <3>1. exec = "close" /\ exec' = "poll" /\ UNCHANGED lastWindow BY <2>2 DEF Placement!Execute
    <3>2. \A w \in Placement!Window : handler[w].pc = "button" => lastWindow # w /\ field.ask # 0
      BY <3>1 DEF OrderInv, OrderFields
    <3>3. CASE UNCHANGED <<field, botState>>
      BY <1>1, <3>1, <3>2, <3>3 DEF OrderInv, OrderFields, Placement!Context
    <3>4. CASE field' = Placement!Context(begun)
      <4>1. field'.ask = begun /\ begun # 0 /\ begun' = begun
        BY <2>2, <3>4 DEF Placement!Context, Placement!Execute, PlacementInv
      <4>2. field' = [item |-> asked[begun].item, buy |-> asked[begun].buy, ask |-> begun] /\ asked' = asked
        BY <1>1, <3>4 DEF Placement!Context
      <4> QED BY <1>1, <3>1, <3>2, <4>1, <4>2 DEF OrderFields, Placement!Context
    <3> QED BY <2>2, <3>3, <3>4 DEF Placement!Execute
  <2>3. CASE /\ UNCHANGED field /\ botState' \in {botState, "Idle"} /\ lastWindow' \in {lastWindow, 0}
             /\ exec' \in {exec, "none", "poll"}
    <3>1. \A w \in Placement!Window : w # 0 BY DEF Placement!Window
    <3> QED BY <1>1, <2>3, <3>1 DEF OrderInv, OrderFields, Placement!Context
  <2>4. CASE Placement!Complete \/ Placement!Interrupt \/ Placement!Timeout \/ Placement!Watchdog
             \/ Placement!Claimed \/ UNCHANGED Placement!vars
    BY <2>3, <2>4 DEF Placement!Complete, Placement!Interrupt, Placement!Timeout, Placement!Watchdog,
       Placement!Claimed, Placement!SendClose
  <2> QED BY <2>1, <2>2, <2>4
<1> QED BY <1>2, <1>3, <1>4 DEF OrderInv

LEMMA OrderEventKeeps ==
  ASSUME PlacementInv, OrderInv,
         \/ Placement!OpenScreen \/ Placement!ContainerClose \/ Placement!SignEditor \/ Placement!Chat
  PROVE  OrderInv'
<1> USE DEF Placement!game, Placement!bot, Placement!flow, Placement!flags, Placement!proc
<1>0. Placement!TypeOK /\ begun \in Nat /\ begun <= begun
  BY PartsAssumption DEF PlacementInv, Placement!TypeOK, Placement!Number
<1>1. UNCHANGED <<shown, draft, placed, botState, field, exec, begun, asked>>
  BY DEF Placement!OpenScreen, Placement!ContainerClose, Placement!SignEditor, Placement!Chat
<1>2. Placement!PlacedAsAsked' BY <1>0, <1>1, OrderPlaced
<1>a. field.ask \in 0..begun
  <2>1. PICK own \in [1..Len(sent) + 1 -> 0..begun] : OrderOwners(own) BY DEF OrderInv
  <2>2. sent \in Seq(PlacementPacket) BY DEF PlacementInv
  <2>3. Len(sent) + 1 \in 1..Len(sent) + 1 BY <2>2
  <2> QED BY <2>1, <2>3 DEF OrderOwners
<1>3. \E o \in [1..Len(sent') + 1 -> 0..begun'] : OrderOwners(o)'
  <2>1. CASE UNCHANGED sent BY <2>1, <1>0, <1>1, OrderStays
  <2>2. CASE sent' = Append(sent, Placement!Sign(field.ask))
    <3> DEFINE p == Placement!Sign(field.ask)
    <3>1. sent' = Append(sent, p) BY <2>2
    <3>2. OrderFits(p, field.ask) BY DEF OrderFits, Placement!Sign
    <3> HIDE DEF p
    <3>3. field.ask \in 0..begun' /\ field'.ask = field.ask BY <1>1, <1>a
    <3> QED BY <3>1, <3>2, <3>3, <1>0, <1>1, OrderSends
  <2> QED BY <2>1, <2>2 DEF Placement!OpenScreen, Placement!ContainerClose, Placement!SignEditor,
     Placement!Chat
<1>4. CASE Placement!OpenScreen
  <2> DEFINE w == Head(pending)[2]
             h == [Placement!Off EXCEPT !.pc = "start", !.page = Head(pending)[3]]
  <2>1. h.pc = "start" /\ handler' = [handler EXCEPT ![w] = h] /\ lastWindow' = w
    BY <1>4 DEF Placement!OpenScreen, Placement!Off
  <2>2. w \in Placement!Window BY <1>4, PlacementEvents DEF Placement!OpenScreen
  <2> HIDE DEF w, h
  <2>3. handler \in [Placement!Window -> PlacementTask] BY DEF PlacementInv
  <2>4. handler'[w].pc = "start" /\ \A v \in Placement!Window : v # w => handler'[v] = handler[v]
    BY <2>1, <2>2, <2>3
  <2>5. OrderFields' BY <1>1, <2>1, <2>4 DEF OrderInv, OrderFields, Placement!Context
  <2> QED BY <1>2, <1>3, <2>5 DEF OrderInv
<1>5. CASE Placement!ContainerClose \/ Placement!SignEditor \/ Placement!Chat
  <2>1. UNCHANGED handler /\ lastWindow' \in {lastWindow, 0}
    BY <1>5 DEF Placement!ContainerClose, Placement!SignEditor, Placement!Chat
  <2>2. \A w \in Placement!Window : w # 0 BY DEF Placement!Window
  <2>3. OrderFields' BY <1>1, <2>1, <2>2 DEF OrderInv, OrderFields, Placement!Context
  <2> QED BY <1>2, <1>3, <2>3 DEF OrderInv
<1> QED BY <1>4, <1>5

\* What the answer to a packet of command c makes of the draft.
LEMMA OrderAnswers ==
  ASSUME PlacementInv, UNCHANGED asked, NEW p \in PlacementPacket, NEW b, NEW c,
         OrderDrafted(b), OrderFits(p, c), p.op # "bz" => c = b,
         Placement!Answer(p)
  PROVE  /\ OrderDrafted(c)'
         /\ placed' = placed \/ (placed' = placed \cup {draft} /\ shown.page = "confirm")
<1>0. draft \in Placement!Order /\ shown \in PlacementShown
  BY DEF PlacementInv, Placement!TypeOK, PlacementShown
<1>1. placed' = placed \/ (placed' = placed \cup {draft} /\ shown.page = "confirm")
  BY DEF Placement!Answer
<1>2. OrderDrafted(c)'
  <2>1. CASE shown' = Placement!None BY <2>1 DEF OrderDrafted, Placement!None
  <2>2. CASE p.op = "bz"
    <3>1. draft' = [item |-> p.item, buy |-> FALSE, amount |-> 0, price |-> 0]
          /\ c # 0 /\ p.item = asked[c].item /\ shown'.page \in {"search", "item"}
      BY <2>2 DEF Placement!Answer, Placement!Opens, OrderFits
    <3>2. draft'.item = asked[c].item /\ draft'.amount = 0 BY <3>1
    <3> QED BY <3>1, <3>2 DEF OrderDrafted
  <2>3. CASE p.op = "click" /\ p.slot = "item" /\ shown.page = "search" /\ shown'.page = "item" /\ UNCHANGED draft
    BY <2>3 DEF OrderDrafted
  <2>4. CASE p.op = "click" /\ p.slot = "buy" /\ shown.page = "item" /\ shown'.page = "amount"
             /\ draft' = [draft EXCEPT !.buy = (p.slot = "buy")]
    <3>1. draft'.item = draft.item /\ draft'.buy BY <1>0, <2>4 DEF Placement!Order
    <3> QED BY <2>4, <3>1 DEF OrderDrafted, OrderFits
  <2>5. CASE p.op = "click" /\ p.slot = "sell" /\ shown.page = "item" /\ shown'.page \in {"price", "signPrice"}
             /\ draft' = [draft EXCEPT !.buy = (p.slot = "buy")]
    <3>1. draft'.item = draft.item /\ ~draft'.buy /\ draft'.amount = draft.amount
      BY <1>0, <2>5 DEF Placement!Order
    <3>2. ~asked[c].buy /\ c # 0 /\ draft.item = asked[c].item /\ draft.amount = 0
      BY <2>5 DEF OrderDrafted, OrderFits
    <3>3. Placement!Asks(c).amount' = 0 BY <3>2 DEF Placement!Asks
    <3> QED BY <2>5, <3>1, <3>2, <3>3 DEF OrderDrafted
  <2>6. CASE p.op = "click" /\ p.slot = "custom" /\ shown.page \in {"amount", "price"} /\ UNCHANGED draft
             /\ shown'.page = IF shown.page = "amount" THEN "signAmount" ELSE "signPrice"
    BY <2>6 DEF OrderDrafted, Placement!Asks
  <2>7. CASE p.op = "sign" /\ shown.page = "signAmount" /\ shown'.page = "price"
             /\ draft' = [draft EXCEPT !.amount = p.text]
    <3>1. draft'.item = draft.item /\ draft'.buy = draft.buy /\ draft'.amount = c
      BY <1>0, <2>7 DEF Placement!Order, OrderFits
    <3>2. asked[c].buy /\ draft.buy /\ c # 0 /\ draft.item = asked[c].item BY <2>7 DEF OrderDrafted
    <3>3. Placement!Asks(c).amount' = c BY <3>2 DEF Placement!Asks
    <3> QED BY <2>7, <3>1, <3>2, <3>3 DEF OrderDrafted
  <2>8. CASE p.op = "sign" /\ shown.page = "signPrice" /\ shown'.page = "confirm"
             /\ draft' = [draft EXCEPT !.price = p.text]
    <3>1. draft'.item = draft.item /\ draft'.buy = draft.buy /\ draft'.amount = draft.amount
          /\ draft'.price = c
      BY <1>0, <2>8 DEF Placement!Order, OrderFits
    <3>2. Placement!Asks(c).amount' = Placement!Asks(c).amount BY DEF Placement!Asks
    <3> QED BY <2>8, <3>1, <3>2 DEF OrderDrafted
  <2> QED BY <2>1, <2>2, <2>3, <2>4, <2>5, <2>6, <2>7, <2>8
     DEF Placement!Answer, Placement!Opens, Placement!SignFor
<1> QED BY <1>1, <1>2

LEMMA OrderGameKeeps ==
  ASSUME PlacementInv, OrderInv, Placement!Game
  PROVE  OrderInv'
<1> USE DEF Placement!game, Placement!bot, Placement!flow, Placement!flags, Placement!proc
<1>1. UNCHANGED <<botState, lastWindow, field, handler, exec, begun, asked>> /\ sent # <<>> /\ sent' = Tail(sent)
  BY DEF Placement!Game
<1>2. PICK own \in [1..Len(sent) + 1 -> 0..begun] : OrderOwners(own) BY DEF OrderInv
<1> DEFINE p == Head(sent)
<1>3. sent \in Seq(PlacementPacket) /\ p \in PlacementPacket /\ p = sent[1] /\ 1 \in 1..Len(sent)
      /\ 1 \in 1..Len(sent) + 1
  BY <1>1, Leaves DEF PlacementInv
<1>4. OrderDrafted(own[1]) /\ OrderFits(p, own[2]) /\ (p.op # "bz" => own[2] = own[1])
  BY <1>2, <1>3 DEF OrderOwners
<1>5. own[1] \in 0..begun BY <1>2, <1>3
<1>6. Placement!Answer(p) \/ Placement!NoAnswer(p) BY DEF Placement!Game
<1> HIDE DEF p
<1>7. CASE Placement!Answer(p)
  <2>1. OrderDrafted(own[2])' BY <1>1, <1>3, <1>4, <1>7, OrderAnswers
  <2>2. placed' = placed \/ (placed' = placed \cup {draft} /\ shown.page = "confirm")
    BY <1>1, <1>3, <1>4, <1>7, OrderAnswers
  <2>3. \E o \in [1..Len(sent') + 1 -> 0..begun'] : OrderOwners(o)' BY <1>1, <1>2, <2>1, OrderLeaves
  <2>4. shown.page = "confirm" => \E c \in 1..begun : draft = Placement!Asks(c)
    <3> SUFFICES ASSUME shown.page = "confirm" PROVE \E c \in 1..begun : draft = Placement!Asks(c)
      OBVIOUS
    <3> DEFINE c == own[1]
    <3>1. c # 0 /\ draft.item = asked[c].item /\ (draft.buy <=> asked[c].buy)
          /\ draft.amount = Placement!Asks(c).amount /\ draft.price = c
      BY <1>4 DEF OrderDrafted
    <3>2. begun \in Nat /\ begun <= MaxCommands
      BY PartsAssumption DEF PlacementInv, Placement!TypeOK, Placement!Number
    <3>3. c \in 1..begun /\ c \in Placement!Command
      BY <1>5, <3>1, <3>2, PartsAssumption DEF Placement!Command
    <3> HIDE DEF c
    <3>4. asked[c] \in [item : Goods, buy : BOOLEAN] BY <3>3 DEF PlacementInv
    <3>5. draft \in [item : Goods, buy : BOOLEAN, amount : Placement!Number, price : Placement!Number]
      BY DEF PlacementInv, Placement!TypeOK, Placement!Order
    <3>6. draft = [item |-> draft.item, buy |-> draft.buy, amount |-> draft.amount, price |-> draft.price]
      BY <3>5
    <3>7. draft.buy \in BOOLEAN /\ asked[c].buy \in BOOLEAN BY <3>4, <3>5
    <3>8. draft.buy = asked[c].buy BY <3>1, <3>7
    <3>9. draft = Placement!Asks(c) BY <3>1, <3>6, <3>8 DEF Placement!Asks
    <3> QED BY <3>3, <3>9
  <2>5. Placement!PlacedAsAsked'
    <3>1. \A c : Placement!Asks(c)' = Placement!Asks(c) BY <1>1 DEF Placement!Asks
    <3> QED BY <1>1, <2>2, <2>4, <3>1 DEF OrderInv, Placement!PlacedAsAsked
  <2>6. OrderFields' BY <1>1 DEF OrderInv, OrderFields, Placement!Context
  <2> QED BY <2>3, <2>5, <2>6 DEF OrderInv
<1>8. CASE Placement!NoAnswer(p)
  <2>1. UNCHANGED <<shown, draft, placed>> BY <1>8 DEF Placement!NoAnswer
  <2>2. p.op # "bz" BY <1>8 DEF Placement!NoAnswer
  <2>3. OrderDrafted(own[2])' BY <1>1, <1>4, <2>1, <2>2, OrderSame
  <2>4. \E o \in [1..Len(sent') + 1 -> 0..begun'] : OrderOwners(o)' BY <1>1, <1>2, <2>3, OrderLeaves
  <2>5. Placement!PlacedAsAsked'
    <3>1. \A c : Placement!Asks(c)' = Placement!Asks(c) BY <1>1 DEF Placement!Asks
    <3> QED BY <1>1, <2>1, <3>1 DEF OrderInv, Placement!PlacedAsAsked
  <2>6. OrderFields' BY <1>1 DEF OrderInv, OrderFields, Placement!Context
  <2> QED BY <2>4, <2>5, <2>6 DEF OrderInv
<1> QED BY <1>6, <1>7, <1>8

LEMMA OrderInit == Placement!Init => OrderInv
<1> SUFFICES ASSUME Placement!Init PROVE OrderInv OBVIOUS
<1>1. PICK i \in Goods : field = [item |-> i, buy |-> FALSE, ask |-> 0] BY DEF Placement!Init
<1>2. field.ask = 0 /\ sent = <<>> /\ shown.page = "none" /\ placed = {} /\ botState = "Idle"
      /\ exec = "none" /\ begun = 0 /\ \A w \in Placement!Window : handler[w].pc # "button"
  BY <1>1 DEF Placement!Init, Placement!None, Placement!Off
<1>3. Placement!PlacedAsAsked BY <1>2 DEF Placement!PlacedAsAsked
<1>4. OrderFields BY <1>2 DEF OrderFields
<1> DEFINE o == [j \in 1..1 |-> 0]
<1>5. Len(sent) = 0 /\ 1..Len(sent) = {} /\ Len(sent) + 1 = 1 BY <1>2
<1>6. o \in [1..Len(sent) + 1 -> 0..begun] /\ o[1] = 0 BY <1>2, <1>5
<1> HIDE DEF o
<1>7. OrderDrafted(o[1]) BY <1>2 DEF OrderDrafted
<1>8. OrderOwners(o) BY <1>2, <1>5, <1>6, <1>7 DEF OrderOwners
<1> QED BY <1>3, <1>4, <1>6, <1>8 DEF OrderInv

LEMMA OrderNext ==
  ASSUME PlacementInv, PlacementInv', OrderInv, [Placement!Next]_(Placement!vars)
  PROVE  OrderInv'
<1>1. CASE \/ Placement!Begin \/ Placement!Execute \/ Placement!Complete \/ Placement!Interrupt
           \/ Placement!Timeout \/ Placement!Watchdog \/ Placement!Claimed
           \/ UNCHANGED Placement!vars
  BY <1>1, OrderProcessorKeeps
<1>2. CASE \E w \in Placement!Window : Placement!Handle(w) BY <1>2, OrderHandleKeeps
<1>3. CASE \/ Placement!OpenScreen \/ Placement!ContainerClose \/ Placement!SignEditor \/ Placement!Chat
  BY <1>3, OrderEventKeeps
<1>4. CASE Placement!Game BY <1>4, OrderGameKeeps
<1> QED BY <1>1, <1>2, <1>3, <1>4 DEF Placement!Next

-----------------------------------------------------------------------------
(* Cookies. *)

CookiePacket ==
    [op : {"open"}, page : {"menu", "bazaar", "search"}] \cup [op : {"use"}]
    \cup [op : {"click"}, win : Check!Window, slot : {10, 11, 47}]
    \cup [op : {"close"}, win : Check!Window]
CookieEvent == ({"open"} \X Check!Window \X Check!Pages) \cup {<<"unsold">>}
CookieTask ==
    [pc : {"none", "scan", "enough", "short", "buy", "wait", "find", "eat", "ate", "offer", "accept",
           "accepted"},
     page : Check!Pages \cup {"none"}, step : Check!Steps, after : SUBSET Check!Window]

CookieInv ==
    /\ Check!TypeOK
    /\ sent \in Seq(CookiePacket) /\ pending \in Seq(CookieEvent)
    /\ handler \in [Check!Window -> CookieTask]
    /\ asked \in [1..MaxCommands -> {"cookie", "sell"}]
    /\ exec = "close" => begun # 0

LEMMA CookiePackets ==
  /\ \A page \in {"menu", "bazaar", "search"} : Check!Open(page) \in CookiePacket
  /\ Check!UseItem \in CookiePacket
  /\ \A w \in Check!Window :
        /\ \A s \in {10, 11, 47} : Check!Click(w, s) \in CookiePacket
        /\ Check!Close(w) \in CookiePacket
BY DEF CookiePacket, Check!Open, Check!UseItem, Check!Click, Check!Close

LEMMA CookieJoins ==
  ASSUME CookieInv, NEW p \in CookiePacket, sent' = Append(sent, p)
  PROVE  sent' \in Seq(CookiePacket)
BY DEF CookieInv

LEMMA CookieOpens ==
  ASSUME CookieInv, NEW page \in {"menu", "bazaar", "search"},
         sent' = Append(sent, Check!Open(page))
  PROVE  sent' \in Seq(CookiePacket)
<1>1. Check!Open(page) \in CookiePacket BY CookiePackets
<1> QED BY <1>1, CookieJoins

LEMMA CookieCloses ==
  ASSUME CookieInv, NEW w \in Check!Window, Check!SendClose(w)
  PROVE  sent' \in Seq(CookiePacket) /\ lastWindow' \in 0..MaxCookieWindow
<1>1. Check!Close(w) \in CookiePacket /\ sent' = Append(sent, Check!Close(w)) /\ lastWindow' = 0
  BY CookiePackets DEF Check!SendClose
<1>2. 0 \in 0..MaxCookieWindow BY PartsAssumption
<1> QED BY <1>1, <1>2, CookieJoins

LEMMA CookieClicks ==
  ASSUME CookieInv, NEW w \in Check!Window, NEW s \in {10, 11, 47},
         sent' = Append(sent, Check!Click(w, s)) \/ sent' = sent
  PROVE  sent' \in Seq(CookiePacket)
<1>1. Check!Click(w, s) \in CookiePacket BY CookiePackets
<1>2. CASE sent' = Append(sent, Check!Click(w, s)) BY <1>1, <1>2, CookieJoins
<1>3. CASE sent' = sent BY <1>3 DEF CookieInv
<1> QED BY <1>2, <1>3

LEMMA CookieWindow ==
  ASSUME CookieInv
  PROVE  /\ lastWindow # 0 => lastWindow \in Check!Window
         /\ lastWindow \in 0..MaxCookieWindow /\ 0 \in 0..MaxCookieWindow /\ Check!Window \subseteq 0..MaxCookieWindow
BY PartsAssumption DEF CookieInv, Check!TypeOK, Check!Window

(* What a handler becomes.                                                  *)
LEMMA CookieEnds ==
  ASSUME CookieInv, NEW w \in Check!Window, Check!Ends(w)
  PROVE  handler' \in [Check!Window -> CookieTask]
<1>1. Check!Off \in CookieTask BY DEF Check!Off, CookieTask, Check!Steps
<1>2. handler' = [handler EXCEPT ![w] = Check!Off] BY DEF Check!Ends
<1>3. handler \in [Check!Window -> CookieTask] BY DEF CookieInv
<1> QED BY <1>1, <1>2, <1>3

LEMMA CookieGoes ==
  ASSUME CookieInv, NEW w \in Check!Window,
         NEW pc \in {"enough", "short", "wait", "find", "eat", "ate", "accepted"}, Check!Goes(w, pc)
  PROVE  handler' \in [Check!Window -> CookieTask]
<1>1. handler' = [handler EXCEPT ![w].pc = pc] BY DEF Check!Goes
<1>2. handler \in [Check!Window -> CookieTask] BY DEF CookieInv
<1> QED BY <1>1, <1>2 DEF CookieTask

LEMMA CookieTyped ==
  ASSUME handler' \in [Check!Window -> CookieTask]
  PROVE  \A w \in Check!Window :
            /\ handler'[w].pc \in {"none", "scan", "enough", "short", "buy", "wait", "find", "eat", "ate",
                                   "offer", "accept", "accepted"}
            /\ handler'[w].step \in Check!Steps /\ handler'[w].after \subseteq Check!Window
<1>1. \A w \in Check!Window : handler'[w] \in CookieTask OBVIOUS
<1> QED BY <1>1 DEF CookieTask

\* The effects of one step of a handler.
CookieHandled ==
    /\ sent' \in Seq(CookiePacket) /\ lastWindow' \in 0..MaxCookieWindow
    /\ handler' \in [Check!Window -> CookieTask]
    /\ botState' \in {botState, "Idle", "BuyingCookie"}
    /\ stage' \in Check!Steps
    /\ selling' \in BOOLEAN

LEMMA CookieHandleKeeps ==
  ASSUME CookieInv, NEW w \in Check!Window, Check!Handle(w)
  PROVE  CookieInv'
<1> USE DEF Check!game, Check!wire, Check!bot, Check!flow, Check!proc
<1>0. Check!TypeOK BY DEF CookieInv
<1>1. UNCHANGED <<shown, lastId, bought, cookies, sold, pending, dog, exec, begun, asked, stray>>
  BY DEF Check!Handle
<1>2. /\ sent \in Seq(CookiePacket) /\ lastWindow \in 0..MaxCookieWindow /\ handler \in [Check!Window -> CookieTask]
      /\ stage \in Check!Steps /\ selling \in BOOLEAN
  BY <1>0 DEF CookieInv, Check!TypeOK
<1>s. {"Initial", "ItemDetail", "BuyConfirm", "WaitingForCookie", "ConsumingCookie"} = Check!Steps
  BY DEF Check!Steps
<1>3. CookieHandled
  <2> USE DEF CookieHandled
  <2>1. CASE Check!Scan(w)
    <3>1. \E pc \in {"enough", "short"} : Check!Goes(w, pc) BY <2>1 DEF Check!Scan
    <3> QED BY <2>1, <3>1, <1>2, CookieGoes, CookieCloses DEF Check!Scan
  <2>2. CASE Check!Decide(w)
    <3>1. sent' \in Seq(CookiePacket)
      BY <2>2, <1>2, CookieOpens DEF Check!Decide
    <3> QED BY <2>2, <3>1, <1>2, <1>s, CookieEnds DEF Check!Decide
  <2>3. CASE Check!ToDetail(w)
    <3>1. sent' \in Seq(CookiePacket)
      BY <2>3, CookieClicks DEF Check!ToDetail, Check!ClickIfCurrent
    <3> QED BY <2>3, <3>1, <1>2, <1>s, CookieEnds DEF Check!ToDetail
  <2>4. CASE Check!ToConfirm(w)
    <3>1. sent' \in Seq(CookiePacket)
      BY <2>4, CookieClicks DEF Check!ToConfirm, Check!ClickIfCurrent
    <3> QED BY <2>4, <3>1, <1>2, <1>s, CookieEnds DEF Check!ToConfirm
  <2>5. CASE Check!Confirm(w)
    <3>1. /\ botState' = botState /\ selling' = selling /\ stage' \in {stage, Check!Claimed}
          /\ \/ Check!ClickIfCurrent(w, 10) /\ lastWindow' = lastWindow /\ Check!Goes(w, "wait")
             \/ Check!SendClose(w) /\ Check!Ends(w)
      BY <2>5 DEF Check!Confirm
    <3>2. sent' \in Seq(CookiePacket) /\ lastWindow' \in 0..MaxCookieWindow
      BY <3>1, <1>2, CookieClicks, CookieCloses DEF Check!ClickIfCurrent
    <3>3. handler' \in [Check!Window -> CookieTask] BY <3>1, CookieGoes, CookieEnds
    <3> QED BY <3>1, <3>2, <3>3, <1>2, <1>s DEF Check!Claimed
  <2>6. CASE Check!Refuse(w)
    BY <2>6, <1>2, CookieEnds, CookieCloses DEF Check!Refuse
  <2>7. CASE Check!Consume(w)
    <3>1. /\ botState' = botState /\ selling' = selling /\ stage' \in {stage, "Initial"}
          /\ \/ UNCHANGED <<sent, lastWindow>> /\ Check!Goes(w, "eat")
             \/ Check!SendClose(w) /\ Check!Ends(w)
      BY <2>7 DEF Check!Consume
    <3>2. sent' \in Seq(CookiePacket) /\ lastWindow' \in 0..MaxCookieWindow BY <3>1, <1>2, CookieCloses
    <3>3. handler' \in [Check!Window -> CookieTask] BY <3>1, CookieGoes, CookieEnds
    <3> QED BY <3>1, <3>2, <3>3, <1>2, <1>s
  <2>8. CASE Check!Waited(w)
    BY <2>8, <1>2, CookieGoes, CookieCloses DEF Check!Waited
  <2>9. CASE Check!FindCookie(w)
    <3>1. sent' \in Seq(CookiePacket)
      BY <2>9, <1>2, CookiePackets, CookieJoins DEF Check!FindCookie
    <3> QED BY <2>9, <3>1, <1>2, <1>s, CookieEnds DEF Check!FindCookie
  <2>10. CASE Check!Eat(w)
    <3>1. sent' \in Seq(CookiePacket)
      BY <2>10, CookieClicks DEF Check!Eat, Check!ClickIfCurrent
    <3> QED BY <2>10, <3>1, <1>2, CookieGoes DEF Check!Eat
  <2>11. CASE Check!Ate(w)
    BY <2>11, <1>2, CookieEnds, CookieCloses DEF Check!Ate
  <2>12. CASE Check!Offer(w)
    <3>1. sent' \in Seq(CookiePacket) BY <2>12, CookieClicks DEF Check!Offer
    <3>2. selling' \in {selling, TRUE} BY <2>12 DEF Check!Offer
    <3> QED BY <2>12, <3>1, <3>2, <1>2, CookieEnds DEF Check!Offer
  <2>13. CASE Check!Accept(w)
    <3>1. sent' \in Seq(CookiePacket) BY <2>13, CookieClicks DEF Check!Accept
    <3>2. handler' \in [Check!Window -> CookieTask] BY <2>13, CookieGoes, CookieEnds DEF Check!Accept
    <3> QED BY <2>13, <3>1, <3>2, <1>2 DEF Check!Accept
  <2>14. CASE Check!Accepted(w)
    BY <2>14, <1>2, CookieEnds, CookieCloses DEF Check!Accepted
  <2> QED BY <2>1, <2>2, <2>3, <2>4, <2>5, <2>6, <2>7, <2>8, <2>9, <2>10, <2>11, <2>12, <2>13, <2>14
     DEF Check!Handle
<1>4. botState' \in Check!States \cup {"Idle"}
  BY <1>0, <1>3 DEF CookieHandled, Check!TypeOK, Check!States
<1>5. Check!TypeOK' BY <1>0, <1>1, <1>3, <1>4, CookieTyped DEF CookieHandled, Check!TypeOK
<1> QED BY <1>1, <1>3, <1>5 DEF CookieInv, CookieHandled

(* The processor, the watchdog and the stray windows.                       *)
LEMMA CookieProcessorKeeps ==
  ASSUME CookieInv,
         \/ Check!Begin \/ Check!Execute \/ Check!Complete \/ Check!Timeout \/ Check!Watchdog
         \/ UNCHANGED Check!vars
  PROVE  CookieInv'
<1> USE DEF Check!game, Check!wire, Check!bot, Check!flow, Check!tasks, Check!proc, Check!vars
<1>0. Check!TypeOK BY DEF CookieInv
<1>1. UNCHANGED <<shown, lastId, bought, cookies, sold, pending, handler, asked, stray>>
  BY DEF Check!Begin, Check!Execute, Check!CheckCookie, Check!SellInventoryBz, Check!Complete,
     Check!Timeout, Check!Watchdog
<1>2. sent' \in Seq(CookiePacket) /\ lastWindow' \in 0..MaxCookieWindow
  <2>1. CASE UNCHANGED <<sent, lastWindow>> BY <2>1, <1>0 DEF CookieInv, Check!TypeOK
  <2>2. CASE lastWindow # 0 /\ Check!SendClose(lastWindow) BY <2>2, CookieWindow, CookieCloses
  <2>3. CASE Check!Execute
    <3>1. lastWindow' = lastWindow
          /\ \E page \in {"menu", "bazaar", "search"} : sent' = Append(sent, Check!Open(page))
      BY <2>3 DEF Check!Execute, Check!CheckCookie, Check!SellInventoryBz
    <3> QED BY <3>1, <1>0, CookieOpens DEF Check!TypeOK
  <2> QED BY <2>1, <2>2, <2>3 DEF Check!Begin, Check!Complete, Check!Timeout, Check!Watchdog
<1>3. /\ stage' \in {stage, "Initial"} /\ selling' \in {selling, FALSE}
      /\ botState' \in {botState, "Idle", "CheckingCookie", "SellingInventoryBz"}
  BY DEF Check!Begin, Check!Execute, Check!CheckCookie, Check!SellInventoryBz, Check!Complete,
     Check!Timeout, Check!Watchdog
<1>4. stage' \in Check!Steps /\ botState' \in Check!States \cup {"Idle"}
  BY <1>0, <1>3 DEF Check!TypeOK, Check!Steps, Check!States
<1>5. selling' \in BOOLEAN
  <2>1. selling \in BOOLEAN BY <1>0 DEF Check!TypeOK
  <2> QED BY <1>3, <2>1
<1>6. begun' \in 0..MaxCommands /\ (exec' = "close" => begun' # 0)
  <2>1. CASE Check!Begin
    <3>1. begun \in 0..MaxCommands /\ begun < MaxCommands /\ begun' = begun + 1
      BY <1>0, <2>1 DEF Check!Begin, Check!TypeOK
    <3> QED BY <3>1, PartsAssumption
  <2>2. CASE begun' = begun /\ exec' \in {"none", "poll", exec}
    BY <2>2, <1>0 DEF CookieInv, Check!TypeOK
  <2> QED BY <2>1, <2>2 DEF Check!Execute, Check!Complete, Check!Timeout, Check!Watchdog
<1>7. exec' \in {"none", "close", "poll"}
  <2>0. exec \in {"none", "close", "poll"} BY <1>0 DEF Check!TypeOK
  <2> QED BY <2>0 DEF Check!Begin, Check!Execute, Check!Complete, Check!Timeout, Check!Watchdog
<1>8. dog' \in BOOLEAN
  <2>0. dog \in BOOLEAN BY <1>0 DEF Check!TypeOK
  <2>1. dog' \in {dog, FALSE}
    BY DEF Check!Begin, Check!Execute, Check!Complete, Check!Timeout, Check!Watchdog
  <2> QED BY <2>0, <2>1
<1>9. Check!TypeOK' BY <1>0, <1>1, <1>2, <1>4, <1>5, <1>6, <1>7, <1>8 DEF Check!TypeOK
<1> QED BY <1>1, <1>2, <1>6, <1>9 DEF CookieInv

LEMMA CookieEvents ==
  ASSUME CookieInv, NEW kind, Check!Event(kind)
  PROVE  /\ pending' \in Seq(CookieEvent)
         /\ kind = "open" => Head(pending)[2] \in Check!Window /\ Head(pending)[3] \in Check!Pages
<1>1. pending \in Seq(CookieEvent) /\ pending # <<>> /\ Head(pending)[1] = kind /\ pending' = Tail(pending)
  BY DEF CookieInv, Check!Event
<1>2. Head(pending) \in CookieEvent /\ pending' \in Seq(CookieEvent) BY <1>1, Leaves
<1>3. ASSUME kind = "open" PROVE Head(pending) \in {"open"} \X Check!Window \X Check!Pages
  BY <1>1, <1>2, <1>3 DEF CookieEvent
<1> QED BY <1>2, <1>3

LEMMA CookieEventKeeps ==
  ASSUME CookieInv, Check!OpenScreen \/ Check!NothingToSell
  PROVE  CookieInv'
<1> USE DEF Check!game, Check!bot, Check!flow, Check!tasks, Check!proc
<1>0. Check!TypeOK BY DEF CookieInv
<1>1. UNCHANGED <<shown, lastId, bought, cookies, sold, stage, exec, begun, asked, stray>>
  BY DEF Check!OpenScreen, Check!NothingToSell
<1>2. pending' \in Seq(CookieEvent) BY CookieEvents DEF Check!OpenScreen, Check!NothingToSell
<1>3. CASE Check!OpenScreen
  <2> DEFINE w == Head(pending)[2]
             r == Check!Handler(Head(pending)[3])
             h == IF r.pc = "none" THEN Check!Off ELSE r
  <2>1. w \in Check!Window /\ Head(pending)[3] \in Check!Pages
    BY <1>3, CookieEvents DEF Check!OpenScreen
  <2>2. Check!Off \in CookieTask BY DEF Check!Off, CookieTask, Check!Steps
  <2>3. r \in CookieTask
    <3>1. stage \in Check!Steps BY <1>0 DEF Check!TypeOK
    <3>2. Check!Deciding \subseteq Check!Window BY DEF Check!Deciding
    <3>3. r.pc \in {"scan", "buy", "accept", "offer", "none"} BY DEF Check!Handler
    <3>4. r = [page |-> Head(pending)[3], step |-> stage, after |-> Check!Deciding, pc |-> r.pc]
      BY DEF Check!Handler
    <3> HIDE DEF r
    <3> QED BY <2>1, <3>1, <3>2, <3>3, <3>4 DEF CookieTask
  <2>4. handler' = [handler EXCEPT ![w] = h] /\ lastWindow' = w /\ dog' = TRUE
        /\ UNCHANGED <<sent, botState, selling>>
    BY <1>3 DEF Check!OpenScreen
  <2> HIDE DEF r
  <2>5. h \in CookieTask BY <2>2, <2>3
  <2> HIDE DEF w, h
  <2>6. handler \in [Check!Window -> CookieTask] BY DEF CookieInv
  <2>7. handler' \in [Check!Window -> CookieTask] BY <2>4, <2>5, <2>6
  <2>8. lastWindow' \in 0..MaxCookieWindow BY <2>1, <2>4, CookieWindow
  <2>9. Check!TypeOK' BY <1>0, <1>1, <2>4, <2>7, <2>8, CookieTyped DEF Check!TypeOK
  <2> QED BY <1>1, <1>2, <2>4, <2>7, <2>9 DEF CookieInv
<1>4. CASE Check!NothingToSell
  <2>1. UNCHANGED <<handler, dog>> /\ botState' \in {botState, "Idle"} /\ selling' \in {selling, FALSE}
    BY <1>4 DEF Check!NothingToSell
  <2>2. sent' \in Seq(CookiePacket) /\ lastWindow' \in 0..MaxCookieWindow
    <3>1. CASE UNCHANGED <<sent, lastWindow>> BY <3>1, <1>0 DEF CookieInv, Check!TypeOK
    <3>2. CASE lastWindow # 0 /\ Check!SendClose(lastWindow) BY <3>2, CookieWindow, CookieCloses
    <3> QED BY <1>4, <3>1, <3>2 DEF Check!NothingToSell
  <2>3. selling' \in BOOLEAN
    <3>1. selling \in BOOLEAN BY <1>0 DEF Check!TypeOK
    <3> QED BY <2>1, <3>1
  <2>4. botState' \in Check!States \cup {"Idle"} BY <1>0, <2>1 DEF Check!TypeOK
  <2>5. Check!TypeOK' BY <1>0, <1>1, <2>1, <2>2, <2>3, <2>4 DEF Check!TypeOK
  <2> QED BY <1>1, <1>2, <2>1, <2>2, <2>5 DEF CookieInv
<1> QED BY <1>3, <1>4

(* The game.                                                                *)
CookieShown == [page : Check!Pages \cup {"none"}, id : 0..MaxCookieWindow]

LEMMA CookieShows ==
  ASSUME CookieInv, NEW page \in Check!Pages, Check!Opens(page)
  PROVE  shown' \in CookieShown /\ lastId' \in 0..MaxCookieWindow /\ pending' \in Seq(CookieEvent)
<1> DEFINE e == <<"open", lastId + 1, page>>
<1>0. lastId \in 0..MaxCookieWindow /\ lastId < MaxCookieWindow BY DEF CookieInv, Check!TypeOK, Check!Opens
<1>1. lastId + 1 \in Check!Window /\ lastId + 1 \in 0..MaxCookieWindow
  BY <1>0, PartsAssumption DEF Check!Window
<1>2. e \in CookieEvent BY <1>1 DEF CookieEvent
<1>3. /\ shown' = [page |-> page, id |-> lastId + 1]
      /\ lastId' = lastId + 1 /\ pending' = Append(pending, e)
  BY DEF Check!Opens
<1> HIDE DEF e
<1> QED BY <1>1, <1>2, <1>3 DEF CookieInv, CookieShown

LEMMA CookieAnswer ==
  ASSUME CookieInv, NEW p \in CookiePacket, Check!Answer(p)
  PROVE  /\ shown' \in CookieShown /\ lastId' \in 0..MaxCookieWindow /\ pending' \in Seq(CookieEvent)
         /\ bought' \in Nat /\ cookies' \in 0..bought' /\ sold' \in Nat
<1>0. /\ shown \in CookieShown /\ lastId \in 0..MaxCookieWindow /\ pending \in Seq(CookieEvent)
      /\ bought \in Nat /\ cookies \in 0..bought /\ sold \in Nat /\ Check!None \in CookieShown
  BY CookieWindow DEF CookieInv, Check!TypeOK, CookieShown, Check!None
<1>p. /\ {"menu", "bazaar", "search", "gui", "detail", "sell", "buy", "other"} \subseteq Check!Pages
      /\ \A l \in Check!Leads : l[3] \in Check!Pages
  BY DEF Check!Pages, Check!Bazaar, Check!Leads
<1>1. shown' \in CookieShown /\ lastId' \in 0..MaxCookieWindow /\ pending' \in Seq(CookieEvent)
  <2>1. CASE \E page \in Check!Pages : Check!Opens(page) BY <2>1, CookieShows
  <2>2. CASE shown' \in {shown, Check!None} /\ UNCHANGED <<lastId, pending>> BY <1>0, <2>2
  <2>3. CASE UNCHANGED <<shown, lastId>> /\ pending' = Append(pending, <<"unsold">>)
    <3> DEFINE e == <<"unsold">>
    <3>1. e \in CookieEvent BY DEF CookieEvent
    <3>2. pending' = Append(pending, e) BY <2>3
    <3> HIDE DEF e
    <3>3. pending' \in Seq(CookieEvent) BY <1>0, <3>1, <3>2, Joins
    <3> QED BY <1>0, <2>3, <3>3
  <2>4. CASE p.op = "open"
    <3>1. p.page \in Check!Pages BY <2>4, <1>p DEF CookiePacket
    <3> QED BY <2>1, <2>4, <3>1 DEF Check!Answer
  <2>5. CASE p.op = "use" BY <1>p, <2>1, <2>5 DEF Check!Answer
  <2>6. CASE p.op = "click" BY <1>p, <2>1, <2>2, <2>3, <2>6 DEF Check!Answer
  <2>7. CASE p.op = "close" BY <2>2, <2>7 DEF Check!Answer
  <2> QED BY <2>4, <2>5, <2>6, <2>7 DEF Check!Answer
<1>2. /\ \/ UNCHANGED <<bought, cookies>>
         \/ bought' = bought + 1 /\ cookies' = cookies + 1
         \/ bought' = bought /\ cookies > 0 /\ cookies' = cookies - 1
      /\ sold' = sold \/ sold' = sold + 1
  BY DEF Check!Answer, Check!Buys
<1>3. bought' \in Nat /\ cookies' \in 0..bought' /\ sold' \in Nat BY <1>0, <1>2
<1> QED BY <1>1, <1>3

LEMMA CookieGameKeeps ==
  ASSUME CookieInv, Check!Game \/ Check!Stray
  PROVE  CookieInv'
<1> USE DEF Check!game, Check!bot, Check!flow, Check!tasks, Check!proc
<1>0. Check!TypeOK BY DEF CookieInv
<1>1. UNCHANGED <<botState, lastWindow, stage, selling, handler, dog, exec, begun, asked>>
  BY DEF Check!Game, Check!Stray
<1>2. CASE Check!Game
  <2>1. Head(sent) \in CookiePacket /\ sent' \in Seq(CookiePacket) BY <1>2, Leaves DEF Check!Game, CookieInv
  <2>2. /\ shown' \in CookieShown /\ lastId' \in 0..MaxCookieWindow /\ pending' \in Seq(CookieEvent)
        /\ bought' \in Nat /\ cookies' \in 0..bought' /\ sold' \in Nat
    <3>1. CASE Check!Answer(Head(sent)) BY <2>1, <3>1, CookieAnswer
    <3>2. CASE UNCHANGED <<shown, lastId, bought, cookies, sold, pending>>
      BY <1>0, <3>2 DEF CookieInv, Check!TypeOK, CookieShown
    <3> QED BY <1>2, <3>1, <3>2 DEF Check!Game
  <2>3. stray' = stray BY <1>2 DEF Check!Game
  <2>4. Check!TypeOK' BY <1>0, <1>1, <2>2, <2>3 DEF Check!TypeOK, CookieShown
  <2> QED BY <1>1, <2>1, <2>2, <2>4 DEF CookieInv
<1>3. CASE Check!Stray
  <2>1. PICK page : page \in {"menu", "other"} /\ Check!Opens(page) BY <1>3 DEF Check!Stray
  <2>2. page \in Check!Pages BY <2>1 DEF Check!Pages
  <2>3. shown' \in CookieShown /\ lastId' \in 0..MaxCookieWindow /\ pending' \in Seq(CookieEvent)
    BY <2>1, <2>2, CookieShows
  <2>4. UNCHANGED <<bought, cookies, sold, sent>> /\ stray < MaxStray /\ stray' = stray + 1
    BY <1>3 DEF Check!Stray
  <2>5. stray' \in 0..MaxStray BY <1>0, <2>4, PartsAssumption DEF Check!TypeOK
  <2>6. Check!TypeOK' BY <1>0, <1>1, <2>3, <2>4, <2>5 DEF Check!TypeOK, CookieShown
  <2> QED BY <1>1, <2>3, <2>4, <2>6 DEF CookieInv
<1> QED BY <1>2, <1>3

LEMMA CookieInit == Check!Init => CookieInv
<1> SUFFICES ASSUME Check!Init PROVE CookieInv OBVIOUS
<1> USE DEF Check!Init
<1>1. 0 \in 0..MaxCookieWindow /\ 0 \in 0..MaxStray /\ 0 \in 0..MaxCommands /\ 0 \in 0..0
  BY PartsAssumption DEF Check!Window
<1>2. sent \in Seq(CookiePacket) /\ pending \in Seq(CookieEvent) BY EmptyLine
<1>3. Check!Off \in CookieTask BY DEF Check!Off, CookieTask, Check!Steps
<1>4. handler \in [Check!Window -> CookieTask] BY <1>3
<1>5. \A w \in Check!Window :
          /\ handler[w].pc = "none" /\ handler[w].step \in Check!Steps /\ handler[w].after \subseteq Check!Window
  BY DEF Check!Off, Check!Steps
<1>6. shown \in [page : Check!Pages \cup {"none"}, id : 0..MaxCookieWindow] BY <1>1 DEF Check!None
<1>7. /\ lastId = 0 /\ bought = 0 /\ cookies = 0 /\ sold = 0 /\ lastWindow = 0 /\ botState = "Idle"
      /\ stage = "Initial" /\ selling \in BOOLEAN /\ dog = FALSE /\ exec = "none" /\ begun = 0 /\ stray = 0
      /\ asked \in [1..MaxCommands -> {"cookie", "sell"}]
  OBVIOUS
<1> HIDE DEF Check!Init
<1>8. stage \in Check!Steps BY <1>7 DEF Check!Steps
<1>9. dog \in BOOLEAN BY <1>7
<1>10. Check!TypeOK BY <1>1, <1>5, <1>6, <1>7, <1>8, <1>9 DEF Check!TypeOK
<1> QED BY <1>2, <1>4, <1>7, <1>10 DEF CookieInv

LEMMA CookieNext ==
  ASSUME CookieInv, [Check!Next]_(Check!vars)
  PROVE  CookieInv'
<1>1. CASE \/ Check!Begin \/ Check!Execute \/ Check!Complete \/ Check!Timeout \/ Check!Watchdog
           \/ UNCHANGED Check!vars
  BY <1>1, CookieProcessorKeeps
<1>2. CASE \E w \in Check!Window : Check!Handle(w) BY <1>2, CookieHandleKeeps
<1>3. CASE Check!OpenScreen \/ Check!NothingToSell BY <1>3, CookieEventKeeps
<1>4. CASE Check!Game \/ Check!Stray BY <1>4, CookieGameKeeps
<1> QED BY <1>1, <1>2, <1>3, <1>4 DEF Check!Next

-----------------------------------------------------------------------------
(* A check buys one cookie. *)

\* How many of the commands up to the k-th are checks, and of those executed.
ChecksUpTo(k) == Cardinality({c \in 1..k : asked[c] = "cookie"})
Executed == IF exec = "close" THEN ChecksUpTo(begun - 1) ELSE ChecksUpTo(begun)

NoFresh == \A w \in Check!Window : ~Check!Fresh(w)
NoOpens == \A i \in 1..Len(pending) : pending[i][1] # "open"
Waits(w) == \E i \in 1..Len(pending) : pending[i][1] = "open" /\ pending[i][2] = w
ShownWaits == \E i \in 1..Len(pending) : pending[i][1] = "open" /\ pending[i][2] = shown.id
Clicked(w) == \E i \in 1..Len(sent) : sent[i] = Check!Click(w, 10)
ShownClicked == \E i \in 1..Len(sent) : sent[i] = Check!Click(shown.id, 10)

\* Windows are told of in the order in which they open.
PagesInOrder ==
    /\ shown.id \in {0, lastId} /\ (shown.id = 0 <=> shown.page = "none")
    /\ \A w \in Check!Window : ~Check!Free(w) => w <= lastId
    /\ \A i \in 1..Len(pending) : pending[i][1] = "open" =>
          /\ pending[i][2] <= lastId
          /\ \A w \in Check!Window : ~Check!Free(w) => w < pending[i][2]
          /\ \A j \in 1..Len(pending) : i < j /\ pending[j][1] = "open" => pending[i][2] < pending[j][2]

\* A button is clicked once, by the last window, after all the others.
ClicksInOrder ==
    /\ \A w \in Check!Window : Clicked(w) => w <= lastId /\ ~Check!Fresh(w) /\ ~Waits(w)
    /\ \A w \in Check!Window : \A i, j \in 1..Len(sent) :
          sent[i] = Check!Click(w, 10) /\ sent[j] = Check!Click(w, 10) => i = j
    /\ shown.page = "detail" /\ ShownClicked => NoFresh /\ NoOpens /\ stage # "ItemDetail"

\* While the button that buys is shown no other window is being looked at.
BuyPageAlone == shown.page = "buy" =>
    /\ \A w \in Check!Window : Check!Fresh(w) => w = shown.id
    /\ \A i \in 1..Len(pending) : pending[i][1] = "open" => pending[i][2] = shown.id
    /\ ShownWaits => stage # "ItemDetail"
    /\ \A w \in Check!Window : handler[w].pc = "buy" =>
          handler[w].step # "ItemDetail" /\ Check!Deciding \subseteq handler[w].after

\* What a check opens first covers the pages of an earlier one.
MenuComesLast == botState = "CheckingCookie" =>
    /\ \A i \in 1..Len(sent) : sent[i].op = "open" => \E j \in i..Len(sent) : sent[j] = Check!Open("menu")
    /\ (\A i \in 1..Len(sent) : sent[i].op # "open") => shown.page \notin Check!Bazaar \cup {"buy"}

\* The click that buys is on its way, and meets the page that it was meant for.
Armed ==
    /\ shown.page = "buy"
    /\ \E i \in 1..Len(sent) : /\ sent[i] = Check!Click(shown.id, 10)
                               /\ \A j \in 1..i : sent[j].op # "open"

\* Nothing on its way or at work leads to another such click.
SpentSends == \A i \in 1..Len(sent) :
    sent[i].op = "open" => sent[i].page = "bazaar" /\ botState # "BuyingCookie"
SpentBuyers == \A w \in Check!Window : handler[w].pc = "buy" =>
    \/ handler[w].step \in {"WaitingForCookie", "ConsumingCookie"}
    \/ handler[w].step = "Initial" /\ handler[w].page \notin Check!Bazaar
SpentEvents == \A i \in 1..Len(pending) : pending[i][1] = "open" /\ pending[i][3] \in Check!Bazaar =>
    \/ botState # "BuyingCookie"
    \/ /\ pending[i][3] = "detail" /\ stage # "Initial" /\ NoFresh
       /\ \A j \in 1..Len(pending) : j < i => pending[j][1] # "open"
ChecksSpent ==
    /\ botState # "CheckingCookie"
    /\ \A w \in Check!Window : handler[w].pc \notin {"scan", "short"}
    /\ shown.page # "search"
    /\ shown.page = "detail" => ~ShownClicked
    /\ stage \in {"WaitingForCookie", "ConsumingCookie", "Initial"}
    /\ Armed => stage # "Initial" /\ NoFresh /\ NoOpens
    /\ SpentSends /\ SpentBuyers /\ SpentEvents

\* A check that is executed buys one cookie, or sends the one click that does, or
\* may still do so.
CookiesCounted == bought + (IF Armed THEN 1 ELSE 0) + (IF ChecksSpent THEN 0 ELSE 1) <= Executed

CookieAsked == PagesInOrder /\ ClicksInOrder /\ BuyPageAlone /\ MenuComesLast /\ CookiesCounted

\* Packets that neither open a page nor press the button of a purchase.
Harmless == {p \in CookiePacket : p.op # "open" /\ ~(p.op = "click" /\ p.slot = 10)}
SendsOf(S) == sent' = sent \/ \E p \in S : sent' = Append(sent, p)

LEMMA CookieButtons ==
  /\ \A v, w : Check!Click(v, 10) = Check!Click(w, 10) => v = w
  /\ \A w : Check!Click(w, 10).op = "click"
  /\ \A p \in Harmless : p.op # "open" /\ \A w : p # Check!Click(w, 10)
  /\ \A page : Check!Open(page).op = "open" /\ Check!Open(page).page = page
               /\ \A w : Check!Open(page) # Check!Click(w, 10)
  /\ \A w \in Check!Window : Check!Close(w) \in Harmless /\ Check!Click(w, 11) \in Harmless
                             /\ Check!Click(w, 47) \in Harmless
  /\ Check!UseItem \in Harmless
<1>1. \A v, w : Check!Click(v, 10) = Check!Click(w, 10) => v = w BY DEF Check!Click
<1>2. \A w : Check!Click(w, 10).op = "click" /\ Check!Click(w, 10).slot = 10 BY DEF Check!Click
<1>3. \A p \in Harmless : p.op # "open" /\ \A w : p # Check!Click(w, 10) BY <1>2 DEF Harmless
<1>4. \A page : Check!Open(page).op = "open" /\ Check!Open(page).page = page BY DEF Check!Open
<1>5. \A page : \A w : Check!Open(page) # Check!Click(w, 10) BY <1>2, <1>4
<1>6. \A w \in Check!Window : Check!Close(w) \in Harmless
  BY CookiePackets DEF Check!Close, Harmless
<1>7. \A w \in Check!Window : Check!Click(w, 11) \in Harmless /\ Check!Click(w, 47) \in Harmless
  <2>1. \A w \in Check!Window : Check!Click(w, 11) \in CookiePacket /\ Check!Click(w, 47) \in CookiePacket
    BY CookiePackets
  <2>2. \A w : Check!Click(w, 11).op = "click" /\ Check!Click(w, 11).slot = 11 BY DEF Check!Click
  <2>3. \A w : Check!Click(w, 47).op = "click" /\ Check!Click(w, 47).slot = 47 BY DEF Check!Click
  <2> QED BY <2>1, <2>2, <2>3 DEF Harmless
<1>8. Check!UseItem \in Harmless BY CookiePackets DEF Check!UseItem, Harmless
<1> QED BY <1>1, <1>2, <1>3, <1>4, <1>5, <1>6, <1>7, <1>8

\* What is sent is the last of the packets.
LEMMA SentGrows ==
  ASSUME CookieInv, NEW S, SendsOf(S)
  PROVE  /\ Len(sent) \in Nat /\ Len(sent') \in Nat /\ Len(sent) <= Len(sent')
         /\ \A i \in 1..Len(sent) : i \in 1..Len(sent') /\ sent'[i] = sent[i]
         /\ \A i \in 1..Len(sent') : i \in 1..Len(sent) \/ (i = Len(sent) + 1 /\ sent'[i] \in S)
<1>0. sent \in Seq(CookiePacket) /\ Len(sent) \in Nat BY DEF CookieInv
<1>1. CASE sent' = sent BY <1>0, <1>1
<1>2. CASE \E p \in S : sent' = Append(sent, p)
  <2>1. PICK p \in S : sent' = Append(sent, p) BY <1>2
  <2>2. Len(sent') = Len(sent) + 1 /\ sent'[Len(sent) + 1] = p
        /\ \A i \in 1..Len(sent) : sent'[i] = sent[i]
    BY <1>0, <2>1
  <2> QED BY <1>0, <2>2
<1> QED BY <1>1, <1>2 DEF SendsOf

\* k is 1 when the first of a line is taken, and 0 when none is.
Shift(s, t, k) ==
    /\ Len(s) \in Nat /\ Len(t) \in Nat /\ Len(s) = Len(t) + k
    /\ \A i \in 1..Len(t) : i + k \in 1..Len(s) /\ t[i] = s[i + k]

LEMMA Shifts ==
  ASSUME NEW S, NEW s \in Seq(S)
  PROVE  /\ Shift(s, s, 0)
         /\ s # <<>> => Shift(s, Tail(s), 1) /\ Head(s) = s[1] /\ 1 \in 1..Len(s)
<1>1. Shift(s, s, 0) BY DEF Shift
<1>2. ASSUME s # <<>> PROVE Shift(s, Tail(s), 1) /\ Head(s) = s[1] /\ 1 \in 1..Len(s)
  <2>1. /\ Len(s) \in Nat /\ Len(s) > 0 /\ Head(s) = s[1] /\ Len(Tail(s)) = Len(s) - 1
        /\ \A i \in 1..(Len(s) - 1) : Tail(s)[i] = s[i + 1]
    BY <1>2
  <2>2. Len(Tail(s)) \in Nat /\ \A i \in 1..(Len(s) - 1) : i + 1 \in 1..Len(s) BY <2>1
  <2> QED BY <2>1, <2>2 DEF Shift
<1> QED BY <1>1, <1>2

\* The number of checks grows with a command that is one.
LEMMA ChecksGrow ==
  ASSUME NEW k \in Nat
  PROVE  /\ ChecksUpTo(k) \in Nat
         /\ ChecksUpTo(k + 1) = IF asked[k + 1] = "cookie" THEN ChecksUpTo(k) + 1 ELSE ChecksUpTo(k)
<1> DEFINE A == {c \in 1..k : asked[c] = "cookie"}
           B == {c \in 1..(k + 1) : asked[c] = "cookie"}
<1>1. IsFiniteSet(A)
  <2>1. IsFiniteSet(1..k) BY FS_Interval
  <2>2. A \subseteq 1..k OBVIOUS
  <2> QED BY <2>1, <2>2, FS_Subset
<1>2. Cardinality(A) \in Nat BY <1>1, FS_CardinalityType
<1>3. k + 1 \notin A OBVIOUS
<1>4. B = IF asked[k + 1] = "cookie" THEN A \cup {k + 1} ELSE A
  <2>1. \A c : c \in 1..(k + 1) <=> c \in 1..k \/ c = k + 1 OBVIOUS
  <2> QED BY <2>1
<1>5. Cardinality(A \cup {k + 1}) = Cardinality(A) + 1 BY <1>1, <1>3, FS_AddElement
<1> HIDE DEF A
<1>6. Cardinality(B) = IF asked[k + 1] = "cookie" THEN Cardinality(A) + 1 ELSE Cardinality(A)
  BY <1>4, <1>5
<1> QED BY <1>2, <1>6 DEF ChecksUpTo, A

\* What the count needs of a step that buys nothing and executes no check.
LEMMA CountKeeps ==
  ASSUME CookieInv, CookiesCounted, bought' = bought, Executed' = Executed, Executed \in Nat,
         ChecksSpent => ChecksSpent', Armed' => Armed \/ (~ChecksSpent /\ ChecksSpent')
  PROVE  CookiesCounted'
<1>1. bought \in Nat BY DEF CookieInv, Check!TypeOK
<1> QED BY <1>1 DEF CookiesCounted

\* What a step of the handler of w may do.
CookieDetails(w) ==
    /\ handler[w].pc = "buy" /\ stage' = "ItemDetail" /\ botState' = botState /\ SendsOf(Harmless)
    /\ handler[w].step = "Initial" /\ handler[w].page \in Check!Bazaar
CookiePresses(w) ==
    /\ handler[w].pc = "buy" /\ Check!Due(w) /\ botState' = botState /\ SendsOf({Check!Click(w, 10)})
    /\ \/ handler[w].step = "ItemDetail" /\ stage' = "BuyConfirm"
       \/ handler[w].step = "BuyConfirm" /\ stage' = "WaitingForCookie"
CookieConsumes(w) ==
    handler[w].pc = "buy" /\ stage' = "Initial" /\ botState' = botState /\ SendsOf(Harmless)
CookieRuns ==
    /\ stage' \in {stage, "ConsumingCookie"} /\ botState' \in {botState, "Idle"} /\ SendsOf(Harmless)
CookieStarts(w) ==
    /\ handler[w].pc = "short" /\ stage' = "Initial" /\ botState' = "BuyingCookie"
    /\ SendsOf({Check!Open("search")})

CookieMoves(w) ==
    CookieDetails(w) \/ CookiePresses(w) \/ CookieConsumes(w) \/ CookieRuns \/ CookieStarts(w)

LEMMA CookieSends ==
  ASSUME NEW w \in Check!Window
  PROVE  /\ Check!SendClose(w) => SendsOf(Harmless)
         /\ Check!ClickIfCurrent(w, 11) => SendsOf(Harmless)
         /\ Check!ClickIfCurrent(w, 10) => SendsOf({Check!Click(w, 10)})
         /\ sent' = Append(sent, Check!Click(w, 11)) \/ sent' = Append(sent, Check!Click(w, 47))
            \/ sent' = Append(sent, Check!UseItem) \/ sent' = sent => SendsOf(Harmless)
<1>1. Check!SendClose(w) => SendsOf(Harmless) BY CookieButtons DEF Check!SendClose, SendsOf
<1>2. Check!ClickIfCurrent(w, 11) => SendsOf(Harmless) BY CookieButtons DEF Check!ClickIfCurrent, SendsOf
<1>3. Check!ClickIfCurrent(w, 10) => SendsOf({Check!Click(w, 10)}) BY DEF Check!ClickIfCurrent, SendsOf
<1> QED BY <1>1, <1>2, <1>3, CookieButtons DEF SendsOf

LEMMA CookieHandleMoves ==
  ASSUME CookieInv, NEW w \in Check!Window, Check!Handle(w)
  PROVE  CookieMoves(w)
<1> USE CookieSends DEF Check!bot, Check!flow
<1>1. CASE Check!Scan(w)
  <2>1. CookieRuns BY <1>1 DEF Check!Scan, CookieRuns
  <2> QED BY <2>1 DEF CookieMoves
<1>2. CASE Check!Decide(w)
  <2>1. CookieRuns \/ CookieStarts(w)
    <3>1. CASE botState' = "Idle" /\ UNCHANGED <<stage, sent>> BY <3>1 DEF CookieRuns
    <3>2. CASE Check!At(w, "short") /\ stage' = "Initial" /\ sent' = Append(sent, Check!Open("search"))
               /\ botState' = "BuyingCookie"
      BY <3>2 DEF CookieStarts, SendsOf, Check!At
    <3> QED BY <1>2, <3>1, <3>2 DEF Check!Decide
  <2> QED BY <2>1 DEF CookieMoves
<1>3. CASE Check!ToDetail(w)
  <2>1. CookieDetails(w) \/ CookieRuns
    <3>1. CASE handler[w].page \in Check!Bazaar
      BY <1>3, <3>1 DEF Check!ToDetail, CookieDetails, Check!At
    <3>2. CASE handler[w].page \notin Check!Bazaar
      BY <1>3, <3>2 DEF Check!ToDetail, CookieRuns
    <3> QED BY <3>1, <3>2
  <2> QED BY <2>1 DEF CookieMoves
<1>4. CASE Check!ToConfirm(w)
  <2>1. CookiePresses(w) BY <1>4 DEF Check!ToConfirm, CookiePresses, Check!At, Check!Fresh
  <2> QED BY <2>1 DEF CookieMoves
<1>5. CASE Check!Confirm(w)
  <2>1. CookiePresses(w) \/ CookieRuns
    <3>1. CASE Check!Claims("BuyConfirm")
      BY <1>5, <3>1 DEF Check!Confirm, CookiePresses, Check!At, Check!Fresh, Check!Claimed
    <3>2. CASE ~Check!Claims("BuyConfirm") BY <1>5, <3>2 DEF Check!Confirm, CookieRuns
    <3> QED BY <3>1, <3>2
  <2> QED BY <2>1 DEF CookieMoves
<1>6. CASE Check!Refuse(w)
  <2>1. CookieRuns BY <1>6 DEF Check!Refuse, CookieRuns
  <2> QED BY <2>1 DEF CookieMoves
<1>7. CASE Check!Consume(w)
  <2>1. CookieConsumes(w) \/ CookieRuns
    <3>1. CASE Check!Claims("ConsumingCookie")
      BY <1>7, <3>1 DEF Check!Consume, CookieConsumes, Check!At
    <3>2. CASE ~Check!Claims("ConsumingCookie") BY <1>7, <3>2 DEF Check!Consume, CookieRuns
    <3> QED BY <3>1, <3>2
  <2> QED BY <2>1 DEF CookieMoves
<1>8. CASE Check!Waited(w)
  <2>1. CookieRuns BY <1>8 DEF Check!Waited, CookieRuns
  <2> QED BY <2>1 DEF CookieMoves
<1>9. CASE Check!FindCookie(w)
  <2>1. CookieRuns BY <1>9 DEF Check!FindCookie, CookieRuns
  <2> QED BY <2>1 DEF CookieMoves
<1>10. CASE Check!Eat(w)
  <2>1. CookieRuns BY <1>10 DEF Check!Eat, CookieRuns
  <2> QED BY <2>1 DEF CookieMoves
<1>11. CASE Check!Ate(w)
  <2>1. CookieRuns BY <1>11 DEF Check!Ate, CookieRuns
  <2> QED BY <2>1 DEF CookieMoves
<1>12. CASE Check!Offer(w)
  <2>1. CookieRuns BY <1>12 DEF Check!Offer, CookieRuns
  <2> QED BY <2>1 DEF CookieMoves
<1>13. CASE Check!Accept(w)
  <2>1. CookieRuns BY <1>13 DEF Check!Accept, CookieRuns
  <2> QED BY <2>1 DEF CookieMoves
<1>14. CASE Check!Accepted(w)
  <2>1. CookieRuns BY <1>14 DEF Check!Accepted, CookieRuns
  <2> QED BY <2>1 DEF CookieMoves
<1> QED BY <1>1, <1>2, <1>3, <1>4, <1>5, <1>6, <1>7, <1>8, <1>9, <1>10, <1>11, <1>12, <1>13, <1>14
   DEF Check!Handle

\* A handler moves on itself alone, and looks at its window no more.
CookieFrame(w) ==
    /\ UNCHANGED <<shown, lastId, bought, pending, exec, begun, asked>>
    /\ handler[w].pc # "none" /\ handler'[w].pc \notin {"scan", "buy"}
    /\ \A v \in Check!Window : v # w => handler'[v] = handler[v]
    /\ handler'[w].pc \in {"enough", "short"} => handler[w].pc = "scan"

LEMMA CookieHandleFrame ==
  ASSUME CookieInv, NEW w \in Check!Window, Check!Handle(w)
  PROVE  CookieFrame(w)
<1> USE DEF Check!game, Check!proc
<1>1. UNCHANGED <<shown, lastId, bought, pending, exec, begun, asked>> BY DEF Check!Handle
<1>2. handler \in [Check!Window -> CookieTask] BY DEF CookieInv
<1>3. ASSUME NEW pc, Check!Goes(w, pc)
      PROVE  handler'[w].pc = pc /\ \A v \in Check!Window : v # w => handler'[v] = handler[v]
  <2>1. handler[w] \in CookieTask BY <1>2
  <2> QED BY <1>2, <1>3, <2>1 DEF Check!Goes, CookieTask
<1>4. ASSUME Check!Ends(w)
      PROVE  handler'[w].pc = "none" /\ \A v \in Check!Window : v # w => handler'[v] = handler[v]
  <2>1. Check!Off.pc = "none" BY DEF Check!Off
  <2> QED BY <1>2, <1>4, <2>1 DEF Check!Ends
<1>5. /\ handler[w].pc # "none"
      /\ \/ Check!Ends(w)
         \/ \E pc \in {"wait", "find", "eat", "ate", "accepted"} : Check!Goes(w, pc)
         \/ handler[w].pc = "scan" /\ \E pc \in {"enough", "short"} : Check!Goes(w, pc)
  BY DEF Check!Handle, Check!Scan, Check!Decide, Check!ToDetail, Check!ToConfirm, Check!Confirm, Check!Refuse,
     Check!Consume, Check!Waited, Check!FindCookie, Check!Eat, Check!Ate, Check!Offer, Check!Accept,
     Check!Accepted, Check!At
<1>6. CASE Check!Ends(w) BY <1>1, <1>4, <1>5, <1>6 DEF CookieFrame
<1>7. CASE \E pc \in {"wait", "find", "eat", "ate", "accepted"} : Check!Goes(w, pc)
  <2>1. PICK pc \in {"wait", "find", "eat", "ate", "accepted"} : Check!Goes(w, pc) BY <1>7
  <2> QED BY <1>1, <1>3, <1>5, <2>1 DEF CookieFrame
<1>8. CASE handler[w].pc = "scan" /\ \E pc \in {"enough", "short"} : Check!Goes(w, pc)
  <2>1. PICK pc \in {"enough", "short"} : Check!Goes(w, pc) BY <1>8
  <2> QED BY <1>1, <1>3, <1>8, <2>1 DEF CookieFrame
<1> QED BY <1>5, <1>6, <1>7, <1>8

\* After the step nobody is looking who was not before, and the decisions that
\* are pending are those of before and at most that of w.
LEMMA CookieLooks ==
  ASSUME CookieInv, NEW w \in Check!Window, CookieFrame(w)
  PROVE  /\ ~Check!Fresh(w)'
         /\ \A v \in Check!Window : Check!Fresh(v)' => Check!Fresh(v) /\ v # w
         /\ \A v \in Check!Window : ~Check!Free(v)' => ~Check!Free(v)
         /\ \A v \in Check!Window : handler'[v].pc = "buy" => v # w /\ handler'[v] = handler[v]
         /\ ~Check!Fresh(w) => Check!Deciding' \subseteq Check!Deciding
         /\ NoFresh => NoFresh'
         /\ ~Check!Free(w)
BY DEF CookieFrame, Check!Fresh, Check!Free, Check!Deciding, NoFresh

LEMMA HandlePages ==
  ASSUME CookieInv, PagesInOrder, NEW w \in Check!Window, CookieFrame(w)
  PROVE  PagesInOrder'
<1>1. \A v \in Check!Window : ~Check!Free(v)' => ~Check!Free(v) BY CookieLooks
<1>2. UNCHANGED <<shown, lastId, pending>> BY DEF CookieFrame
<1> QED BY <1>1, <1>2 DEF PagesInOrder

\* A window that is due, and whose button meets the page shown, is the only one
\* that is looked at, and the last the game has opened.
LEMMA DueAlone ==
  ASSUME CookieInv, PagesInOrder, NEW w \in Check!Window, Check!Fresh(w), Check!Due(w), shown.id = w
  PROVE  NoOpens /\ \A v \in Check!Window : Check!Fresh(v) => v = w
<1>0. w \in Nat /\ w # 0 /\ Check!Window \subseteq Nat BY DEF Check!Window
<1>1. lastId = w BY <1>0 DEF PagesInOrder
<1>2. ~Check!Free(w) BY DEF Check!Fresh, Check!Free
<1>3. NoOpens
  <2> SUFFICES ASSUME NEW i \in 1..Len(pending), pending[i][1] = "open" PROVE FALSE BY DEF NoOpens
  <2>1. pending[i][2] <= w /\ w < pending[i][2] BY <1>1, <1>2 DEF PagesInOrder
  <2>2. pending[i] \in CookieEvent BY DEF CookieInv
  <2>3. pending[i][2] \in Nat BY <2>2, <1>0 DEF CookieEvent
  <2> QED BY <1>0, <2>1, <2>3
<1>4. ASSUME NEW v \in Check!Window, Check!Fresh(v) PROVE v = w
  <2>1. ~Check!Free(v) BY <1>4 DEF Check!Fresh, Check!Free
  <2>2. v <= w /\ w <= v BY <1>1, <1>4, <2>1 DEF PagesInOrder, Check!Due
  <2> QED BY <1>0, <2>2
<1> QED BY <1>3, <1>4

\* A window that is still being looked at has no event to come.
LEMMA FreshArrived ==
  ASSUME CookieInv, PagesInOrder, NEW w \in Check!Window, ~Check!Free(w)
  PROVE  ~Waits(w)
<1> SUFFICES ASSUME NEW i \in 1..Len(pending), pending[i][1] = "open", pending[i][2] = w PROVE FALSE
  BY DEF Waits
<1>1. w < w BY DEF PagesInOrder
<1>2. w \in Nat BY DEF Check!Window
<1> QED BY <1>1, <1>2

\* Steps that press no button keep the order of the clicks.
LEMMA ClicksStay ==
  ASSUME CookieInv, ClicksInOrder, UNCHANGED <<shown, lastId, pending>>,
         NEW S, SendsOf(S), \A p \in S : \A v : p # Check!Click(v, 10),
         \A v \in Check!Window : Check!Fresh(v)' => Check!Fresh(v),
         stage' = "ItemDetail" => stage = "ItemDetail" \/ ~NoFresh
  PROVE  ClicksInOrder' /\ \A v : Clicked(v)' => Clicked(v)
<1>1. ASSUME NEW v, Clicked(v)' PROVE Clicked(v) BY <1>1, SentGrows DEF Clicked
<1>2. \A v : Waits(v)' <=> Waits(v) BY DEF Waits
<1>3. \A v \in Check!Window : Clicked(v)' => v <= lastId' /\ ~Check!Fresh(v)' /\ ~Waits(v)'
  BY <1>1, <1>2 DEF ClicksInOrder
<1>4. \A v \in Check!Window : \A i, j \in 1..Len(sent') :
          sent'[i] = Check!Click(v, 10) /\ sent'[j] = Check!Click(v, 10) => i = j
  BY SentGrows DEF ClicksInOrder
<1>5. shown'.page = "detail" /\ ShownClicked' => NoFresh' /\ NoOpens' /\ stage' # "ItemDetail"
  <2> SUFFICES ASSUME shown'.page = "detail", ShownClicked'
               PROVE  NoFresh' /\ NoOpens' /\ stage' # "ItemDetail"
    OBVIOUS
  <2>0. shown.page = "detail" BY DEF CookieInv
  <2>1. ShownClicked BY SentGrows DEF ShownClicked
  <2>2. NoFresh /\ NoOpens /\ stage # "ItemDetail" BY <2>0, <2>1 DEF ClicksInOrder
  <2> QED BY <2>2 DEF NoFresh, NoOpens
<1> QED BY <1>1, <1>3, <1>4, <1>5 DEF ClicksInOrder

LEMMA HandleClicks ==
  ASSUME CookieInv, PagesInOrder, ClicksInOrder, NEW w \in Check!Window, CookieFrame(w), CookieMoves(w)
  PROVE  ClicksInOrder'
<1>0. UNCHANGED <<shown, lastId, pending>> BY DEF CookieFrame
<1>1. /\ ~Check!Fresh(w)' /\ \A v \in Check!Window : Check!Fresh(v)' => Check!Fresh(v) /\ v # w
  BY CookieLooks
<1>2. \A p \in Harmless : \A v : p # Check!Click(v, 10) BY CookieButtons
<1>3. CASE CookieDetails(w)
  <2>1. ~NoFresh /\ SendsOf(Harmless) BY <1>3 DEF CookieDetails, NoFresh, Check!Fresh
  <2> QED BY <1>0, <1>1, <1>2, <2>1, ClicksStay
<1>4. CASE CookieConsumes(w)
  <2>1. SendsOf(Harmless) /\ stage' # "ItemDetail" BY <1>4 DEF CookieConsumes
  <2> QED BY <1>0, <1>1, <1>2, <2>1, ClicksStay
<1>5. CASE CookieRuns
  <2>1. SendsOf(Harmless) /\ (stage' = "ItemDetail" => stage = "ItemDetail") BY <1>5 DEF CookieRuns
  <2> QED BY <1>0, <1>1, <1>2, <2>1, ClicksStay
<1>6. CASE CookieStarts(w)
  <2>1. SendsOf({Check!Open("search")}) /\ stage' # "ItemDetail" BY <1>6 DEF CookieStarts
  <2>2. \A p \in {Check!Open("search")} : \A v : p # Check!Click(v, 10) BY CookieButtons
  <2> QED BY <1>0, <1>1, <2>1, <2>2, ClicksStay
<1>7. CASE CookiePresses(w)
  <2>1. Check!Fresh(w) /\ Check!Due(w) /\ SendsOf({Check!Click(w, 10)}) /\ stage' # "ItemDetail"
    BY <1>7 DEF CookiePresses, Check!Fresh
  <2>2. /\ Len(sent) \in Nat /\ Len(sent') \in Nat
        /\ \A i \in 1..Len(sent') : (i \in 1..Len(sent) /\ sent'[i] = sent[i])
                                    \/ (i = Len(sent) + 1 /\ sent'[i] = Check!Click(w, 10))
    BY <2>1, SentGrows
  <2>3. ~Clicked(w) BY <2>1 DEF ClicksInOrder
  <2>4. \A v : Clicked(v)' => v = w \/ Clicked(v) BY <2>2, CookieButtons DEF Clicked
  <2>5. w <= lastId /\ ~Waits(w)
    <3>1. ~Check!Free(w) BY <2>1 DEF Check!Fresh, Check!Free
    <3> QED BY <3>1, FreshArrived DEF PagesInOrder
  <2>6. \A v \in Check!Window : Clicked(v)' => v <= lastId' /\ ~Check!Fresh(v)' /\ ~Waits(v)'
    <3>1. \A v : Waits(v)' <=> Waits(v) BY <1>0 DEF Waits
    <3> QED BY <1>0, <1>1, <2>4, <2>5, <3>1 DEF ClicksInOrder
  <2>7. ASSUME NEW v \in Check!Window, NEW i \in 1..Len(sent'), NEW j \in 1..Len(sent'),
               sent'[i] = Check!Click(v, 10), sent'[j] = Check!Click(v, 10)
        PROVE  i = j
    <3>1. CASE v = w
      <4>1. \A l \in 1..Len(sent) : sent[l] # Check!Click(w, 10) BY <2>3 DEF Clicked
      <4> QED BY <2>2, <2>7, <3>1, <4>1
    <3>2. CASE v # w
      <4>1. i \in 1..Len(sent) /\ j \in 1..Len(sent) BY <2>2, <2>7, <3>2, CookieButtons
      <4>2. sent[i] = Check!Click(v, 10) /\ sent[j] = Check!Click(v, 10) BY <2>2, <2>7, <4>1
      <4> QED BY <4>1, <4>2 DEF ClicksInOrder
    <3> QED BY <3>1, <3>2
  <2>8. ASSUME shown'.page = "detail", ShownClicked'
        PROVE  NoFresh' /\ NoOpens' /\ stage' # "ItemDetail"
    <3>1. shown.page = "detail" BY <1>0, <2>8
    <3>2. ~ShownClicked BY <2>1, <3>1 DEF ClicksInOrder, NoFresh
    <3>3. shown.id = w
      <4>1. PICK i \in 1..Len(sent') : sent'[i] = Check!Click(shown.id, 10) BY <1>0, <2>8 DEF ShownClicked
      <4>2. i \notin 1..Len(sent) BY <2>2, <3>2, <4>1 DEF ShownClicked
      <4> QED BY <2>2, <4>1, <4>2, CookieButtons
    <3>4. NoOpens /\ \A v \in Check!Window : Check!Fresh(v) => v = w BY <2>1, <3>3, DueAlone
    <3>5. NoFresh' BY <1>1, <3>4 DEF NoFresh
    <3>6. NoOpens' BY <1>0, <3>4 DEF NoOpens
    <3> QED BY <2>1, <3>5, <3>6
  <2> QED BY <2>6, <2>7, <2>8 DEF ClicksInOrder
<1> QED BY <1>3, <1>4, <1>5, <1>6, <1>7 DEF CookieMoves

LEMMA HandleBuyPage ==
  ASSUME CookieInv, PagesInOrder, BuyPageAlone, NEW w \in Check!Window, CookieFrame(w), CookieMoves(w)
  PROVE  BuyPageAlone'
<1> SUFFICES ASSUME shown'.page = "buy"
             PROVE  /\ \A v \in Check!Window : Check!Fresh(v)' => v = shown'.id
                    /\ \A i \in 1..Len(pending') : pending'[i][1] = "open" => pending'[i][2] = shown'.id
                    /\ ShownWaits' => stage' # "ItemDetail"
                    /\ \A v \in Check!Window : handler'[v].pc = "buy" =>
                          handler'[v].step # "ItemDetail" /\ Check!Deciding' \subseteq handler'[v].after
  BY DEF BuyPageAlone
<1>0. UNCHANGED <<shown, lastId, pending>> BY DEF CookieFrame
<1>1. shown.page = "buy" BY <1>0
<1>2. \A v \in Check!Window : Check!Fresh(v) => v = shown.id BY <1>1 DEF BuyPageAlone
<1>3. \A i \in 1..Len(pending) : pending[i][1] = "open" => pending[i][2] = shown.id
  BY <1>1 DEF BuyPageAlone
<1>4. ShownWaits' => stage' # "ItemDetail"
  <2>1. ShownWaits' => ShownWaits BY <1>0 DEF ShownWaits
  <2>2. ASSUME ShownWaits, stage' = "ItemDetail" PROVE FALSE
    <3>1. stage # "ItemDetail" BY <1>1, <2>2 DEF BuyPageAlone
    <3>2. handler[w].pc = "buy"
      BY <2>2, <3>1 DEF CookieMoves, CookieDetails, CookiePresses, CookieConsumes, CookieRuns, CookieStarts
    <3>3. shown.id = w /\ ~Check!Free(w) BY <1>2, <3>2 DEF Check!Fresh, Check!Free
    <3> QED BY <2>2, <3>3, FreshArrived DEF ShownWaits, Waits
  <2> QED BY <2>1, <2>2
<1>5. ASSUME NEW v \in Check!Window, handler'[v].pc = "buy"
      PROVE  handler'[v].step # "ItemDetail" /\ Check!Deciding' \subseteq handler'[v].after
  <2>1. v # w /\ handler'[v] = handler[v] BY <1>5, CookieLooks
  <2>2. handler[v].step # "ItemDetail" /\ Check!Deciding \subseteq handler[v].after
    BY <1>1, <1>5, <2>1 DEF BuyPageAlone
  <2>3. ~Check!Fresh(w) BY <1>2, <1>5, <2>1 DEF Check!Fresh
  <2> QED BY <2>1, <2>2, <2>3, CookieLooks
<1> QED BY <1>0, <1>2, <1>3, <1>4, <1>5, CookieLooks

\* Steps that open nothing, and start no check, keep the menu the last.
LEMMA MenuStays ==
  ASSUME CookieInv, MenuComesLast, shown' = shown, NEW S, SendsOf(S), \A p \in S : p.op # "open",
         botState' = "CheckingCookie" => botState = "CheckingCookie"
  PROVE  MenuComesLast'
<1> SUFFICES ASSUME botState = "CheckingCookie"
             PROVE  /\ \A i \in 1..Len(sent') : sent'[i].op = "open" =>
                          \E j \in i..Len(sent') : sent'[j] = Check!Open("menu")
                    /\ (\A i \in 1..Len(sent') : sent'[i].op # "open") =>
                          shown'.page \notin Check!Bazaar \cup {"buy"}
  BY DEF MenuComesLast
<1>1. ASSUME NEW i \in 1..Len(sent'), sent'[i].op = "open"
      PROVE  \E j \in i..Len(sent') : sent'[j] = Check!Open("menu")
  <2>1. i \in 1..Len(sent) /\ sent[i].op = "open" BY <1>1, SentGrows
  <2>2. PICK j \in i..Len(sent) : sent[j] = Check!Open("menu") BY <2>1 DEF MenuComesLast
  <2>3. j \in i..Len(sent') /\ j \in 1..Len(sent) BY <2>1, <2>2, SentGrows
  <2> QED BY <2>2, <2>3, SentGrows
<1>2. (\A i \in 1..Len(sent') : sent'[i].op # "open") => (\A i \in 1..Len(sent) : sent[i].op # "open")
  BY SentGrows
<1> QED BY <1>1, <1>2 DEF MenuComesLast

LEMMA HandleMenu ==
  ASSUME CookieInv, MenuComesLast, NEW w \in Check!Window, CookieFrame(w), CookieMoves(w)
  PROVE  MenuComesLast'
<1>1. shown' = shown BY DEF CookieFrame
<1>2. CASE botState' = "BuyingCookie" BY <1>2 DEF MenuComesLast
<1>3. CASE botState' # "BuyingCookie"
  <2>1. (botState' = "CheckingCookie" => botState = "CheckingCookie")
        /\ (SendsOf(Harmless) \/ SendsOf({Check!Click(w, 10)}))
    BY <1>3 DEF CookieMoves, CookieDetails, CookiePresses, CookieConsumes, CookieRuns, CookieStarts
  <2>2. \A p \in Harmless \cup {Check!Click(w, 10)} : p.op # "open" BY CookieButtons
  <2> QED BY <1>1, <2>1, <2>2, MenuStays
<1> QED BY <1>2, <1>3

LEMMA ExecutedNat == ASSUME CookieInv PROVE Executed \in Nat
<1>1. begun \in Nat /\ (exec = "close" => begun - 1 \in Nat)
  BY PartsAssumption DEF CookieInv, Check!TypeOK
<1> QED BY <1>1, ChecksGrow DEF Executed

LEMMA ExecutedSame == ASSUME UNCHANGED <<exec, begun, asked>> PROVE Executed' = Executed
BY DEF Executed, ChecksUpTo

\* A packet that is sent last arms nothing unless it is the click itself.
LEMMA ArmedStays ==
  ASSUME CookieInv, shown' = shown, NEW S, SendsOf(S), \A p \in S : \A v : p # Check!Click(v, 10), Armed'
  PROVE  Armed
<1>1. PICK i \in 1..Len(sent') : sent'[i] = Check!Click(shown.id, 10) /\ \A j \in 1..i : sent'[j].op # "open"
  BY DEF Armed
<1>2. i \in 1..Len(sent) /\ sent[i] = Check!Click(shown.id, 10) BY <1>1, SentGrows
<1>3. \A j \in 1..i : j \in 1..Len(sent) BY <1>2, SentGrows
<1>4. \A j \in 1..i : sent[j].op # "open" BY <1>1, <1>3, SentGrows
<1> QED BY <1>2, <1>4 DEF Armed

\* The click of a confirmation arms the purchase only when nothing else is left
\* of the check.
LEMMA PressSpends ==
  ASSUME CookieInv, PagesInOrder, BuyPageAlone, MenuComesLast, NEW w \in Check!Window, CookieFrame(w),
         CookiePresses(w), Armed', ~Armed
  PROVE  ChecksSpent'
<1> USE DEF CookiePresses
<1>0. UNCHANGED <<shown, lastId, pending, botState>> /\ Check!Fresh(w) /\ Check!Due(w)
      /\ SendsOf({Check!Click(w, 10)}) /\ handler[w].pc = "buy"
  BY DEF CookieFrame, Check!Fresh
<1>1. PICK i \in 1..Len(sent') : sent'[i] = Check!Click(shown.id, 10) /\ \A j \in 1..i : sent'[j].op # "open"
  BY <1>0 DEF Armed
<1>p. shown.page = "buy" BY <1>0 DEF Armed
<1>2. i \notin 1..Len(sent)
  <2> SUFFICES ASSUME i \in 1..Len(sent) PROVE FALSE OBVIOUS
  <2>1. sent[i] = Check!Click(shown.id, 10) BY <1>0, <1>1, SentGrows
  <2>2. \A j \in 1..i : j \in 1..Len(sent) BY <1>0, SentGrows
  <2>3. \A j \in 1..i : sent[j].op # "open" BY <1>0, <1>1, <2>2, SentGrows
  <2> QED BY <1>p, <2>1, <2>3 DEF Armed
<1>3. i = Len(sent) + 1 /\ sent'[i] = Check!Click(w, 10) /\ Len(sent) \in Nat BY <1>0, <1>1, <1>2, SentGrows
<1>4. shown.id = w BY <1>1, <1>3, CookieButtons
<1>5. \A j \in 1..Len(sent') : sent'[j].op # "open"
  <2>1. \A j \in 1..Len(sent') : j \in 1..i BY <1>0, <1>3, SentGrows
  <2> QED BY <1>1, <2>1
<1>6. NoOpens /\ \A v \in Check!Window : Check!Fresh(v) => v = w BY <1>0, <1>4, DueAlone
<1>7. NoFresh' BY <1>6, CookieLooks DEF NoFresh
<1>8. NoOpens' BY <1>0, <1>6 DEF NoOpens
<1>9. stage' = "WaitingForCookie" BY <1>0, <1>p DEF BuyPageAlone
<1>10. botState # "CheckingCookie"
  <2>1. \A j \in 1..Len(sent) : sent[j].op # "open"
    BY <1>0, <1>5, SentGrows
  <2> QED BY <1>p, <2>1 DEF MenuComesLast
<1>11. \A v \in Check!Window : handler'[v].pc \notin {"scan", "short", "buy"}
  <2>1. \A v \in Check!Window : handler[v].pc # "short"
    <3>1. Check!Deciding \subseteq handler[w].after BY <1>0, <1>p DEF BuyPageAlone
    <3>2. Check!Deciding = {} BY <1>0, <3>1 DEF Check!Due
    <3> QED BY <3>2 DEF Check!Deciding
  <2>2. \A v \in Check!Window : handler'[v].pc # "short" BY <1>0, <2>1 DEF CookieFrame
  <2> QED BY <1>7, <2>2 DEF NoFresh, Check!Fresh
<1>12. SpentSends' BY <1>5 DEF SpentSends
<1>13. SpentBuyers' BY <1>11 DEF SpentBuyers
<1>14. SpentEvents' BY <1>8 DEF SpentEvents, NoOpens
<1>15. shown'.page = "buy" BY <1>0, <1>p
<1> QED BY <1>0, <1>7, <1>8, <1>9, <1>10, <1>11, <1>12, <1>13, <1>14, <1>15 DEF ChecksSpent

LEMMA HandleSpent ==
  ASSUME CookieInv, ClicksInOrder, NEW w \in Check!Window, CookieFrame(w), CookieMoves(w), ChecksSpent
  PROVE  ChecksSpent' /\ (Armed' => Armed) /\ ~CookiePresses(w)
<1>1. ~CookiePresses(w) /\ ~CookieDetails(w) /\ ~CookieStarts(w)
  BY DEF CookiePresses, CookieDetails, CookieStarts, ChecksSpent, SpentBuyers
<1>2. CookieConsumes(w) \/ CookieRuns BY <1>1 DEF CookieMoves
<1>3. UNCHANGED <<shown, lastId, pending>> /\ SendsOf(Harmless) /\ botState' \in {botState, "Idle"}
      /\ stage' \in {stage, "Initial", "ConsumingCookie"} /\ (stage' = "Initial" => stage = "Initial" \/ ~NoFresh)
  BY <1>2 DEF CookieFrame, CookieConsumes, CookieRuns, NoFresh, Check!Fresh
<1>4. Armed' => Armed BY <1>3, CookieButtons, ArmedStays
<1>5. NoFresh => NoFresh' BY CookieLooks
<1>6. botState' # "CheckingCookie" /\ shown'.page # "search"
      /\ stage' \in {"WaitingForCookie", "ConsumingCookie", "Initial"}
  BY <1>3 DEF ChecksSpent
<1>7. \A v \in Check!Window : handler'[v].pc \notin {"scan", "short"} BY DEF ChecksSpent, CookieFrame
<1>8. shown'.page = "detail" => ~ShownClicked'
  <2>1. ShownClicked' => ShownClicked BY <1>3, SentGrows, CookieButtons DEF ShownClicked
  <2> QED BY <1>3, <2>1 DEF ChecksSpent
<1>9. Armed' => stage' # "Initial" /\ NoFresh' /\ NoOpens'
  <2>1. NoOpens => NoOpens' BY <1>3 DEF NoOpens
  <2> QED BY <1>3, <1>4, <1>5, <2>1 DEF ChecksSpent
<1>10. SpentSends'
  <2>1. SpentSends BY DEF ChecksSpent
  <2> QED BY <1>3, <2>1, SentGrows, CookieButtons DEF SpentSends
<1>11. SpentBuyers'
  <2>1. \A v \in Check!Window : handler'[v].pc = "buy" => handler'[v] = handler[v] BY CookieLooks
  <2> QED BY <2>1 DEF SpentBuyers, ChecksSpent
<1>12. SpentEvents'
  <2>1. SpentEvents BY DEF ChecksSpent
  <2> QED BY <1>3, <1>5, <2>1 DEF SpentEvents
<1> QED BY <1>1, <1>4, <1>6, <1>7, <1>8, <1>9, <1>10, <1>11, <1>12 DEF ChecksSpent

LEMMA HandleCounted ==
  ASSUME CookieInv, CookieAsked, NEW w \in Check!Window, CookieFrame(w), CookieMoves(w)
  PROVE  CookiesCounted'
<1> USE DEF CookieAsked
<1>1. bought' = bought /\ Executed' = Executed BY ExecutedSame DEF CookieFrame
<1>2. ChecksSpent => ChecksSpent' BY HandleSpent
<1>3. Armed' => Armed \/ (~ChecksSpent /\ ChecksSpent')
  <2> SUFFICES ASSUME Armed', ~Armed PROVE ~ChecksSpent /\ ChecksSpent' OBVIOUS
  <2>1. ~ChecksSpent BY HandleSpent
  <2>2. CookiePresses(w)
    <3>1. SendsOf(Harmless) => Armed BY CookieButtons, ArmedStays DEF CookieFrame
    <3>2. SendsOf({Check!Open("search")}) => Armed BY CookieButtons, ArmedStays DEF CookieFrame
    <3> QED BY <3>1, <3>2 DEF CookieMoves, CookieDetails, CookieConsumes, CookieRuns, CookieStarts
  <2> QED BY <2>1, <2>2, PressSpends
<1> QED BY <1>1, <1>2, <1>3, CountKeeps, ExecutedNat

LEMMA HandleAsked ==
  ASSUME CookieInv, CookieAsked, NEW w \in Check!Window, Check!Handle(w)
  PROVE  CookieAsked'
<1>1. CookieFrame(w) /\ CookieMoves(w) BY CookieHandleFrame, CookieHandleMoves
<1> QED BY <1>1, HandlePages, HandleClicks, HandleBuyPage, HandleMenu, HandleCounted DEF CookieAsked

\* Steps of the processor, of the watchdog and of the chat.
CookieCalm ==
    /\ UNCHANGED <<shown, lastId, bought, handler, stage, asked>>
    /\ botState' \in {botState, "Idle"} /\ SendsOf(Harmless) /\ Executed' = Executed
    /\ \/ pending' = pending
       \/ pending # <<>> /\ Head(pending)[1] # "open" /\ pending' = Tail(pending)

CookieExecutes ==
    /\ UNCHANGED <<shown, lastId, bought, handler, pending, asked>>
    /\ \/ /\ Executed' = Executed + 1 /\ stage' = "Initial" /\ botState' = "CheckingCookie"
          /\ SendsOf({Check!Open("menu")}) /\ sent' = Append(sent, Check!Open("menu"))
       \/ /\ Executed' = Executed /\ stage' = stage /\ botState' = "SellingInventoryBz"
          /\ SendsOf({Check!Open("bazaar")})

LEMMA CookieProcessorMoves ==
  ASSUME CookieInv,
         \/ Check!Begin \/ Check!Execute \/ Check!Complete \/ Check!Timeout \/ Check!Watchdog
         \/ Check!NothingToSell \/ UNCHANGED Check!vars
  PROVE  CookieCalm \/ CookieExecutes
<1> USE DEF Check!game, Check!wire, Check!bot, Check!flow, Check!tasks, Check!proc, Check!vars
<1>0. /\ begun \in Nat /\ begun + 1 - 1 = begun /\ (exec = "close" => begun - 1 \in Nat)
      /\ lastWindow # 0 => lastWindow \in Check!Window
  BY CookieWindow, PartsAssumption DEF CookieInv, Check!TypeOK
<1>s. lastWindow # 0 /\ Check!SendClose(lastWindow) => SendsOf(Harmless) BY <1>0, CookieSends
<1>u. sent' = sent => SendsOf(Harmless) BY DEF SendsOf
<1>1. CASE Check!Begin
  <2>1. Executed' = Executed
    <3>1. exec = "none" /\ exec' = "close" /\ begun' = begun + 1 /\ asked' = asked BY <1>1 DEF Check!Begin
    <3> QED BY <3>1, <1>0 DEF Executed, ChecksUpTo
  <2> QED BY <1>1, <1>s, <1>u, <2>1 DEF Check!Begin, CookieCalm
<1>2. CASE Check!Execute
  <2>0. exec = "close" /\ exec' = "poll" /\ begun' = begun /\ asked' = asked /\ begun - 1 \in Nat
    BY <1>2, <1>0 DEF Check!Execute
  <2>1. Executed' = IF asked[begun] = "cookie" THEN Executed + 1 ELSE Executed
    <3>1. begun - 1 + 1 = begun BY <1>0
    <3>2. ChecksUpTo(begun) = IF asked[begun] = "cookie" THEN ChecksUpTo(begun - 1) + 1
                                                         ELSE ChecksUpTo(begun - 1)
      BY <2>0, <3>1, ChecksGrow
    <3>3. Executed = ChecksUpTo(begun - 1) BY <2>0 DEF Executed
    <3>4. Executed' = ChecksUpTo(begun) BY <2>0 DEF Executed, ChecksUpTo
    <3> QED BY <3>2, <3>3, <3>4
  <2>2. CASE Check!CheckCookie
    <3>1. Executed' = Executed + 1 BY <2>1, <2>2 DEF Check!CheckCookie
    <3>2. SendsOf({Check!Open("menu")}) BY <2>2 DEF Check!CheckCookie, SendsOf
    <3> QED BY <1>2, <2>2, <3>1, <3>2 DEF Check!Execute, Check!CheckCookie, CookieExecutes
  <2>3. CASE Check!SellInventoryBz
    <3>1. Executed' = Executed BY <2>1, <2>3 DEF Check!SellInventoryBz
    <3>2. SendsOf({Check!Open("bazaar")}) BY <2>3 DEF Check!SellInventoryBz, SendsOf
    <3> QED BY <1>2, <2>3, <3>1, <3>2 DEF Check!Execute, Check!SellInventoryBz, CookieExecutes
  <2> QED BY <1>2, <2>2, <2>3 DEF Check!Execute
<1>3. CASE Check!Complete \/ Check!Timeout
  <2>1. Executed' = Executed
    <3>1. exec = "poll" /\ exec' = "none" /\ begun' = begun /\ asked' = asked
      BY <1>3 DEF Check!Complete, Check!Timeout
    <3> QED BY <3>1 DEF Executed, ChecksUpTo
  <2> QED BY <1>3, <1>u, <2>1 DEF Check!Complete, Check!Timeout, CookieCalm
<1>4. CASE Check!Watchdog
  <2>1. Executed' = Executed BY <1>4, ExecutedSame DEF Check!Watchdog
  <2> QED BY <1>4, <1>s, <2>1 DEF Check!Watchdog, CookieCalm
<1>5. CASE Check!NothingToSell
  <2>1. Executed' = Executed BY <1>5, ExecutedSame DEF Check!NothingToSell
  <2>2. SendsOf(Harmless) BY <1>5, <1>s, <1>u DEF Check!NothingToSell
  <2>3. pending # <<>> /\ Head(pending)[1] = "unsold" /\ pending' = Tail(pending)
    BY <1>5 DEF Check!NothingToSell, Check!Event
  <2>4. "unsold" # "open" OBVIOUS
  <2> QED BY <1>5, <2>1, <2>2, <2>3, <2>4 DEF Check!NothingToSell, CookieCalm
<1>6. CASE UNCHANGED Check!vars
  <2>1. Executed' = Executed BY <1>6, ExecutedSame
  <2> QED BY <1>6, <1>u, <2>1 DEF CookieCalm
<1> QED BY <1>1, <1>2, <1>3, <1>4, <1>5, <1>6

\* An event that is left out, and opens no window, changes nothing of the others.
LEMMA CalmEvents ==
  ASSUME CookieInv, CookieCalm
  PROVE  /\ \A i \in 1..Len(pending') : \E l \in 1..Len(pending) : pending'[i] = pending[l]
         /\ \A i, j \in 1..Len(pending') : i < j => \E l, m \in 1..Len(pending) :
               l < m /\ pending'[i] = pending[l] /\ pending'[j] = pending[m]
         /\ SpentEvents /\ (NoFresh => NoFresh') => SpentEvents'
         /\ NoOpens => NoOpens'
<1>0. /\ pending \in Seq(CookieEvent) /\ UNCHANGED <<handler, stage>>
      /\ botState' \in {botState, "Idle"}
      /\ \/ pending' = pending
         \/ pending # <<>> /\ Head(pending)[1] # "open" /\ pending' = Tail(pending)
  BY DEF CookieInv, CookieCalm
<1>1. PICK k \in {0, 1} : Shift(pending, pending', k) /\ (k = 1 => pending[1][1] # "open")
  <2>1. CASE pending' = pending BY <1>0, <2>1, Shifts
  <2>2. CASE pending # <<>> /\ Head(pending)[1] # "open" /\ pending' = Tail(pending) BY <1>0, <2>2, Shifts
  <2> QED BY <1>0, <2>1, <2>2
<1>2. /\ Len(pending) \in Nat /\ Len(pending') \in Nat /\ Len(pending) = Len(pending') + k
      /\ \A i \in 1..Len(pending') : i + k \in 1..Len(pending) /\ pending'[i] = pending[i + k]
  BY <1>1 DEF Shift
<1>3. \A i \in 1..Len(pending') : \E l \in 1..Len(pending) : pending'[i] = pending[l] BY <1>2
<1>4. ASSUME NEW i \in 1..Len(pending'), NEW j \in 1..Len(pending'), i < j
      PROVE  \E l, m \in 1..Len(pending) : l < m /\ pending'[i] = pending[l] /\ pending'[j] = pending[m]
  <2>1. i + k < j + k BY <1>4
  <2> QED BY <1>2, <2>1
<1>5. ASSUME SpentEvents, NoFresh => NoFresh' PROVE SpentEvents'
  <2> SUFFICES ASSUME NEW i \in 1..Len(pending'), pending'[i][1] = "open", pending'[i][3] \in Check!Bazaar,
                      botState' = "BuyingCookie"
               PROVE  /\ pending'[i][3] = "detail" /\ stage' # "Initial" /\ NoFresh'
                      /\ \A j \in 1..Len(pending') : j < i => pending'[j][1] # "open"
    BY DEF SpentEvents
  <2>1. i + k \in 1..Len(pending) /\ pending'[i] = pending[i + k] BY <1>2
  <2>2. /\ pending[i + k][3] = "detail" /\ stage # "Initial" /\ NoFresh
        /\ \A j \in 1..Len(pending) : j < i + k => pending[j][1] # "open"
    BY <1>0, <1>5, <2>1 DEF SpentEvents
  <2>3. \A j \in 1..Len(pending') : j < i => pending'[j][1] # "open"
    <3> SUFFICES ASSUME NEW j \in 1..Len(pending'), j < i PROVE pending'[j][1] # "open" OBVIOUS
    <3>1. j + k < i + k BY <1>2
    <3> QED BY <1>2, <2>2, <3>1
  <2> QED BY <1>0, <1>5, <2>1, <2>2, <2>3
<1>6. NoOpens => NoOpens' BY <1>3 DEF NoOpens
<1> QED BY <1>3, <1>4, <1>5, <1>6

LEMMA CalmAsked == ASSUME CookieInv, CookieAsked, CookieCalm PROVE CookieAsked'
<1> USE DEF CookieAsked
<1>0. /\ UNCHANGED <<shown, lastId, bought, handler, stage>> /\ botState' \in {botState, "Idle"}
      /\ SendsOf(Harmless) /\ Executed' = Executed
  BY DEF CookieCalm
<1>h. /\ \A w \in Check!Window : (Check!Fresh(w)' <=> Check!Fresh(w)) /\ (Check!Free(w)' <=> Check!Free(w))
      /\ Check!Deciding' = Check!Deciding /\ (NoFresh' <=> NoFresh)
  BY <1>0 DEF Check!Fresh, Check!Free, Check!Deciding, NoFresh
<1>w. (\A w : Waits(w)' => Waits(w)) /\ (ShownWaits' => ShownWaits)
  <2>1. \A i \in 1..Len(pending') : \E l \in 1..Len(pending) : pending'[i] = pending[l] BY CalmEvents
  <2>2. ASSUME NEW w, Waits(w)' PROVE Waits(w) BY <2>1, <2>2 DEF Waits
  <2>3. ASSUME ShownWaits' PROVE ShownWaits BY <1>0, <2>1, <2>3 DEF ShownWaits
  <2> QED BY <2>2, <2>3
<1>p. \A p \in Harmless : p.op # "open" /\ \A v : p # Check!Click(v, 10) BY CookieButtons
<1>c. (\A w : Clicked(w)' => Clicked(w)) /\ (ShownClicked' => ShownClicked)
  BY <1>0, <1>p, SentGrows DEF Clicked, ShownClicked
<1>1. PagesInOrder'
  <2>1. \A i \in 1..Len(pending') : pending'[i][1] = "open" =>
           pending'[i][2] <= lastId /\ \A w \in Check!Window : ~Check!Free(w) => w < pending'[i][2]
    BY CalmEvents DEF PagesInOrder
  <2>2. \A i, j \in 1..Len(pending') : pending'[i][1] = "open" /\ i < j /\ pending'[j][1] = "open" =>
           pending'[i][2] < pending'[j][2]
    <3> SUFFICES ASSUME NEW i \in 1..Len(pending'), NEW j \in 1..Len(pending'), i < j,
                        pending'[i][1] = "open", pending'[j][1] = "open"
                 PROVE  pending'[i][2] < pending'[j][2]
      OBVIOUS
    <3>1. \E l, m \in 1..Len(pending) : l < m /\ pending'[i] = pending[l] /\ pending'[j] = pending[m]
      BY CalmEvents
    <3> QED BY <3>1 DEF PagesInOrder
  <2> QED BY <1>0, <1>h, <2>1, <2>2 DEF PagesInOrder
<1>2. ClicksInOrder'
  <2>1. \A w \in Check!Window : \A i, j \in 1..Len(sent') :
          sent'[i] = Check!Click(w, 10) /\ sent'[j] = Check!Click(w, 10) => i = j
    BY <1>0, <1>p, SentGrows DEF ClicksInOrder
  <2>2. \A w \in Check!Window : Clicked(w)' => w <= lastId' /\ ~Check!Fresh(w)' /\ ~Waits(w)'
    BY <1>0, <1>h, <1>w, <1>c DEF ClicksInOrder
  <2>3. shown'.page = "detail" /\ ShownClicked' => NoFresh' /\ NoOpens' /\ stage' # "ItemDetail"
    BY <1>0, <1>h, <1>c, CalmEvents DEF ClicksInOrder
  <2> QED BY <2>1, <2>2, <2>3 DEF ClicksInOrder
<1>3. BuyPageAlone'
  <2>1. shown.page = "buy" => \A i \in 1..Len(pending') : pending'[i][1] = "open" => pending'[i][2] = shown.id
    BY CalmEvents DEF BuyPageAlone
  <2> QED BY <1>0, <1>h, <1>w, <2>1 DEF BuyPageAlone
<1>4. MenuComesLast' BY <1>0, <1>p, MenuStays
<1>5. Armed' => Armed BY <1>0, <1>p, ArmedStays
<1>6. ChecksSpent => ChecksSpent'
  <2> SUFFICES ASSUME ChecksSpent PROVE ChecksSpent' OBVIOUS
  <2>1. SpentSends' BY <1>0, <1>p, SentGrows DEF SpentSends, ChecksSpent
  <2>2. SpentBuyers' BY <1>0 DEF SpentBuyers, ChecksSpent
  <2>3. SpentEvents' BY <1>h, CalmEvents DEF ChecksSpent
  <2>4. Armed' => stage' # "Initial" /\ NoFresh' /\ NoOpens' BY <1>0, <1>h, <1>5, CalmEvents DEF ChecksSpent
  <2> QED BY <1>0, <1>c, <2>1, <2>2, <2>3, <2>4 DEF ChecksSpent
<1>7. CookiesCounted' BY <1>0, <1>5, <1>6, CountKeeps, ExecutedNat
<1> QED BY <1>1, <1>2, <1>3, <1>4, <1>7

LEMMA ExecuteAsked == ASSUME CookieInv, CookieAsked, CookieExecutes PROVE CookieAsked'
<1> USE DEF CookieAsked
<1>0. UNCHANGED <<shown, lastId, bought, handler, pending>> /\ stage' \in {stage, "Initial"}
  BY DEF CookieExecutes
<1>h. /\ \A w \in Check!Window : (Check!Fresh(w)' <=> Check!Fresh(w)) /\ (Check!Free(w)' <=> Check!Free(w))
      /\ Check!Deciding' = Check!Deciding /\ (NoFresh' <=> NoFresh) /\ (NoOpens' <=> NoOpens)
  BY <1>0 DEF Check!Fresh, Check!Free, Check!Deciding, NoFresh, NoOpens
<1>w. ShownWaits' <=> ShownWaits BY <1>0 DEF ShownWaits
<1>s. PICK page \in {"menu", "bazaar"} : SendsOf({Check!Open(page)}) BY DEF CookieExecutes
<1>p. \A p \in {Check!Open(page)} : \A v : p # Check!Click(v, 10) BY CookieButtons
<1>1. PagesInOrder' BY <1>0, <1>h DEF PagesInOrder
<1>2. ClicksInOrder' BY <1>0, <1>h, <1>s, <1>p, ClicksStay
<1>3. BuyPageAlone' BY <1>0, <1>h, <1>w DEF BuyPageAlone
<1>4. MenuComesLast'
  <2>1. CASE botState' # "CheckingCookie" BY <2>1 DEF MenuComesLast
  <2>2. CASE botState' = "CheckingCookie"
    <3>1. sent' = Append(sent, Check!Open("menu")) BY <2>2 DEF CookieExecutes
    <3>2. Len(sent) \in Nat /\ Len(sent') = Len(sent) + 1 /\ sent'[Len(sent')] = Check!Open("menu")
      BY <3>1 DEF CookieInv
    <3>3. Len(sent') \in 1..Len(sent') /\ \A i \in 1..Len(sent') : Len(sent') \in i..Len(sent') BY <3>2
    <3>4. ~(\A i \in 1..Len(sent') : sent'[i].op # "open") BY <3>2, <3>3, CookieButtons
    <3> QED BY <3>2, <3>3, <3>4 DEF MenuComesLast
  <2> QED BY <2>1, <2>2
<1>5. Armed' => Armed BY <1>0, <1>s, <1>p, ArmedStays
<1>6. CookiesCounted'
  <2>1. CASE Executed' = Executed + 1
    <3>1. bought \in Nat /\ Executed \in Nat BY ExecutedNat DEF CookieInv, Check!TypeOK
    <3> QED BY <1>0, <1>5, <2>1, <3>1 DEF CookiesCounted
  <2>2. CASE /\ Executed' = Executed /\ stage' = stage /\ botState' = "SellingInventoryBz"
             /\ SendsOf({Check!Open("bazaar")})
    <3>1. ASSUME ChecksSpent PROVE ChecksSpent'
      <4>1. SpentSends' BY <2>2, <3>1, SentGrows, CookieButtons DEF SpentSends, ChecksSpent
      <4>2. SpentBuyers' BY <1>0, <3>1 DEF SpentBuyers, ChecksSpent
      <4>3. SpentEvents' BY <2>2 DEF SpentEvents
      <4>4. ShownClicked' => ShownClicked BY <1>0, <2>2, SentGrows, CookieButtons DEF ShownClicked
      <4>5. Armed' => stage' # "Initial" /\ NoFresh' /\ NoOpens'
        BY <1>5, <1>h, <2>2, <3>1 DEF ChecksSpent
      <4> QED BY <1>0, <2>2, <3>1, <4>1, <4>2, <4>3, <4>4, <4>5 DEF ChecksSpent
    <3> QED BY <1>0, <1>5, <2>2, <3>1, CountKeeps, ExecutedNat
  <2> QED BY <2>1, <2>2 DEF CookieExecutes
<1> QED BY <1>1, <1>2, <1>3, <1>4, <1>6

\* A window arrives, and its handler begins with the step that the bot is in.
CookieArrives(w) ==
    /\ UNCHANGED <<shown, lastId, bought, sent, botState, stage, exec, begun, asked>>
    /\ 1 \in 1..Len(pending) /\ pending[1][1] = "open" /\ pending[1][2] = w
    /\ Shift(pending, pending', 1)
    /\ \A v \in Check!Window : v # w => handler'[v] = handler[v]
    /\ handler'[w].pc \notin {"enough", "short"}
    /\ handler'[w].pc = "scan" => botState = "CheckingCookie"
    /\ handler'[w].pc = "buy" => /\ botState = "BuyingCookie" /\ handler'[w].step = stage
                                 /\ handler'[w].after = Check!Deciding /\ handler'[w].page = pending[1][3]

LEMMA CookieOpenMoves ==
  ASSUME CookieInv, Check!OpenScreen
  PROVE  \E w \in Check!Window : CookieArrives(w)
<1> USE DEF Check!game, Check!flow, Check!proc
<1> DEFINE w == Head(pending)[2]
           r == Check!Handler(Head(pending)[3])
           h == IF r.pc = "none" THEN Check!Off ELSE r
<1>1. w \in Check!Window BY CookieEvents DEF Check!OpenScreen
<1>2. pending \in Seq(CookieEvent) /\ pending # <<>> /\ Head(pending)[1] = "open" /\ pending' = Tail(pending)
  BY DEF CookieInv, Check!OpenScreen, Check!Event
<1>3. 1 \in 1..Len(pending) /\ Head(pending) = pending[1] /\ Shift(pending, pending', 1) BY <1>2, Shifts
<1>4. handler' = [handler EXCEPT ![w] = h]
      /\ UNCHANGED <<shown, lastId, bought, sent, botState, stage, exec, begun, asked>>
  BY DEF Check!OpenScreen
<1>5. handler'[w] = h /\ \A v \in Check!Window : v # w => handler'[v] = handler[v]
  <2>1. handler \in [Check!Window -> CookieTask] BY DEF CookieInv
  <2> HIDE DEF w, h
  <2> QED BY <1>1, <1>4, <2>1
<1>6. /\ r.pc \in {"scan", "buy", "accept", "offer", "none"}
      /\ r.pc = "scan" => botState = "CheckingCookie"
      /\ r.pc = "buy" => botState = "BuyingCookie"
      /\ r.step = stage /\ r.after = Check!Deciding /\ r.page = Head(pending)[3]
  BY DEF Check!Handler
<1>7. Check!Off.pc = "none" BY DEF Check!Off
<1> HIDE DEF r
<1>8. /\ h.pc \notin {"enough", "short"} /\ (h.pc = "scan" => botState = "CheckingCookie")
      /\ h.pc = "buy" => /\ botState = "BuyingCookie" /\ h.step = stage /\ h.after = Check!Deciding
                         /\ h.page = Head(pending)[3]
  BY <1>6, <1>7
<1> HIDE DEF h
<1>9. CookieArrives(w) BY <1>2, <1>3, <1>4, <1>5, <1>8 DEF CookieArrives
<1> QED BY <1>1, <1>9

LEMMA ArriveAsked ==
  ASSUME CookieInv, CookieAsked, NEW w \in Check!Window, CookieArrives(w)
  PROVE  CookieAsked'
<1> USE DEF CookieAsked
<1>0. /\ UNCHANGED <<shown, lastId, bought, sent, botState, stage, exec, begun, asked>>
      /\ 1 \in 1..Len(pending) /\ pending[1][1] = "open" /\ pending[1][2] = w
      /\ \A v \in Check!Window : v # w => handler'[v] = handler[v]
  BY DEF CookieArrives
<1>1. /\ Len(pending) \in Nat /\ Len(pending') \in Nat
      /\ \A i \in 1..Len(pending') : i + 1 \in 1..Len(pending) /\ 1 < i + 1 /\ pending'[i] = pending[i + 1]
  BY DEF CookieArrives, Shift
<1>2. \A v \in Check!Window : /\ Check!Fresh(v)' => v = w \/ Check!Fresh(v)
                              /\ ~Check!Free(v)' => v = w \/ ~Check!Free(v)
  BY <1>0 DEF Check!Fresh, Check!Free
<1>3. (\A v : Waits(v)' => Waits(v)) /\ Waits(w) /\ ~NoOpens /\ (ShownWaits' => ShownWaits)
  <2>1. ASSUME NEW v, Waits(v)' PROVE Waits(v) BY <1>1, <2>1 DEF Waits
  <2>2. Waits(w) /\ ~NoOpens BY <1>0 DEF Waits, NoOpens
  <2>3. ASSUME ShownWaits' PROVE ShownWaits BY <1>0, <1>1, <2>3 DEF ShownWaits
  <2> QED BY <2>1, <2>2, <2>3
<1>4. (\A v : Clicked(v)' <=> Clicked(v)) /\ (ShownClicked' <=> ShownClicked)
  BY <1>0 DEF Clicked, ShownClicked
<1>d. Check!Deciding' \subseteq Check!Deciding
  <2> SUFFICES ASSUME NEW v \in Check!Window, handler'[v].pc \in {"enough", "short"}
               PROVE  handler[v].pc \in {"enough", "short"}
    BY DEF Check!Deciding
  <2> QED BY DEF CookieArrives
<1>5. PagesInOrder'
  <2>1. \A v \in Check!Window : ~Check!Free(v)' => v <= lastId BY <1>0, <1>2 DEF PagesInOrder
  <2>2. ASSUME NEW i \in 1..Len(pending'), pending'[i][1] = "open"
        PROVE  /\ pending'[i][2] <= lastId
               /\ \A v \in Check!Window : ~Check!Free(v)' => v < pending'[i][2]
               /\ \A j \in 1..Len(pending') : i < j /\ pending'[j][1] = "open" =>
                     pending'[i][2] < pending'[j][2]
    <3>1. /\ pending'[i][2] <= lastId
          /\ \A v \in Check!Window : ~Check!Free(v) => v < pending'[i][2]
          /\ w < pending'[i][2]
      BY <1>0, <1>1, <2>2 DEF PagesInOrder
    <3>2. ASSUME NEW j \in 1..Len(pending'), i < j, pending'[j][1] = "open"
          PROVE  pending'[i][2] < pending'[j][2]
      <4>1. i + 1 < j + 1 BY <3>2
      <4> QED BY <1>1, <2>2, <3>2, <4>1 DEF PagesInOrder
    <3> QED BY <1>2, <3>1, <3>2
  <2> QED BY <1>0, <2>1, <2>2 DEF PagesInOrder
<1>6. ClicksInOrder'
  <2>1. \A v \in Check!Window : Clicked(v)' => v <= lastId' /\ ~Check!Fresh(v)' /\ ~Waits(v)'
    BY <1>0, <1>2, <1>3, <1>4 DEF ClicksInOrder
  <2>2. \A v \in Check!Window : \A i, j \in 1..Len(sent') :
          sent'[i] = Check!Click(v, 10) /\ sent'[j] = Check!Click(v, 10) => i = j
    BY <1>0 DEF ClicksInOrder
  <2>3. ~(shown'.page = "detail" /\ ShownClicked') BY <1>0, <1>3, <1>4 DEF ClicksInOrder
  <2> QED BY <2>1, <2>2, <2>3 DEF ClicksInOrder
<1>7. BuyPageAlone'
  <2> SUFFICES ASSUME shown.page = "buy"
               PROVE  /\ \A v \in Check!Window : Check!Fresh(v)' => v = shown.id
                      /\ \A i \in 1..Len(pending') : pending'[i][1] = "open" => pending'[i][2] = shown.id
                      /\ ShownWaits' => stage # "ItemDetail"
                      /\ \A v \in Check!Window : handler'[v].pc = "buy" =>
                            handler'[v].step # "ItemDetail" /\ Check!Deciding' \subseteq handler'[v].after
    BY <1>0 DEF BuyPageAlone
  <2>1. w = shown.id /\ ShownWaits /\ stage # "ItemDetail" BY <1>0 DEF BuyPageAlone, ShownWaits
  <2>2. \A v \in Check!Window : Check!Fresh(v)' => v = shown.id BY <1>2, <2>1 DEF BuyPageAlone
  <2>3. \A i \in 1..Len(pending') : pending'[i][1] = "open" => pending'[i][2] = shown.id
    BY <1>1 DEF BuyPageAlone
  <2>4. ASSUME NEW v \in Check!Window, handler'[v].pc = "buy"
        PROVE  handler'[v].step # "ItemDetail" /\ Check!Deciding' \subseteq handler'[v].after
    <3>1. CASE v = w BY <1>d, <2>1, <2>4, <3>1 DEF CookieArrives
    <3>2. CASE v # w BY <1>0, <1>d, <2>4, <3>2 DEF BuyPageAlone
    <3> QED BY <3>1, <3>2
  <2> QED BY <2>1, <2>2, <2>3, <2>4
<1>8. MenuComesLast' BY <1>0 DEF MenuComesLast
<1>9. Armed' <=> Armed BY <1>0 DEF Armed
<1>10. ASSUME ChecksSpent PROVE ChecksSpent'
  <2> USE <1>10
  <2>1. SpentSends' BY <1>0 DEF SpentSends, ChecksSpent
  <2>2. SpentBuyers'
    <3> SUFFICES ASSUME NEW v \in Check!Window, handler'[v].pc = "buy"
                 PROVE  \/ handler'[v].step \in {"WaitingForCookie", "ConsumingCookie"}
                        \/ handler'[v].step = "Initial" /\ handler'[v].page \notin Check!Bazaar
      BY DEF SpentBuyers
    <3>1. CASE v = w
      <4>1. botState = "BuyingCookie" /\ handler'[w].step = stage /\ handler'[w].page = pending[1][3]
        BY <3>1 DEF CookieArrives
      <4>2. pending[1][3] \in Check!Bazaar => stage # "Initial"
        BY <1>0, <4>1 DEF ChecksSpent, SpentEvents
      <4> QED BY <3>1, <4>1, <4>2 DEF ChecksSpent
    <3>2. CASE v # w BY <1>0, <3>2 DEF ChecksSpent, SpentBuyers
    <3> QED BY <3>1, <3>2
  <2>3. SpentEvents'
    <3> SUFFICES ASSUME NEW i \in 1..Len(pending'), pending'[i][1] = "open", pending'[i][3] \in Check!Bazaar
                 PROVE  botState # "BuyingCookie"
      BY <1>0 DEF SpentEvents
    <3>1. i + 1 \in 1..Len(pending) /\ 1 < i + 1 /\ pending'[i] = pending[i + 1] BY <1>1
    <3> QED BY <1>0, <3>1 DEF ChecksSpent, SpentEvents
  <2>4. ~Armed' BY <1>3, <1>9 DEF ChecksSpent
  <2>5. \A v \in Check!Window : handler'[v].pc \notin {"scan", "short"}
    BY DEF ChecksSpent, CookieArrives
  <2> QED BY <1>0, <1>4, <2>1, <2>2, <2>3, <2>4, <2>5 DEF ChecksSpent
<1>11. CookiesCounted'
  <2>1. Executed' = Executed BY <1>0, ExecutedSame
  <2> QED BY <1>0, <1>9, <1>10, <2>1, CountKeeps, ExecutedNat
<1> QED BY <1>5, <1>6, <1>7, <1>8, <1>11

\* What the game does with the first packet, and by itself when there is none.
CookieGameFrame(k) ==
    UNCHANGED <<botState, stage, handler, exec, begun, asked>> /\ Shift(sent, sent', k)
    /\ (k = 1 => 1 \in 1..Len(sent))

\* The window that opens, and why.
CookieOpening(k, page) ==
    /\ shown' = [page |-> page, id |-> lastId + 1] /\ lastId' = lastId + 1
    /\ pending' = Append(pending, <<"open", lastId + 1, page>>)
    /\ \/ bought' = bought /\ k = 0 /\ page \in {"menu", "other"}
       \/ bought' = bought /\ k = 1 /\ sent[1].op = "open" /\ page = sent[1].page
       \/ /\ bought' = bought /\ k = 1 /\ sent[1].op # "open" /\ page \in {"gui", "other", "sell", "detail", "buy"}
          /\ page \in {"detail", "buy"} => shown.page \in Check!Bazaar
          /\ page = "detail" => shown.page = "search"
          /\ page = "buy" => shown.page = "detail" /\ sent[1] = Check!Click(shown.id, 10)
       \/ /\ bought' = bought + 1 /\ k = 1 /\ page = "detail"
          /\ shown.page = "buy" /\ sent[1] = Check!Click(shown.id, 10)

CookieQuiet(k) ==
    /\ k = 1 /\ sent[1].op # "open" /\ UNCHANGED <<lastId, bought>> /\ shown' \in {shown, Check!None}
    /\ pending' = pending \/ pending' = Append(pending, <<"unsold">>)

CookieBuys(k) ==
    /\ k = 1 /\ shown.page = "buy" /\ sent[1] = Check!Click(shown.id, 10)
    /\ UNCHANGED <<shown, lastId, pending>> /\ bought' = bought + 1

CookieAnswers(k) == (\E page \in Check!Pages : CookieOpening(k, page)) \/ CookieQuiet(k) \/ CookieBuys(k)

LEMMA CookieClickIs ==
  ASSUME NEW p \in CookiePacket, p.op = "click", p.slot = 10
  PROVE  p = Check!Click(p.win, 10)
<1>1. p \in [op : {"click"}, win : Check!Window, slot : {10, 11, 47}] BY DEF CookiePacket
<1> QED BY <1>1 DEF Check!Click

LEMMA CookieClickAnswers ==
  ASSUME CookieInv, NEW p \in CookiePacket, p.op = "click", Check!Answer(p), sent[1] = p
  PROVE  CookieAnswers(1)
<1>0. p.op # "open" BY DEF CookiePacket
<1>c. p.win = shown.id /\ (p.slot = 10 => sent[1] = Check!Click(shown.id, 10))
  <2>1. p.win = shown.id BY DEF Check!Answer
  <2> QED BY <2>1, CookieClickIs
<1>1. ASSUME NEW l \in Check!Leads, l[1] = shown.page, l[2] = p.slot, Check!Opens(l[3]),
             UNCHANGED <<bought, cookies, sold>>
      PROVE  CookieAnswers(1)
  <2> DEFINE page == l[3]
  <2>1. /\ page \in {"other", "sell", "detail", "buy"}
        /\ page \in {"detail", "buy"} => shown.page \in Check!Bazaar
        /\ page = "detail" => shown.page = "search"
        /\ page = "buy" => shown.page = "detail" /\ p.slot = 10
    BY <1>1 DEF Check!Leads, Check!Bazaar
  <2>2. page \in Check!Pages BY <2>1 DEF Check!Pages, Check!Bazaar
  <2>3. shown' = [page |-> page, id |-> lastId + 1] /\ lastId' = lastId + 1
        /\ pending' = Append(pending, <<"open", lastId + 1, page>>)
    BY <1>1 DEF Check!Opens
  <2> HIDE DEF page
  <2>4. CookieOpening(1, page) BY <1>0, <1>1, <1>c, <2>1, <2>3 DEF CookieOpening
  <2> QED BY <2>2, <2>4 DEF CookieAnswers
<1>2. CASE /\ pending' = Append(pending, <<"unsold">>)
           /\ UNCHANGED <<shown, lastId, bought, cookies, sold>>
  <2>1. CookieQuiet(1) BY <1>0, <1>2 DEF CookieQuiet
  <2> QED BY <2>1 DEF CookieAnswers
<1>3. CASE /\ p.slot = 10 /\ shown.page = "buy" /\ Check!Buys
           /\ Check!Opens("detail") \/ UNCHANGED <<shown, lastId, pending>>
  <2>1. bought' = bought + 1 /\ sent[1] = Check!Click(shown.id, 10) BY <1>3, <1>c DEF Check!Buys
  <2>2. CASE Check!Opens("detail")
    <3>1. CookieOpening(1, "detail") BY <1>3, <2>1, <2>2 DEF CookieOpening, Check!Opens
    <3> QED BY <3>1 DEF CookieAnswers, Check!Pages, Check!Bazaar
  <2>3. CASE UNCHANGED <<shown, lastId, pending>>
    <3>1. CookieBuys(1) BY <1>3, <2>1, <2>3 DEF CookieBuys
    <3> QED BY <3>1 DEF CookieAnswers
  <2> QED BY <1>3, <2>2, <2>3
<1>4. CASE shown' \in {shown, Check!None} /\ UNCHANGED <<lastId, pending, bought>>
  <2>1. CookieQuiet(1) BY <1>0, <1>4 DEF CookieQuiet
  <2> QED BY <2>1 DEF CookieAnswers
<1> QED BY <1>1, <1>2, <1>3, <1>4 DEF Check!Answer

LEMMA CookieGameMoves ==
  ASSUME CookieInv, Check!Game \/ Check!Stray
  PROVE  \E k \in {0, 1} : CookieGameFrame(k) /\ CookieAnswers(k)
<1> USE DEF Check!game, Check!bot, Check!flow, Check!tasks, Check!proc
<1>0. sent \in Seq(CookiePacket) BY DEF CookieInv
<1>1. CASE Check!Game
  <2> DEFINE p == sent[1]
  <2>1. sent # <<>> /\ sent' = Tail(sent) /\ UNCHANGED <<botState, stage, handler, exec, begun, asked>>
        /\ Head(sent) = p /\ 1 \in 1..Len(sent) /\ Shift(sent, sent', 1) /\ p \in CookiePacket
    <3>1. sent # <<>> /\ sent' = Tail(sent) /\ UNCHANGED <<botState, stage, handler, exec, begun, asked>>
      BY <1>1 DEF Check!Game
    <3>2. Head(sent) = p /\ 1 \in 1..Len(sent) /\ Shift(sent, sent', 1) BY <1>0, <3>1, Shifts
    <3> QED BY <1>0, <3>1, <3>2
  <2>2. Check!Answer(p) \/ (~Check!Means(p) /\ UNCHANGED <<shown, lastId, bought, pending>>)
    BY <1>1, <2>1 DEF Check!Game
  <2>3. CookieGameFrame(1) BY <2>1 DEF CookieGameFrame
  <2>4. CookieAnswers(1)
    <3>1. CASE ~Check!Means(p) /\ UNCHANGED <<shown, lastId, bought, pending>>
      <4>1. CookieQuiet(1) BY <3>1 DEF CookieQuiet, Check!Means
      <4> QED BY <4>1 DEF CookieAnswers
    <3>2. CASE Check!Answer(p)
      <4>1. CASE p.op = "open"
        <5>1. p.page \in Check!Pages /\ Check!Opens(p.page) /\ bought' = bought
          BY <2>1, <3>2, <4>1 DEF Check!Answer, CookiePacket, Check!Pages, Check!Bazaar
        <5>2. CookieOpening(1, p.page) BY <4>1, <5>1 DEF CookieOpening, Check!Opens
        <5> QED BY <5>1, <5>2 DEF CookieAnswers
      <4>2. CASE p.op = "use"
        <5>1. Check!Opens("gui") /\ bought' = bought BY <3>2, <4>2 DEF Check!Answer
        <5>2. p.op # "open" BY <4>2
        <5>3. CookieOpening(1, "gui") BY <5>1, <5>2 DEF CookieOpening, Check!Opens
        <5>4. "gui" \in Check!Pages BY DEF Check!Pages
        <5> QED BY <5>3, <5>4 DEF CookieAnswers
      <4>3. CASE p.op = "click" BY <2>1, <3>2, <4>3, CookieClickAnswers
      <4>4. CASE p.op = "close"
        <5>1. shown' = Check!None /\ UNCHANGED <<lastId, pending, bought>> /\ p.op # "open"
          BY <3>2, <4>4 DEF Check!Answer
        <5>2. CookieQuiet(1) BY <5>1 DEF CookieQuiet
        <5> QED BY <5>2 DEF CookieAnswers
      <4> QED BY <3>2, <4>1, <4>2, <4>3, <4>4 DEF Check!Answer
    <3> QED BY <2>2, <3>1, <3>2
  <2> QED BY <2>3, <2>4
<1>2. CASE Check!Stray
  <2>1. PICK page \in {"menu", "other"} : Check!Opens(page) BY <1>2 DEF Check!Stray
  <2>2. UNCHANGED <<bought, sent, botState, stage, handler, exec, begun, asked>> BY <1>2 DEF Check!Stray
  <2>3. Shift(sent, sent', 0) BY <1>0, <2>2, Shifts
  <2>4. CookieGameFrame(0) BY <2>2, <2>3 DEF CookieGameFrame
  <2>5. CookieOpening(0, page) BY <2>1, <2>2 DEF CookieOpening, Check!Opens
  <2>6. page \in Check!Pages BY <2>1 DEF Check!Pages
  <2> QED BY <2>4, <2>5, <2>6 DEF CookieAnswers
<1> QED BY <1>1, <1>2

\* Taking the first packet, or none, keeps what holds of the packets.
LEMMA SentShrinks ==
  ASSUME CookieInv, NEW k \in {0, 1}, CookieGameFrame(k)
  PROVE  /\ Len(sent) \in Nat /\ Len(sent') \in Nat
         /\ \A i \in 1..Len(sent') : i + k \in 1..Len(sent) /\ sent'[i] = sent[i + k]
         /\ \A v : Clicked(v)' => Clicked(v)
         /\ ClicksInOrder => \A v \in Check!Window : \A i, j \in 1..Len(sent') :
               sent'[i] = Check!Click(v, 10) /\ sent'[j] = Check!Click(v, 10) => i = j
         /\ MenuComesLast /\ botState = "CheckingCookie" =>
               \A i \in 1..Len(sent') : sent'[i].op = "open" =>
                  \E j \in i..Len(sent') : sent'[j] = Check!Open("menu")
         /\ SpentSends => SpentSends'
<1>1. /\ Len(sent) \in Nat /\ Len(sent') \in Nat /\ Len(sent) = Len(sent') + k
      /\ \A i \in 1..Len(sent') : i + k \in 1..Len(sent) /\ sent'[i] = sent[i + k]
  BY DEF CookieGameFrame, Shift
<1>2. ASSUME NEW v, Clicked(v)' PROVE Clicked(v) BY <1>1, <1>2 DEF Clicked
<1>3. ASSUME ClicksInOrder, NEW v \in Check!Window, NEW i \in 1..Len(sent'), NEW j \in 1..Len(sent'),
             sent'[i] = Check!Click(v, 10), sent'[j] = Check!Click(v, 10)
      PROVE  i = j
  <2>1. i + k = j + k BY <1>1, <1>3 DEF ClicksInOrder
  <2> QED BY <2>1
<1>4. ASSUME MenuComesLast, botState = "CheckingCookie", NEW i \in 1..Len(sent'), sent'[i].op = "open"
      PROVE  \E j \in i..Len(sent') : sent'[j] = Check!Open("menu")
  <2>1. PICK j \in (i + k)..Len(sent) : sent[j] = Check!Open("menu") BY <1>1, <1>4 DEF MenuComesLast
  <2>2. j - k \in i..Len(sent') /\ j - k \in 1..Len(sent') /\ j - k + k = j BY <1>1, <2>1
  <2> QED BY <1>1, <2>1, <2>2
<1>5. SpentSends => SpentSends' BY <1>1 DEF SpentSends, CookieGameFrame
<1> QED BY <1>1, <1>2, <1>3, <1>4, <1>5

LEMMA GameHandlers ==
  ASSUME NEW k, CookieGameFrame(k)
  PROVE  /\ \A w \in Check!Window : (Check!Fresh(w)' <=> Check!Fresh(w)) /\ (Check!Free(w)' <=> Check!Free(w))
         /\ Check!Deciding' = Check!Deciding /\ (NoFresh' <=> NoFresh) /\ (SpentBuyers' <=> SpentBuyers)
BY DEF CookieGameFrame, Check!Fresh, Check!Free, Check!Deciding, NoFresh, SpentBuyers

LEMMA OpeningKeepsPages ==
  ASSUME CookieInv, CookieAsked, NEW k \in {0, 1}, CookieGameFrame(k), NEW page \in Check!Pages,
         CookieOpening(k, page)
  PROVE  PagesInOrder' /\ ClicksInOrder' /\ BuyPageAlone' /\ MenuComesLast' /\ ~ShownClicked'
<1> USE DEF CookieAsked
<1> DEFINE n == Len(pending)
           new == lastId + 1
<1>0. /\ shown' = [page |-> page, id |-> new] /\ lastId' = new /\ lastId \in Nat /\ new > lastId /\ new # 0
      /\ shown'.page = page /\ shown'.id = new /\ page # "none"
      /\ UNCHANGED <<botState, stage, handler, exec, begun, asked>>
  BY DEF CookieInv, Check!TypeOK, CookieOpening, CookieGameFrame, Check!Pages, Check!Bazaar
<1>1. /\ n \in Nat /\ Len(pending') = n + 1
      /\ pending'[n + 1][1] = "open" /\ pending'[n + 1][2] = new
      /\ \A i \in 1..n : pending'[i] = pending[i]
      /\ \A i \in 1..Len(pending') : i \in 1..n \/ i = n + 1
  <2>1. pending \in Seq(CookieEvent) /\ n \in Nat BY DEF CookieInv
  <2> DEFINE e == <<"open", new, page>>
  <2>2. pending' = Append(pending, e) /\ e[1] = "open" /\ e[2] = new BY DEF CookieOpening
  <2> HIDE DEF e
  <2>3. Len(pending') = n + 1 /\ pending'[n + 1] = e /\ \A i \in 1..n : pending'[i] = pending[i] BY <2>1, <2>2
  <2> QED BY <2>1, <2>2, <2>3
<1> HIDE DEF n
<1>n. n = Len(pending) BY DEF n
<1>2. \A i \in 1..n : pending[i][1] = "open" =>
         /\ pending[i][2] \in Nat /\ pending[i][2] <= lastId
         /\ \A w \in Check!Window : ~Check!Free(w) => w < pending[i][2]
         /\ \A j \in 1..n : i < j /\ pending[j][1] = "open" => pending[i][2] < pending[j][2]
  <2>1. \A i \in 1..n : pending[i] \in CookieEvent BY <1>n DEF CookieInv
  <2>2. \A i \in 1..n : pending[i][1] = "open" => pending[i][2] \in Nat
    BY <2>1 DEF CookieEvent, Check!Window
  <2> QED BY <1>n, <2>2 DEF PagesInOrder
<1>w. Check!Window \subseteq Nat BY DEF Check!Window
<1>3. \A w \in Check!Window : ~Check!Free(w)' => w <= lastId BY GameHandlers DEF PagesInOrder
<1>4. PagesInOrder'
  <2>1. ASSUME NEW i \in 1..Len(pending'), pending'[i][1] = "open"
        PROVE  /\ pending'[i][2] <= lastId'
               /\ \A w \in Check!Window : ~Check!Free(w)' => w < pending'[i][2]
               /\ \A j \in 1..Len(pending') : i < j /\ pending'[j][1] = "open" => pending'[i][2] < pending'[j][2]
    <3>1. CASE i \in 1..n
      <4>1. pending'[i][2] \in Nat /\ pending'[i][2] <= lastId
            /\ \A w \in Check!Window : ~Check!Free(w)' => w < pending'[i][2]
        BY <1>1, <1>2, <2>1, <3>1, GameHandlers
      <4>2. ASSUME NEW j \in 1..Len(pending'), i < j, pending'[j][1] = "open"
            PROVE  pending'[i][2] < pending'[j][2]
        <5>1. CASE j \in 1..n BY <1>1, <1>2, <2>1, <3>1, <4>2, <5>1
        <5>2. CASE j = n + 1 BY <1>0, <1>1, <4>1, <5>2
        <5> QED BY <1>1, <5>1, <5>2
      <4> QED BY <1>0, <4>1, <4>2
    <3>2. CASE i = n + 1
      <4>1. \A w \in Check!Window : ~Check!Free(w)' => w < new BY <1>0, <1>3, <1>w
      <4>2. \A j \in 1..Len(pending') : ~(i < j) BY <1>1, <3>2
      <4> QED BY <1>0, <1>1, <3>2, <4>1, <4>2
    <3> QED BY <1>1, <3>1, <3>2
  <2>2. \A w \in Check!Window : ~Check!Free(w)' => w <= lastId' BY <1>0, <1>3, <1>w
  <2> QED BY <1>0, <2>1, <2>2 DEF PagesInOrder
<1>5. \A v \in Check!Window : Clicked(v) => v < new /\ ~Check!Fresh(v) /\ ~Waits(v)
  BY <1>0, <1>w DEF ClicksInOrder
<1>6. ~ShownClicked'
  <2> SUFFICES ASSUME ShownClicked' PROVE FALSE OBVIOUS
  <2>1. PICK i \in 1..Len(sent') : sent'[i] = Check!Click(new, 10) BY <1>0 DEF ShownClicked
  <2>2. new \in Check!Window
    <3>1. sent'[i] \in CookiePacket BY SentShrinks DEF CookieInv
    <3>2. Check!Click(new, 10).op = "click" /\ Check!Click(new, 10).win = new BY DEF Check!Click
    <3>3. sent'[i] \in [op : {"click"}, win : Check!Window, slot : {10, 11, 47}]
      BY <2>1, <3>1, <3>2 DEF CookiePacket
    <3> QED BY <2>1, <3>2, <3>3
  <2>3. Clicked(new)
    <3>1. sent[i + k] = Check!Click(new, 10) /\ i + k \in 1..Len(sent) BY <2>1, SentShrinks
    <3> QED BY <3>1 DEF Clicked
  <2> QED BY <1>0, <1>5, <2>2, <2>3
<1>7. ClicksInOrder'
  <2>1. ASSUME NEW v \in Check!Window, Clicked(v)' PROVE v <= lastId' /\ ~Check!Fresh(v)' /\ ~Waits(v)'
    <3>1. v < new /\ ~Check!Fresh(v) /\ ~Waits(v) BY <1>5, <2>1, SentShrinks
    <3>2. ~Waits(v)'
      <4> SUFFICES ASSUME NEW i \in 1..Len(pending'), pending'[i][1] = "open", pending'[i][2] = v
                   PROVE  FALSE
        BY DEF Waits
      <4>1. CASE i \in 1..n BY <1>1, <1>n, <3>1, <4>1 DEF Waits
      <4>2. CASE i = n + 1 BY <1>0, <1>1, <1>w, <3>1, <4>2
      <4> QED BY <1>1, <4>1, <4>2
    <3> QED BY <1>0, <1>w, <3>1, <3>2, GameHandlers
  <2>2. \A v \in Check!Window : \A i, j \in 1..Len(sent') :
          sent'[i] = Check!Click(v, 10) /\ sent'[j] = Check!Click(v, 10) => i = j
    BY SentShrinks
  <2> QED BY <1>6, <2>1, <2>2 DEF ClicksInOrder
<1>8. BuyPageAlone'
  <2> SUFFICES ASSUME page = "buy"
               PROVE  /\ NoFresh' /\ stage' # "ItemDetail"
                      /\ \A i \in 1..Len(pending') : pending'[i][1] = "open" => pending'[i][2] = shown'.id
    BY <1>0 DEF BuyPageAlone, NoFresh, Check!Fresh
  <2>1. shown.page = "detail" /\ ShownClicked
    <3>1. shown.page = "detail" /\ sent[1] = Check!Click(shown.id, 10) /\ k = 1
      <4>1. k = 1 /\ sent[1].op = "open" => sent[1].page \in {"menu", "bazaar", "search"}
        <5> SUFFICES ASSUME k = 1, sent[1].op = "open" PROVE sent[1].page \in {"menu", "bazaar", "search"}
          OBVIOUS
        <5>1. sent[1] \in CookiePacket BY DEF CookieGameFrame, CookieInv
        <5> QED BY <5>1 DEF CookiePacket
      <4> QED BY <4>1 DEF CookieOpening
    <3> QED BY <3>1 DEF ShownClicked, CookieGameFrame
  <2>2. NoFresh /\ NoOpens /\ stage # "ItemDetail" BY <2>1 DEF ClicksInOrder
  <2>3. \A i \in 1..Len(pending') : pending'[i][1] = "open" => i = n + 1
    BY <1>1, <1>n, <2>2 DEF NoOpens
  <2> QED BY <1>0, <1>1, <2>2, <2>3, GameHandlers
<1>9. MenuComesLast'
  <2> SUFFICES ASSUME botState = "CheckingCookie"
               PROVE  (\A i \in 1..Len(sent') : sent'[i].op # "open") => page \notin Check!Bazaar \cup {"buy"}
    BY <1>0, SentShrinks DEF MenuComesLast
  <2> SUFFICES ASSUME \A i \in 1..Len(sent') : sent'[i].op # "open" PROVE page \notin Check!Bazaar \cup {"buy"}
    OBVIOUS
  <2>1. \A i \in 1..Len(sent) : i = 1 \/ (k = 1 => sent[i].op # "open")
    <3> SUFFICES ASSUME NEW i \in 1..Len(sent), i # 1, k = 1 PROVE sent[i].op # "open" OBVIOUS
    <3>1. i - 1 \in 1..Len(sent') /\ i - 1 + k = i BY DEF CookieGameFrame, Shift
    <3> QED BY <3>1, SentShrinks
  <2>2. CASE k = 0
    <3>1. page \in {"menu", "other"} BY <2>2 DEF CookieOpening
    <3> QED BY <3>1 DEF Check!Bazaar
  <2>3. CASE k = 1 /\ sent[1].op = "open"
    <3>1. 1 \in 1..Len(sent) BY <2>3 DEF CookieGameFrame
    <3>2. PICK j \in 1..Len(sent) : sent[j] = Check!Open("menu") BY <2>3, <3>1 DEF MenuComesLast
    <3>3. sent[1] = Check!Open("menu") BY <2>1, <2>3, <3>2, CookieButtons
    <3>4. page = "menu" BY <2>3, <3>3, CookieButtons DEF CookieOpening
    <3> QED BY <3>4 DEF Check!Bazaar
  <2>4. CASE k = 1 /\ sent[1].op # "open"
    <3>1. \A i \in 1..Len(sent) : sent[i].op # "open" BY <2>1, <2>4
    <3>2. shown.page \notin Check!Bazaar \cup {"buy"} BY <3>1 DEF MenuComesLast
    <3>3. page \in {"gui", "other", "sell"} BY <2>4, <3>2 DEF CookieOpening
    <3> QED BY <3>3 DEF Check!Bazaar
  <2> QED BY <2>2, <2>3, <2>4
<1> QED BY <1>4, <1>6, <1>7, <1>8, <1>9

LEMMA OpeningSpent ==
  ASSUME CookieInv, CookieAsked, NEW k \in {0, 1}, CookieGameFrame(k), NEW page \in Check!Pages,
         CookieOpening(k, page), ChecksSpent
  PROVE  ChecksSpent'
<1> USE DEF CookieAsked
<1> DEFINE n == Len(pending)
<1>0. /\ shown'.page = page /\ UNCHANGED <<botState, stage, handler>> /\ ~ShownClicked'
  BY OpeningKeepsPages DEF CookieOpening, CookieGameFrame
<1>1. /\ n \in Nat /\ Len(pending') = n + 1 /\ pending'[n + 1][3] = page
      /\ \A i \in 1..n : pending'[i] = pending[i]
      /\ \A i \in 1..Len(pending') : i \in 1..n \/ i = n + 1
  <2>1. pending \in Seq(CookieEvent) /\ n \in Nat BY DEF CookieInv
  <2> DEFINE e == <<"open", lastId + 1, page>>
  <2>2. pending' = Append(pending, e) /\ e[3] = page BY DEF CookieOpening
  <2> HIDE DEF e
  <2>3. Len(pending') = n + 1 /\ pending'[n + 1] = e /\ \A i \in 1..n : pending'[i] = pending[i] BY <2>1, <2>2
  <2> QED BY <2>1, <2>2, <2>3
<1>2. k = 1 /\ sent[1].op = "open" => sent[1].page = "bazaar" /\ botState # "BuyingCookie"
  BY DEF ChecksSpent, SpentSends, CookieGameFrame
<1>3. page # "search" BY <1>2 DEF CookieOpening
<1>4. page \in Check!Bazaar =>
         botState # "BuyingCookie" \/ (page = "detail" /\ stage # "Initial" /\ NoFresh /\ NoOpens)
  <2> SUFFICES ASSUME page \in Check!Bazaar, botState = "BuyingCookie"
               PROVE  page = "detail" /\ stage # "Initial" /\ NoFresh /\ NoOpens
    OBVIOUS
  <2>1. page \in {"bazaar", "detail"} BY <1>3 DEF Check!Bazaar
  <2>2. k = 1 /\ page = "detail" /\ shown.page = "buy" /\ sent[1] = Check!Click(shown.id, 10)
    BY <1>2, <2>1 DEF CookieOpening, ChecksSpent
  <2>3. Armed
    <3>1. 1 \in 1..Len(sent) BY <2>2 DEF CookieGameFrame
    <3>2. \A j \in 1..1 : sent[j].op # "open" BY <2>2, CookieButtons
    <3> QED BY <2>2, <3>1, <3>2 DEF Armed
  <2> QED BY <2>2, <2>3 DEF ChecksSpent
<1>5. SpentEvents'
  <2> SUFFICES ASSUME NEW i \in 1..Len(pending'), pending'[i][1] = "open", pending'[i][3] \in Check!Bazaar,
                      botState = "BuyingCookie"
               PROVE  /\ pending'[i][3] = "detail" /\ stage # "Initial" /\ NoFresh'
                      /\ \A j \in 1..Len(pending') : j < i => pending'[j][1] # "open"
    BY <1>0 DEF SpentEvents
  <2>1. CASE i \in 1..n
    <3>1. /\ pending[i][3] = "detail" /\ stage # "Initial" /\ NoFresh
          /\ \A j \in 1..n : j < i => pending[j][1] # "open"
      BY <1>1, <2>1 DEF ChecksSpent, SpentEvents
    <3>2. \A j \in 1..Len(pending') : j < i => j \in 1..n BY <1>1, <2>1
    <3> QED BY <1>1, <2>1, <3>1, <3>2, GameHandlers
  <2>2. CASE i = n + 1
    <3>1. page = "detail" /\ stage # "Initial" /\ NoFresh /\ NoOpens BY <1>1, <1>4, <2>2
    <3>2. \A j \in 1..Len(pending') : j < i => j \in 1..n BY <1>1, <2>2
    <3> QED BY <1>1, <2>2, <3>1, <3>2, GameHandlers DEF NoOpens
  <2> QED BY <1>1, <2>1, <2>2
<1>6. ~Armed' BY <1>0 DEF Armed, ShownClicked
<1>7. SpentSends' /\ SpentBuyers' BY SentShrinks, GameHandlers DEF ChecksSpent
<1> QED BY <1>0, <1>3, <1>5, <1>6, <1>7 DEF ChecksSpent

LEMMA OpeningAsked ==
  ASSUME CookieInv, CookieAsked, NEW k \in {0, 1}, CookieGameFrame(k), NEW page \in Check!Pages,
         CookieOpening(k, page)
  PROVE  CookieAsked'
<1>1. PagesInOrder' /\ ClicksInOrder' /\ BuyPageAlone' /\ MenuComesLast' /\ ~ShownClicked'
  BY OpeningKeepsPages
<1>2. ~Armed' BY <1>1 DEF Armed, ShownClicked
<1>3. ChecksSpent => ChecksSpent' BY OpeningSpent
<1>4. Executed' = Executed /\ Executed \in Nat BY ExecutedSame, ExecutedNat DEF CookieGameFrame
<1>6. CASE bought' # bought
  <2>1. bought' = bought + 1 /\ k = 1 /\ shown.page = "buy" /\ sent[1] = Check!Click(shown.id, 10)
    BY <1>6 DEF CookieOpening
  <2>2. Armed
    <3>1. 1 \in 1..Len(sent) BY <2>1 DEF CookieGameFrame
    <3>2. \A j \in 1..1 : sent[j].op # "open" BY <2>1, CookieButtons
    <3> QED BY <2>1, <3>1, <3>2 DEF Armed
  <2>3. bought \in Nat BY DEF CookieInv, Check!TypeOK
  <2>4. bought + 1 + (IF ChecksSpent THEN 0 ELSE 1) <= Executed BY <2>2, <2>3 DEF CookieAsked, CookiesCounted
  <2>5. CookiesCounted' BY <1>2, <1>3, <1>4, <2>1, <2>3, <2>4 DEF CookiesCounted
  <2> QED BY <1>1, <2>5 DEF CookieAsked
<1>7. CookiesCounted' => CookieAsked' BY <1>1 DEF CookieAsked
<1>8. bought' = bought => CookiesCounted'
  BY <1>2, <1>3, <1>4, CountKeeps DEF CookieAsked
<1> QED BY <1>6, <1>7, <1>8

\* The game takes a packet that opens nothing.
CookieHolds ==
    /\ sent[1].op # "open" /\ lastId' = lastId /\ shown' \in {shown, Check!None}
    /\ pending' = pending \/ pending' = Append(pending, <<"unsold">>)

LEMMA HoldsKeep ==
  ASSUME CookieInv, CookieAsked, CookieGameFrame(1), CookieHolds
  PROVE  /\ PagesInOrder' /\ ClicksInOrder' /\ BuyPageAlone' /\ MenuComesLast'
         /\ Armed' => Armed
         /\ ChecksSpent => ChecksSpent'
<1> USE DEF CookieAsked
<1> DEFINE n == Len(pending)
<1>0. /\ sent[1].op # "open" /\ lastId' = lastId /\ UNCHANGED <<botState, stage, handler>>
      /\ shown' = shown \/ (shown'.page = "none" /\ shown'.id = 0)
  BY DEF CookieHolds, CookieGameFrame, Check!None
<1>1. /\ n \in Nat /\ Len(pending') \in Nat
      /\ \A i \in 1..n : pending'[i] = pending[i] /\ i \in 1..Len(pending')
      /\ \A i \in 1..Len(pending') : i \in 1..n \/ (i > n /\ pending'[i][1] # "open")
  <2>1. pending \in Seq(CookieEvent) /\ n \in Nat BY DEF CookieInv
  <2>2. CASE pending' = pending BY <2>1, <2>2
  <2>3. CASE pending' = Append(pending, <<"unsold">>)
    <3> DEFINE e == <<"unsold">>
    <3>1. e[1] # "open" /\ pending' = Append(pending, e) BY <2>3
    <3> HIDE DEF e
    <3>2. Len(pending') = n + 1 /\ pending'[n + 1] = e /\ \A i \in 1..n : pending'[i] = pending[i]
      BY <2>1, <3>1
    <3> QED BY <2>1, <3>1, <3>2
  <2> QED BY <2>2, <2>3 DEF CookieHolds
<1> HIDE DEF n
<1>n. n = Len(pending) BY DEF n
<1>2. \A i \in 1..Len(pending') : pending'[i][1] = "open" => i \in 1..Len(pending) /\ pending'[i] = pending[i]
  BY <1>1, <1>n
<1>3. (\A v : Waits(v)' => Waits(v)) /\ (NoOpens => NoOpens')
  <2>1. ASSUME NEW v, Waits(v)' PROVE Waits(v) BY <1>2, <2>1 DEF Waits
  <2>2. NoOpens => NoOpens' BY <1>2 DEF NoOpens
  <2> QED BY <2>1, <2>2
<1>4. shown' = shown => (ShownClicked' => ShownClicked) /\ (ShownWaits' => ShownWaits)
  <2>1. ASSUME shown' = shown, ShownClicked' PROVE ShownClicked BY <2>1, SentShrinks DEF ShownClicked
  <2>2. ASSUME shown' = shown, ShownWaits' PROVE ShownWaits BY <1>2, <2>2 DEF ShownWaits
  <2> QED BY <2>1, <2>2
<1>5. PagesInOrder'
  <2>1. \A i \in 1..Len(pending') : pending'[i][1] = "open" =>
           /\ pending'[i][2] <= lastId
           /\ \A w \in Check!Window : ~Check!Free(w) => w < pending'[i][2]
           /\ \A j \in 1..Len(pending') : i < j /\ pending'[j][1] = "open" => pending'[i][2] < pending'[j][2]
    BY <1>2 DEF PagesInOrder
  <2>2. shown'.id \in {0, lastId} /\ (shown'.id = 0 <=> shown'.page = "none") BY <1>0 DEF PagesInOrder
  <2>3. \A w \in Check!Window : ~Check!Free(w)' => w <= lastId BY GameHandlers DEF PagesInOrder
  <2> QED BY <1>0, <2>1, <2>2, <2>3, GameHandlers DEF PagesInOrder
<1>6. ClicksInOrder'
  <2>1. \A w \in Check!Window : Clicked(w)' => w <= lastId' /\ ~Check!Fresh(w)' /\ ~Waits(w)'
    BY <1>0, <1>3, SentShrinks, GameHandlers DEF ClicksInOrder
  <2>2. \A w \in Check!Window : \A i, j \in 1..Len(sent') :
          sent'[i] = Check!Click(w, 10) /\ sent'[j] = Check!Click(w, 10) => i = j
    BY SentShrinks
  <2>3. shown'.page = "detail" /\ ShownClicked' => NoFresh' /\ NoOpens' /\ stage' # "ItemDetail"
    BY <1>0, <1>3, <1>4, GameHandlers DEF ClicksInOrder
  <2> QED BY <2>1, <2>2, <2>3 DEF ClicksInOrder
<1>7. BuyPageAlone'
  <2> SUFFICES ASSUME shown'.page = "buy" PROVE BuyPageAlone' BY DEF BuyPageAlone
  <2>1. shown' = shown BY <1>0
  <2>2. shown.page = "buy" BY <2>1
  <2>3. \A i \in 1..Len(pending') : pending'[i][1] = "open" => pending'[i][2] = shown'.id
    BY <1>2, <2>1, <2>2 DEF BuyPageAlone
  <2>4. \A w \in Check!Window : Check!Fresh(w)' => w = shown'.id
    BY <2>1, <2>2, GameHandlers DEF BuyPageAlone
  <2>5. ShownWaits' => stage' # "ItemDetail" BY <1>0, <1>4, <2>1, <2>2 DEF BuyPageAlone
  <2>6. \A w \in Check!Window : handler'[w].pc = "buy" =>
          handler'[w].step # "ItemDetail" /\ Check!Deciding' \subseteq handler'[w].after
    BY <1>0, <2>2, GameHandlers DEF BuyPageAlone
  <2> QED BY <2>3, <2>4, <2>5, <2>6 DEF BuyPageAlone
<1>8. MenuComesLast'
  <2> SUFFICES ASSUME botState = "CheckingCookie", \A i \in 1..Len(sent') : sent'[i].op # "open"
               PROVE  shown'.page \notin Check!Bazaar \cup {"buy"}
    BY <1>0, SentShrinks DEF MenuComesLast
  <2>1. \A i \in 1..Len(sent) : sent[i].op # "open"
    <3> SUFFICES ASSUME NEW i \in 1..Len(sent), i # 1 PROVE sent[i].op # "open" BY <1>0
    <3>1. i - 1 \in 1..Len(sent') /\ i - 1 + 1 = i BY DEF CookieGameFrame, Shift
    <3> QED BY <3>1, SentShrinks
  <2>2. shown.page \notin Check!Bazaar \cup {"buy"} BY <2>1 DEF MenuComesLast
  <2> QED BY <1>0, <2>2 DEF Check!Bazaar
<1>9. ASSUME Armed' PROVE Armed
  <2>1. shown'.page = "buy" BY <1>9 DEF Armed
  <2>2. shown' = shown BY <1>0, <2>1
  <2>3. PICK i \in 1..Len(sent') : sent'[i] = Check!Click(shown.id, 10) /\ \A j \in 1..i : sent'[j].op # "open"
    BY <1>9, <2>2 DEF Armed
  <2>4. i + 1 \in 1..Len(sent) /\ sent[i + 1] = Check!Click(shown.id, 10) BY <2>3, SentShrinks
  <2>5. ASSUME NEW j \in 1..(i + 1) PROVE sent[j].op # "open"
    <3>1. CASE j = 1 BY <1>0, <3>1
    <3>2. CASE j # 1
      <4>1. j - 1 \in 1..i /\ j - 1 \in 1..Len(sent') /\ j - 1 + 1 = j BY <3>2, SentShrinks
      <4>2. \A m \in 1..Len(sent') : sent'[m] = sent[m + 1] BY SentShrinks
      <4>3. sent[j] = sent'[j - 1] BY <4>1, <4>2
      <4>4. sent'[j - 1].op # "open" BY <2>3, <4>1
      <4> QED BY <4>3, <4>4
    <3> QED BY <3>1, <3>2
  <2> QED BY <2>1, <2>2, <2>4, <2>5 DEF Armed
<1>10. ASSUME ChecksSpent PROVE ChecksSpent'
  <2>1. SpentSends' /\ SpentBuyers' BY <1>10, SentShrinks, GameHandlers DEF ChecksSpent
  <2>2. SpentEvents'
    <3> SUFFICES ASSUME NEW i \in 1..Len(pending'), pending'[i][1] = "open", pending'[i][3] \in Check!Bazaar,
                        botState = "BuyingCookie"
                 PROVE  /\ pending'[i][3] = "detail" /\ stage # "Initial" /\ NoFresh'
                        /\ \A j \in 1..Len(pending') : j < i => pending'[j][1] # "open"
      BY <1>0 DEF SpentEvents
    <3>1. /\ pending[i][3] = "detail" /\ stage # "Initial" /\ NoFresh /\ pending'[i] = pending[i]
          /\ \A j \in 1..Len(pending) : j < i => pending[j][1] # "open"
      BY <1>2, <1>10 DEF ChecksSpent, SpentEvents
    <3>2. \A j \in 1..Len(pending') : j < i => pending'[j][1] # "open" BY <1>2, <3>1
    <3> QED BY <3>1, <3>2, GameHandlers
  <2>3. Armed' => stage' # "Initial" /\ NoFresh' /\ NoOpens'
    BY <1>0, <1>3, <1>9, <1>10, GameHandlers DEF ChecksSpent
  <2>4. shown'.page # "search" /\ (shown'.page = "detail" => ~ShownClicked')
    BY <1>0, <1>4, <1>10 DEF ChecksSpent
  <2> QED BY <1>0, <1>10, <2>1, <2>2, <2>3, <2>4 DEF ChecksSpent
<1> QED BY <1>5, <1>6, <1>7, <1>8, <1>9, <1>10

LEMMA GameAsked ==
  ASSUME CookieInv, CookieAsked, Check!Game \/ Check!Stray
  PROVE  CookieAsked'
<1>1. PICK k \in {0, 1} : CookieGameFrame(k) /\ CookieAnswers(k) BY CookieGameMoves
<1>2. CASE \E page \in Check!Pages : CookieOpening(k, page) BY <1>1, <1>2, OpeningAsked
<1>e. Executed' = Executed /\ Executed \in Nat BY <1>1, ExecutedSame, ExecutedNat DEF CookieGameFrame
<1>3. CASE CookieQuiet(k)
  <2>1. CookieGameFrame(1) /\ CookieHolds /\ bought' = bought BY <1>1, <1>3 DEF CookieQuiet, CookieHolds
  <2>2. CookiesCounted' BY <1>e, <2>1, HoldsKeep, CountKeeps DEF CookieAsked
  <2> QED BY <2>1, <2>2, HoldsKeep DEF CookieAsked
<1>4. CASE CookieBuys(k)
  <2>1. CookieGameFrame(1) /\ shown.page = "buy" /\ sent[1] = Check!Click(shown.id, 10)
        /\ UNCHANGED <<shown, lastId, pending>> /\ bought' = bought + 1
    BY <1>1, <1>4 DEF CookieBuys
  <2>2. CookieHolds BY <2>1, CookieButtons DEF CookieHolds
  <2>3. 1 \in 1..Len(sent) BY <2>1 DEF CookieGameFrame
  <2>4. Armed
    <3>1. \A j \in 1..1 : sent[j].op # "open" BY <2>1, CookieButtons
    <3> QED BY <2>1, <2>3, <3>1 DEF Armed
  <2>5. ~Armed'
    <3> SUFFICES ASSUME NEW i \in 1..Len(sent'), sent'[i] = Check!Click(shown.id, 10) PROVE FALSE
      BY <2>1 DEF Armed
    <3>1. i + 1 \in 1..Len(sent) /\ sent[i + 1] = Check!Click(shown.id, 10) /\ i + 1 # 1
      BY <2>1, SentShrinks
    <3>2. shown.id \in Check!Window
      <4>1. shown.id \in 0..MaxCookieWindow /\ shown.id # 0
        BY <2>1 DEF CookieInv, Check!TypeOK, CookieAsked, PagesInOrder
      <4> QED BY <4>1, PartsAssumption DEF Check!Window
    <3> QED BY <2>1, <2>3, <3>1, <3>2 DEF CookieAsked, ClicksInOrder
  <2>6. ChecksSpent => ChecksSpent' BY <2>1, <2>2, HoldsKeep
  <2>7. bought \in Nat BY DEF CookieInv, Check!TypeOK
  <2>8. CookiesCounted BY DEF CookieAsked
  <2>9. CookiesCounted' BY <1>e, <2>1, <2>4, <2>5, <2>6, <2>7, <2>8 DEF CookiesCounted
  <2> QED BY <2>1, <2>2, <2>9, HoldsKeep DEF CookieAsked
<1> QED BY <1>1, <1>2, <1>3, <1>4 DEF CookieAnswers

LEMMA CookieAskedInit == Check!Init => CookieAsked
<1> SUFFICES ASSUME Check!Init PROVE CookieAsked OBVIOUS
<1> USE DEF Check!Init
<1>1. /\ shown.id = 0 /\ shown.page = "none" /\ Len(sent) = 0 /\ Len(pending) = 0 /\ stage = "Initial"
      /\ botState = "Idle" /\ bought = 0 /\ begun = 0 /\ exec = "none"
      /\ \A w \in Check!Window : handler[w].pc = "none"
  BY EmptyLine DEF Check!None, Check!Off
<1> HIDE DEF Check!Init
<1>2. PagesInOrder BY <1>1 DEF PagesInOrder, Check!Free
<1>3. ClicksInOrder BY <1>1 DEF ClicksInOrder, Clicked
<1>4. BuyPageAlone /\ MenuComesLast BY <1>1 DEF BuyPageAlone, MenuComesLast
<1>5. ~Armed BY <1>1 DEF Armed
<1>6. ChecksSpent
  <2>1. SpentSends /\ SpentBuyers /\ SpentEvents BY <1>1 DEF SpentSends, SpentBuyers, SpentEvents
  <2> QED BY <1>1, <1>5, <2>1 DEF ChecksSpent
<1>7. Executed \in Nat
  <2>1. Executed = ChecksUpTo(0) BY <1>1 DEF Executed
  <2> QED BY <2>1, ChecksGrow
<1>8. CookiesCounted BY <1>1, <1>5, <1>6, <1>7 DEF CookiesCounted
<1> QED BY <1>2, <1>3, <1>4, <1>8 DEF CookieAsked

LEMMA CookieAskedNext ==
  ASSUME CookieInv, CookieAsked, [Check!Next]_(Check!vars)
  PROVE  CookieAsked'
<1>1. CASE \/ Check!Begin \/ Check!Execute \/ Check!Complete \/ Check!Timeout \/ Check!Watchdog
           \/ Check!NothingToSell \/ UNCHANGED Check!vars
  BY <1>1, CookieProcessorMoves, CalmAsked, ExecuteAsked
<1>2. CASE \E w \in Check!Window : Check!Handle(w) BY <1>2, HandleAsked
<1>3. CASE Check!OpenScreen BY <1>3, CookieOpenMoves, ArriveAsked
<1>4. CASE Check!Game \/ Check!Stray BY <1>4, GameAsked
<1> QED BY <1>1, <1>2, <1>3, <1>4 DEF Check!Next

\* A cookie that is bought is one of a check that was begun.
LEMMA CookieBoughtOnce == ASSUME CookieInv, CookieAsked PROVE Check!CookieOnce
<1>1. bought \in Nat /\ Executed \in Nat BY ExecutedNat DEF CookieInv, Check!TypeOK
<1>2. bought <= Executed BY <1>1 DEF CookieAsked, CookiesCounted
<1>3. begun \in Nat /\ (exec = "close" => begun - 1 \in Nat /\ begun - 1 + 1 = begun)
  BY PartsAssumption DEF CookieInv, Check!TypeOK
<1>4. Executed <= ChecksUpTo(begun) /\ ChecksUpTo(begun) \in Nat
  <2>1. CASE exec = "close"
    <3>1. ChecksUpTo(begun - 1) \in Nat
          /\ ChecksUpTo(begun) \in {ChecksUpTo(begun - 1), ChecksUpTo(begun - 1) + 1}
      BY <1>3, <2>1, ChecksGrow
    <3> QED BY <2>1, <3>1 DEF Executed
  <2>2. CASE exec # "close" BY <1>3, <2>2, ChecksGrow DEF Executed
  <2> QED BY <2>1, <2>2
<1>5. bought <= ChecksUpTo(begun) BY <1>1, <1>2, <1>4
<1>6. \A S : Check!Cardinality(S) = Cardinality(S) BY DEF Check!Cardinality, Cardinality
<1> QED BY <1>5, <1>6 DEF ChecksUpTo, Check!CookieOnce

-----------------------------------------------------------------------------
(* The parts side by side. *)

PartsInv ==
    /\ part \in Parts /\ FlagInv
    /\ part = "purchase" => PurchaseInv
    /\ part = "placement" => PlacementInv /\ OrderInv
    /\ part = "listing" => ListingInv /\ ListingAsked
    /\ part = "claims" => ClaimInv
    /\ part = "cookie" => CookieInv /\ CookieAsked

LEMMA PartsStart == PartsInit => PartsInv
<1> SUFFICES ASSUME PartsInit PROVE PartsInv OBVIOUS
<1>1. FlagInv BY InitInv DEF PartsInit, SoleInv
<1>2. part = "purchase" => PurchaseInv BY PurchaseInit DEF PartsInit
<1>3. part = "placement" => PlacementInv /\ OrderInv BY PlacementInit, OrderInit DEF PartsInit
<1>4. part = "listing" => ListingInv /\ ListingAsked BY ListingInit, ListAskedInit DEF PartsInit
<1>5. part = "claims" => ClaimInv BY ClaimInit DEF PartsInit
<1>6. part = "cookie" => CookieInv /\ CookieAsked BY CookieInit, CookieAskedInit DEF PartsInit
<1> QED BY <1>1, <1>2, <1>3, <1>4, <1>5, <1>6 DEF PartsInv, PartsInit

\* A step of the whole is a step of the part chosen, or changes nothing of it.
LEMMA PartsMoves ==
  ASSUME PartsInv, [PartsNext]_all
  PROVE  /\ part' = part /\ [Next]_vars
         /\ part = "purchase" => [Purchase!Next]_(Purchase!vars)
         /\ part = "placement" => [Placement!Next]_(Placement!vars)
         /\ part = "listing" => [Listing!Next]_(Listing!vars)
         /\ part = "claims" => [Claims!Next]_(Claims!vars)
         /\ part = "cookie" => [Check!Next]_(Check!vars)
<1>1. CASE PartsNext BY <1>1 DEF PartsNext, Still
<1>2. CASE UNCHANGED all
  <2>1. UNCHANGED <<part, vars>> BY <1>2 DEF all
  <2>2. UNCHANGED Purchase!vars
    BY <1>2 DEF all, ofPurchase, flow, Purchase!vars, Purchase!game, Purchase!wire, Purchase!bot,
       Purchase!flags, Purchase!tasks
  <2>3. UNCHANGED Placement!vars
    BY <1>2 DEF all, ofPlacement, flow, Placement!vars, Placement!game, Placement!wire, Placement!bot,
       Placement!flow, Placement!flags, Placement!proc
  <2>4. UNCHANGED Listing!vars
    BY <1>2 DEF all, ofListing, flow, Listing!vars, Listing!game, Listing!wire, Listing!bot,
       Listing!flow, Listing!flags, Listing!tasks, Listing!proc
  <2>5. UNCHANGED Claims!vars
    BY <1>2 DEF all, ofClaims, flow, Claims!vars, Claims!game, Claims!wire, Claims!bot,
       Claims!sold, Claims!owned, Claims!tasks, Claims!proc
  <2>6. UNCHANGED Check!vars
    BY <1>2 DEF all, ofCheck, flow, Check!vars, Check!game, Check!wire, Check!bot, Check!flow,
       Check!tasks, Check!proc
  <2> QED BY <2>1, <2>2, <2>3, <2>4, <2>5, <2>6
<1> QED BY <1>1, <1>2

LEMMA PartsKeep ==
  ASSUME PartsInv, [PartsNext]_all
  PROVE  PartsInv'
<1>1. FlagInv' BY FlagInvStep, PartsMoves DEF PartsInv
<1>2. part = "purchase" => PurchaseInv' BY PurchaseNext, PartsMoves DEF PartsInv
<1>3. part = "placement" => PlacementInv' /\ OrderInv'
  <2>1. part = "placement" => PlacementInv' BY PlacementNext, PartsMoves DEF PartsInv
  <2> QED BY <2>1, OrderNext, PartsMoves DEF PartsInv
<1>4. part = "listing" => ListingInv' /\ ListingAsked' BY ListingNext, ListAskedNext, PartsMoves DEF PartsInv
<1>5. part = "claims" => ClaimInv' BY ClaimNext, PartsMoves DEF PartsInv
<1>6. part = "cookie" => CookieInv' /\ CookieAsked' BY CookieNext, CookieAskedNext, PartsMoves DEF PartsInv
<1>7. part' = part BY PartsMoves
<1> QED BY <1>1, <1>2, <1>3, <1>4, <1>5, <1>6, <1>7 DEF PartsInv

LEMMA PartsAlways == PartsSpec => []PartsInv
<1>1. PartsInit => PartsInv BY PartsStart
<1>2. PartsInv /\ [PartsNext]_all => PartsInv' BY PartsKeep
<1> QED BY <1>1, <1>2, PTL DEF PartsSpec

\* The startup and every window flow keep their types, whatever windows, packets
\* and events come in what order.
THEOREM PartsTypeCorrect == PartsSpec => []PartsTypeOK
<1>1. PartsInv => PartsTypeOK
  <2> SUFFICES ASSUME PartsInv PROVE PartsTypeOK OBVIOUS
  <2>1. part = "claims" => Claims!TypeOK BY DEF PartsInv, ClaimInv, ClaimTypes
  <2> QED BY <2>1 DEF PartsInv, PartsTypeOK, FlagInv, PurchaseInv, PlacementInv, ListingInv, CookieInv
<1> QED BY <1>1, PartsAlways, PTL

\* The handler of a window clicks a bed or a nugget only where it read one, with
\* any number of auctions, window ids and clicks by hand (client.rs:4106-4195,
\* 4396-4424).
THEOREM PurchaseClicksWhatItSees == PartsSpec => ClicksWhatItSees
<1>1. PartsInv /\ PartsInv' /\ [PartsNext]_all => (part = "purchase" => Purchase!ClickSeen)
  <2> SUFFICES ASSUME PartsInv, PartsInv', [PartsNext]_all, part = "purchase"
               PROVE  Purchase!ClickSeen
    OBVIOUS
  <2>1. PurchaseInv /\ PurchaseInv' /\ [Purchase!Next]_(Purchase!vars)
    BY PartsMoves DEF PartsInv
  <2> QED BY <2>1, PurchaseClickSeen
<1> QED BY <1>1, PartsAlways, PTL DEF PartsSpec, ClicksWhatItSees

\* The game cancels an auction only when its name holds the one a command to cancel
\* gave and its slot, if it shows a bid, shows that of the command; however many
\* windows, claims and commands come between, and however names contain each other
\* (client.rs:5079-5142).
THEOREM ClaimsCancelAsAsked == PartsSpec => [](part = "claims" => Claims!CancelledAsAsked)
<1>1. PartsInv => (part = "claims" => Claims!CancelledAsAsked)
  <2> SUFFICES ASSUME PartsInv, part = "claims", NEW a \in Deals, status[a] = "cancelled"
               PROVE  \E c \in 1..begun :
                          asked[c].kind = "cancel" /\ Claims!Meant(asked[c].of, a)
    BY DEF Claims!CancelledAsAsked
  <2>1. Named(a) BY DEF PartsInv, ClaimInv
  <2> QED BY <2>1 DEF Named
<1> QED BY <1>1, PartsAlways, PTL

\* The game takes an order only of the item, the side, the amount and the price of
\* one command, whatever screens of earlier commands answer late, and whatever
\* handlers of theirs still press their buttons (client.rs:3355-3404, 4504-4745).
THEOREM PlacesAsAsked == PartsSpec => [](part = "placement" => Placement!PlacedAsAsked)
<1>1. PartsInv => (part = "placement" => Placement!PlacedAsAsked) BY DEF PartsInv, OrderInv
<1> QED BY <1>1, PartsAlways, PTL

\* An auction has the item, the bid and the duration of one command, whatever a
\* listing that was given up left in the slot, in the air or at work, and however
\* often an item was stuck (client.rs:2765-2826, 3406-3447, 5178-5455).
THEOREM ListsAsAsked == PartsSpec => [](part = "listing" => Listing!ListedAsAsked)
<1>1. PartsInv => (part = "listing" => Listing!ListedAsAsked) BY DEF PartsInv, ListingAsked
<1> QED BY <1>1, PartsAlways, PTL

\* A check buys one cookie at most, though two windows may both find the time short,
\* and the bazaar shows its pages again (client.rs:6068-6240).
THEOREM ChecksBuyOneCookie == PartsSpec => [](part = "cookie" => Check!CookieOnce)
<1>1. PartsInv => (part = "cookie" => Check!CookieOnce) BY CookieBoughtOnce DEF PartsInv
<1> QED BY <1>1, PartsAlways, PTL

\* The game records and sells only what a command asked for, in every value of it,
\* and cancels only what answers to the name and the bid of one: the four theorems
\* above, for whatever part is chosen.
THEOREM PartsAsAsked == PartsSpec => []AsAsked
<1>1. (part = "placement" => Placement!PlacedAsAsked) /\ (part = "listing" => Listing!ListedAsAsked)
      /\ (part = "claims" => Claims!CancelledAsAsked) /\ (part = "cookie" => Check!CookieOnce) => AsAsked
  BY DEF AsAsked
<1> QED BY <1>1, PlacesAsAsked, ListsAsAsked, ClaimsCancelAsAsked, ChecksBuyOneCookie, PTL

=============================================================================
