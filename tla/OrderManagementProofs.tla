------------------------ MODULE OrderManagementProofs ------------------------
(***************************************************************************)
(* Proofs about OrderManagement, for any number of orders, windows, runs,  *)
(* packets and upsets.                                                     *)
(*                                                                         *)
(* OrderInv is the inductive invariant.  That Order options is of the      *)
(* order a handler acts on needs a chain of facts: the context is written  *)
(* with the last click on an order that the game can still answer          *)
(* (LastPick), so it is the order of the window that the answer opens, and *)
(* still is when the task of that window starts (Opened).  From then on    *)
(* the task keeps its own copy (Acts), which it has found to be old enough *)
(* to cancel or not.  That failures stay below the limit needs that at     *)
(* most one window is current: only its handler can fail (Attempt).        *)
(*                                                                         *)
(* Most steps of a handler do one of three things, and each is shown to    *)
(* keep OrderInv once: the task ends (TaskStops), goes on without or with  *)
(* a click (TaskGoesOn), or opens something (PickKeeps).  A step of        *)
(* another process that opens no window is OthersKeep, one that does is    *)
(* OpensKeep.                                                              *)
(***************************************************************************)
EXTENDS OrderManagement, QueueLemmas, TLAPS

\* As long as nothing has gone wrong there is room, and nothing has said otherwise.
Roomy == upsets = 0 => room /\ ~invFull

\* Between the opening of a window and the start of its task none is opened or
\* clicked: what Order options shows is still what was clicked last.
Opened ==
    /\ lastWindow # 0 => shown \in {0, lastWindow}
    /\ \A w \in Window : handler[w].pc = "start" =>
          /\ lastWindow \in {0, w}
          /\ page[w].kind = "options" => page[w].order = context

\* Order options and what clicks and handlers are about are of an order.
Named ==
    \A w \in Window :
        /\ page[w].kind = "options" => page[w].order \in Order
        /\ handler[w].pc \in Buttons \cup {"wait"} => handler[w].order \in Order

\* A click on an order in the window that is shown is the last there was.
LastPick ==
    \A i \in DOMAIN sent : sent[i].op = "pick" =>
        /\ sent[i].win \in Window /\ sent[i].order \in Order
        /\ handler[sent[i].win].pc \notin {"start", "bazaar", "list"}
        /\ sent[i].win = shown => sent[i].order = context

\* The buttons that lead to a cancellation.
Cancelling == {"search", "collectThenCancel", "cancel"}

\* What a handler has found out about its order.
Acts ==
    \A w \in Window : handler[w].pc \in Buttons =>
        /\ page[w].order = handler[w].order
        /\ handler[w].pc \in Cancelling => ~handler[w].young
        /\ ~handler[w].young => handler[w].order \notin young

Spared == \A i \in DOMAIN sent : sent[i].op = "cancel" => sent[i].order \notin young

\* Whoever may still fail to cancel in the window that is open has an attempt left.
Attempt ==
    \A w \in Window : \A o \in Order :
        (w = lastWindow /\ handler[w].pc \in Cancelling /\ handler[w].order = o)
            => failures[o] < MaxCancelRetries

OrderInv ==
    /\ TypeOK /\ Roomy /\ EndsItself /\ Opened /\ Named /\ LastPick /\ Acts /\ Spared
    /\ Attempt /\ GivesUp

-----------------------------------------------------------------------------
Handlers ==
    [pc : {"none", "start", "bazaar", "list", "wait", "requeue"} \cup Buttons,
     order : Order \cup {None}, open : BOOLEAN, target : Order \cup {None},
     young : BOOLEAN, more : BOOLEAN]

OffHandler == Off \in Handlers /\ Off.pc = "none"

Sent == {sent[i] : i \in DOMAIN sent}

LEMMA OffIsOne == OffHandler
BY DEF OffHandler, Off, Handlers

LEMMA NoWindow == 0 \notin Window
BY OrderAssumption

(* Packets go to the end of the line, the game takes the first.              *)
LEMMA Sends ==
  ASSUME sent \in Seq(Packet), NEW p \in Packet, Send(<<p>>)
  PROVE  sent' \in Seq(Packet) /\ sent' # <<>> /\ Sent' \subseteq Sent \cup {p}
<1>1. sent' = Append(sent, p) BY DEF Send
<1>2. sent' \in Seq(Packet) /\ sent' # <<>> BY <1>1
<1>3. ASSUME NEW i \in DOMAIN sent' PROVE sent'[i] \in Sent \cup {p}
  <2>1. \/ i \in DOMAIN sent /\ sent'[i] = sent[i]
        \/ sent'[i] = p
    BY <1>1
  <2> QED BY <2>1 DEF Sent
<1> QED BY <1>2, <1>3 DEF Sent

LEMMA SendsAll ==
  ASSUME sent \in Seq(Packet), NEW S \in SUBSET Packet, NEW ps \in Seq(S), Send(ps)
  PROVE  sent' \in Seq(Packet) /\ Sent' \subseteq Sent \cup S
<1>1. sent' = sent \o ps BY DEF Send
<1>2. ps \in Seq(Packet) OBVIOUS
<1>3. /\ sent' \in Seq(Packet) /\ Len(sent') = Len(sent) + Len(ps)
      /\ \A i \in 1..(Len(sent) + Len(ps)) :
            sent'[i] = IF i <= Len(sent) THEN sent[i] ELSE ps[i - Len(sent)]
  BY <1>1, <1>2, ConcatProperties
<1>4. ASSUME NEW i \in DOMAIN sent' PROVE sent'[i] \in Sent \cup S
  <2>1. i \in 1..(Len(sent) + Len(ps)) BY <1>3
  <2>2. CASE i <= Len(sent)
    <3>1. i \in DOMAIN sent /\ sent'[i] = sent[i] BY <1>3, <2>1, <2>2
    <3> QED BY <3>1 DEF Sent
  <2>3. CASE ~(i <= Len(sent))
    <3>1. i - Len(sent) \in 1..Len(ps) /\ sent'[i] = ps[i - Len(sent)] BY <1>3, <2>1, <2>3
    <3> QED BY <3>1
  <2> QED BY <2>2, <2>3
<1> QED BY <1>3, <1>4 DEF Sent

LEMMA TakesFirst ==
  ASSUME sent \in Seq(Packet), sent # <<>>, sent' = Tail(sent)
  PROVE  /\ Head(sent) \in Sent /\ Head(sent) \in Packet
         /\ sent' \in Seq(Packet) /\ Sent' \subseteq Sent
<1>1. Head(sent) = sent[1] /\ 1 \in DOMAIN sent /\ Head(sent) \in Packet /\ sent' \in Seq(Packet)
  OBVIOUS
<1>2. ASSUME NEW i \in DOMAIN sent' PROVE sent'[i] \in Sent
  <2>1. i + 1 \in DOMAIN sent /\ sent'[i] = sent[i + 1] OBVIOUS
  <2> QED BY <2>1 DEF Sent
<1> QED BY <1>1, <1>2 DEF Sent

LEMMA Packets ==
  ASSUME NEW op \in {"bz", "close", "orders", "pick", "collect", "cancel"},
         NEW w \in Window \cup {0}, NEW o \in Order \cup {None}
  PROVE  Pkt(op, w, o) \in Packet /\ Pkt(op, w, o).op = op /\ Pkt(op, w, o).win = w
         /\ Pkt(op, w, o).order = o
BY DEF Pkt, Packet

(* A task goes on to something else, or ends.                                *)
LEMMA Becomes ==
  ASSUME handler \in [Window -> Handlers], NEW w \in Window,
         NEW pc \in {"none", "start", "bazaar", "list", "wait", "requeue"} \cup Buttons,
         Become(w, pc)
  PROVE  /\ handler' \in [Window -> Handlers]
         /\ handler'[w].pc = pc /\ handler'[w].order = handler[w].order
         /\ handler'[w].young = handler[w].young
         /\ \A v \in Window \ {w} : handler'[v] = handler[v]
<1> DEFINE h == [handler[w] EXCEPT !.pc = pc]
<1>1. handler[w] \in Handlers OBVIOUS
<1>2. h \in Handlers /\ h.pc = pc /\ h.order = handler[w].order
  BY <1>1 DEF Handlers
<1>3. h.young = handler[w].young BY <1>1 DEF Handlers
<1>4. handler' = [handler EXCEPT ![w] = h] BY DEF Become
<1> HIDE DEF h
<1> QED BY <1>2, <1>3, <1>4

LEMMA Quits ==
  ASSUME handler \in [Window -> Handlers], NEW w \in Window, Quit(w)
  PROVE  /\ handler' \in [Window -> Handlers] /\ handler'[w].pc = "none"
         /\ \A v \in Window \ {w} : handler'[v] = handler[v]
BY OffIsOne DEF Quit, OffHandler

(* The types of a step of a handler.                                         *)
LEMMA HandlerTypes ==
  ASSUME TypeOK, UNCHANGED <<upsets, fill, young, room, shown, page, cancelOpen, target, dog, retry, current>>,
         sent' \in Seq(Packet), handler' \in [Window -> Handlers],
         lastWindow' \in {lastWindow, 0}, botState' \in {botState, "Idle"},
         deadline' \in {deadline, "none"}, processed' \subseteq Order,
         context' \in Order \cup {None}, invFull' = invFull \/ invFull' = FALSE,
         failures' \in [Order -> Nat], queue' \in Seq(Cmd), runs' \in 0..MaxRuns
  PROVE  TypeOK'
<1>1. invFull' \in BOOLEAN BY DEF TypeOK
<1>2. cancelOpen' \in BOOLEAN BY DEF TypeOK
<1>3. room' \in BOOLEAN BY DEF TypeOK
<1>4. /\ fill' \in [Order -> {"open", "part", "full", "gone"}] /\ young' \subseteq Order
      /\ shown' \in Window \cup {0} /\ lastWindow' \in Window \cup {0}
      /\ page' \in [Window -> [kind : {"bazaar", "list", "options"}, order : Order \cup {None}]]
      /\ botState' \in {"Idle", "ManagingOrders"}
      /\ target' \in Order \cup {None}
      /\ deadline' \in {"none", "running", "passed"}
      /\ dog' \in {"none", "armed", "extended"} /\ retry' \subseteq {"first", "second"}
      /\ current' \in Cmd \cup {None} /\ upsets' \in 0..MaxUpsets
  BY DEF TypeOK
<1> QED BY <1>1, <1>2, <1>3, <1>4 DEF TypeOK, Handlers

(* What a step of a handler leaves true, whatever it does.                   *)
LEMMA HandlerFrame ==
  ASSUME Roomy, EndsItself, Opened, Named, NEW w \in Window,
         UNCHANGED <<upsets, room, young, shown, page, dog, retry>>,
         lastWindow' \in {lastWindow, 0}, botState' \in {botState, "Idle"},
         invFull' => invFull,
         lastWindow' = lastWindow \/ botState' = "Idle" \/ invFull,
         context' = context \/ lastWindow = w,
         \A v \in Window \ {w} : handler'[v] = handler[v],
         handler'[w].pc # "start",
         handler'[w].pc \in Buttons \cup {"wait"} => handler'[w].order \in Order
  PROVE  Roomy' /\ EndsItself' /\ Opened' /\ Named'
<1>1. Roomy' BY DEF Roomy
<1>2. EndsItself'
  <2>1. invFull => upsets # 0 BY DEF Roomy
  <2> QED BY <2>1 DEF EndsItself
<1>3. Opened'
  <2>1. \A v \in Window : handler'[v].pc = "start" => v # w /\ handler[v].pc = "start" OBVIOUS
  <2>2. \A v \in Window : handler'[v].pc = "start" => context' = context
    BY <2>1, NoWindow DEF Opened
  <2> QED BY <2>1, <2>2 DEF Opened
<1>4. Named' BY DEF Named
<1> QED BY <1>1, <1>2, <1>3, <1>4

LEMMA HandlerPicks ==
  ASSUME LastPick, NEW w \in Window, NEW p, Sent' \subseteq Sent \cup {p},
         p.op # "pick", UNCHANGED <<shown, context>>,
         \A v \in Window \ {w} : handler'[v] = handler[v],
         handler'[w].pc \in {"start", "bazaar", "list"} => handler[w].pc \in {"start", "bazaar", "list"}
  PROVE  LastPick'
<1> SUFFICES ASSUME NEW q \in Sent', q.op = "pick"
             PROVE  /\ q.win \in Window /\ q.order \in Order
                    /\ handler'[q.win].pc \notin {"start", "bazaar", "list"}
                    /\ q.win = shown' => q.order = context'
  BY DEF LastPick, Sent
<1>1. q \in Sent OBVIOUS
<1> QED BY <1>1 DEF LastPick, Sent

LEMMA HandlerActs ==
  ASSUME Acts, Spared, NEW w \in Window, NEW p, Sent' \subseteq Sent \cup {p},
         p.op = "cancel" => p.order \notin young, UNCHANGED <<young, page>>,
         \A v \in Window \ {w} : handler'[v] = handler[v],
         handler'[w].pc \in Buttons =>
            /\ page[w].order = handler'[w].order
            /\ handler'[w].pc \in Cancelling => ~handler'[w].young
            /\ ~handler'[w].young => handler'[w].order \notin young
  PROVE  Acts' /\ Spared'
<1>1. Acts' BY DEF Acts
<1>2. Spared'
  <2> SUFFICES ASSUME NEW q \in Sent', q.op = "cancel" PROVE q.order \notin young'
    BY DEF Spared, Sent
  <2> QED BY DEF Spared, Sent
<1> QED BY <1>1, <1>2

LEMMA HandlerAttempts ==
  ASSUME Attempt, GivesUp, NEW w \in Window, UNCHANGED failures,
         lastWindow' \in {lastWindow, 0},
         \A v \in Window \ {w} : handler'[v] = handler[v],
         handler'[w].pc \in Cancelling =>
            \/ handler[w].pc \in Cancelling /\ handler'[w].order = handler[w].order
            \/ \A o \in Order : handler'[w].order = o => failures[o] < MaxCancelRetries
  PROVE  Attempt' /\ GivesUp'
<1>1. GivesUp' BY DEF GivesUp
<1>2. Attempt'
  <2> SUFFICES ASSUME NEW v \in Window, NEW o \in Order, v = lastWindow',
                      handler'[v].pc \in Cancelling, handler'[v].order = o
               PROVE  failures[o] < MaxCancelRetries
    BY DEF Attempt
  <2>1. v = lastWindow BY NoWindow
  <2> QED BY <2>1 DEF Attempt
<1> QED BY <1>1, <1>2

(* A task ends, or is left with asking for another run.                      *)
LEMMA TaskEnds ==
  ASSUME OrderInv, NEW w \in Window, NEW p \in Packet, p.op \notin {"pick", "cancel"},
         UNCHANGED <<upsets, fill, young, room, shown, page, cancelOpen, target, dog, retry, current, context>>,
         sent' \in Seq(Packet), Sent' \subseteq Sent \cup {p},
         handler' \in [Window -> Handlers], handler'[w].pc \in {"none", "requeue"},
         \A v \in Window \ {w} : handler'[v] = handler[v],
         lastWindow' \in {lastWindow, 0}, botState' \in {botState, "Idle"},
         lastWindow' = lastWindow \/ botState' = "Idle" \/ invFull,
         deadline' \in {deadline, "none"}, processed' \subseteq Order,
         invFull' = invFull \/ invFull' = FALSE,
         failures' \in [Order -> Nat], GivesUp',
         lastWindow' = 0 \/ \A o \in Order : failures'[o] <= failures[o],
         queue' \in Seq(Cmd), runs' \in 0..MaxRuns
  PROVE  OrderInv'
<1> USE DEF OrderInv
<1>1. handler'[w].pc \notin Buttons \cup {"wait", "start", "bazaar", "list"} BY DEF Buttons
<1>2. context' \in Order \cup {None} BY DEF TypeOK
<1>3. TypeOK' BY <1>2, HandlerTypes
<1>4. Roomy' /\ EndsItself' /\ Opened' /\ Named' BY <1>1, HandlerFrame
<1>5. LastPick' BY <1>1, HandlerPicks
<1>6. Acts' /\ Spared' BY <1>1, HandlerActs
<1>7. Attempt'
  <2> SUFFICES ASSUME NEW v \in Window, NEW o \in Order, v = lastWindow',
                      handler'[v].pc \in Cancelling, handler'[v].order = o
               PROVE  failures'[o] < MaxCancelRetries
    BY DEF Attempt
  <2>1. v = lastWindow /\ lastWindow' # 0 BY NoWindow
  <2>2. v # w BY <1>1 DEF Cancelling, Buttons
  <2>3. failures[o] < MaxCancelRetries BY <2>1, <2>2 DEF Attempt
  <2>4. failures[o] \in Nat /\ failures'[o] \in Nat /\ MaxCancelRetries \in Nat
    BY OrderAssumption DEF TypeOK
  <2> QED BY <2>1, <2>3, <2>4
<1> QED BY <1>3, <1>4, <1>5, <1>6, <1>7

(* A task goes on to its next step, perhaps with a click.                    *)
LEMMA TaskGoesOn ==
  ASSUME OrderInv, NEW w \in Window, NEW p \in Packet, p.op # "pick",
         p.op = "cancel" => p.order \notin young,
         UNCHANGED <<upsets, fill, young, room, shown, page, cancelOpen, target, dog, retry,
                     current, context, lastWindow, botState, deadline, processed, invFull,
                     failures, queue, runs>>,
         sent' \in Seq(Packet), Sent' \subseteq Sent \cup {p},
         handler' \in [Window -> Handlers], handler'[w].pc # "start",
         \A v \in Window \ {w} : handler'[v] = handler[v],
         handler'[w].pc \in {"bazaar", "list"} => handler[w].pc = "start",
         handler'[w].pc \in Buttons \cup {"wait"} => handler'[w].order \in Order,
         handler'[w].pc \in Buttons =>
            /\ page[w].order = handler'[w].order
            /\ handler'[w].pc \in Cancelling => ~handler'[w].young
            /\ ~handler'[w].young => handler'[w].order \notin young,
         handler'[w].pc \in Cancelling =>
            \/ handler[w].pc \in Cancelling /\ handler'[w].order = handler[w].order
            \/ \A o \in Order : handler'[w].order = o => failures[o] < MaxCancelRetries
  PROVE  OrderInv'
<1> USE DEF OrderInv
<1>1. TypeOK'
  <2>1. /\ context' \in Order \cup {None} /\ processed' \subseteq Order /\ failures' \in [Order -> Nat]
        /\ queue' \in Seq(Cmd) /\ runs' \in 0..MaxRuns
    BY DEF TypeOK
  <2> QED BY <2>1, HandlerTypes
<1>2. Roomy' /\ EndsItself' /\ Opened' /\ Named' BY HandlerFrame
<1>3. LastPick' BY HandlerPicks
<1>4. Acts' /\ Spared' BY HandlerActs
<1>5. Attempt' /\ GivesUp' BY HandlerAttempts
<1> QED BY <1>1, <1>2, <1>3, <1>4, <1>5

LEMMA Shuts ==
  ASSUME OrderInv, NEW w \in Window, Close(w) \/ CloseIfCurrent(w)
  PROVE  /\ Pkt("close", w, None) \in Packet
         /\ Pkt("close", w, None).op \notin {"pick", "cancel"}
         /\ sent' \in Seq(Packet) /\ Sent' \subseteq Sent \cup {Pkt("close", w, None)}
         /\ lastWindow' \in {lastWindow, 0}
<1>1. sent \in Seq(Packet) BY DEF OrderInv, TypeOK
<1>2. /\ Pkt("close", w, None) \in Packet /\ Pkt("close", w, None).op \notin {"pick", "cancel"}
  BY DEF Pkt, Packet
<1>3. CASE Close(w) BY <1>1, <1>2, <1>3, Sends DEF Close
<1>4. CASE UNCHANGED <<sent, lastWindow>> BY <1>1, <1>2, <1>4 DEF Sent
<1> QED BY <1>2, <1>3, <1>4 DEF CloseIfCurrent

(* The end of a task that leaves the rest to others.                         *)
LEMMA TaskStops ==
  ASSUME OrderInv, NEW w \in Window,
         UNCHANGED <<upsets, fill, young, room, shown, page, cancelOpen, target, dog, retry,
                     current, context, failures, queue, runs>>,
         \/ Close(w) /\ botState' = "Idle"
         \/ CloseIfCurrent(w) /\ botState' = "Idle"
         \/ CloseIfCurrent(w) /\ botState' = botState /\ (lastWindow # w \/ invFull)
         \/ UNCHANGED <<sent, lastWindow>> /\ botState' \in {botState, "Idle"},
         Quit(w) \/ Become(w, "requeue"),
         deadline' \in {deadline, "none"}, processed' \subseteq Order,
         invFull' = invFull \/ invFull' = FALSE
  PROVE  OrderInv'
<1> DEFINE p == Pkt("close", w, None)
<1>1. p \in Packet /\ p.op \notin {"pick", "cancel"} BY DEF Pkt, Packet
<1>2. /\ sent' \in Seq(Packet) /\ Sent' \subseteq Sent \cup {p}
      /\ lastWindow' \in {lastWindow, 0} /\ botState' \in {botState, "Idle"}
  <2>1. CASE Close(w) \/ CloseIfCurrent(w) BY <2>1, Shuts
  <2>2. CASE UNCHANGED <<sent, lastWindow>> BY <2>2 DEF OrderInv, TypeOK, Sent
  <2> QED BY <2>1, <2>2
<1>3. lastWindow' = lastWindow \/ botState' = "Idle" \/ invFull BY DEF CloseIfCurrent
<1>4. handler \in [Window -> Handlers] BY DEF OrderInv, TypeOK, Handlers
<1>5. /\ handler' \in [Window -> Handlers] /\ handler'[w].pc \in {"none", "requeue"}
      /\ \A v \in Window \ {w} : handler'[v] = handler[v]
  BY <1>4, Quits, Becomes
<1>6. /\ failures' \in [Order -> Nat] /\ \A o \in Order : failures'[o] <= failures[o]
      /\ queue' \in Seq(Cmd) /\ runs' \in 0..MaxRuns /\ GivesUp'
  BY DEF OrderInv, TypeOK, GivesUp
<1> HIDE DEF p
<1> QED BY <1>1, <1>2, <1>3, <1>5, <1>6, TaskEnds

(* What a task has read when it starts.                                      *)
OnPage(kind) == [[Off EXCEPT !.open = cancelOpen, !.target = target] EXCEPT !.pc = kind]

OnOptions(pc) ==
    [[[Off EXCEPT !.open = cancelOpen, !.target = target]
        EXCEPT !.order = context, !.young = TooYoung(context)] EXCEPT !.pc = pc]

LEMMA PageRead ==
  ASSUME TypeOK, NEW kind \in {"bazaar", "list"}
  PROVE  OnPage(kind) \in Handlers /\ OnPage(kind).pc = kind
<1>1. cancelOpen \in BOOLEAN BY DEF TypeOK
<1>2. target \in Order \cup {None} BY DEF TypeOK
<1> QED BY <1>1, <1>2 DEF OnPage, Off, Handlers

LEMMA OptionsRead ==
  ASSUME TypeOK, NEW pc \in {"probe", "search"}
  PROVE  /\ OnOptions(pc) \in Handlers /\ OnOptions(pc).pc = pc
         /\ OnOptions(pc).order = context
         /\ OnOptions(pc).young <=> TooYoung(context)
<1>1. cancelOpen \in BOOLEAN BY DEF TypeOK
<1>2. target \in Order \cup {None} /\ context \in Order \cup {None} BY DEF TypeOK
<1>3. TooYoung(context) \in BOOLEAN BY DEF TooYoung
<1>4. OnOptions(pc) \in Handlers
  BY <1>1, <1>2, <1>3 DEF OnOptions, Off, Handlers, Buttons
<1>5. OnOptions(pc).pc = pc /\ OnOptions(pc).order = context
  BY DEF OnOptions, Off
<1>6. OnOptions(pc).young = TooYoung(context)
  BY DEF OnOptions, Off
<1> QED BY <1>4, <1>5, <1>6

-----------------------------------------------------------------------------
(* The handlers.                                                             *)

LEMMA BeginKeeps == ASSUME OrderInv, NEW w \in Window, Begin(w) PROVE OrderInv'
<1>1. /\ handler[w].pc = "start"
      /\ UNCHANGED <<upsets, fill, young, room, shown, page, cancelOpen, target, dog, retry,
                     current, failures, queue, runs>>
  BY DEF Begin, game, manage, run
<1>2. CASE botState # "ManagingOrders"
  <2>1. /\ Quit(w) /\ UNCHANGED <<sent, lastWindow, botState, deadline, processed, context, invFull>>
    BY <1>2 DEF Begin, bot, run
  <2>2. processed' \subseteq Order BY <2>1 DEF OrderInv, TypeOK
  <2> QED BY <1>1, <2>1, <2>2, TaskStops
<1>3. CASE botState = "ManagingOrders" /\ deadline = "passed"
  <2>1. /\ Close(w) /\ botState' = "Idle" /\ deadline' = "none" /\ Quit(w)
        /\ UNCHANGED <<processed, context, invFull>>
    BY <1>3 DEF Begin, GoIdle
  <2>2. processed' \subseteq Order BY <2>1 DEF OrderInv, TypeOK
  <2> QED BY <1>1, <2>1, <2>2, TaskStops
<1>4. CASE botState = "ManagingOrders" /\ deadline # "passed"
  <2> DEFINE collectOnly == TooYoung(context) \/ (~cancelOpen /\ ~Aged(context))
  <2>0. [[Off EXCEPT !.open = cancelOpen, !.target = target]
           EXCEPT !.order = context, !.young = TooYoung(context)].young = TooYoung(context)
    BY DEF Off
  <2>1. CASE /\ page[w].kind # "options"
             /\ handler' = [handler EXCEPT ![w] = OnPage(page[w].kind)]
             /\ UNCHANGED <<sent, bot, processed, deadline, context, invFull>>
    <3>1. page[w].kind \in {"bazaar", "list"} BY <2>1 DEF OrderInv, TypeOK
    <3>2. OnPage(page[w].kind) \in Handlers /\ OnPage(page[w].kind).pc = page[w].kind
      BY <3>1, PageRead DEF OrderInv
    <3>3. handler \in [Window -> Handlers] /\ sent \in Seq(Packet)
      BY DEF OrderInv, TypeOK, Handlers
    <3>5. /\ handler' \in [Window -> Handlers] /\ handler'[w].pc \in {"bazaar", "list"}
          /\ \A v \in Window \ {w} : handler'[v] = handler[v]
      BY <2>1, <3>1, <3>2, <3>3
    <3>6. handler'[w].pc \notin Buttons \cup {"wait", "start"} \cup Cancelling
      BY <3>5 DEF Buttons, Cancelling
    <3>7. UNCHANGED <<sent, lastWindow, botState, deadline, processed, context, invFull>>
      BY <2>1 DEF bot
    <3>8. sent' \in Seq(Packet) /\ Sent' = Sent BY <3>3, <3>7 DEF Sent
    <3>9. PICK p \in Packet : p.op = "close" BY Packets
    <3> QED BY <1>1, <3>5, <3>6, <3>7, <3>8, <3>9, TaskGoesOn
  <2>2. CASE /\ page[w].kind = "options" /\ (Close(w) \/ CloseIfCurrent(w))
             /\ GoIdle /\ Quit(w) /\ processed' = processed \cup {context}
             /\ UNCHANGED <<cancelOpen, target, context, invFull>>
    <3>1. context \in Order BY <1>1, <2>2 DEF OrderInv, Opened, Named
    <3>2. processed' \subseteq Order BY <2>2, <3>1 DEF OrderInv, TypeOK
    <3> QED BY <1>1, <2>2, <3>2, TaskStops DEF GoIdle
  <2>3. CASE /\ page[w].kind = "options" /\ (collectOnly \/ ~Exceeded(context))
             /\ handler' = [handler EXCEPT ![w] =
                               OnOptions(IF collectOnly THEN "probe" ELSE "search")]
             /\ UNCHANGED <<sent, bot, processed, deadline, context, invFull>>
    <3>1. context \in Order /\ page[w].order = context
      BY <1>1, <2>3 DEF OrderInv, Opened, Named
    <3>2. PICK pc \in {"probe", "search"} : pc = IF collectOnly THEN "probe" ELSE "search"
      OBVIOUS
    <3>3. pc = "search" => ~TooYoung(context) /\ ~Exceeded(context) BY <2>3, <3>2
    <3> DEFINE h == OnOptions(pc)
    <3>4. /\ h \in Handlers /\ h.pc = pc /\ h.order = context
          /\ h.young <=> TooYoung(context)
      BY OptionsRead DEF OrderInv
    <3>10. handler \in [Window -> Handlers] /\ sent \in Seq(Packet)
      BY DEF OrderInv, TypeOK, Handlers
    <3>11. handler' = [handler EXCEPT ![w] = h] BY <2>3, <3>2
    <3>12. UNCHANGED <<sent, lastWindow, botState, deadline, processed, context, invFull>>
      BY <2>3 DEF bot
    <3> HIDE DEF h, collectOnly
    <3>13. /\ handler' \in [Window -> Handlers] /\ handler'[w] = h
           /\ \A v \in Window \ {w} : handler'[v] = handler[v]
      BY <3>4, <3>10, <3>11
    <3>14. h.pc \in Cancelling => failures[context] < MaxCancelRetries
      <4>1. failures[context] \in Nat /\ MaxCancelRetries \in Nat
        BY <3>1, OrderAssumption DEF OrderInv, TypeOK
      <4>2. h.pc \in Cancelling => ~Exceeded(context) BY <3>3, <3>4 DEF Cancelling
      <4> QED BY <4>1, <4>2 DEF Exceeded
    <3>15. h.pc \in Cancelling => ~h.young BY <3>3, <3>4 DEF Cancelling
    <3>16. ~h.young => h.order \notin young BY <3>4 DEF TooYoung
    <3>17. sent' \in Seq(Packet) /\ Sent' = Sent BY <3>10, <3>12 DEF Sent
    <3>18. PICK p \in Packet : p.op = "close" BY Packets
    <3>19. h.pc \notin {"start", "bazaar", "list"} BY <3>4
    <3> QED BY <1>1, <3>1, <3>4, <3>12, <3>13, <3>14, <3>15, <3>16, <3>17, <3>18, <3>19,
               TaskGoesOn
  <2> QED BY <1>4, <2>0, <2>1, <2>2, <2>3 DEF Begin, OnPage, OnOptions
<1> QED BY <1>2, <1>3, <1>4

LEMMA BazaarKeeps == ASSUME OrderInv, NEW w \in Window, Bazaar(w) PROVE OrderInv'
<1> DEFINE p == Pkt("orders", w, None)
<1>1. p \in Packet /\ p.op \notin {"pick", "cancel"} BY DEF Pkt, Packet
<1>2. sent' \in Seq(Packet) /\ Sent' \subseteq Sent \cup {p}
  <2>1. sent \in Seq(Packet) BY DEF OrderInv, TypeOK
  <2>2. CASE Send(<<p>>) BY <1>1, <2>1, <2>2, Sends
  <2>3. CASE UNCHANGED sent BY <2>1, <2>3 DEF Sent
  <2> QED BY <2>2, <2>3 DEF Bazaar, Click
<1>3. handler \in [Window -> Handlers] BY DEF OrderInv, TypeOK, Handlers
<1>4. /\ handler' \in [Window -> Handlers] /\ handler'[w].pc = "none"
      /\ \A v \in Window \ {w} : handler'[v] = handler[v]
  BY <1>3, Quits DEF Bazaar
<1>5. UNCHANGED <<upsets, fill, young, room, shown, page, cancelOpen, target, dog, retry,
                  current, context, lastWindow, botState, deadline, processed, invFull,
                  failures, queue, runs>>
  BY DEF Bazaar, game, bot, run, manage
<1>6. /\ failures' \in [Order -> Nat] /\ \A o \in Order : failures'[o] <= failures[o]
      /\ queue' \in Seq(Cmd) /\ runs' \in 0..MaxRuns /\ GivesUp' /\ processed' \subseteq Order
  BY <1>5 DEF OrderInv, TypeOK, GivesUp
<1> HIDE DEF p
<1> QED BY <1>1, <1>2, <1>4, <1>5, <1>6, TaskEnds

LEMMA RequeueKeeps == ASSUME OrderInv, NEW w \in Window, Requeue(w) PROVE OrderInv'
<1>1. UNCHANGED <<upsets, fill, young, room, shown, page, cancelOpen, target, dog, retry, sent,
                  current, context, lastWindow, botState, deadline, processed, invFull, failures>>
  BY DEF Requeue, game, bot, run, wire
<1>2. handler \in [Window -> Handlers] /\ sent \in Seq(Packet)
  BY DEF OrderInv, TypeOK, Handlers
<1>3. /\ handler' \in [Window -> Handlers] /\ handler'[w].pc = "none"
      /\ \A v \in Window \ {w} : handler'[v] = handler[v]
  BY <1>2, Quits DEF Requeue
<1>4. queue' \in Seq(Cmd) /\ runs' \in 0..MaxRuns
  <2>1. handler[w].open \in BOOLEAN BY <1>2 DEF Handlers
  <2>2. [open |-> handler[w].open, target |-> None] \in Cmd BY <2>1 DEF Cmd
  <2>3. queue \in Seq(Cmd) /\ runs \in 0..MaxRuns /\ MaxRuns \in Nat
    BY OrderAssumption DEF OrderInv, TypeOK
  <2> QED BY <2>2, <2>3 DEF Requeue
<1>5. /\ failures' \in [Order -> Nat] /\ \A o \in Order : failures'[o] <= failures[o]
      /\ GivesUp' /\ processed' \subseteq Order
  BY <1>1 DEF OrderInv, TypeOK, GivesUp
<1>6. sent' \in Seq(Packet) /\ Sent' = Sent BY <1>1, <1>2 DEF Sent
<1>7. PICK p \in Packet : p.op = "close" BY Packets
<1> QED BY <1>1, <1>3, <1>4, <1>5, <1>6, <1>7, TaskEnds

(* What is chosen is an order.                                               *)
LEMMA FirstTier ==
  ASSUME NEW tiers \in Seq(SUBSET Order), NEW first,
         first = SelectInSeq(tiers, LAMBDA t : t # {}), first # 0
  PROVE  tiers[first] \subseteq Order
<1> DEFINE I == {i \in 1..Len(tiers) : tiers[i] # {}}
<1>1. first = IF I # {} THEN Min(I) ELSE 0 BY DEF SelectInSeq
<1>2. I # {} /\ first = Min(I) BY <1>1
<1>3. I \in SUBSET Nat OBVIOUS
<1>4. \E m \in I : \A k \in I : m <= k BY <1>2, <1>3, LeastNat
<1>5. first \in I BY <1>2, <1>4 DEF Min
<1>6. first \in 1..Len(tiers) BY <1>5
<1>7. tiers[first] \in SUBSET Order BY <1>6, ElementOfSeq
<1> QED BY <1>7

LEMMA ChosenAreOrders ==
  ASSUME NEW h, NEW full PROVE Chosen(h, full) \subseteq Order
<1> DEFINE seen  == {o \in Order : fill[o] # "gone" /\ o \notin processed}
           ready == {o \in seen : fill[o] # "open"}
           aged  == {o \in seen \ ready : Aged(o)}
           tiers == IF h.target # None THEN <<seen \cap {h.target}>>
                    ELSE IF h.open THEN <<seen \ Buys, seen \cap Buys>>
                    ELSE <<ready \ Buys, IF full THEN {} ELSE ready \cap Buys,
                           aged \ Buys, aged \cap Buys>>
           first == SelectInSeq(tiers, LAMBDA t : t # {})
<1>1. Chosen(h, full) = IF first = 0 THEN {} ELSE tiers[first] BY DEF Chosen
<1>2. seen \subseteq Order /\ ready \subseteq Order /\ aged \subseteq Order OBVIOUS
<1>3. tiers \in Seq(SUBSET Order)
  <2> HIDE DEF seen, ready, aged
  <2>1. /\ seen \cap {h.target} \in SUBSET Order
        /\ seen \ Buys \in SUBSET Order /\ seen \cap Buys \in SUBSET Order
        /\ ready \ Buys \in SUBSET Order /\ aged \ Buys \in SUBSET Order
        /\ aged \cap Buys \in SUBSET Order
        /\ (IF full THEN {} ELSE ready \cap Buys) \in SUBSET Order
    BY <1>2
  <2> DEFINE third == IF full THEN {} ELSE ready \cap Buys
  <2>2. /\ <<seen \cap {h.target}>> \in Seq(SUBSET Order)
        /\ <<seen \ Buys, seen \cap Buys>> \in Seq(SUBSET Order)
    BY <2>1
  <2>3. <<ready \ Buys, third, aged \ Buys, aged \cap Buys>> \in Seq(SUBSET Order)
    <3> HIDE DEF third
    <3>1. third \in SUBSET Order BY <2>1 DEF third
    <3> QED BY <2>1, <3>1
  <2> QED BY <2>2, <2>3, Zenon
<1> HIDE DEF tiers
<1>4. first # 0 => tiers[first] \subseteq Order BY <1>3, FirstTier
<1> QED BY <1>1, <1>4

LEMMA PickKeeps ==
  ASSUME OrderInv, NEW w \in Window, NEW o \in Order, Pick(w, o),
         handler[w].pc = "list", lastWindow = w,
         invFull' = invFull \/ invFull' = FALSE,
         UNCHANGED <<upsets, fill, young, room, shown, page, cancelOpen, target, dog, retry,
                     current, failures, queue, runs>>
  PROVE  OrderInv'
<1> DEFINE p == Pkt("pick", w, o)
           more == Cardinality({x \in Order \ processed : fill[x] # "gone"}) > 1
           h == [handler[w] EXCEPT !.pc = "wait", !.order = o, !.more = more]
<1>1. p \in Packet /\ p.op = "pick" /\ p.win = w /\ p.order = o BY Packets
<1>2. handler \in [Window -> Handlers] /\ sent \in Seq(Packet)
  BY DEF OrderInv, TypeOK, Handlers
<1>3. sent' \in Seq(Packet) /\ Sent' \subseteq Sent \cup {p}
  BY <1>1, <1>2, Sends DEF Pick, Click
<1>4. handler' = [handler EXCEPT ![w] = h] BY DEF Pick
<1>5. more \in BOOLEAN OBVIOUS
<1>6. handler[w] \in Handlers BY <1>2
<1>7. h \in Handlers
  <2> HIDE DEF more
  <2> QED BY <1>5, <1>6 DEF Handlers
<1>8. h.pc = "wait" /\ h.order = o BY <1>6 DEF Handlers
<1> HIDE DEF h, p
<1>9. /\ handler' \in [Window -> Handlers] /\ handler'[w] = h
      /\ \A v \in Window \ {w} : handler'[v] = handler[v]
  BY <1>2, <1>4, <1>7
<1>10. UNCHANGED <<lastWindow, botState, deadline, processed>> /\ context' = o
  BY DEF Pick, bot
<1>11. TypeOK'
  <2>1. /\ context' \in Order \cup {None} /\ processed' \subseteq Order /\ failures' \in [Order -> Nat]
        /\ queue' \in Seq(Cmd) /\ runs' \in 0..MaxRuns
    BY <1>10 DEF OrderInv, TypeOK
  <2> QED BY <1>3, <1>9, <1>10, <2>1, HandlerTypes DEF OrderInv
<1>12. Roomy' /\ EndsItself' /\ Opened' /\ Named'
  BY <1>8, <1>9, <1>10, HandlerFrame DEF OrderInv
<1>13. LastPick'
  <2> SUFFICES ASSUME NEW q \in Sent', q.op = "pick"
               PROVE  /\ q.win \in Window /\ q.order \in Order
                      /\ handler'[q.win].pc \notin {"start", "bazaar", "list"}
                      /\ q.win = shown' => q.order = context'
    BY DEF LastPick, Sent
  <2>1. CASE q = p BY <1>1, <1>8, <1>9, <1>10, <2>1
  <2>2. CASE q \in Sent
    <3>1. /\ q.win \in Window /\ q.order \in Order
          /\ handler[q.win].pc \notin {"start", "bazaar", "list"}
      BY <2>2 DEF OrderInv, LastPick, Sent
    <3>2. q.win # w BY <3>1
    <3>3. shown' \in {0, w} BY NoWindow DEF OrderInv, Opened
    <3> QED BY <1>9, <3>1, <3>2, <3>3, NoWindow
  <2> QED BY <1>3, <2>1, <2>2
<1>14. handler'[w].pc \notin Buttons /\ handler'[w].pc \notin Cancelling
  BY <1>8, <1>9 DEF Buttons, Cancelling
<1>15. Acts' /\ Spared' BY <1>1, <1>3, <1>9, <1>14, HandlerActs DEF OrderInv
<1>16. Attempt' /\ GivesUp' BY <1>9, <1>10, <1>14, HandlerAttempts DEF OrderInv
<1> QED BY <1>11, <1>12, <1>13, <1>15, <1>16 DEF OrderInv

LEMMA ListKeeps == ASSUME OrderInv, NEW w \in Window, List(w) PROVE OrderInv'
<1> DEFINE full == invFull /\ ~room
<1>1. /\ handler[w].pc = "list"
      /\ UNCHANGED <<upsets, fill, young, room, shown, page, cancelOpen, target, dog, retry,
                     current, failures, queue, runs>>
  BY DEF List, game, manage
<1>2. processed \subseteq Order /\ invFull \in BOOLEAN BY DEF OrderInv, TypeOK
<1>3. CASE deadline = "passed"
  <2>1. /\ Close(w) /\ botState' = "Idle" /\ deadline' = "none" /\ Quit(w)
        /\ UNCHANGED <<processed, context, invFull>>
    BY <1>3 DEF List, GoIdle
  <2> QED BY <1>1, <1>2, <2>1, TaskStops
<1>4. CASE deadline # "passed" /\ lastWindow # w
  <2>1. /\ Quit(w) /\ UNCHANGED <<sent, lastWindow, botState, deadline, processed, context, invFull>>
    BY <1>4 DEF List, bot
  <2> QED BY <1>1, <1>2, <2>1, TaskStops
<1>5. CASE deadline # "passed" /\ lastWindow = w
  <2>1. invFull' = full BY <1>5 DEF List
  <2>2. invFull' = invFull \/ invFull' = FALSE BY <1>2, <2>1
  <2>3. CASE Close(w) /\ GoIdle /\ Quit(w) /\ UNCHANGED <<processed, context>>
    BY <1>1, <1>2, <2>2, <2>3, TaskStops DEF GoIdle
  <2>4. ASSUME NEW o \in Chosen(handler[w], full),
               processed' = processed \cup {o} /\ Close(w) /\ GoIdle /\ Quit(w),
               UNCHANGED context
        PROVE  OrderInv'
    <3>1. processed' \subseteq Order BY <1>2, <2>4, ChosenAreOrders
    <3> QED BY <1>1, <2>2, <2>4, <3>1, TaskStops DEF GoIdle
  <2>5. ASSUME NEW o \in Chosen(handler[w], full), Pick(w, o) PROVE OrderInv'
    <3>1. o \in Order BY ChosenAreOrders
    <3> QED BY <1>1, <1>5, <2>2, <2>5, <3>1, PickKeeps
  <2> QED BY <1>5, <2>3, <2>4, <2>5 DEF List
<1> QED BY <1>3, <1>4, <1>5

LEMMA WaitKeeps == ASSUME OrderInv, NEW w \in Window, Wait(w) PROVE OrderInv'
<1>1. /\ handler[w].pc = "wait"
      /\ UNCHANGED <<upsets, fill, young, room, shown, page, cancelOpen, target, dog, retry,
                     current, context, invFull, failures, queue, runs>>
  BY DEF Wait, game, manage
<1>2. processed \subseteq Order /\ handler[w].order \in Order
  BY <1>1 DEF OrderInv, TypeOK, Named
<1>3. CASE OptionsOpened(w)
  <2>1. CloseIfCurrent(w) /\ Quit(w) /\ UNCHANGED <<botState, deadline, processed>>
    BY <1>3 DEF Wait
  <2>2. lastWindow # w \/ invFull BY <1>3 DEF OptionsOpened
  <2> QED BY <1>1, <1>2, <2>1, <2>2, TaskStops
<1>4. CASE ~OptionsOpened(w)
  <2>1. /\ CloseIfCurrent(w) /\ botState' = "Idle" /\ deadline' = "none"
        /\ processed' = processed \cup {handler[w].order}
        /\ Quit(w) \/ Become(w, "requeue")
    BY <1>4 DEF Wait, GoIdle
  <2> QED BY <1>1, <1>2, <2>1, TaskStops
<1> QED BY <1>3, <1>4

LEMMA LeaveKeeps ==
  ASSUME OrderInv, NEW w \in Window, NEW again, Leave(w, again), handler[w].pc \in Buttons,
         UNCHANGED <<upsets, fill, young, room, shown, page, dog, retry,
                     current, failures, queue, runs>>
  PROVE  OrderInv'
<1>1. /\ CloseIfCurrent(w) /\ botState' = "Idle" /\ deadline' = "none"
      /\ processed' = processed \cup {handler[w].order}
      /\ Quit(w) \/ Become(w, "requeue")
      /\ UNCHANGED <<cancelOpen, target, context, invFull>>
  BY DEF Leave, GoIdle
<1>2. processed' \subseteq Order BY <1>1 DEF OrderInv, TypeOK, Named
<1> QED BY <1>1, <1>2, TaskStops

LEMMA ClickKeeps ==
  ASSUME OrderInv, NEW w \in Window, NEW op \in {"collect", "cancel"},
         NEW pc \in {"collect", "collectThenCancel", "cancel", "cancelRest"},
         ClickButton(w, op, pc), handler[w].pc \in Buttons,
         op = "cancel" => ~handler[w].young,
         pc \in Cancelling => handler[w].pc \in Cancelling,
         UNCHANGED <<upsets, fill, young, room, shown, page, dog, retry, current, queue, runs>>
  PROVE  OrderInv'
<1> DEFINE p == Pkt(op, w, page[w].order)
<1>1. /\ page[w].order = handler[w].order /\ handler[w].order \in Order
      /\ handler[w].pc \in Cancelling => ~handler[w].young
      /\ ~handler[w].young => handler[w].order \notin young
  BY DEF OrderInv, Acts, Named
<1>2. p \in Packet /\ p.op = op /\ p.order = page[w].order
  <2>1. page[w].order \in Order BY <1>1
  <2> QED BY <2>1, Packets
<1>3. handler \in [Window -> Handlers] /\ sent \in Seq(Packet)
  BY DEF OrderInv, TypeOK, Handlers
<1>4. Send(<<p>>) BY DEF ClickButton
<1> HIDE DEF p
<1>5. sent' \in Seq(Packet) /\ Sent' \subseteq Sent \cup {p} BY <1>2, <1>3, <1>4, Sends
<1>6. pc \in Buttons /\ pc \notin {"start", "bazaar", "list"} BY DEF Buttons
<1>7. /\ handler' \in [Window -> Handlers]
      /\ handler'[w].pc = pc /\ handler'[w].order = handler[w].order
      /\ \A v \in Window \ {w} : handler'[v] = handler[v]
  BY <1>3, <1>6, Becomes DEF ClickButton
<1>8. handler'[w].young = handler[w].young BY <1>3, <1>6, Becomes DEF ClickButton
<1>9. UNCHANGED <<cancelOpen, target, context, lastWindow, botState, deadline, processed,
                  invFull, failures>>
  BY DEF ClickButton, bot
<1>10. p.op # "pick" /\ (p.op = "cancel" => p.order \notin young) BY <1>1, <1>2
<1>11. handler'[w].pc \in Cancelling => ~handler'[w].young BY <1>1, <1>7, <1>8
<1>12. ~handler'[w].young => handler'[w].order \notin young BY <1>1, <1>7, <1>8
<1> QED BY <1>1, <1>2, <1>5, <1>6, <1>7, <1>9, <1>10, <1>11, <1>12, TaskGoesOn

LEMMA ProbeKeeps == ASSUME OrderInv, NEW w \in Window, Probe(w) PROVE OrderInv'
<1>1. /\ handler[w].pc = "probe" /\ handler[w].pc \in Buttons
      /\ UNCHANGED <<upsets, fill, young, room, shown, page, dog, retry, current, queue, runs>>
  BY DEF Probe, Buttons, game, manage
<1>2. CASE ClickButton(w, "collect", "collect")
  <2>1. "collect" \notin Cancelling BY DEF Cancelling
  <2> QED BY <1>1, <1>2, <2>1, ClickKeeps
<1>3. CASE Leave(w, FALSE) /\ UNCHANGED failures BY <1>1, <1>3, LeaveKeeps
<1> QED BY <1>2, <1>3 DEF Probe

LEMMA SearchKeeps == ASSUME OrderInv, NEW w \in Window, Search(w) PROVE OrderInv'
<1>1. /\ handler[w].pc = "search" /\ handler[w].pc \in Buttons /\ handler[w].pc \in Cancelling
      /\ UNCHANGED <<upsets, fill, young, room, shown, page, dog, retry, current, queue, runs>>
  BY DEF Search, Buttons, Cancelling, game, manage
<1>2. CASE ClickButton(w, "collect", "collectThenCancel") BY <1>1, <1>2, ClickKeeps
<1>3. CASE ClickButton(w, "cancel", "cancel")
  <2>1. ~handler[w].young BY <1>1 DEF OrderInv, Acts
  <2> QED BY <1>1, <1>3, <2>1, ClickKeeps
<1>4. CASE Leave(w, TRUE) /\ UNCHANGED failures BY <1>1, <1>4, LeaveKeeps
<1> QED BY <1>2, <1>3, <1>4 DEF Search

LEMMA CollectKeeps == ASSUME OrderInv, NEW w \in Window, Collect(w) PROVE OrderInv'
<1>1. /\ handler[w].pc \in {"collect", "collectThenCancel"} /\ handler[w].pc \in Buttons
      /\ handler[w].pc = "collectThenCancel" => handler[w].pc \in Cancelling
      /\ UNCHANGED <<upsets, fill, young, room, shown, page, dog, retry, current, queue, runs>>
  BY DEF Collect, Buttons, Cancelling, game, manage
<1>2. CASE /\ ClickButton(w, "cancel", IF handler[w].pc = "collect" THEN "cancelRest" ELSE "cancel")
           /\ handler[w].pc = "collectThenCancel" \/ ~handler[w].young
  <2>1. ~handler[w].young
    <3>1. CASE handler[w].pc = "collectThenCancel" BY <1>1, <3>1 DEF OrderInv, Acts
    <3> QED BY <1>2, <3>1
  <2>2. CASE handler[w].pc = "collect"
    <3>1. ClickButton(w, "cancel", "cancelRest") BY <1>2, <2>2
    <3>2. "cancelRest" \notin Cancelling BY DEF Cancelling
    <3> QED BY <1>1, <2>1, <3>1, <3>2, ClickKeeps
  <2>3. CASE handler[w].pc # "collect"
    <3>1. ClickButton(w, "cancel", "cancel") BY <1>2, <2>3
    <3>2. handler[w].pc \in Cancelling BY <1>1, <2>3
    <3> QED BY <1>1, <2>1, <3>1, <3>2, ClickKeeps
  <2> QED BY <2>2, <2>3
<1>3. CASE Leave(w, TRUE) /\ UNCHANGED failures BY <1>1, <1>3, LeaveKeeps
<1> QED BY <1>2, <1>3 DEF Collect

LEMMA CancelKeeps == ASSUME OrderInv, NEW w \in Window, Cancel(w) PROVE OrderInv'
<1> DEFINE c == handler[w].order
           p == Pkt("close", w, None)
<1>1. /\ handler[w].pc \in {"cancel", "cancelRest"} /\ handler[w].pc \in Buttons
      /\ handler[w].pc = "cancel" => handler[w].pc \in Cancelling
      /\ UNCHANGED <<upsets, fill, young, room, shown, page, cancelOpen, target, dog, retry,
                     current, context, invFull, queue, runs>>
  BY DEF Cancel, Leave, Buttons, Cancelling, game, manage
<1>2. /\ CloseIfCurrent(w) /\ botState' = "Idle" /\ deadline' = "none"
      /\ processed' = processed \cup {c} /\ Become(w, "requeue")
  BY DEF Cancel, Leave, GoIdle
<1>3. c \in Order /\ failures \in [Order -> Nat] /\ MaxCancelRetries \in Nat
      /\ processed \subseteq Order /\ queue \in Seq(Cmd) /\ runs \in 0..MaxRuns
  BY <1>1, OrderAssumption DEF OrderInv, TypeOK, Named
<1>4. failures' = [failures EXCEPT ![c] =
                     IF ~HasCancel(w) THEN 0
                     ELSE IF handler[w].pc = "cancel" THEN @ + 1 ELSE @]
  BY DEF Cancel
<1>5. /\ p \in Packet /\ p.op \notin {"pick", "cancel"}
      /\ sent' \in Seq(Packet) /\ Sent' \subseteq Sent \cup {p}
      /\ lastWindow' \in {lastWindow, 0}
  BY <1>2, Shuts
<1>6. HasCancel(w) => lastWindow = w /\ lastWindow' = 0
  BY <1>2 DEF HasCancel, CloseIfCurrent, Close
<1>7. handler \in [Window -> Handlers] BY DEF OrderInv, TypeOK, Handlers
<1>8. /\ handler' \in [Window -> Handlers] /\ handler'[w].pc = "requeue"
      /\ \A v \in Window \ {w} : handler'[v] = handler[v]
  BY <1>2, <1>7, Becomes
<1> HIDE DEF p
<1>9. failures' \in [Order -> Nat] /\ (lastWindow' = 0 \/ \A o \in Order : failures'[o] <= failures[o])
  <2>1. CASE HasCancel(w)
    <3>1. failures[c] + 1 \in Nat BY <1>3
    <3> QED BY <1>3, <1>4, <1>6, <2>1, <3>1
  <2>2. CASE ~HasCancel(w)
    <3>1. failures' = [failures EXCEPT ![c] = 0] BY <1>4, <2>2
    <3> QED BY <1>3, <3>1
  <2> QED BY <2>1, <2>2
<1>10. GivesUp'
  <2>1. \A o \in Order : failures[o] <= MaxCancelRetries BY DEF OrderInv, GivesUp
  <2>2. CASE HasCancel(w) /\ handler[w].pc = "cancel"
    <3>1. failures' = [failures EXCEPT ![c] = failures[c] + 1] BY <1>4, <2>2
    <3>2. failures[c] < MaxCancelRetries
      BY <1>1, <1>3, <1>6, <2>2 DEF OrderInv, Attempt
    <3>3. failures[c] + 1 <= MaxCancelRetries BY <1>3, <3>2
    <3> QED BY <1>3, <2>1, <3>1, <3>3 DEF GivesUp
  <2>3. CASE ~HasCancel(w)
    <3>1. failures' = [failures EXCEPT ![c] = 0] BY <1>4, <2>3
    <3> QED BY <1>3, <2>1, <3>1 DEF GivesUp
  <2>4. CASE HasCancel(w) /\ handler[w].pc # "cancel"
    <3>1. failures' = [failures EXCEPT ![c] = failures[c]] BY <1>4, <2>4
    <3> QED BY <1>3, <2>1, <3>1 DEF GivesUp
  <2> QED BY <2>2, <2>3, <2>4
<1>11. /\ processed' \subseteq Order /\ queue' \in Seq(Cmd) /\ runs' \in 0..MaxRuns
       /\ invFull' = invFull
  BY <1>1, <1>2, <1>3
<1> QED BY <1>1, <1>2, <1>5, <1>8, <1>9, <1>10, <1>11, TaskEnds

-----------------------------------------------------------------------------
(* The others.                                                               *)

(* A step that neither opens a window nor moves a handler.                   *)
LEMMA OthersKeep ==
  ASSUME OrderInv, TypeOK', Roomy', EndsItself',
         UNCHANGED <<page, context, failures, handler>>, young' \subseteq young,
         lastWindow' \in {lastWindow, 0}, shown' \in {shown, 0},
         \A q \in Sent' : q \in Sent \/ q.op \notin {"pick", "cancel"}
  PROVE  OrderInv'
<1>1. Opened' /\ Named' BY NoWindow DEF OrderInv, Opened, Named
<1>2. LastPick'
  <2> SUFFICES ASSUME NEW q \in Sent', q.op = "pick"
               PROVE  /\ q.win \in Window /\ q.order \in Order
                      /\ handler'[q.win].pc \notin {"start", "bazaar", "list"}
                      /\ q.win = shown' => q.order = context'
    BY DEF LastPick, Sent
  <2>1. q \in Sent OBVIOUS
  <2> QED BY <2>1, NoWindow DEF OrderInv, LastPick, Sent
<1>3. Acts' BY DEF OrderInv, Acts
<1>4. Spared'
  <2> SUFFICES ASSUME NEW q \in Sent', q.op = "cancel" PROVE q.order \notin young'
    BY DEF Spared, Sent
  <2>1. q \in Sent OBVIOUS
  <2> QED BY <2>1 DEF OrderInv, Spared, Sent
<1>5. Attempt' /\ GivesUp'
  <2>1. GivesUp' BY DEF OrderInv, GivesUp
  <2> SUFFICES ASSUME NEW v \in Window, NEW o \in Order, v = lastWindow',
                      handler'[v].pc \in Cancelling, handler'[v].order = o
               PROVE  failures'[o] < MaxCancelRetries
    BY <2>1 DEF Attempt
  <2>2. v = lastWindow BY NoWindow
  <2> QED BY <2>2 DEF OrderInv, Attempt
<1> QED BY <1>1, <1>2, <1>3, <1>4, <1>5 DEF OrderInv

LEMMA AskKeeps == ASSUME OrderInv, Ask PROVE OrderInv'
<1>1. UNCHANGED <<upsets, fill, young, room, shown, page, sent, botState, lastWindow, cancelOpen,
                  target, processed, deadline, context, invFull, failures, handler, dog, retry,
                  current>>
  BY DEF Ask, game, wire, bot, run, tasks
<1>2. queue' \in Seq(Cmd) /\ runs' \in 0..MaxRuns
  <2>1. queue \in Seq(Cmd) /\ runs \in 0..MaxRuns /\ MaxRuns \in Nat
    BY OrderAssumption DEF OrderInv, TypeOK
  <2>2. \A c \in Cmd : Append(queue, c) \in Seq(Cmd) /\ <<c>> \o queue \in Seq(Cmd)
    BY <2>1
  <2> QED BY <2>1, <2>2 DEF Ask
<1>3. TypeOK' BY <1>1, <1>2 DEF OrderInv, TypeOK
<1>4. Roomy' /\ EndsItself' BY <1>1 DEF OrderInv, Roomy, EndsItself
<1>5. Sent' = Sent BY <1>1 DEF Sent
<1> QED BY <1>1, <1>3, <1>4, <1>5, OthersKeep

LEMMA StartKeeps == ASSUME OrderInv, Start PROVE OrderInv'
<1> DEFINE S == {q \in Packet : q.op \in {"close", "bz"}}
           ps == (IF lastWindow = 0 THEN <<>> ELSE <<Pkt("close", lastWindow, None)>>)
                 \o <<Pkt("bz", 0, None)>>
<1>1. UNCHANGED <<upsets, fill, young, room, shown, page, context, invFull, failures, handler,
                  dog, runs>>
  BY DEF Start, game
<1>2. /\ current' = Head(queue) /\ queue' = Tail(queue) /\ queue # <<>>
      /\ lastWindow' = 0 /\ processed' = {} /\ deadline' = "running"
      /\ botState' = "ManagingOrders" /\ retry' = retry \cup {"first"}
      /\ cancelOpen' = current'.open /\ target' = current'.target
  BY DEF Start
<1>3. sent' \in Seq(Packet) /\ Sent' \subseteq Sent \cup S
  <2>1. Pkt("bz", 0, None) \in S BY Packets
  <2>2. lastWindow # 0 => Pkt("close", lastWindow, None) \in S
    BY Packets DEF OrderInv, TypeOK
  <2>3. ps \in Seq(S)
    <3> HIDE DEF S
    <3>1. CASE lastWindow = 0 BY <2>1, <3>1
    <3>2. CASE lastWindow # 0 BY <2>1, <2>2, <3>2
    <3> QED BY <3>1, <3>2
  <2>4. Send(ps) BY DEF Start
  <2>5. sent \in Seq(Packet) BY DEF OrderInv, TypeOK
  <2> HIDE DEF ps
  <2> QED BY <2>3, <2>4, <2>5, SendsAll
<1>4. queue \in Seq(Cmd) BY DEF OrderInv, TypeOK
<1>5. current' \in Cmd /\ queue' \in Seq(Cmd) BY <1>2, <1>4
<1>6. cancelOpen' \in BOOLEAN BY <1>2, <1>5 DEF Cmd
<1>7. target' \in Order \cup {None} BY <1>2, <1>5 DEF Cmd
<1>8. retry' \subseteq {"first", "second"} BY <1>2 DEF OrderInv, TypeOK
<1>9. TypeOK'
  <2>1. invFull' \in BOOLEAN /\ room' \in BOOLEAN BY <1>1 DEF OrderInv, TypeOK
  <2>2. /\ fill' \in [Order -> {"open", "part", "full", "gone"}] /\ young' \subseteq Order
        /\ shown' \in Window \cup {0} /\ lastWindow' \in Window \cup {0}
        /\ page' \in [Window -> [kind : {"bazaar", "list", "options"}, order : Order \cup {None}]]
        /\ botState' \in {"Idle", "ManagingOrders"}
        /\ context' \in Order \cup {None} /\ processed' \subseteq Order
        /\ deadline' \in {"none", "running", "passed"}
        /\ failures' \in [Order -> Nat]
        /\ dog' \in {"none", "armed", "extended"}
        /\ runs' \in 0..MaxRuns /\ upsets' \in 0..MaxUpsets
    BY <1>1, <1>2 DEF OrderInv, TypeOK
  <2>3. handler' \in [Window -> Handlers] BY <1>1 DEF OrderInv, TypeOK, Handlers
  <2> QED BY <1>3, <1>5, <1>6, <1>7, <1>8, <2>1, <2>2, <2>3 DEF TypeOK, Handlers
<1>10. Roomy' BY <1>1 DEF OrderInv, Roomy
<1>11. EndsItself' BY <1>2 DEF EndsItself
<1>12. \A q \in Sent' : q \in Sent \/ q.op \notin {"pick", "cancel"} BY <1>3
<1> QED BY <1>1, <1>2, <1>9, <1>10, <1>11, <1>12, OthersKeep

LEMMA CompleteKeeps == ASSUME OrderInv, Complete PROVE OrderInv'
<1>1. UNCHANGED <<upsets, fill, young, room, shown, page, sent, lastWindow, cancelOpen, target,
                  processed, deadline, context, invFull, failures, handler, dog, retry, queue,
                  runs>>
      /\ current' = None /\ botState' = "Idle"
  BY DEF Complete, game, wire, run, tasks
<1>2. TypeOK' BY <1>1 DEF OrderInv, TypeOK
<1>3. Roomy' /\ EndsItself' BY <1>1 DEF OrderInv, Roomy, EndsItself
<1>4. Sent' = Sent BY <1>1 DEF Sent
<1> QED BY <1>1, <1>2, <1>3, <1>4, OthersKeep

LEMMA DeadlinePassesKeeps == ASSUME OrderInv, DeadlinePasses PROVE OrderInv'
<1>1. UNCHANGED <<upsets, fill, young, room, shown, page, sent, lastWindow, botState, cancelOpen,
                  target, processed, context, invFull, failures, handler, dog, retry, queue,
                  current, runs>>
      /\ deadline' = "passed"
  BY DEF DeadlinePasses, game, wire, bot, tasks, manage
<1>2. TypeOK' BY <1>1 DEF OrderInv, TypeOK
<1>3. Roomy' /\ EndsItself' BY <1>1 DEF OrderInv, Roomy, EndsItself
<1>4. Sent' = Sent BY <1>1 DEF Sent
<1> QED BY <1>1, <1>2, <1>3, <1>4, OthersKeep

LEMMA RetryKeeps ==
  ASSUME OrderInv, NEW phase \in {"first", "second"}, Retry(phase) PROVE OrderInv'
<1> DEFINE p == Pkt("bz", 0, None)
<1>1. UNCHANGED <<upsets, fill, young, room, shown, page, lastWindow, cancelOpen, target,
                  processed, deadline, context, invFull, failures, handler, dog, queue, current,
                  runs>>
  BY DEF Retry, game, run, manage
<1>2. /\ botState' \in {botState, "Idle"} /\ retry' \subseteq {"first", "second"}
      /\ botState' = "ManagingOrders" /\ lastWindow = 0 => retry' # {}
  BY DEF Retry, OrderInv, TypeOK
<1>3. p \in Packet /\ p.op = "bz" BY Packets
<1>4. sent' \in Seq(Packet) /\ Sent' \subseteq Sent \cup {p}
  <2>1. sent \in Seq(Packet) BY DEF OrderInv, TypeOK
  <2>2. Send(<<p>>) \/ UNCHANGED sent BY DEF Retry
  <2> HIDE DEF p
  <2>3. CASE Send(<<p>>) BY <1>3, <2>1, <2>3, Sends
  <2>4. CASE UNCHANGED sent BY <2>1, <2>4 DEF Sent
  <2> QED BY <2>2, <2>3, <2>4
<1>5. TypeOK' BY <1>1, <1>2, <1>4 DEF OrderInv, TypeOK
<1>6. Roomy' /\ EndsItself' BY <1>1, <1>2 DEF OrderInv, TypeOK, Roomy, EndsItself
<1> HIDE DEF p
<1>7. \A q \in Sent' : q \in Sent \/ q.op \notin {"pick", "cancel"} BY <1>3, <1>4
<1> QED BY <1>1, <1>5, <1>6, <1>7, OthersKeep

LEMMA WatchdogKeeps == ASSUME OrderInv, Watchdog PROVE OrderInv'
<1>1. UNCHANGED <<upsets, fill, young, room, shown, page, cancelOpen, target, processed, context,
                  invFull, failures, handler, retry, queue, current, runs>>
  BY DEF Watchdog, game, manage
<1>2. CASE UNCHANGED <<sent, botState, lastWindow, deadline>> /\ dog' = "extended"
  <2>1. TypeOK' BY <1>1, <1>2 DEF OrderInv, TypeOK
  <2>2. Roomy' /\ EndsItself' BY <1>1, <1>2 DEF OrderInv, Roomy, EndsItself
  <2>3. Sent' = Sent BY <1>2 DEF Sent
  <2> QED BY <1>1, <1>2, <2>1, <2>2, <2>3, OthersKeep
<1>3. CASE /\ UNCHANGED <<sent, botState, lastWindow, deadline>> /\ dog' = "none"
           /\ ~(lastWindow # 0 /\ botState = "ManagingOrders")
  <2>1. TypeOK' BY <1>1, <1>3 DEF OrderInv, TypeOK
  <2>2. Roomy' /\ EndsItself' BY <1>1, <1>3 DEF OrderInv, Roomy, EndsItself
  <2>3. Sent' = Sent BY <1>3 DEF Sent
  <2> QED BY <1>1, <1>3, <2>1, <2>2, <2>3, OthersKeep
<1>4. CASE dog' = "none" /\ lastWindow # 0 /\ Close(lastWindow) /\ GoIdle
  <2>1. lastWindow \in Window BY <1>4 DEF OrderInv, TypeOK
  <2> DEFINE p == Pkt("close", lastWindow, None)
  <2>2. /\ p \in Packet /\ p.op \notin {"pick", "cancel"}
        /\ sent' \in Seq(Packet) /\ Sent' \subseteq Sent \cup {p}
    BY <1>4, <2>1, Shuts
  <2>3. lastWindow' = 0 /\ botState' = "Idle" /\ deadline' = "none"
    BY <1>4 DEF Close, GoIdle
  <2> HIDE DEF p
  <2>4. TypeOK' BY <1>1, <1>4, <2>2, <2>3 DEF OrderInv, TypeOK
  <2>5. Roomy' /\ EndsItself' BY <1>1, <2>3 DEF OrderInv, Roomy, EndsItself
  <2>6. \A q \in Sent' : q \in Sent \/ q.op \notin {"pick", "cancel"} BY <2>2
  <2> QED BY <1>1, <2>3, <2>4, <2>5, <2>6, OthersKeep
<1> QED BY <1>2, <1>3, <1>4 DEF Watchdog, bot

LEMMA IgnoreKeeps == ASSUME OrderInv, Ignore PROVE OrderInv'
<1>1. UNCHANGED <<fill, young, room, shown, page, botState, lastWindow, cancelOpen, target,
                  processed, deadline, context, invFull, failures, handler, dog, retry, queue,
                  current, runs>>
  BY DEF Ignore, game, bot, run, tasks, manage
<1>2. sent' \in Seq(Packet) /\ Sent' \subseteq Sent
  BY TakesFirst DEF Ignore, OrderInv, TypeOK
<1>3. upsets' \in 0..MaxUpsets /\ upsets' # 0
  BY OrderAssumption DEF Ignore, Upset, OrderInv, TypeOK
<1>4. TypeOK' BY <1>1, <1>2, <1>3 DEF OrderInv, TypeOK
<1>5. Roomy' /\ EndsItself' BY <1>1, <1>3 DEF OrderInv, Roomy, EndsItself
<1> QED BY <1>1, <1>2, <1>4, <1>5, OthersKeep

LEMMA GameClosesKeeps == ASSUME OrderInv, GameCloses PROVE OrderInv'
<1>1. UNCHANGED <<fill, young, room, page, sent, botState, cancelOpen, target,
                  processed, deadline, context, invFull, failures, handler, dog, retry, queue,
                  current, runs>>
      /\ shown' = 0 /\ lastWindow' = 0
  BY DEF GameCloses, game, run, tasks, manage
<1>3. upsets' \in 0..MaxUpsets /\ upsets' # 0
  BY OrderAssumption DEF GameCloses, Upset, OrderInv, TypeOK
<1>4. TypeOK' BY <1>1, <1>3 DEF OrderInv, TypeOK
<1>5. Roomy' /\ EndsItself' BY <1>1, <1>3 DEF OrderInv, Roomy, EndsItself
<1>6. Sent' = Sent BY <1>1 DEF Sent
<1> QED BY <1>1, <1>4, <1>5, <1>6, OthersKeep

LEMMA ChangesKeep == ASSUME OrderInv, Changes PROVE OrderInv'
<1>1. UNCHANGED <<shown, page, sent, botState, lastWindow, cancelOpen, target,
                  processed, deadline, context, invFull, failures, handler, dog, retry, queue,
                  current, runs>>
  BY DEF Changes, wire, bot, run, tasks, manage
<1>2. upsets' \in 0..MaxUpsets /\ upsets' # 0
  BY OrderAssumption DEF Changes, Upset, OrderInv, TypeOK
<1>3. room' \in BOOLEAN BY DEF Changes, OrderInv, TypeOK
<1>4. young' \subseteq young BY DEF Changes
<1>5. fill' \in [Order -> {"open", "part", "full", "gone"}] BY DEF Changes, OrderInv, TypeOK
<1>6. TypeOK' BY <1>1, <1>2, <1>3, <1>4, <1>5 DEF OrderInv, TypeOK
<1>7. Roomy' /\ EndsItself' BY <1>1, <1>2 DEF OrderInv, Roomy, EndsItself
<1>8. Sent' = Sent BY <1>1 DEF Sent
<1> QED BY <1>1, <1>4, <1>6, <1>7, <1>8, OthersKeep

(* The game opens a window, on taking the first packet.                      *)
Free == {w \in Window : /\ handler[w].pc = "none"
                        /\ w \notin {lastWindow, shown}
                        /\ \A i \in DOMAIN sent : sent[i].win # w}

LEMMA FreeWindow == ASSUME Free # {} PROVE Min(Free) \in Free
<1>1. Free \in SUBSET Nat BY OrderAssumption DEF Free
<1>2. \E m \in Free : \A k \in Free : m <= k BY <1>1, LeastNat
<1> QED BY <1>2 DEF Min

LEMMA OpensKeep ==
  ASSUME OrderInv, Settled, sent # <<>>, sent' = Tail(sent),
         NEW kind \in {"bazaar", "list", "options"}, NEW o \in Order \cup {None},
         kind = "options" => o \in Order /\ o = context,
         OpenScreen(kind, o),
         fill' \in [Order -> {"open", "part", "full", "gone"}],
         UNCHANGED <<upsets, young, room, botState, cancelOpen, target, processed, deadline,
                     context, invFull, failures, retry, queue, current, runs>>
  PROVE  OrderInv'
<1> DEFINE w == Min(Free)
           h == [Off EXCEPT !.pc = "start"]
           g == [kind |-> kind, order |-> o]
<1>1. /\ Free # {} /\ shown' = w /\ lastWindow' = w
      /\ page' = [page EXCEPT ![w] = g]
      /\ handler' = [handler EXCEPT ![w] = h] /\ dog' = "armed"
  BY DEF OpenScreen, Free
<1>2. w \in Free BY <1>1, FreeWindow
<1>3. h \in Handlers /\ h.pc = "start" BY DEF Off, Handlers
<1>4. g \in [kind : {"bazaar", "list", "options"}, order : Order \cup {None}]
      /\ g.kind = kind /\ g.order = o
  OBVIOUS
<1> HIDE DEF w, h, g
<1>5. /\ w \in Window /\ handler[w].pc = "none" /\ w # lastWindow /\ w # shown
      /\ \A q \in Sent : q.win # w
  BY <1>2 DEF Free, Sent
<1>6. /\ handler \in [Window -> Handlers]
      /\ page \in [Window -> [kind : {"bazaar", "list", "options"}, order : Order \cup {None}]]
  BY DEF OrderInv, TypeOK, Handlers
<1>7. /\ handler' \in [Window -> Handlers] /\ handler'[w].pc = "start"
      /\ \A v \in Window \ {w} : handler'[v] = handler[v]
  BY <1>1, <1>3, <1>5, <1>6
<1>8. /\ page' \in [Window -> [kind : {"bazaar", "list", "options"}, order : Order \cup {None}]]
      /\ page'[w] = g /\ \A v \in Window \ {w} : page'[v] = page[v]
  BY <1>1, <1>4, <1>5, <1>6
<1>9. sent' \in Seq(Packet) /\ Sent' \subseteq Sent
  BY TakesFirst DEF OrderInv, TypeOK
<1>10. \A v \in Window : handler'[v].pc = "start" => v = w
  BY <1>7 DEF Settled
<1>11. TypeOK'
  <2>1. invFull' \in BOOLEAN /\ room' \in BOOLEAN /\ cancelOpen' \in BOOLEAN
    BY DEF OrderInv, TypeOK
  <2>2. /\ young' \subseteq Order
        /\ shown' \in Window \cup {0} /\ lastWindow' \in Window \cup {0}
        /\ botState' \in {"Idle", "ManagingOrders"}
        /\ context' \in Order \cup {None} /\ target' \in Order \cup {None}
        /\ processed' \subseteq Order
        /\ deadline' \in {"none", "running", "passed"}
        /\ failures' \in [Order -> Nat]
        /\ dog' \in {"none", "armed", "extended"}
    BY <1>1, <1>5 DEF OrderInv, TypeOK
  <2>3. /\ retry' \subseteq {"first", "second"} /\ queue' \in Seq(Cmd)
        /\ current' \in Cmd \cup {None} /\ runs' \in 0..MaxRuns /\ upsets' \in 0..MaxUpsets
    BY DEF OrderInv, TypeOK
  <2> QED BY <1>7, <1>8, <1>9, <2>1, <2>2, <2>3 DEF TypeOK, Handlers
<1>12. Roomy' BY DEF OrderInv, Roomy
<1>13. EndsItself' BY <1>1, <1>5, NoWindow DEF EndsItself
<1>14. Opened'
  <2>1. page'[w].kind = "options" => page'[w].order = context' BY <1>4, <1>8
  <2> QED BY <1>1, <1>10, <2>1 DEF Opened
<1>15. Named'
  <2>1. handler'[w].pc \notin Buttons \cup {"wait"} BY <1>7 DEF Buttons
  <2>2. page'[w].kind = "options" => page'[w].order \in Order BY <1>4, <1>8
  <2> QED BY <1>7, <1>8, <2>1, <2>2 DEF OrderInv, Named
<1>16. LastPick'
  <2> SUFFICES ASSUME NEW q \in Sent', q.op = "pick"
               PROVE  /\ q.win \in Window /\ q.order \in Order
                      /\ handler'[q.win].pc \notin {"start", "bazaar", "list"}
                      /\ q.win = shown' => q.order = context'
    BY DEF LastPick, Sent
  <2>1. q \in Sent /\ q.win # w BY <1>5, <1>9
  <2> QED BY <1>1, <1>7, <2>1 DEF OrderInv, LastPick, Sent
<1>17. Acts'
  <2>1. handler'[w].pc \notin Buttons BY <1>7 DEF Buttons
  <2> QED BY <1>7, <1>8, <2>1 DEF OrderInv, Acts
<1>18. Spared'
  <2> SUFFICES ASSUME NEW q \in Sent', q.op = "cancel" PROVE q.order \notin young'
    BY DEF Spared, Sent
  <2> QED BY <1>9 DEF OrderInv, Spared, Sent
<1>19. Attempt' /\ GivesUp'
  <2>1. handler'[w].pc \notin Cancelling BY <1>7 DEF Cancelling
  <2> QED BY <1>1, <2>1 DEF OrderInv, Attempt, GivesUp
<1> QED BY <1>11, <1>12, <1>13, <1>14, <1>15, <1>16, <1>17, <1>18, <1>19 DEF OrderInv

(* An answer that opens nothing.                                             *)
LEMMA AnswersKeep ==
  ASSUME OrderInv, sent # <<>>, sent' = Tail(sent),
         UNCHANGED <<page, lastWindow, handler, dog>>, shown' \in {shown, 0},
         fill' \in [Order -> {"open", "part", "full", "gone"}],
         invFull' = invFull \/ (invFull' = TRUE /\ ~room),
         UNCHANGED <<upsets, young, room, botState, cancelOpen, target, processed, deadline,
                     context, failures, retry, queue, current, runs>>
  PROVE  OrderInv'
<1>1. sent' \in Seq(Packet) /\ Sent' \subseteq Sent BY TakesFirst DEF OrderInv, TypeOK
<1>2. invFull' \in BOOLEAN BY DEF OrderInv, TypeOK
<1>3. TypeOK' BY <1>1, <1>2 DEF OrderInv, TypeOK
<1>4. Roomy' BY DEF OrderInv, Roomy
<1>5. EndsItself' BY DEF OrderInv, EndsItself
<1> QED BY <1>1, <1>3, <1>4, <1>5, OthersKeep

LEMMA AnswerKeeps == ASSUME OrderInv, Answer PROVE OrderInv'
<1> DEFINE p == Head(sent)
           there == p.win = shown /\ (p.order # None => fill[p.order] # "gone")
<1>1. /\ Settled /\ sent # <<>> /\ sent' = Tail(sent)
      /\ UNCHANGED <<upsets, young, room, botState, cancelOpen, target, processed, deadline,
                     context, failures, retry, queue, current, runs>>
  BY DEF Answer, manage
<1>2. fill \in [Order -> {"open", "part", "full", "gone"}] BY DEF OrderInv, TypeOK
<1>3. p \in Sent /\ None \in Order \cup {None}
  BY <1>1, TakesFirst DEF OrderInv, TypeOK
<1>4. CASE OpenScreen("bazaar", None) /\ UNCHANGED <<fill, invFull>>
  BY <1>1, <1>2, <1>3, <1>4, OpensKeep
<1>5. CASE OpenScreen("list", None) /\ UNCHANGED <<fill, invFull>>
  BY <1>1, <1>2, <1>3, <1>5, OpensKeep
<1>6. CASE shown' = 0 /\ UNCHANGED <<page, lastWindow, handler, dog, fill, invFull>>
  BY <1>1, <1>2, <1>6, AnswersKeep
<1>7. CASE p.op = "pick" /\ there /\ OpenScreen("options", p.order) /\ UNCHANGED <<fill, invFull>>
  <2>1. p.order \in Order /\ p.order = context
    BY <1>3, <1>7 DEF OrderInv, LastPick, Sent
  <2> HIDE DEF p
  <2> QED BY <1>1, <1>2, <1>7, <2>1, OpensKeep
<1>8. ASSUME NEW left \in {"open", "gone"}, Taken(p.order, left) PROVE OrderInv'
  <2>1. fill' \in [Order -> {"open", "part", "full", "gone"}] BY <1>2, <1>8 DEF Taken
  <2>2. CASE SameWindow BY <1>1, <1>8, <2>1, <2>2, AnswersKeep DEF Taken, SameWindow
  <2>3. CASE OpenScreen("list", None)
    BY <1>1, <1>3, <1>8, <2>1, <2>3, OpensKeep DEF Taken
  <2> QED BY <1>8, <2>2, <2>3 DEF Taken
<1>9. CASE NoRoom /\ ~room
  BY <1>1, <1>2, <1>9, AnswersKeep DEF NoRoom, SameWindow
<1>10. CASE Nothing BY <1>1, <1>2, <1>10, AnswersKeep DEF Nothing, SameWindow
<1> QED BY <1>4, <1>5, <1>6, <1>7, <1>8, <1>9, <1>10 DEF Answer

-----------------------------------------------------------------------------
LEMMA OrderInvInit == Init => OrderInv
<1> SUFFICES ASSUME Init PROVE OrderInv
  OBVIOUS
<1> USE DEF Init
<1>1. TypeOK
  <2>1. handler \in [Window -> Handlers] /\ \A w \in Window : handler[w].pc = "none"
    BY OffIsOne DEF OffHandler
  <2>2. /\ cancelOpen \in BOOLEAN /\ invFull \in BOOLEAN /\ room \in BOOLEAN OBVIOUS
  <2>3. /\ runs \in 0..MaxRuns /\ upsets \in 0..MaxUpsets BY OrderAssumption
  <2>4. failures \in [Order -> Nat] OBVIOUS
  <2>5. fill \in [Order -> {"open", "part", "full", "gone"}] OBVIOUS
  <2> QED BY <2>1, <2>2, <2>3, <2>4, <2>5 DEF TypeOK, Handlers
<1>2. \A w \in Window : handler[w].pc = "none" BY OffIsOne DEF OffHandler
<1>3. Roomy /\ EndsItself /\ LastPick /\ Spared BY DEF Roomy, EndsItself, LastPick, Spared
<1>4. Opened /\ Named /\ Acts /\ Attempt
  BY <1>2 DEF Opened, Named, Acts, Attempt, Buttons, Cancelling
<1>5. GivesUp BY OrderAssumption DEF GivesUp
<1> QED BY <1>1, <1>3, <1>4, <1>5 DEF OrderInv

LEMMA OrderInvNext == OrderInv /\ [Next]_vars => OrderInv'
<1> SUFFICES ASSUME OrderInv, [Next]_vars PROVE OrderInv'
  OBVIOUS
<1>1. CASE Ask BY <1>1, AskKeeps
<1>2. CASE Start BY <1>2, StartKeeps
<1>3. CASE Complete BY <1>3, CompleteKeeps
<1>4. CASE DeadlinePasses BY <1>4, DeadlinePassesKeeps
<1>5. CASE \E phase \in {"first", "second"} : Retry(phase) BY <1>5, RetryKeeps
<1>6. ASSUME NEW w \in Window, Handle(w) PROVE OrderInv'
  BY <1>6, BeginKeeps, BazaarKeeps, ListKeeps, WaitKeeps, ProbeKeeps, SearchKeeps,
     CollectKeeps, CancelKeeps, RequeueKeeps DEF Handle
<1>7. CASE Watchdog BY <1>7, WatchdogKeeps
<1>8. CASE Answer BY <1>8, AnswerKeeps
<1>9. CASE Ignore BY <1>9, IgnoreKeeps
<1>10. CASE GameCloses BY <1>10, GameClosesKeeps
<1>11. CASE Changes BY <1>11, ChangesKeep
<1>12. CASE UNCHANGED vars
  <2>1. UNCHANGED <<upsets, fill, young, room, shown, page, sent, botState, lastWindow,
                    cancelOpen, target, processed, deadline, context, invFull, failures,
                    handler, dog, retry, queue, current, runs>>
    BY <1>12 DEF vars, game, wire, bot, run, tasks, manage
  <2>2. TypeOK' BY <2>1 DEF OrderInv, TypeOK
  <2>3. Roomy' /\ EndsItself' BY <2>1 DEF OrderInv, Roomy, EndsItself
  <2>4. Sent' = Sent BY <2>1 DEF Sent
  <2> QED BY <2>1, <2>2, <2>3, <2>4, OthersKeep
<1> QED BY <1>1, <1>2, <1>3, <1>4, <1>5, <1>6, <1>7, <1>8, <1>9, <1>10, <1>11, <1>12 DEF Next

LEMMA OrderInvAlways == Spec => []OrderInv
<1> QED BY OrderInvInit, OrderInvNext, PTL DEF Spec

\* Every variable of a run stays within its type (client.rs:3966-4033).
THEOREM OrdersTyped == Spec => []TypeOK
<1>1. OrderInv => TypeOK BY DEF OrderInv
<1> QED BY <1>1, OrderInvAlways, PTL

\* However many orders, windows, packets and runs there are, the handler of an
\* Order options window acts on the order the window is of, and no cancellation
\* under way is of an order younger than five minutes (client.rs:5572-5640,
\* 5800-6040).
THEOREM AlwaysTakesItsOrder == Spec => []TakesItsOrder
<1>1. OrderInv => TakesItsOrder BY DEF OrderInv, Acts, Spared, TakesItsOrder
<1> QED BY <1>1, OrderInvAlways, PTL

\* No order's failed cancellations exceed MAX_CANCEL_RETRIES, whichever of several
\* windows and runs they were made in (client.rs:5600-5640, 5990-6040).
THEOREM AlwaysGivesUp == Spec => []GivesUp
<1>1. OrderInv => GivesUp BY DEF OrderInv
<1> QED BY <1>1, OrderInvAlways, PTL

\* A run under way has the watchdog of the window that is open, or, as long as the
\* game has ignored and closed nothing, a retry of /bz (client.rs:3180-3278,
\* 3990-4033).
THEOREM AlwaysEndsItself == Spec => []EndsItself
<1>1. OrderInv => EndsItself BY DEF OrderInv
<1> QED BY <1>1, OrderInvAlways, PTL
=============================================================================
