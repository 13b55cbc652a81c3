--------------------------- MODULE AuctionProofs ---------------------------
(***************************************************************************)
(* Proofs about the windows of auctions, as MCParts instantiates them:     *)
(* AuctionClaims, PurchaseFlow and AuctionListing.                         *)
(*                                                                         *)
(* ClaimInv follows an auction from the command that names it through      *)
(* packets, windows, events and the queue of uuids to the click.           *)
(* PurchaseInv says that what the bot has read it has read in the window   *)
(* that the game opened last.  ListStage says where a listing stands: what *)
(* of it, and what of earlier ones, is on its way, and so what the auction *)
(* slot can hold.                                                          *)
(***************************************************************************)
EXTENDS MCParts, SequenceTheorems, TLAPS

-----------------------------------------------------------------------------
(* Lines of packets and of events. *)

LEMMA Joins ==
  ASSUME NEW S, NEW s \in Seq(S), NEW e \in S
  PROVE  Append(s, e) \in Seq(S) /\ Range(Append(s, e)) = Range(s) \cup {e}
<1>1. DOMAIN Append(s, e) = 1..Len(s) + 1 /\ DOMAIN s = 1..Len(s) /\ Len(s) \in Nat
  OBVIOUS
<1>2. Append(s, e)[Len(s) + 1] = e /\ \A i \in 1..Len(s) : Append(s, e)[i] = s[i]
  OBVIOUS
<1>3. \A i \in 1..Len(s) + 1 : i \in 1..Len(s) \/ i = Len(s) + 1 BY <1>1
<1>4. \A i \in 1..Len(s) : i \in 1..Len(s) + 1 BY <1>1
<1>5. Len(s) + 1 \in 1..Len(s) + 1 BY <1>1
<1> QED BY <1>1, <1>2, <1>3, <1>4, <1>5 DEF Range

LEMMA JoinsAll ==
  ASSUME NEW S, NEW s \in Seq(S), NEW t \in Seq(S)
  PROVE  s \o t \in Seq(S) /\ Range(s \o t) = Range(s) \cup Range(t)
<1>1. /\ s \o t \in Seq(S) /\ Len(s \o t) = Len(s) + Len(t)
      /\ \A i \in 1..(Len(s) + Len(t)) : (s \o t)[i] = IF i <= Len(s) THEN s[i] ELSE t[i - Len(s)]
  BY ConcatProperties
<1>2. Len(s) \in Nat /\ Len(t) \in Nat /\ DOMAIN s = 1..Len(s) /\ DOMAIN t = 1..Len(t)
      /\ DOMAIN (s \o t) = 1..(Len(s) + Len(t))
  BY <1>1
<1>3. ASSUME NEW i \in 1..(Len(s) + Len(t)) PROVE (s \o t)[i] \in Range(s) \cup Range(t)
  <2>1. CASE i <= Len(s)
    <3>1. i \in 1..Len(s) BY <2>1, <1>2
    <3> QED BY <3>1, <2>1, <1>1, <1>2 DEF Range
  <2>2. CASE ~(i <= Len(s))
    <3>1. i - Len(s) \in 1..Len(t) BY <2>2, <1>2
    <3>2. (s \o t)[i] = t[i - Len(s)] BY <2>2, <1>1
    <3> QED BY <3>1, <3>2, <1>2 DEF Range
  <2> QED BY <2>1, <2>2
<1>4. ASSUME NEW i \in 1..Len(s) PROVE s[i] \in Range(s \o t)
  <2>1. i \in 1..(Len(s) + Len(t)) /\ i <= Len(s) BY <1>2
  <2>2. (s \o t)[i] = s[i] BY <2>1, <1>1
  <2> QED BY <2>1, <2>2, <1>2 DEF Range
<1>5. ASSUME NEW i \in 1..Len(t) PROVE t[i] \in Range(s \o t)
  <2>1. /\ i + Len(s) \in 1..(Len(s) + Len(t)) /\ ~(i + Len(s) <= Len(s))
        /\ i + Len(s) - Len(s) = i
    BY <1>2
  <2>2. (s \o t)[i + Len(s)] = t[i] BY <2>1, <1>1
  <2> QED BY <2>1, <2>2, <1>2 DEF Range
<1>6. Range(s \o t) \subseteq Range(s) \cup Range(t)
  <2> SUFFICES ASSUME NEW x \in Range(s \o t) PROVE x \in Range(s) \cup Range(t) OBVIOUS
  <2>1. PICK i \in 1..(Len(s) + Len(t)) : x = (s \o t)[i] BY <1>2 DEF Range
  <2> QED BY <2>1, <1>3
<1>7. Range(s) \subseteq Range(s \o t) BY <1>2, <1>4 DEF Range
<1>8. Range(t) \subseteq Range(s \o t) BY <1>2, <1>5 DEF Range
<1>9. Range(s \o t) = Range(s) \cup Range(t) BY <1>6, <1>7, <1>8
<1> QED BY <1>1, <1>9

LEMMA Leaves ==
  ASSUME NEW S, NEW s \in Seq(S), s # <<>>
  PROVE  /\ Head(s) \in S /\ Head(s) \in Range(s) /\ Head(s) = s[1]
         /\ Tail(s) \in Seq(S) /\ Range(Tail(s)) \subseteq Range(s) /\ Len(Tail(s)) = Len(s) - 1
<1>1. /\ Len(s) \in Nat /\ Len(s) > 0 /\ DOMAIN s = 1..Len(s) /\ Head(s) = s[1]
      /\ Tail(s) \in Seq(S) /\ Len(Tail(s)) = Len(s) - 1
  OBVIOUS
<1>2. DOMAIN Tail(s) = 1..(Len(s) - 1) /\ \A i \in 1..(Len(s) - 1) : Tail(s)[i] = s[i + 1]
  OBVIOUS
<1>3. 1 \in DOMAIN s /\ \A i \in 1..(Len(s) - 1) : i + 1 \in DOMAIN s BY <1>1
<1> QED BY <1>1, <1>2, <1>3 DEF Range

LEMMA EmptyLine == \A S : <<>> \in Seq(S) /\ Range(<<>>) = {} /\ Len(<<>>) = 0
BY DEF Range

LEMMA OfLine == ASSUME NEW S, NEW s \in Seq(S) PROVE Range(s) \subseteq S
BY DEF Range

-----------------------------------------------------------------------------
(* Claims and cancellations. *)

ClaimSlot   == {"manage", "bids", "all", "bid", "collect", "inventory", "cancel"}
ClaimPacket == [op : {"ah"}] \cup [op : {"view"}, about : Deals]
               \cup [op : {"pick"}, win : Claims!Window, about : Deals]
               \cup [op : {"click"}, win : Claims!Window, slot : ClaimSlot]
               \cup [op : {"close"}, win : Claims!Window]
ClaimEvent  == ({"open"} \X Claims!Window \X Claims!Pages) \cup ({"sold", "lost"} \X Deals)
ClaimTask   == [page : Claims!Pages \cup {"none"}, state : Claims!States \cup {"none"}]

ClaimTypes ==
    /\ Claims!TypeOK
    /\ shown \in [page : Claims!Pages \cup {"none"}, id : 0..MaxClaimWindow,
                  about : Deals \cup {Claims!Nobody}]
    /\ sent \in Seq(ClaimPacket) /\ pending \in Seq(ClaimEvent)
    /\ uuids \in Seq(Deals)
    /\ handler \in [Claims!Window -> ClaimTask]
    /\ asked \in [1..MaxCommands -> Claims!Ask]
    /\ exec = "close" => begun > 0

Named(a) == \E c \in 1..begun : asked[c].kind = "cancel" /\ Claims!Meant(asked[c].of, a)

\* An auction of the bot's that a window may be about: no longer for sale, or
\* one that answers to the name and the bid of a command.
MayShow(a) == a \in Claims!Own => status[a] # "active" \/ Named(a)

\* A command gave the name and the bid the bot looks for.
Called == \E c \in 1..begun : asked[c].kind = "cancel" /\ asked[c].of = want

Wanted ==
    /\ want \in Claims!Targets => Called
    /\ botState = "CancellingAuction" => want \in Claims!Targets
    /\ \A w \in Claims!Window : handler[w].state = "CancellingAuction" => want \in Claims!Targets

ClaimInv ==
    /\ ClaimTypes
    /\ \A a \in Deals : status[a] = "cancelled" => Named(a)
    /\ MayShow(shown.about)
    /\ \A p \in Range(sent) : p.op \in {"view", "pick"} => MayShow(p.about)
    /\ \A a \in Range(uuids) \cup ({uuid} \ {Claims!Nobody}) : status[a] # "active"
    /\ \A e \in Range(pending) : e[1] = "sold" => status[e[2]] # "active"
    /\ Wanted

LEMMA ClaimRange == \A s : Claims!Range(s) = Range(s)
BY DEF Claims!Range, Range

(* What is sent about an auction is fit to be shown; what the bot does in a *)
(* handler is to send, to go idle and to forget the window.                 *)
ClaimActs ==
    /\ sent' \in Seq(ClaimPacket)
    /\ \A p \in Range(sent') :
          p \in Range(sent) \/ p.op \in {"ah", "click", "close"} \/ MayShow(p.about)
    /\ botState' \in {botState, "Idle"} /\ lastWindow' \in {lastWindow, 0}

LEMMA ClaimPackets ==
  /\ Claims!Ah \in ClaimPacket /\ Claims!Ah.op = "ah"
  /\ \A a \in Deals : Claims!View(a) \in ClaimPacket /\ Claims!View(a).about = a
  /\ \A w \in Claims!Window, a \in Deals :
        Claims!Pick(w, a) \in ClaimPacket /\ Claims!Pick(w, a).about = a
  /\ \A w \in Claims!Window, s \in ClaimSlot :
        Claims!Click(w, s) \in ClaimPacket /\ Claims!Click(w, s).op = "click"
  /\ \A w \in Claims!Window : Claims!Close(w) \in ClaimPacket /\ Claims!Close(w).op = "close"
BY DEF ClaimPacket, Claims!Ah, Claims!View, Claims!Pick, Claims!Click, Claims!Close

LEMMA ClaimClicks ==
  ASSUME ClaimTypes, NEW w \in Claims!Window, NEW s \in ClaimSlot
  PROVE  /\ Claims!ClickIfCurrent(w, s) \in Seq(ClaimPacket)
         /\ \A p \in Range(Claims!ClickIfCurrent(w, s)) : p \in Range(sent) \/ p.op = "click"
<1>1. Claims!Click(w, s) \in ClaimPacket /\ Claims!Click(w, s).op = "click" BY ClaimPackets
<1>2. sent \in Seq(ClaimPacket) BY DEF ClaimTypes
<1>3. /\ Append(sent, Claims!Click(w, s)) \in Seq(ClaimPacket)
      /\ Range(Append(sent, Claims!Click(w, s))) = Range(sent) \cup {Claims!Click(w, s)}
  BY <1>1, <1>2, Joins
<1> QED BY <1>1, <1>2, <1>3 DEF Claims!ClickIfCurrent

LEMMA ClaimCloses ==
  ASSUME NEW l \in Seq(ClaimPacket), NEW w \in Claims!Window
  PROVE  /\ Append(l, Claims!Close(w)) \in Seq(ClaimPacket)
         /\ \A p \in Range(Append(l, Claims!Close(w))) : p \in Range(l) \/ p.op = "close"
<1>1. Claims!Close(w) \in ClaimPacket /\ Claims!Close(w).op = "close" BY ClaimPackets
<1> QED BY <1>1, Joins

LEMMA ClaimHandlerActs ==
  ASSUME ClaimTypes, NEW w \in Claims!Window
  PROVE  /\ \A s \in ClaimSlot : Claims!Clicks(w, s) => ClaimActs
         /\ \A s \in ClaimSlot : Claims!ClickAndIdle(w, s) => ClaimActs
         /\ Claims!GoesIdle(w) => ClaimActs
         /\ \A a \in Deals : Claims!Picks(w, a) /\ MayShow(a) => ClaimActs
<1>0. sent \in Seq(ClaimPacket) BY DEF ClaimTypes
<1>1. ASSUME NEW s \in ClaimSlot, Claims!Clicks(w, s) PROVE ClaimActs
  BY <1>1, ClaimClicks DEF Claims!Clicks, Claims!bot, ClaimActs
<1>2. ASSUME NEW s \in ClaimSlot, Claims!ClickAndIdle(w, s) PROVE ClaimActs
  <2> DEFINE l == Claims!ClickIfCurrent(w, s)
  <2>1. l \in Seq(ClaimPacket) /\ \A p \in Range(l) : p \in Range(sent) \/ p.op = "click"
    BY ClaimClicks
  <2>2. sent' = Append(l, Claims!Close(w)) /\ lastWindow' = 0 /\ botState' = "Idle"
    BY <1>2 DEF Claims!ClickAndIdle
  <2> HIDE DEF l
  <2> QED BY <2>1, <2>2, ClaimCloses DEF ClaimActs
<1>3. ASSUME Claims!GoesIdle(w) PROVE ClaimActs
  BY <1>0, <1>3, ClaimCloses DEF Claims!GoesIdle, Claims!SendClose, ClaimActs
<1>4. ASSUME NEW a \in Deals, Claims!Picks(w, a), MayShow(a) PROVE ClaimActs
  <2>1. Claims!Pick(w, a) \in ClaimPacket /\ Claims!Pick(w, a).about = a BY ClaimPackets
  <2>2. CASE lastWindow = w
    <3>1. sent' = Append(sent, Claims!Pick(w, a)) /\ UNCHANGED <<botState, lastWindow>>
      BY <1>4, <2>2 DEF Claims!Picks, Claims!bot
    <3>2. sent' \in Seq(ClaimPacket) /\ Range(sent') = Range(sent) \cup {Claims!Pick(w, a)}
      BY <1>0, <2>1, <3>1, Joins
    <3> QED BY <1>4, <2>1, <3>1, <3>2 DEF ClaimActs
  <2>3. CASE lastWindow # w
    BY <1>0, <1>4, <2>3 DEF Claims!Picks, Claims!bot, ClaimActs
  <2> QED BY <2>2, <2>3
<1> QED BY <1>1, <1>2, <1>3, <1>4

(* A target answers to the command whose name and bid the bot looks for.    *)
LEMMA TargetIsNamed == ASSUME Called, NEW a \in Deals, Claims!Target(a) PROVE Named(a)
BY DEF Called, Named, Claims!Target

LEMMA ClaimHandlerSends ==
  ASSUME ClaimInv, NEW w \in Claims!Window, Claims!Handle(w)
  PROVE  /\ ClaimActs
         /\ UNCHANGED <<status, shown, lastId, pending, uuids, uuid, want, onlyOwn, listed,
                        remote, fetched, dog, exec, begun, asked>>
         /\ handler' = [handler EXCEPT ![w] = Claims!Off]
         /\ dogs' \subseteq Claims!States
<1>0. ClaimTypes /\ dogs \subseteq Claims!States BY DEF ClaimInv, ClaimTypes, Claims!TypeOK
<1>1. /\ UNCHANGED <<status, shown, lastId, pending, uuids, uuid, want, onlyOwn, listed,
                     remote, fetched, dog, exec, begun, asked>>
      /\ handler' = [handler EXCEPT ![w] = Claims!Off]
  BY DEF Claims!Handle, Claims!Ends, Claims!game, Claims!sold, Claims!owned, Claims!proc
<1>2. dogs' \subseteq Claims!States
  <2>1. CASE dogs' = dogs BY <2>1, <1>0
  <2>2. CASE (Claims!ClaimView(w) \/ Claims!CancelView(w)) /\ dogs' = dogs \cup {handler[w].state}
    <3>1. handler[w].state \in Claims!States
      BY <2>2 DEF Claims!ClaimView, Claims!CancelView, Claims!At, Claims!States
    <3> QED BY <2>2, <3>1, <1>0
  <2> QED BY <2>1, <2>2 DEF Claims!Handle
<1>3. ClaimActs
  <2>a. {"manage", "bids", "all", "bid", "collect", "inventory", "cancel"} = ClaimSlot BY DEF ClaimSlot
  <2>1. CASE Claims!AuctionHouse(w) BY <2>1, <2>a, <1>0, ClaimHandlerActs DEF Claims!AuctionHouse
  <2>2. CASE Claims!Bids(w) BY <2>2, <2>a, <1>0, ClaimHandlerActs DEF Claims!Bids
  <2>3. CASE Claims!CollectBid(w) BY <2>3, <2>a, <1>0, ClaimHandlerActs DEF Claims!CollectBid
  <2>4. CASE Claims!Sweep(w)
    <3>1. \A a \in Deals : Claims!Claimable(a) => MayShow(a) BY DEF Claims!Claimable, MayShow
    <3> QED BY <2>4, <2>a, <3>1, <1>0, ClaimHandlerActs DEF Claims!Sweep
  <2>5. CASE Claims!FindTarget(w)
    <3>1. ASSUME NEW a \in Deals, Claims!Target(a) PROVE MayShow(a)
      <4>1. handler[w].state = "CancellingAuction" BY <2>5 DEF Claims!FindTarget, Claims!At
      <4>2. Called BY <4>1 DEF ClaimInv, Wanted
      <4> QED BY <3>1, <4>2, TargetIsNamed DEF MayShow
    <3> QED BY <2>5, <2>a, <3>1, <1>0, ClaimHandlerActs DEF Claims!FindTarget
  <2>6. CASE Claims!Unexpected(w)
    <3>1. CASE UNCHANGED <<sent, Claims!bot>>
      BY <3>1, <1>0 DEF ClaimActs, Claims!bot, ClaimTypes
    <3> QED BY <2>6, <3>1, <1>0, ClaimHandlerActs DEF Claims!Unexpected
  <2>7. CASE Claims!ClaimView(w) BY <2>7, <2>a, <1>0, ClaimHandlerActs DEF Claims!ClaimView
  <2>8. CASE Claims!CancelView(w) BY <2>8, <2>a, <1>0, ClaimHandlerActs DEF Claims!CancelView
  <2> QED BY <2>1, <2>2, <2>3, <2>4, <2>5, <2>6, <2>7, <2>8 DEF Claims!Handle
<1> QED BY <1>1, <1>2, <1>3

LEMMA ClaimOff == Claims!Off \in ClaimTask /\ Claims!Off.state # "CancellingAuction"
BY DEF Claims!Off, ClaimTask

LEMMA ClaimHandleKeeps ==
  ASSUME ClaimInv, NEW w \in Claims!Window, Claims!Handle(w)
  PROVE  ClaimInv'
<1>1. /\ ClaimActs
      /\ UNCHANGED <<status, shown, lastId, pending, uuids, uuid, want, onlyOwn, listed,
                     remote, fetched, dog, exec, begun, asked>>
      /\ handler' = [handler EXCEPT ![w] = Claims!Off]
      /\ dogs' \subseteq Claims!States
  BY ClaimHandlerSends
<1>2. handler \in [Claims!Window -> ClaimTask] BY DEF ClaimInv, ClaimTypes
<1>3. handler' \in [Claims!Window -> ClaimTask]
      /\ \A v \in Claims!Window : handler'[v].state = "CancellingAuction"
                                  => handler[v].state = "CancellingAuction"
  BY <1>1, <1>2, ClaimOff
<1>4. \A v \in Claims!Window : handler'[v].page \in Claims!Pages \cup {"none"}
                               /\ handler'[v].state \in Claims!States \cup {"none"}
  BY <1>3 DEF ClaimTask
<1>5. botState' \in Claims!States \cup {"Idle"} /\ lastWindow' \in 0..MaxClaimWindow
  BY <1>1, PartsAssumption DEF ClaimActs, ClaimInv, ClaimTypes, Claims!TypeOK
<1>6. ClaimTypes'
  BY <1>1, <1>3, <1>4, <1>5 DEF ClaimInv, ClaimTypes, Claims!TypeOK, ClaimActs
<1>7. \A a : Named(a) <=> Named(a)' BY <1>1 DEF Named
<1>8. \A a : MayShow(a) => MayShow(a)' BY <1>1 DEF MayShow, Named
<1>9. \A p \in Range(sent') : p.op \in {"view", "pick"} => MayShow(p.about)'
  BY <1>1, <1>8 DEF ClaimActs, ClaimInv
<1>10. Wanted' BY <1>1, <1>3 DEF ClaimInv, Wanted, Called, ClaimActs
<1> QED BY <1>1, <1>6, <1>7, <1>8, <1>9, <1>10 DEF ClaimInv

(* Names are kept, and with them what may be shown, while nothing comes back *)
(* into sale.                                                                *)
LEMMA NamesGrow ==
  ASSUME ClaimTypes, asked' = asked, begun' \in {begun, begun + 1},
         \A a \in Deals : status'[a] = "active" => status[a] = "active"
  PROVE  /\ \A a : Named(a) => Named(a)'
         /\ \A a : MayShow(a) => MayShow(a)'
         /\ Called /\ want' = want => Called'
<1>1. begun \in Nat BY PartsAssumption DEF ClaimTypes, Claims!TypeOK
<1>2. \A c \in 1..begun : c \in 1..begun' BY <1>1
<1>3. \A a : Named(a) => Named(a)' BY <1>2 DEF Named
<1>4. Called /\ want' = want => Called' BY <1>2 DEF Called
<1> QED BY <1>3, <1>4 DEF MayShow, Claims!Own

(* The processor and the command.                                           *)
LEMMA ClaimBeginKeeps == ASSUME ClaimInv, Claims!Begin PROVE ClaimInv'
<1>0. ClaimTypes BY DEF ClaimInv
<1>1. UNCHANGED <<status, shown, lastId, pending, botState, uuids, uuid, want, onlyOwn, listed,
                  remote, fetched, handler, dogs, asked>>
  BY DEF Claims!Begin, Claims!game, Claims!sold, Claims!owned
<1>2. /\ sent' \in Seq(ClaimPacket) /\ lastWindow' \in 0..MaxClaimWindow
      /\ \A p \in Range(sent') : p \in Range(sent) \/ p.op = "close"
  <2>1. CASE lastWindow = 0 BY <1>0, <2>1 DEF Claims!Begin, ClaimTypes, Claims!TypeOK
  <2>2. CASE lastWindow # 0
    <3>1. lastWindow \in Claims!Window
      BY <2>2, <1>0, PartsAssumption DEF ClaimTypes, Claims!TypeOK, Claims!Window
    <3>2. sent' = Append(sent, Claims!Close(lastWindow)) /\ lastWindow' = 0
      BY <2>2 DEF Claims!Begin, Claims!SendClose
    <3>3. 0 \in 0..MaxClaimWindow BY PartsAssumption
    <3> QED BY <3>1, <3>2, <3>3, <1>0, ClaimCloses DEF ClaimTypes
  <2> QED BY <2>1, <2>2
<1>3. begun \in 0..MaxCommands /\ begun < MaxCommands /\ begun' = begun + 1 /\ exec' = "close"
      /\ dog' = FALSE
  BY <1>0 DEF Claims!Begin, ClaimTypes, Claims!TypeOK
<1>4. begun' \in 0..MaxCommands /\ begun' > 0 BY <1>3, PartsAssumption
<1>5. ClaimTypes' BY <1>0, <1>1, <1>2, <1>3, <1>4 DEF ClaimTypes, Claims!TypeOK
<1>6. /\ \A a : Named(a) => Named(a)'
      /\ \A a : MayShow(a) => MayShow(a)'
      /\ Called => Called'
  BY <1>0, <1>1, <1>3, NamesGrow
<1>7. \A p \in Range(sent') : p.op \in {"view", "pick"} => MayShow(p.about)'
  BY <1>2, <1>6 DEF ClaimInv
<1>8. Wanted' BY <1>1, <1>6 DEF ClaimInv, Wanted
<1> QED BY <1>1, <1>5, <1>6, <1>7, <1>8 DEF ClaimInv

LEMMA ClaimExecuteKeeps == ASSUME ClaimInv, Claims!Execute PROVE ClaimInv'
<1>0. ClaimTypes BY DEF ClaimInv
<1>1. UNCHANGED <<status, shown, lastId, pending, lastWindow, onlyOwn, listed, remote, fetched,
                  handler, dogs, dog, begun, asked>> /\ exec' = "poll"
  BY DEF Claims!Execute, Claims!game, Claims!owned, Claims!tasks
<1>2. begun \in 1..MaxCommands
  BY <1>0, PartsAssumption DEF Claims!Execute, ClaimTypes, Claims!TypeOK
<1>3. asked[begun] \in Claims!Ask BY <1>0, <1>2 DEF ClaimTypes
<1>4. \A a \in Range(uuids) \cup ({uuid} \ {Claims!Nobody}) : a \in Deals /\ MayShow(a)
  <2>1. Range(uuids) \subseteq Deals BY <1>0, OfLine DEF ClaimTypes
  <2>2. uuid \in Deals \cup {Claims!Nobody} BY <1>0 DEF ClaimTypes, Claims!TypeOK
  <2> QED BY <2>1, <2>2 DEF ClaimInv, MayShow
<1>5. /\ uuids # <<>> => /\ Head(uuids) \in Range(uuids) /\ Tail(uuids) \in Seq(Deals)
                         /\ Range(Tail(uuids)) \subseteq Range(uuids) /\ Len(Tail(uuids)) = Len(uuids) - 1
      /\ Len(uuids) \in Nat /\ Len(uuids) <= MaxUuids
  <2>1. uuids \in Seq(Deals) /\ Len(uuids) <= MaxUuids BY <1>0 DEF ClaimTypes, Claims!TypeOK
  <2>2. Len(uuids) \in Nat BY <2>1
  <2> QED BY <2>1, <2>2, Leaves
<1>6. /\ sent' \in Seq(ClaimPacket)
      /\ \A p \in Range(sent') : p \in Range(sent) \/ p.op = "ah" \/ MayShow(p.about)
  <2>1. PICK q \in ClaimPacket : sent' = Append(sent, q) /\ (q.op = "ah" \/ MayShow(q.about))
    <3>1. CASE Claims!ClaimSold /\ uuids # <<>>
      <4>1. Head(uuids) \in Deals /\ MayShow(Head(uuids)) BY <3>1, <1>4, <1>5
      <4> QED BY <3>1, <4>1, ClaimPackets DEF Claims!ClaimSold
    <3>2. CASE Claims!ClaimSold /\ uuids = <<>> /\ uuid # Claims!Nobody
      <4>1. uuid \in Deals /\ MayShow(uuid) BY <3>2, <1>4
      <4> QED BY <3>2, <4>1, ClaimPackets DEF Claims!ClaimSold
    <3>3. CASE Claims!ClaimSold /\ uuids = <<>> /\ uuid = Claims!Nobody
      BY <3>3, ClaimPackets DEF Claims!ClaimSold
    <3>4. CASE Claims!ClaimPurchased \/ Claims!CancelAuction
      BY <3>4, ClaimPackets DEF Claims!ClaimPurchased, Claims!CancelAuction
    <3> QED BY <3>1, <3>2, <3>3, <3>4 DEF Claims!Execute
  <2> QED BY <2>1, <1>0, Joins DEF ClaimTypes
<1>7. /\ uuids' \in Seq(Deals) /\ Range(uuids') \subseteq Range(uuids) /\ Len(uuids') <= MaxUuids
      /\ uuid' \in {uuid, Claims!Nobody} /\ uuid' \in Deals \cup {Claims!Nobody}
  <2>1. uuid \in Deals \cup {Claims!Nobody} /\ uuids \in Seq(Deals)
    BY <1>0 DEF ClaimTypes, Claims!TypeOK
  <2>2. CASE uuids' = uuids BY <2>1, <2>2, <1>5, ClaimPackets
      DEF Claims!Execute, Claims!ClaimSold, Claims!ClaimPurchased, Claims!CancelAuction, Claims!sold
  <2>3. CASE Claims!ClaimSold /\ uuids # <<>>
    <3>1. uuids' = Tail(uuids) /\ uuid' = uuid BY <2>3 DEF Claims!ClaimSold
    <3>2. Len(uuids) - 1 <= MaxUuids BY <1>5, PartsAssumption
    <3> QED BY <2>1, <2>3, <3>1, <3>2, <1>5
  <2>4. CASE Claims!ClaimPurchased
    BY <2>1, <2>4, EmptyLine, PartsAssumption DEF Claims!ClaimPurchased
  <2> QED BY <2>1, <2>2, <2>3, <2>4 DEF Claims!Execute, Claims!ClaimSold, Claims!CancelAuction, Claims!sold
<1>8. /\ \A a : Named(a) => Named(a)'
      /\ \A a : MayShow(a) => MayShow(a)'
      /\ Called /\ want' = want => Called'
  BY <1>0, <1>1, NamesGrow
<1>9. botState' \in Claims!States /\ want' \in Claims!Targets \cup {Claims!NoTarget}
  BY <1>0, <1>3 DEF Claims!Execute, Claims!ClaimSold, Claims!ClaimPurchased, Claims!CancelAuction,
     Claims!States, Claims!Ask, ClaimTypes, Claims!TypeOK
<1>10. ClaimTypes'
  <2>1. Claims!Range(uuids') \subseteq Deals BY <1>7, OfLine, ClaimRange
  <2>2. exec' \in {"none", "close", "poll"} /\ ~(exec' = "close") BY <1>1
  <2> QED BY <1>0, <1>1, <1>6, <1>7, <1>9, <2>1, <2>2 DEF ClaimTypes, Claims!TypeOK
<1>11. \A p \in Range(sent') : p.op \in {"view", "pick"} => MayShow(p.about)'
  BY <1>6, <1>8 DEF ClaimInv
<1>12. Wanted'
  <2>1. CASE Claims!CancelAuction
    <3>1. want' \in Claims!Targets /\ want' = asked'[begun'] .of /\ begun' \in 1..begun'
          /\ asked'[begun'] .kind = "cancel"
      BY <2>1, <1>1, <1>2, <1>3 DEF Claims!CancelAuction, Claims!Ask
    <3>2. Called' BY <3>1 DEF Called
    <3> QED BY <3>1, <3>2 DEF Wanted
  <2>2. CASE Claims!ClaimSold \/ Claims!ClaimPurchased
    <3>1. want' = want /\ botState' # "CancellingAuction"
      BY <2>2 DEF Claims!ClaimSold, Claims!ClaimPurchased
    <3> QED BY <3>1, <1>1, <1>8 DEF ClaimInv, Wanted
  <2> QED BY <2>1, <2>2 DEF Claims!Execute
<1>13. \A a \in Range(uuids') \cup ({uuid'} \ {Claims!Nobody}) : status'[a] # "active"
  BY <1>1, <1>7 DEF ClaimInv
<1> QED BY <1>1, <1>8, <1>10, <1>11, <1>12, <1>13 DEF ClaimInv

(* The bot or the processor goes idle, or its knowledge of what is its own  *)
(* grows.                                                                   *)
LEMMA ClaimIdleKeeps ==
  ASSUME ClaimInv,
         \/ Claims!Complete \/ Claims!Timeout
         \/ \E s \in {"ClaimingSold", "CancellingAuction"} : Claims!FollowUpWatchdog(s)
         \/ Claims!NoteOwnListing \/ Claims!RefreshRemote
         \/ UNCHANGED Claims!vars
  PROVE  ClaimInv'
<1> USE DEF Claims!vars, Claims!game, Claims!wire, Claims!bot, Claims!sold, Claims!owned,
            Claims!tasks, Claims!proc
<1>0. ClaimTypes BY DEF ClaimInv
<1>1. UNCHANGED <<status, shown, lastId, sent, pending, lastWindow, uuids, uuid, want, handler,
                  begun, asked>>
  BY DEF Claims!Complete, Claims!Timeout, Claims!FollowUpWatchdog, Claims!NoteOwnListing,
         Claims!RefreshRemote
<1>2. botState' \in {botState, "Idle"} /\ exec' \in {exec, "none"} /\ dogs' \subseteq dogs
      /\ dog' = dog
  BY DEF Claims!Complete, Claims!Timeout, Claims!FollowUpWatchdog, Claims!NoteOwnListing,
         Claims!RefreshRemote
<1>3. listed' \subseteq Claims!Own /\ remote' \subseteq Claims!Own /\ fetched' \in BOOLEAN
  BY <1>0 DEF Claims!Complete, Claims!Timeout, Claims!FollowUpWatchdog, Claims!NoteOwnListing,
         Claims!RefreshRemote, ClaimTypes, Claims!TypeOK
<1>4. ClaimTypes' BY <1>0, <1>1, <1>2, <1>3 DEF ClaimTypes, Claims!TypeOK
<1>5. \A a : (Named(a) <=> Named(a)') /\ (MayShow(a) <=> MayShow(a)') BY <1>1 DEF Named, MayShow
<1> QED BY <1>1, <1>2, <1>4, <1>5 DEF ClaimInv, Wanted, Called

(* The bot closes its window, of itself or because an auction was not found. *)
LEMMA ClaimClosesKeeps ==
  ASSUME ClaimInv, Claims!Watchdog \/ Claims!NotFound
  PROVE  ClaimInv'
<1> USE DEF Claims!game, Claims!bot, Claims!sold, Claims!owned, Claims!tasks, Claims!proc
<1>0. ClaimTypes BY DEF ClaimInv
<1>1. UNCHANGED <<status, shown, lastId, uuids, uuid, want, onlyOwn, listed, remote, fetched,
                  handler, dogs, dog, exec, begun, asked>>
  BY DEF Claims!Watchdog, Claims!NotFound
<1>2. pending' \in Seq(ClaimEvent) /\ Range(pending') \subseteq Range(pending)
  <2>1. pending \in Seq(ClaimEvent) BY <1>0 DEF ClaimTypes
  <2>2. pending' = pending \/ (pending # <<>> /\ pending' = Tail(pending))
    BY DEF Claims!Watchdog, Claims!NotFound, Claims!Event
  <2> QED BY <2>1, <2>2, Leaves
<1>3. /\ sent' \in Seq(ClaimPacket) /\ \A p \in Range(sent') : p \in Range(sent) \/ p.op = "close"
      /\ lastWindow' \in 0..MaxClaimWindow /\ botState' \in {botState, "Idle"}
  <2>1. CASE lastWindow # 0 /\ Claims!SendClose(lastWindow)
    <3>1. lastWindow \in Claims!Window
      BY <2>1, <1>0, PartsAssumption DEF ClaimTypes, Claims!TypeOK, Claims!Window
    <3>2. sent' = Append(sent, Claims!Close(lastWindow)) /\ lastWindow' = 0
      BY <2>1 DEF Claims!SendClose
    <3>3. 0 \in 0..MaxClaimWindow BY PartsAssumption
    <3>4. botState' \in {botState, "Idle"} BY DEF Claims!Watchdog, Claims!NotFound
    <3> QED BY <3>1, <3>2, <3>3, <3>4, <1>0, ClaimCloses DEF ClaimTypes
  <2>2. CASE UNCHANGED <<sent, lastWindow>>
    <3>1. botState' \in {botState, "Idle"} BY DEF Claims!Watchdog, Claims!NotFound
    <3> QED BY <2>2, <3>1, <1>0 DEF ClaimTypes, Claims!TypeOK
  <2> QED BY <2>1, <2>2 DEF Claims!Watchdog, Claims!NotFound
<1>4. ClaimTypes' BY <1>0, <1>1, <1>2, <1>3 DEF ClaimTypes, Claims!TypeOK
<1>5. \A a : (Named(a) <=> Named(a)') /\ (MayShow(a) <=> MayShow(a)') BY <1>1 DEF Named, MayShow
<1>6. \A p \in Range(sent') : p.op \in {"view", "pick"} => MayShow(p.about)'
  BY <1>3, <1>5 DEF ClaimInv
<1> QED BY <1>1, <1>2, <1>3, <1>4, <1>5, <1>6 DEF ClaimInv, Wanted, Called

LEMMA ClaimOpenKeeps == ASSUME ClaimInv, Claims!OpenScreen PROVE ClaimInv'
<1> USE DEF Claims!game, Claims!sold, Claims!owned, Claims!proc
<1>0. ClaimTypes BY DEF ClaimInv
<1>1. UNCHANGED <<status, shown, lastId, sent, botState, uuids, uuid, want, onlyOwn, listed,
                  remote, fetched, dogs, exec, begun, asked>> /\ dog' = TRUE
  BY DEF Claims!OpenScreen
<1>2. /\ pending' \in Seq(ClaimEvent) /\ Range(pending') \subseteq Range(pending)
      /\ Head(pending) \in ClaimEvent
  BY <1>0, Leaves DEF ClaimTypes, Claims!OpenScreen, Claims!Event
<1>3. Head(pending)[2] \in Claims!Window /\ Head(pending)[3] \in Claims!Pages
  BY <1>2 DEF ClaimEvent, Claims!OpenScreen, Claims!Event
<1>4. lastWindow' \in 0..MaxClaimWindow
  BY <1>3, PartsAssumption DEF Claims!OpenScreen, Claims!Window
<1>5. botState \in Claims!States \cup {"Idle"} BY <1>0 DEF ClaimTypes, Claims!TypeOK
<1>6. \E h \in ClaimTask : /\ handler' = [handler EXCEPT ![Head(pending)[2]] = h]
                           /\ h.state = "CancellingAuction" => botState = "CancellingAuction"
  <2>1. CASE botState = "Idle" BY <2>1, ClaimOff DEF Claims!OpenScreen
  <2>2. CASE botState # "Idle"
    <3> DEFINE h == [page |-> Head(pending)[3], state |-> botState]
    <3>1. h \in ClaimTask /\ h.state = botState BY <2>2, <1>3, <1>5 DEF ClaimTask
    <3>2. handler' = [handler EXCEPT ![Head(pending)[2]] = h] BY <2>2 DEF Claims!OpenScreen
    <3> QED BY <3>1, <3>2
  <2> QED BY <2>1, <2>2
<1>7. handler \in [Claims!Window -> ClaimTask] BY <1>0 DEF ClaimTypes
<1>8. /\ handler' \in [Claims!Window -> ClaimTask]
      /\ \A v \in Claims!Window : handler'[v].state = "CancellingAuction"
            => handler[v].state = "CancellingAuction" \/ botState = "CancellingAuction"
  BY <1>3, <1>6, <1>7
<1>9. \A v \in Claims!Window : handler'[v].page \in Claims!Pages \cup {"none"}
                               /\ handler'[v].state \in Claims!States \cup {"none"}
  BY <1>8 DEF ClaimTask
<1>10. ClaimTypes' BY <1>0, <1>1, <1>2, <1>4, <1>8, <1>9 DEF ClaimTypes, Claims!TypeOK
<1>11. \A a : (Named(a) <=> Named(a)') /\ (MayShow(a) <=> MayShow(a)') BY <1>1 DEF Named, MayShow
<1>12. Wanted' BY <1>1, <1>8, <1>11 DEF ClaimInv, Wanted, Called
<1> QED BY <1>1, <1>2, <1>10, <1>11, <1>12 DEF ClaimInv

LEMMA ClaimSoldKeeps == ASSUME ClaimInv, Claims!Sold PROVE ClaimInv'
<1> USE DEF Claims!game, Claims!bot, Claims!owned, Claims!tasks, Claims!proc
<1>0. ClaimTypes BY DEF ClaimInv
<1>1. UNCHANGED <<status, shown, lastId, sent, botState, lastWindow, want, onlyOwn, listed,
                  remote, fetched, handler, dogs, dog, exec, begun, asked>>
  BY DEF Claims!Sold
<1>2. /\ pending' \in Seq(ClaimEvent) /\ Range(pending') \subseteq Range(pending)
      /\ Head(pending) \in ClaimEvent /\ Head(pending) \in Range(pending)
      /\ Head(pending)[1] = "sold"
  BY <1>0, Leaves DEF ClaimTypes, Claims!Sold, Claims!Event
<1>3. PICK a \in Deals : a = Head(pending)[2] /\ status[a] # "active"
  BY <1>2 DEF ClaimInv, ClaimEvent
<1>4. uuids \in Seq(Deals) /\ Len(uuids) \in Nat /\ Len(uuids) <= MaxUuids
  <2>1. uuids \in Seq(Deals) /\ Len(uuids) <= MaxUuids BY <1>0 DEF ClaimTypes, Claims!TypeOK
  <2> QED BY <2>1
<1>5. /\ uuids' \in Seq(Deals) /\ Len(uuids') <= MaxUuids
      /\ Range(uuids') \subseteq Range(uuids) \cup {a}
  <2>1. CASE uuids' = uuids BY <2>1, <1>4
  <2>2. CASE Len(uuids) >= MaxUuids /\ uuids' = Append(Tail(uuids), a)
    <3>1. uuids # <<>> BY <2>2, <1>4, EmptyLine, PartsAssumption
    <3>2. /\ Tail(uuids) \in Seq(Deals) /\ Range(Tail(uuids)) \subseteq Range(uuids)
          /\ Len(Tail(uuids)) = Len(uuids) - 1
      BY <3>1, <1>4, Leaves
    <3>3. /\ Append(Tail(uuids), a) \in Seq(Deals)
          /\ Range(Append(Tail(uuids), a)) = Range(Tail(uuids)) \cup {a}
      <4> DEFINE l == Tail(uuids)
      <4>1. l \in Seq(Deals) /\ a \in Deals BY <1>3, <3>2
      <4> HIDE DEF l
      <4>2. Append(l, a) \in Seq(Deals) /\ Range(Append(l, a)) = Range(l) \cup {a}
        BY <4>1, Joins
      <4> QED BY <4>2 DEF l
    <3>4. Len(Append(Tail(uuids), a)) = Len(uuids) BY <3>2, <1>4
    <3> QED BY <2>2, <3>2, <3>3, <3>4, <1>4
  <2>3. CASE ~(Len(uuids) >= MaxUuids) /\ uuids' = Append(uuids, a)
    <3>1. Len(Append(uuids, a)) = Len(uuids) + 1 BY <1>4
    <3>2. Len(uuids) + 1 <= MaxUuids BY <2>3, <1>4, PartsAssumption
    <3>3. Append(uuids, a) \in Seq(Deals) /\ Range(Append(uuids, a)) = Range(uuids) \cup {a}
      BY <1>3, <1>4, Joins
    <3> QED BY <2>3, <3>1, <3>2, <3>3
  <2> QED BY <1>3, <2>1, <2>2, <2>3 DEF Claims!Sold
<1>6. uuid' = a BY <1>3 DEF Claims!Sold
<1>7. Claims!Range(uuids') \subseteq Deals BY <1>5, OfLine, ClaimRange
<1>8. ClaimTypes' BY <1>0, <1>1, <1>2, <1>5, <1>6, <1>7 DEF ClaimTypes, Claims!TypeOK
<1>9. \A b : (Named(b) <=> Named(b)') /\ (MayShow(b) <=> MayShow(b)') BY <1>1 DEF Named, MayShow
<1>10. \A b \in Range(uuids') \cup ({uuid'} \ {Claims!Nobody}) : status'[b] # "active"
  BY <1>1, <1>3, <1>5, <1>6 DEF ClaimInv
<1>11. Wanted' BY <1>1, <1>9 DEF ClaimInv, Wanted, Called
<1> QED BY <1>1, <1>2, <1>8, <1>9, <1>10, <1>11 DEF ClaimInv

(* The game.  Nothing comes back into sale, only what the window shows is   *)
(* cancelled, and a window is about what the packet that asked for it was.  *)
LEMMA ClaimOpens ==
  ASSUME ClaimTypes, NEW page \in Claims!Pages, NEW a \in Deals \cup {Claims!Nobody},
         Claims!Opens(page, a)
  PROVE  /\ shown' \in [page : Claims!Pages \cup {"none"}, id : 0..MaxClaimWindow,
                        about : Deals \cup {Claims!Nobody}]
         /\ shown'.about = a /\ lastId' \in Claims!Window
         /\ pending' \in Seq(ClaimEvent)
         /\ \A e \in Range(pending') : e \in Range(pending) \/ e[1] # "sold"
<1>1. Claims!NextId(lastId) \in Claims!Window /\ Claims!NextId(lastId) \in 0..MaxClaimWindow
  BY PartsAssumption DEF ClaimTypes, Claims!TypeOK, Claims!Window, Claims!NextId
<1>2. /\ shown' = [page |-> page, id |-> Claims!NextId(lastId), about |-> a]
      /\ lastId' = Claims!NextId(lastId)
      /\ pending' = Append(pending, <<"open", Claims!NextId(lastId), page>>)
  BY DEF Claims!Opens
<1>3. <<"open", Claims!NextId(lastId), page>> \in ClaimEvent BY <1>1 DEF ClaimEvent
<1>4. /\ pending' \in Seq(ClaimEvent)
      /\ Range(pending') = Range(pending) \cup {<<"open", Claims!NextId(lastId), page>>}
  BY <1>2, <1>3, Joins DEF ClaimTypes
<1>5. <<"open", Claims!NextId(lastId), page>>[1] # "sold" OBVIOUS
<1> QED BY <1>1, <1>2, <1>4, <1>5

LEMMA ClaimSays ==
  ASSUME ClaimTypes, NEW what \in {"sold", "lost"}, NEW a \in Deals, Claims!Says(what, a)
  PROVE  /\ pending' \in Seq(ClaimEvent)
         /\ Range(pending') = Range(pending) \cup {<<what, a>>}
<1> DEFINE e == <<what, a>>
<1>1. e \in ClaimEvent /\ pending \in Seq(ClaimEvent) BY DEF ClaimEvent, ClaimTypes
<1>2. pending' = Append(pending, e) BY DEF Claims!Says
<1> HIDE DEF e
<1>3. pending' \in Seq(ClaimEvent) /\ Range(pending') = Range(pending) \cup {e}
  BY <1>1, <1>2, Joins
<1> QED BY <1>3 DEF e

LEMMA ClaimAnswer ==
  ASSUME ClaimInv, NEW p \in ClaimPacket, p \in Range(sent),
         Claims!Answer(p) \/ Claims!NoAnswer(p)
  PROVE  /\ status' \in [Deals -> {"active", "sold", "claimed", "cancelled"}]
         /\ \A a \in Deals : status'[a] = "active" => status[a] = "active"
         /\ \A a \in Deals : status'[a] = "cancelled" => Named(a)
         /\ shown' \in [page : Claims!Pages \cup {"none"}, id : 0..MaxClaimWindow,
                        about : Deals \cup {Claims!Nobody}]
         /\ MayShow(shown'.about) /\ lastId' \in Claims!Window
         /\ pending' \in Seq(ClaimEvent)
         /\ \A e \in Range(pending') : e \in Range(pending) \/ e[1] # "sold"
<1>0. /\ ClaimTypes /\ MayShow(shown.about)
      /\ \A a \in Deals : status[a] = "cancelled" => Named(a)
      /\ status \in [Deals -> {"active", "sold", "claimed", "cancelled"}]
      /\ shown \in [page : Claims!Pages \cup {"none"}, id : 0..MaxClaimWindow,
                    about : Deals \cup {Claims!Nobody}]
      /\ lastId \in Claims!Window /\ pending \in Seq(ClaimEvent)
  BY DEF ClaimInv, ClaimTypes, Claims!TypeOK
<1>1. MayShow(Claims!Nobody) BY DEF MayShow, Claims!Own, Claims!Nobody
<1>2. {"ah", "manage", "view", "bids"} = Claims!Pages BY DEF Claims!Pages
<1>n. Claims!None \in [page : Claims!Pages \cup {"none"}, id : 0..MaxClaimWindow,
                       about : Deals \cup {Claims!Nobody}]
      /\ Claims!None.about = Claims!Nobody
  BY PartsAssumption DEF Claims!None
<1>3. CASE /\ UNCHANGED status
           /\ \E page \in Claims!Pages, a \in Deals \cup {Claims!Nobody} :
                  Claims!Opens(page, a) /\ MayShow(a)
  BY <1>0, <1>3, ClaimOpens
<1>4. CASE UNCHANGED <<status, shown, lastId, pending>> BY <1>0, <1>4
<1>5. CASE UNCHANGED <<status, lastId, pending>> /\ shown' = Claims!None
  BY <1>0, <1>1, <1>5, <1>n
<1>6. CASE p.op = "view" /\ (Claims!Answer(p))
  <2>1. p.about \in Deals /\ MayShow(p.about) BY <1>6 DEF ClaimPacket, ClaimInv
  <2>2. CASE Claims!Says("lost", p.about) /\ UNCHANGED <<status, shown, lastId>>
    BY <2>1, <2>2, <1>0, ClaimSays
  <2> QED BY <1>2, <1>3, <1>6, <2>1, <2>2 DEF Claims!Answer
<1>7. CASE p.op = "pick" /\ Claims!Answer(p)
  <2>1. p.about \in Deals /\ MayShow(p.about) BY <1>7 DEF ClaimPacket, ClaimInv
  <2> QED BY <1>2, <1>3, <1>7, <2>1 DEF Claims!Answer
<1>8. ASSUME NEW st \in {"claimed", "cancelled"}, NEW S \in SUBSET Deals, Claims!Becomes(S, st),
             st = "cancelled" => \A a \in S : Named(a)
      PROVE  /\ status' \in [Deals -> {"active", "sold", "claimed", "cancelled"}]
             /\ \A a \in Deals : status'[a] = "active" => status[a] = "active"
             /\ \A a \in Deals : status'[a] = "cancelled" => Named(a)
  BY <1>0, <1>8 DEF Claims!Becomes
<1>9. CASE Claims!On(p, "all", "manage") /\ Claims!Answer(p) /\ UNCHANGED <<shown, lastId, pending>>
           /\ Claims!Becomes({a \in Deals : status[a] = "sold"}, "claimed")
  BY <1>0, <1>8, <1>9
<1>10. CASE /\ Claims!CollectButton(shown) /\ Claims!Becomes({shown.about}, "claimed")
            /\ Claims!Opens("manage", Claims!Nobody) \/ UNCHANGED <<shown, lastId, pending>>
  <2>1. {shown.about} \in SUBSET Deals BY <1>10 DEF Claims!CollectButton
  <2>2. CASE Claims!Opens("manage", Claims!Nobody)
    BY <1>0, <1>1, <1>2, <1>8, <1>10, <2>1, <2>2, ClaimOpens
  <2>3. CASE UNCHANGED <<shown, lastId, pending>> BY <1>0, <1>8, <1>10, <2>1, <2>3
  <2> QED BY <1>10, <2>2, <2>3
<1>11. CASE /\ Claims!CancelButton(shown) /\ Claims!Becomes({shown.about}, "cancelled")
            /\ shown' = Claims!None /\ UNCHANGED <<lastId, pending>>
  <2>1. {shown.about} \in SUBSET Deals /\ Named(shown.about)
    BY <1>0, <1>11 DEF Claims!CancelButton, Claims!Own, MayShow
  <2> QED BY <1>0, <1>1, <1>8, <1>11, <2>1, <1>n
<1>12. CASE Claims!NoAnswer(p) BY <1>4, <1>12 DEF Claims!NoAnswer, Claims!game
<1>13. CASE Claims!Answer(p)
  <2> Claims!Nobody \in Deals \cup {Claims!Nobody} OBVIOUS
  <2> QED BY <1>1, <1>2, <1>3, <1>4, <1>5, <1>6, <1>7, <1>9, <1>10, <1>11, <1>13 DEF Claims!Answer
<1> QED BY <1>12, <1>13

LEMMA ClaimGameKeeps == ASSUME ClaimInv, Claims!Game PROVE ClaimInv'
<1> USE DEF Claims!bot, Claims!sold, Claims!owned, Claims!tasks, Claims!proc
<1>0. ClaimTypes BY DEF ClaimInv
<1>1. UNCHANGED <<botState, lastWindow, uuids, uuid, want, onlyOwn, listed, remote, fetched,
                  handler, dogs, dog, exec, begun, asked>>
  BY DEF Claims!Game
<1>2. /\ sent' \in Seq(ClaimPacket) /\ Range(sent') \subseteq Range(sent)
      /\ Head(sent) \in ClaimPacket /\ Head(sent) \in Range(sent)
  BY <1>0, Leaves DEF ClaimTypes, Claims!Game
<1>3. Claims!Answer(Head(sent)) \/ Claims!NoAnswer(Head(sent)) BY DEF Claims!Game
<1>4. /\ status' \in [Deals -> {"active", "sold", "claimed", "cancelled"}]
      /\ \A a \in Deals : status'[a] = "active" => status[a] = "active"
      /\ \A a \in Deals : status'[a] = "cancelled" => Named(a)
      /\ shown' \in [page : Claims!Pages \cup {"none"}, id : 0..MaxClaimWindow,
                     about : Deals \cup {Claims!Nobody}]
      /\ MayShow(shown'.about) /\ lastId' \in Claims!Window
      /\ pending' \in Seq(ClaimEvent)
      /\ \A e \in Range(pending') : e \in Range(pending) \/ e[1] # "sold"
  BY <1>2, <1>3, ClaimAnswer
<1>5. (\A a : Named(a) => Named(a)') /\ (\A a : MayShow(a) => MayShow(a)') /\ (Called => Called')
  BY <1>0, <1>1, <1>4, NamesGrow
<1>6. ClaimTypes' BY <1>0, <1>1, <1>2, <1>4 DEF ClaimTypes, Claims!TypeOK
<1>7. \A a \in Range(uuids') \cup ({uuid'} \ {Claims!Nobody}) : status'[a] # "active"
  <2>1. Range(uuids) \subseteq Deals /\ uuid \in Deals \cup {Claims!Nobody}
    BY <1>0, OfLine, ClaimRange DEF ClaimTypes, Claims!TypeOK
  <2> QED BY <1>1, <1>4, <2>1 DEF ClaimInv
<1>8. \A e \in Range(pending') : e[1] = "sold" => status'[e[2]] # "active"
  <2>1. \A e \in Range(pending) : e[1] = "sold" => e[2] \in Deals
    BY <1>0, OfLine DEF ClaimTypes, ClaimEvent
  <2> QED BY <1>4, <2>1 DEF ClaimInv
<1>9. Wanted' BY <1>1, <1>5 DEF ClaimInv, Wanted
<1>10. \A p \in Range(sent') : p.op \in {"view", "pick"} => MayShow(p.about)'
  BY <1>2, <1>5 DEF ClaimInv
<1>11. MayShow(shown.about)' BY <1>4, <1>5
<1> QED BY <1>1, <1>4, <1>5, <1>6, <1>7, <1>8, <1>9, <1>10, <1>11 DEF ClaimInv

LEMMA ClaimBuyerKeeps == ASSUME ClaimInv, Claims!Buyer PROVE ClaimInv'
<1> USE DEF Claims!bot, Claims!sold, Claims!owned, Claims!tasks, Claims!proc
<1>0. ClaimTypes BY DEF ClaimInv
<1>1. UNCHANGED <<shown, lastId, sent, botState, lastWindow, uuids, uuid, want, onlyOwn, listed,
                  remote, fetched, handler, dogs, dog, exec, begun, asked>>
  BY DEF Claims!Buyer
<1>2. PICK a \in Deals : Claims!Becomes({a}, "sold") /\ Claims!Says("sold", a)
  BY DEF Claims!Buyer
<1>3. pending' \in Seq(ClaimEvent) /\ Range(pending') = Range(pending) \cup {<<"sold", a>>}
  BY <1>0, <1>2, ClaimSays
<1>4. /\ status' \in [Deals -> {"active", "sold", "claimed", "cancelled"}]
      /\ \A b \in Deals : status'[b] = "active" => status[b] = "active"
      /\ \A b \in Deals : status'[b] = "cancelled" => status[b] = "cancelled"
      /\ status'[a] = "sold"
  BY <1>0, <1>2 DEF Claims!Becomes, ClaimTypes, Claims!TypeOK
<1>5. (\A b : Named(b) => Named(b)') /\ (\A b : MayShow(b) => MayShow(b)') /\ (Called => Called')
  BY <1>0, <1>1, <1>4, NamesGrow
<1>6. ClaimTypes' BY <1>0, <1>1, <1>3, <1>4 DEF ClaimTypes, Claims!TypeOK
<1>7. \A b \in Range(uuids') \cup ({uuid'} \ {Claims!Nobody}) : status'[b] # "active"
  <2>1. Range(uuids) \subseteq Deals /\ uuid \in Deals \cup {Claims!Nobody}
    BY <1>0, OfLine, ClaimRange DEF ClaimTypes, Claims!TypeOK
  <2> QED BY <1>1, <1>4, <2>1 DEF ClaimInv
<1>8. \A e \in Range(pending') : e[1] = "sold" => status'[e[2]] # "active"
  <2>1. \A e \in Range(pending) : e[1] = "sold" => e[2] \in Deals
    BY <1>0, OfLine DEF ClaimTypes, ClaimEvent
  <2> QED BY <1>3, <1>4, <2>1 DEF ClaimInv
<1>9. Wanted' BY <1>1, <1>5 DEF ClaimInv, Wanted
<1>10. \A p \in Range(sent') : p.op \in {"view", "pick"} => MayShow(p.about)'
  BY <1>1, <1>5 DEF ClaimInv
<1>11. MayShow(shown.about)' BY <1>1, <1>5 DEF ClaimInv
<1> QED BY <1>4, <1>5, <1>6, <1>7, <1>8, <1>9, <1>10, <1>11 DEF ClaimInv

LEMMA ClaimInit == Claims!Init => ClaimInv
<1> SUFFICES ASSUME Claims!Init PROVE ClaimInv OBVIOUS
<1> USE DEF Claims!Init
<1>1. /\ lastId \in Claims!Window /\ lastWindow \in 0..MaxClaimWindow /\ Len(uuids) <= MaxUuids
      /\ begun \in 0..MaxCommands /\ 0 \in 0..MaxClaimWindow
  BY PartsAssumption, EmptyLine DEF Claims!Window
<1>2. /\ sent \in Seq(ClaimPacket) /\ pending \in Seq(ClaimEvent) /\ uuids \in Seq(Deals)
      /\ Range(sent) = {} /\ Range(pending) = {} /\ Range(uuids) = {} /\ Claims!Range(uuids) = {}
  BY EmptyLine, ClaimRange
<1>3. handler \in [Claims!Window -> ClaimTask]
      /\ \A w \in Claims!Window : handler[w].state # "CancellingAuction"
  BY ClaimOff
<1>4. \A w \in Claims!Window : handler[w].page \in Claims!Pages \cup {"none"}
                               /\ handler[w].state \in Claims!States \cup {"none"}
  BY <1>3 DEF ClaimTask
<1>5. /\ status \in [Deals -> {"active", "sold", "claimed", "cancelled"}]
      /\ \A a \in Deals : status[a] # "cancelled"
  OBVIOUS
<1>6. shown \in [page : Claims!Pages \cup {"none"}, id : 0..MaxClaimWindow,
                 about : Deals \cup {Claims!Nobody}]
      /\ MayShow(shown.about)
  BY <1>1 DEF Claims!None, MayShow, Claims!Own, Claims!Nobody
<1>7. ClaimTypes BY <1>1, <1>2, <1>3, <1>4, <1>5, <1>6 DEF ClaimTypes, Claims!TypeOK
<1>8. Wanted
  <2>1. Claims!NoTarget \notin Claims!Targets
    BY PartsAssumption DEF Claims!NoTarget, Claims!Targets, Claims!Own
  <2> QED BY <1>3, <2>1 DEF Wanted
<1> QED BY <1>2, <1>5, <1>6, <1>7, <1>8 DEF ClaimInv

LEMMA ClaimNext == ClaimInv /\ [Claims!Next]_(Claims!vars) => ClaimInv'
<1> SUFFICES ASSUME ClaimInv, [Claims!Next]_(Claims!vars) PROVE ClaimInv' OBVIOUS
<1>1. CASE Claims!Begin BY <1>1, ClaimBeginKeeps
<1>2. CASE Claims!Execute BY <1>2, ClaimExecuteKeeps
<1>3. CASE \E w \in Claims!Window : Claims!Handle(w) BY <1>3, ClaimHandleKeeps
<1>4. CASE Claims!Watchdog \/ Claims!NotFound BY <1>4, ClaimClosesKeeps
<1>5. CASE Claims!OpenScreen BY <1>5, ClaimOpenKeeps
<1>6. CASE Claims!Sold BY <1>6, ClaimSoldKeeps
<1>7. CASE Claims!Game BY <1>7, ClaimGameKeeps
<1>8. CASE Claims!Buyer BY <1>8, ClaimBuyerKeeps
<1> QED BY <1>1, <1>2, <1>3, <1>4, <1>5, <1>6, <1>7, <1>8, ClaimIdleKeeps DEF Claims!Next

-----------------------------------------------------------------------------
(* Purchases. *)

Views(s)   == \E p \in Range(s) : p.op = "view"
Closing(s) == \A p \in Range(s) : p.op = "close"

\* One auction at most is asked for at a time, and nothing but closes before it.
OneView(s) ==
    \A i \in 1..Len(s) : s[i].op = "view" =>
        \A j \in 1..Len(s) : j # i => s[j].op # "view" /\ (j < i => s[j].op = "close")

\* While an auction is asked for nobody looks at a window but the handlers of beds.
Calm ==
    /\ pending = <<>>
    /\ \A c \in Purchase!Command : fast[c].pc \in {"none", "wait"}
    /\ \A w \in Purchase!Window : handler[w].pc \in {"none", "bed"}

Opening(e) == e[1] \in {"view", "confirm"}

PurchaseInv ==
    /\ Purchase!TypeOK
    /\ shown.kind # "none" => shown.id = lastId
    /\ \/ \E k \in {"view", "confirm"} : pending = << <<k, lastId>> >>
       \/ lastWindow \in {0, lastId} /\ \A e \in Range(pending) : ~Opening(e)
    /\ \A c \in Purchase!Command : fast[c].pc \in {"title", "slot"} => fast[c].win = lastId
    /\ \A w \in Purchase!Window : handler[w].pc \in {"view", "slot"} => w = lastId
    /\ exec = "close" \/ Views(sent) => Calm
    /\ exec = "close" => lastWindow = 0 /\ Closing(sent)
    /\ OneView(sent)

LEMMA OneViewJoins ==
  ASSUME NEW S, NEW s \in Seq(S), NEW p \in S, OneView(s), p.op # "view" \/ Closing(s)
  PROVE  OneView(Append(s, p))
<1>1. /\ Len(Append(s, p)) = Len(s) + 1 /\ Len(s) \in Nat /\ DOMAIN s = 1..Len(s)
      /\ Append(s, p)[Len(s) + 1] = p /\ \A i \in 1..Len(s) : Append(s, p)[i] = s[i]
  OBVIOUS
<1>2. \A i \in 1..Len(s) + 1 : i \in 1..Len(s) \/ i = Len(s) + 1 BY <1>1
<1>3. CASE p.op # "view" BY <1>1, <1>2, <1>3 DEF OneView
<1>4. CASE Closing(s)
  <2>1. \A i \in 1..Len(s) : s[i].op = "close" BY <1>1, <1>4 DEF Closing, Range
  <2> QED BY <1>1, <1>2, <2>1 DEF OneView
<1> QED BY <1>3, <1>4

LEMMA OneViewLeaves ==
  ASSUME NEW S, NEW s \in Seq(S), s # <<>>, OneView(s)
  PROVE  /\ OneView(Tail(s))
         /\ Head(s).op = "view" => ~Views(Tail(s))
         /\ Head(s).op \notin {"view", "close"} => ~Views(s)
<1>1. /\ Len(s) \in Nat /\ 1 \in 1..Len(s) /\ DOMAIN s = 1..Len(s) /\ Head(s) = s[1]
      /\ Len(Tail(s)) = Len(s) - 1 /\ DOMAIN Tail(s) = 1..Len(s) - 1
      /\ \A i \in 1..Len(s) - 1 : Tail(s)[i] = s[i + 1] /\ i + 1 \in 1..Len(s) /\ 1 < i + 1
  OBVIOUS
<1>2. OneView(Tail(s))
  <2>1. \A i, j \in 1..Len(s) - 1 : (j # i => j + 1 # i + 1) /\ (j < i => j + 1 < i + 1) OBVIOUS
  <2> SUFFICES ASSUME NEW i \in 1..Len(s) - 1, Tail(s)[i].op = "view",
                      NEW j \in 1..Len(s) - 1, j # i
               PROVE  Tail(s)[j].op # "view" /\ (j < i => Tail(s)[j].op = "close")
    BY <1>1 DEF OneView
  <2>2. s[i + 1].op = "view" /\ i + 1 \in 1..Len(s) /\ j + 1 \in 1..Len(s) BY <1>1
  <2>3. s[j + 1].op # "view" /\ (j + 1 < i + 1 => s[j + 1].op = "close")
    BY <2>1, <2>2 DEF OneView
  <2> QED BY <1>1, <2>1, <2>3
<1>3. ASSUME s[1].op = "view" PROVE \A i \in 1..Len(s) - 1 : Tail(s)[i].op # "view"
  <2>1. \A j \in 1..Len(s) : j # 1 => s[j].op # "view" BY <1>1, <1>3 DEF OneView
  <2>2. \A i \in 1..Len(s) - 1 : i + 1 # 1 BY <1>1
  <2> QED BY <1>1, <2>1, <2>2
<1>4. ASSUME s[1].op \notin {"view", "close"} PROVE \A i \in 1..Len(s) : s[i].op # "view"
  <2>1. \A i \in 1..Len(s) : i = 1 \/ 1 < i BY <1>1
  <2> QED BY <1>1, <1>4, <2>1 DEF OneView
<1> QED BY <1>1, <1>2, <1>3, <1>4 DEF Views, Range

\* What the tasks send: nothing that opens an auction.
PurchaseSent ==
    /\ sent' \in Seq(Purchase!Packet) /\ OneView(sent') /\ (Views(sent') => Views(sent))

LEMMA PurchaseAppends ==
  ASSUME PurchaseInv, NEW p \in Purchase!Packet, p.op # "view", sent' = Append(sent, p)
  PROVE  PurchaseSent /\ Range(sent') = Range(sent) \cup {p}
<1>1. sent \in Seq(Purchase!Packet) /\ OneView(sent) BY DEF PurchaseInv, Purchase!TypeOK
<1>2. sent' \in Seq(Purchase!Packet) /\ Range(sent') = Range(sent) \cup {p} BY <1>1, Joins
<1>3. OneView(sent') BY <1>1, OneViewJoins
<1> QED BY <1>2, <1>3 DEF PurchaseSent, Views

LEMMA PurchasePackets ==
  \A w \in Purchase!Window :
     /\ Purchase!Buy(w) \in Purchase!Packet /\ Purchase!Buy(w).op = "buy"
     /\ Purchase!Confirm(w) \in Purchase!Packet /\ Purchase!Confirm(w).op = "confirm"
     /\ [op |-> "close", win |-> w] \in Purchase!Packet /\ [op |-> "close", win |-> w].op = "close"
     /\ Purchase!NextId(w) \in Purchase!Window
BY PartsAssumption DEF Purchase!Buy, Purchase!Confirm, Purchase!Packet, Purchase!Window, Purchase!NextId

LEMMA PurchaseCloses ==
  ASSUME PurchaseInv, NEW w \in Purchase!Window, Purchase!SendClose(w)
  PROVE  PurchaseSent /\ lastWindow' = 0 /\ (Closing(sent) => Closing(sent'))
<1>1. sent' = Append(sent, [op |-> "close", win |-> w]) /\ lastWindow' = 0
  BY DEF Purchase!SendClose
<1>2. [op |-> "close", win |-> w] \in Purchase!Packet /\ [op |-> "close", win |-> w].op = "close"
  BY PurchasePackets
<1> DEFINE p == [op |-> "close", win |-> w]
<1>3. p \in Purchase!Packet /\ p.op = "close" /\ sent' = Append(sent, p) BY <1>1, <1>2
<1> HIDE DEF p
<1>4. PurchaseSent /\ Range(sent') = Range(sent) \cup {p} BY <1>3, PurchaseAppends
<1> QED BY <1>1, <1>3, <1>4 DEF Closing

LEMMA PurchaseClicks ==
  ASSUME PurchaseInv, NEW w \in Purchase!Window, Purchase!Clicks(w)
  PROVE  /\ PurchaseSent /\ skipSent' \in BOOLEAN
         /\ Range(sent') \subseteq Range(sent) \cup {Purchase!Buy(w), Purchase!Confirm(Purchase!NextId(w))}
<1> DEFINE v == Purchase!NextId(w)
           b == Purchase!Buy(w)
           c == Purchase!Confirm(v)
<1>0. v \in Purchase!Window BY PurchasePackets
<1>1. b \in Purchase!Packet /\ b.op = "buy" /\ c \in Purchase!Packet /\ c.op = "confirm"
  BY <1>0, PurchasePackets
<1>2. sent \in Seq(Purchase!Packet) /\ OneView(sent) BY DEF PurchaseInv, Purchase!TypeOK
<1>3. skipSent' \in BOOLEAN
  BY PartsAssumption DEF Purchase!Clicks, PurchaseInv, Purchase!TypeOK
<1>4. sent' = sent \o (IF Skip THEN <<b, c>> ELSE <<b>>) BY DEF Purchase!Clicks
<1> HIDE DEF b, c, v
<1>5. CASE Skip
  <2>1. sent' = Append(Append(sent, b), c) BY <1>1, <1>2, <1>4, <1>5
  <2>2. Append(sent, b) \in Seq(Purchase!Packet) /\ Range(Append(sent, b)) = Range(sent) \cup {b}
    BY <1>1, <1>2, Joins
  <2>3. OneView(Append(sent, b)) BY <1>1, <1>2, OneViewJoins
  <2> DEFINE l == Append(sent, b)
  <2>4. l \in Seq(Purchase!Packet) /\ OneView(l) /\ Range(l) = Range(sent) \cup {b}
        /\ sent' = Append(l, c)
    BY <2>1, <2>2, <2>3
  <2> HIDE DEF l
  <2>5. sent' \in Seq(Purchase!Packet) /\ Range(sent') = Range(l) \cup {c} BY <1>1, <2>4, Joins
  <2>6. OneView(sent') BY <1>1, <2>4, OneViewJoins
  <2>7. Range(sent') = Range(sent) \cup {b, c} BY <2>4, <2>5
  <2> QED BY <1>1, <1>3, <2>5, <2>6, <2>7 DEF PurchaseSent, Views, b, c, v
<1>6. CASE ~Skip
  <2>1. sent' = Append(sent, b) BY <1>1, <1>2, <1>4, <1>6
  <2>2. PurchaseSent /\ Range(sent') = Range(sent) \cup {b} BY <1>1, <2>1, PurchaseAppends
  <2> QED BY <1>3, <2>2 DEF b, c
<1> QED BY <1>5, <1>6

(* What a step of a task has to show.                                       *)
LEMMA PurchaseStepKeeps ==
  ASSUME PurchaseInv, Purchase!TypeOK',
         UNCHANGED <<shown, lastId, pending, exec>>,
         PurchaseSent, lastWindow' \in {lastWindow, 0},
         \A c \in Purchase!Command : /\ fast'[c].pc \in {"title", "slot"}
                                        => fast[c].pc \in {"title", "slot"} /\ fast'[c].win = fast[c].win
                                     /\ fast[c].pc \in {"none", "wait"} => fast'[c].pc \in {"none", "wait"},
         \A w \in Purchase!Window : /\ handler'[w].pc \in {"view", "slot"} => handler[w].pc \in {"view", "slot"}
                                    /\ handler[w].pc \in {"none", "bed"} => handler'[w].pc \in {"none", "bed"},
         exec = "close" => Closing(sent')
  PROVE  PurchaseInv'
<1>1. Calm => Calm' BY DEF Calm
<1>2. exec' = "close" \/ Views(sent') => Calm' BY <1>1 DEF PurchaseInv, PurchaseSent
<1>3. exec' = "close" => lastWindow' = 0 /\ Closing(sent') BY DEF PurchaseInv
<1>4. \/ \E k \in {"view", "confirm"} : pending' = << <<k, lastId'>> >>
      \/ lastWindow' \in {0, lastId'} /\ \A e \in Range(pending') : ~Opening(e)
  BY DEF PurchaseInv
<1>5. shown'.kind # "none" => shown'.id = lastId' BY DEF PurchaseInv
<1>6. /\ \A c \in Purchase!Command : fast'[c].pc \in {"title", "slot"} => fast'[c].win = lastId'
      /\ \A w \in Purchase!Window : handler'[w].pc \in {"view", "slot"} => w = lastId'
  BY DEF PurchaseInv
<1>7. OneView(sent') BY DEF PurchaseSent
<1> QED BY <1>2, <1>3, <1>4, <1>5, <1>6, <1>7 DEF PurchaseInv, Views, OneView, Closing, Opening, Calm

FastTask   == [pc : {"none", "wait", "title", "slot", "mark"}, win : Purchase!Window \cup {0}]
WindowTask == [pc : {"none", "view", "slot", "bed", "confirm", "retry"}, tries : 0..MaxConfirmRetries]

LEMMA PurchaseBecomes ==
  ASSUME Purchase!TypeOK, NEW w \in Purchase!Window,
         NEW pc \in {"none", "view", "slot", "bed", "confirm", "retry"}, Purchase!Becomes(w, pc)
  PROVE  /\ handler' \in [Purchase!Window -> WindowTask]
         /\ handler'[w].pc = pc /\ \A v \in Purchase!Window : v # w => handler'[v] = handler[v]
<1>1. [pc |-> pc, tries |-> 0] \in WindowTask BY PartsAssumption DEF WindowTask
<1>2. handler \in [Purchase!Window -> WindowTask] BY DEF Purchase!TypeOK, WindowTask
<1>3. handler' = [handler EXCEPT ![w] = [pc |-> pc, tries |-> 0]] BY DEF Purchase!Becomes
<1> QED BY <1>1, <1>2, <1>3

LEMMA PurchaseFast ==
  ASSUME Purchase!TypeOK, NEW c \in Purchase!Command,
         NEW pc \in {"none", "wait", "title", "slot", "mark"}, Purchase!Fast(c, pc)
  PROVE  /\ fast' \in [Purchase!Command -> FastTask]
         /\ fast'[c].pc = pc /\ fast'[c].win = fast[c].win
         /\ \A d \in Purchase!Command : d # c => fast'[d] = fast[d]
<1>2. fast \in [Purchase!Command -> FastTask] BY DEF Purchase!TypeOK, FastTask
<1>3. fast' = [fast EXCEPT ![c].pc = pc] BY DEF Purchase!Fast
<1> QED BY <1>2, <1>3 DEF FastTask

LEMMA PurchaseStill ==
  ASSUME PurchaseInv, UNCHANGED sent
  PROVE  PurchaseSent /\ (Closing(sent) => Closing(sent'))
BY DEF PurchaseInv, Purchase!TypeOK, PurchaseSent

(* The task of the fast path.                                               *)
LEMMA PurchaseFastKeeps ==
  ASSUME PurchaseInv, NEW c \in Purchase!Command,
         Purchase!FastTitle(c) \/ Purchase!FastSlot(c) \/ Purchase!FastMark(c)
  PROVE  PurchaseInv'
<1> USE DEF Purchase!game, Purchase!wire, Purchase!bot, Purchase!flags
<1>0. Purchase!TypeOK BY DEF PurchaseInv
<1>1. fast[c].pc \in {"title", "slot", "mark"}
  BY DEF Purchase!FastTitle, Purchase!FastSlot, Purchase!FastMark
<1>2. exec # "close" BY <1>1 DEF PurchaseInv, Calm
<1>3. PICK to : /\ to \in {"none", "slot", "mark"} /\ Purchase!Fast(c, to)
                /\ to = "slot" => fast[c].pc = "title"
  BY DEF Purchase!FastTitle, Purchase!FastSlot, Purchase!FastMark
<1>4. /\ fast' \in [Purchase!Command -> FastTask]
      /\ fast'[c].pc = to /\ fast'[c].win = fast[c].win
      /\ \A d \in Purchase!Command : d # c => fast'[d] = fast[d]
  <2>1. to \in {"none", "wait", "title", "slot", "mark"} /\ Purchase!Fast(c, to) BY <1>3
  <2> QED BY <1>0, <2>1, PurchaseFast
<1>5. PurchaseSent /\ skipSent' \in BOOLEAN
  <2>1. CASE UNCHANGED <<sent, skipSent>>
    BY <2>1, <1>0, PurchaseStill DEF Purchase!TypeOK
  <2>2. CASE Purchase!FastSlot(c) /\ Purchase!Clicks(fast[c].win)
    <3>1. fast[c].win = lastId /\ lastId \in Purchase!Window
      BY <2>2, <1>0 DEF Purchase!FastSlot, PurchaseInv, Purchase!TypeOK
    <3> QED BY <2>2, <3>1, PurchaseClicks
  <2> QED BY <2>1, <2>2 DEF Purchase!FastTitle, Purchase!FastSlot, Purchase!FastMark
<1>6. /\ UNCHANGED <<offer, shown, lastId, pending, botState, lastWindow, bed, spam, handler, dog,
                     exec, begun, byHand>>
      /\ fastBuy' \in BOOLEAN
  BY <1>0 DEF Purchase!FastTitle, Purchase!FastSlot, Purchase!FastMark, Purchase!TypeOK
<1>7. Purchase!TypeOK'
  BY <1>0, <1>4, <1>5, <1>6 DEF Purchase!TypeOK, FastTask, PurchaseSent
<1>8. \A d \in Purchase!Command : /\ fast'[d].pc \in {"title", "slot"}
                                    => fast[d].pc \in {"title", "slot"} /\ fast'[d].win = fast[d].win
                                  /\ fast[d].pc \in {"none", "wait"} => fast'[d].pc \in {"none", "wait"}
  <2>1. to \in {"none", "slot", "mark"} /\ (to = "slot" => fast[c].pc = "title") BY <1>3
  <2> QED BY <1>1, <1>4, <2>1
<1> QED BY <1>2, <1>5, <1>6, <1>7, <1>8, PurchaseStepKeeps

(* The handlers.                                                            *)
LEMMA PurchaseHandleKeeps ==
  ASSUME PurchaseInv, NEW w \in Purchase!Window, Purchase!Handle(w)
  PROVE  PurchaseInv'
<1> USE DEF Purchase!game, Purchase!wire, Purchase!bot, Purchase!flags, Purchase!tasks
<1>0. Purchase!TypeOK BY DEF PurchaseInv
<1>a. UNCHANGED <<offer, shown, lastId, pending, spam, fast, dog, exec, begun, byHand>>
  BY DEF Purchase!Handle, Purchase!ViewBegins, Purchase!SeesBed, Purchase!SeesNugget,
     Purchase!SeesOther, Purchase!SeesNothing, Purchase!BedClick, Purchase!BedNugget,
     Purchase!BedEnds, Purchase!ConfirmBegins, Purchase!ConfirmRetries, Purchase!ConfirmEnds
<1>b. /\ handler' \in [Purchase!Window -> WindowTask]
      /\ \A v \in Purchase!Window : v # w => handler'[v] = handler[v]
      /\ handler'[w].pc \in {"view", "slot"} => handler[w].pc \in {"view", "slot"}
      /\ handler[w].pc \in {"none", "bed"} => handler'[w].pc \in {"none", "bed"}
  <2>1. CASE \E pc \in {"none", "slot", "bed", "retry"} :
                 /\ Purchase!Becomes(w, pc)
                 /\ pc = "slot" => handler[w].pc = "view"
                 /\ pc = "retry" => handler[w].pc = "confirm"
    BY <2>1, <1>0, PurchaseBecomes
  <2>2. CASE UNCHANGED handler BY <2>2, <1>0 DEF Purchase!TypeOK, WindowTask
  <2>3. CASE Purchase!ConfirmRetries(w)
    <3>1. handler \in [Purchase!Window -> WindowTask] BY <1>0 DEF Purchase!TypeOK, WindowTask
    <3>2. handler[w].tries + 1 \in 0..MaxConfirmRetries
      BY <3>1, <2>3, PartsAssumption DEF Purchase!ConfirmRetries, WindowTask
    <3>3. handler' = [handler EXCEPT ![w].tries = handler[w].tries + 1]
      BY <2>3 DEF Purchase!ConfirmRetries
    <3> QED BY <3>1, <3>2, <3>3 DEF WindowTask
  <2> QED BY <2>1, <2>2, <2>3 DEF Purchase!Handle, Purchase!ViewBegins, Purchase!SeesBed,
     Purchase!SeesNugget, Purchase!SeesOther, Purchase!SeesNothing, Purchase!BedClick,
     Purchase!BedNugget, Purchase!BedEnds, Purchase!ConfirmBegins, Purchase!ConfirmEnds
<1>c. /\ PurchaseSent /\ lastWindow' \in {lastWindow, 0}
      /\ exec = "close" => Closing(sent')
  <2>0. exec = "close" => Closing(sent) /\ lastWindow = 0 /\ handler[w].pc \in {"none", "bed"}
    BY DEF PurchaseInv, Calm
  <2>p. /\ Purchase!Buy(w) \in Purchase!Packet /\ Purchase!Buy(w).op # "view"
        /\ Purchase!Confirm(w) \in Purchase!Packet /\ Purchase!Confirm(w).op # "view"
    BY PurchasePackets
  <2>w. w # 0 BY PartsAssumption DEF Purchase!Window
  <2>1. CASE Purchase!SendClose(w) BY <2>1, <2>0, PurchaseCloses
  <2>2. CASE UNCHANGED <<sent, lastWindow>> BY <2>2, <2>0, PurchaseStill
  <2>3. CASE Purchase!SeesNugget(w)
    <3>1. exec # "close" /\ lastWindow' = lastWindow BY <2>3, <2>0 DEF Purchase!SeesNugget
    <3> QED BY <2>2, <2>3, <3>1, PurchaseClicks DEF Purchase!SeesNugget
  <2>4. CASE sent' = Append(sent, Purchase!Buy(w)) /\ UNCHANGED lastWindow /\ lastWindow = w
    BY <2>0, <2>p, <2>w, <2>4, PurchaseAppends
  <2>5. CASE sent' = Append(sent, Purchase!Confirm(w)) /\ UNCHANGED lastWindow
             /\ handler[w].pc \in {"confirm", "retry"}
    BY <2>0, <2>p, <2>5, PurchaseAppends
  <2> QED BY <2>1, <2>2, <2>3, <2>4, <2>5 DEF Purchase!Handle, Purchase!ViewBegins,
     Purchase!SeesBed, Purchase!SeesOther, Purchase!SeesNothing, Purchase!BedClick,
     Purchase!BedNugget, Purchase!BedEnds, Purchase!ConfirmBegins, Purchase!ConfirmRetries,
     Purchase!ConfirmEnds, Purchase!BedMayClick
<1>d. /\ botState' \in {"Idle", "Purchasing"} /\ fastBuy' \in BOOLEAN /\ skipSent' \in BOOLEAN
      /\ bed' \in BOOLEAN
  <2>1. botState \in {"Idle", "Purchasing"} /\ fastBuy \in BOOLEAN /\ skipSent \in BOOLEAN
        /\ bed \in BOOLEAN
    BY <1>0 DEF Purchase!TypeOK
  <2>2. Purchase!Clicks(w) => skipSent' \in BOOLEAN BY PurchaseClicks
  <2>3. CASE Purchase!ViewBegins(w) BY <2>1, <2>3 DEF Purchase!ViewBegins
  <2>4. CASE Purchase!SeesBed(w) BY <2>1, <2>4 DEF Purchase!SeesBed
  <2>5. CASE Purchase!SeesNugget(w) BY <2>1, <2>2, <2>5 DEF Purchase!SeesNugget
  <2>6. CASE Purchase!SeesOther(w) BY <2>1, <2>6 DEF Purchase!SeesOther
  <2>7. CASE Purchase!SeesNothing(w) \/ Purchase!BedClick(w)
    BY <2>1, <2>7 DEF Purchase!SeesNothing, Purchase!BedClick
  <2>8. CASE Purchase!BedNugget(w) \/ Purchase!BedEnds(w)
    BY <2>1, <2>8 DEF Purchase!BedNugget, Purchase!BedEnds
  <2>9. CASE Purchase!ConfirmBegins(w) BY <2>1, <2>9 DEF Purchase!ConfirmBegins
  <2>10. CASE Purchase!ConfirmRetries(w) \/ Purchase!ConfirmEnds(w)
    BY <2>1, <2>10 DEF Purchase!ConfirmRetries, Purchase!ConfirmEnds
  <2> QED BY <2>3, <2>4, <2>5, <2>6, <2>7, <2>8, <2>9, <2>10 DEF Purchase!Handle
<1>e. Purchase!TypeOK'
  <2>1. lastWindow' \in Purchase!Window \cup {0} BY <1>0, <1>c DEF Purchase!TypeOK
  <2> QED BY <1>0, <1>a, <1>b, <1>c, <1>d, <2>1 DEF Purchase!TypeOK, WindowTask, PurchaseSent
<1>f. \A v \in Purchase!Window : /\ handler'[v].pc \in {"view", "slot"} => handler[v].pc \in {"view", "slot"}
                                 /\ handler[v].pc \in {"none", "bed"} => handler'[v].pc \in {"none", "bed"}
  BY <1>b
<1> QED BY <1>a, <1>c, <1>e, <1>f, PurchaseStepKeeps

(* The processor.                                                           *)
LEMMA PurchaseProcessorKeeps ==
  ASSUME PurchaseInv,
         \/ Purchase!Complete \/ Purchase!Timeout \/ Purchase!Watchdog \/ Purchase!Spam
         \/ Purchase!Fills \/ Purchase!Turns \/ UNCHANGED Purchase!vars
  PROVE  PurchaseInv'
<1> USE DEF Purchase!vars, Purchase!game, Purchase!wire, Purchase!bot, Purchase!flags, Purchase!tasks
<1>0. Purchase!TypeOK BY DEF PurchaseInv
<1>1. PurchaseSent /\ lastWindow' \in {lastWindow, 0} /\ (exec = "close" => Closing(sent'))
  <2>0. /\ lastWindow \in Purchase!Window \cup {0} /\ spam \in Purchase!Window \cup {0}
        /\ 0 \notin Purchase!Window
    BY <1>0 DEF Purchase!TypeOK, Purchase!Window
  <2>1. exec = "close" => Closing(sent) /\ lastWindow = 0 BY DEF PurchaseInv
  <2>2. CASE UNCHANGED <<sent, lastWindow>> BY <2>1, <2>2, PurchaseStill
  <2>3. CASE Purchase!Watchdog
    <3>1. lastWindow \in Purchase!Window /\ Purchase!SendClose(lastWindow)
      BY <2>0, <2>3 DEF Purchase!Watchdog
    <3> QED BY <2>1, <3>1, PurchaseCloses
  <2>4. CASE Purchase!Spam /\ sent' = Append(sent, Purchase!Buy(spam)) /\ lastWindow = spam
    <3>1. spam \in Purchase!Window /\ lastWindow' = lastWindow BY <2>0, <2>4 DEF Purchase!Spam
    <3>2. exec # "close" BY <2>0, <2>1, <2>4, <3>1
    <3>3. Purchase!Buy(spam) \in Purchase!Packet /\ Purchase!Buy(spam).op # "view"
      BY <3>1, PurchasePackets
    <3> QED BY <2>4, <3>1, <3>2, <3>3, PurchaseAppends
  <2> QED BY <2>2, <2>3, <2>4 DEF Purchase!Complete, Purchase!Timeout, Purchase!Spam,
     Purchase!Fills, Purchase!Turns
<1>2. /\ UNCHANGED <<lastId, pending, fastBuy, skipSent, bed, fast, handler, dog, begun, byHand>>
      /\ botState' \in {botState, "Idle"} /\ spam' \in {spam, 0}
      /\ exec' = exec \/ (exec' = "none" /\ exec # "close")
  BY DEF Purchase!Complete, Purchase!Timeout, Purchase!Watchdog, Purchase!Spam,
     Purchase!Fills, Purchase!Turns
<1>3. offer' \in [Lots -> {"bed", "gold_nugget", "potato"}]
  BY <1>0 DEF Purchase!Complete, Purchase!Timeout, Purchase!Watchdog, Purchase!Spam,
     Purchase!Fills, Purchase!Turns, Purchase!TypeOK
<1>4. /\ shown' \in {Purchase!None} \cup [kind : {"view"}, id : Purchase!Window, auction : Lots, loaded : BOOLEAN]
                        \cup [kind : {"confirm"}, id : Purchase!Window, auction : Lots]
      /\ shown'.kind = shown.kind /\ (shown.kind # "none" => shown'.id = shown.id)
  <2>1. CASE UNCHANGED shown BY <2>1, <1>0 DEF Purchase!TypeOK
  <2>2. CASE Purchase!Fills
    <3>1. shown.kind = "view" /\ shown' = [shown EXCEPT !.loaded = TRUE]
      BY <2>2 DEF Purchase!Fills, Purchase!Is
    <3>2. shown \in [kind : {"view"}, id : Purchase!Window, auction : Lots, loaded : BOOLEAN]
      BY <1>0, <3>1 DEF Purchase!TypeOK, Purchase!None
    <3> QED BY <3>1, <3>2
  <2> QED BY <2>1, <2>2 DEF Purchase!Complete, Purchase!Timeout, Purchase!Watchdog, Purchase!Spam,
     Purchase!Turns
<1>5. Purchase!TypeOK'
  BY <1>0, <1>1, <1>2, <1>3, <1>4 DEF Purchase!TypeOK, PurchaseSent
<1>6. Calm => Calm' BY <1>2 DEF Calm
<1>7. exec' = "close" \/ Views(sent') => Calm' BY <1>1, <1>2, <1>6 DEF PurchaseInv, PurchaseSent
<1>8. exec' = "close" => lastWindow' = 0 /\ Closing(sent') BY <1>1, <1>2 DEF PurchaseInv
<1>9. \/ \E k \in {"view", "confirm"} : pending' = << <<k, lastId'>> >>
      \/ lastWindow' \in {0, lastId'} /\ \A e \in Range(pending') : ~Opening(e)
  BY <1>1, <1>2 DEF PurchaseInv
<1>10. shown'.kind # "none" => shown'.id = lastId' BY <1>2, <1>4 DEF PurchaseInv
<1>11. /\ \A c \in Purchase!Command : fast'[c].pc \in {"title", "slot"} => fast'[c].win = lastId'
       /\ \A w \in Purchase!Window : handler'[w].pc \in {"view", "slot"} => w = lastId'
  BY <1>2 DEF PurchaseInv
<1>12. OneView(sent') BY <1>1 DEF PurchaseSent
<1> QED BY <1>5, <1>7, <1>8, <1>9, <1>10, <1>11, <1>12
     DEF PurchaseInv, Views, OneView, Closing, Opening, Calm

LEMMA PurchaseBeginKeeps ==
  ASSUME PurchaseInv, Purchase!Begin
  PROVE  PurchaseInv'
<1> USE DEF Purchase!game, Purchase!bot, Purchase!flags, Purchase!tasks
<1>0. Purchase!TypeOK BY DEF PurchaseInv
<1>1. /\ UNCHANGED <<offer, shown, lastId, pending, botState, fastBuy, skipSent, bed, spam, fast,
                     handler, dog, byHand>>
      /\ exec' = "close" /\ begun' = begun + 1 /\ begun < MaxCommands /\ sent = <<>>
  BY DEF Purchase!Begin, Purchase!Quiet
<1>2. Calm BY DEF Purchase!Begin, Purchase!Quiet, Purchase!Settled, Calm
<1>3. Closing(sent) BY <1>1, EmptyLine DEF Closing
<1>4. PurchaseSent /\ lastWindow' = 0 /\ Closing(sent')
  <2>1. CASE lastWindow # 0
    <3>1. lastWindow \in Purchase!Window /\ Purchase!SendClose(lastWindow)
      BY <1>0, <2>1 DEF Purchase!Begin, Purchase!TypeOK
    <3> QED BY <1>3, <3>1, PurchaseCloses
  <2>2. CASE lastWindow = 0 BY <1>3, <2>2, PurchaseStill DEF Purchase!Begin
  <2> QED BY <2>1, <2>2
<1>5. begun' \in 0..MaxCommands BY <1>0, <1>1, PartsAssumption DEF Purchase!TypeOK
<1>6. Purchase!TypeOK' BY <1>0, <1>1, <1>4, <1>5 DEF Purchase!TypeOK, PurchaseSent
<1>7. Calm' BY <1>1, <1>2 DEF Calm
<1>8. Range(pending') = {} BY <1>1, <1>2, EmptyLine DEF Calm
<1>9. shown'.kind # "none" => shown'.id = lastId' BY <1>1 DEF PurchaseInv
<1>10. /\ \A c \in Purchase!Command : fast'[c].pc \in {"title", "slot"} => fast'[c].win = lastId'
       /\ \A w \in Purchase!Window : handler'[w].pc \in {"view", "slot"} => w = lastId'
  BY <1>1 DEF PurchaseInv
<1> QED BY <1>4, <1>6, <1>7, <1>8, <1>9, <1>10
     DEF PurchaseInv, Views, OneView, Closing, Opening, Calm, PurchaseSent

LEMMA PurchaseViewKeeps ==
  ASSUME PurchaseInv, Purchase!Execute \/ Purchase!ByHand
  PROVE  PurchaseInv'
<1> USE DEF Purchase!game, Purchase!bot, Purchase!flags, Purchase!tasks
<1>0. Purchase!TypeOK BY DEF PurchaseInv
<1>1. Calm /\ Closing(sent)
  <2>1. CASE Purchase!Execute BY <2>1 DEF Purchase!Execute, PurchaseInv
  <2>2. CASE Purchase!ByHand
    BY <2>2, EmptyLine DEF Purchase!ByHand, Purchase!Quiet, Purchase!Settled, Calm, Closing
  <2> QED BY <2>1, <2>2
<1>2. sent' \in Seq(Purchase!Packet) /\ OneView(sent')
  <2>1. PICK a \in Lots : sent' = Append(sent, Purchase!View(a))
    BY DEF Purchase!Execute, Purchase!ByHand
  <2>2. Purchase!View(a) \in Purchase!Packet BY <2>1 DEF Purchase!View, Purchase!Packet
  <2>3. sent \in Seq(Purchase!Packet) /\ OneView(sent) BY DEF PurchaseInv, Purchase!TypeOK
  <2> QED BY <1>1, <2>1, <2>2, <2>3, Joins, OneViewJoins
<1>3. /\ UNCHANGED <<offer, shown, lastId, pending, lastWindow, skipSent, bed, spam, handler, dog,
                     begun>>
      /\ exec' \in {"none", "close", "poll"} /\ exec' # "close" /\ botState' \in {"Idle", "Purchasing"}
      /\ fastBuy' \in BOOLEAN /\ byHand' \in 0..MaxByHand
  <2>1. CASE Purchase!Execute BY <1>0, <2>1 DEF Purchase!Execute, Purchase!TypeOK
  <2>2. CASE Purchase!ByHand
    BY <1>0, <2>2, PartsAssumption DEF Purchase!ByHand, Purchase!TypeOK
  <2> QED BY <2>1, <2>2
<1>4. /\ fast' \in [Purchase!Command -> FastTask]
      /\ \A c \in Purchase!Command : fast'[c].pc \in {"none", "wait"}
  <2>1. fast \in [Purchase!Command -> FastTask] /\ \A c \in Purchase!Command : fast[c].pc \in {"none", "wait"}
    BY <1>0, <1>1 DEF Purchase!TypeOK, FastTask, Calm
  <2>2. fast' = fast \/ fast' = [fast EXCEPT ![begun].pc = "wait"]
    BY DEF Purchase!Execute, Purchase!ByHand
  <2> QED BY <2>1, <2>2 DEF FastTask
<1>5. Purchase!TypeOK' BY <1>0, <1>2, <1>3, <1>4 DEF Purchase!TypeOK, FastTask
<1>6. Calm' BY <1>1, <1>3, <1>4 DEF Calm
<1>7. \A c \in Purchase!Command : fast'[c].pc \notin {"title", "slot"} BY <1>4
<1>8. \A w \in Purchase!Window : handler'[w].pc \in {"view", "slot"} => w = lastId'
  BY <1>3 DEF PurchaseInv
<1>9. \/ \E k \in {"view", "confirm"} : pending' = << <<k, lastId'>> >>
      \/ lastWindow' \in {0, lastId'} /\ \A e \in Range(pending') : ~Opening(e)
  BY <1>3 DEF PurchaseInv
<1>10. shown'.kind # "none" => shown'.id = lastId' BY <1>3 DEF PurchaseInv
<1> QED BY <1>2, <1>3, <1>5, <1>6, <1>7, <1>8, <1>9, <1>10
     DEF PurchaseInv, Views, OneView, Closing, Opening, Calm

PurchaseEvent == {"fail", "grace", "close"} \X {0} \cup {"view", "confirm"} \X Purchase!Window

(* What is handled: an opening alone, with the last window, or else none.   *)
LEMMA PurchaseEvents ==
  ASSUME PurchaseInv, NEW kind, Purchase!Event(kind)
  PROVE  /\ pending' \in Seq(PurchaseEvent) /\ exec # "close" /\ ~Views(sent)
         /\ kind \in {"view", "confirm"} => pending' = <<>> /\ Head(pending)[2] = lastId
         /\ kind \notin {"view", "confirm"} =>
               lastWindow \in {0, lastId} /\ \A e \in Range(pending') : ~Opening(e)
<1>1. pending \in Seq(PurchaseEvent) /\ pending # <<>> /\ Head(pending)[1] = kind
      /\ pending' = Tail(pending)
  BY DEF PurchaseInv, Purchase!TypeOK, PurchaseEvent, Purchase!Event
<1>2. /\ Head(pending) \in Range(pending) /\ pending' \in Seq(PurchaseEvent)
      /\ Range(pending') \subseteq Range(pending)
  BY <1>1, Leaves
<1>3. exec # "close" /\ ~Views(sent) BY <1>1 DEF PurchaseInv, Calm
<1>4. CASE \E k \in {"view", "confirm"} : pending = << <<k, lastId>> >>
  <2>1. PICK k : k \in {"view", "confirm"} /\ pending = << <<k, lastId>> >> BY <1>4
  <2>2. Head(pending) = <<k, lastId>> /\ Tail(pending) = <<>> BY <2>1
  <2>3. kind = k /\ Head(pending)[2] = lastId BY <1>1, <2>2
  <2> QED BY <1>1, <1>2, <1>3, <2>1, <2>2, <2>3
<1>5. CASE lastWindow \in {0, lastId} /\ \A e \in Range(pending) : ~Opening(e)
  <2>1. kind \notin {"view", "confirm"} BY <1>1, <1>2, <1>5 DEF Opening
  <2> QED BY <1>2, <1>3, <1>5, <2>1
<1> QED BY <1>4, <1>5 DEF PurchaseInv

LEMMA PurchaseEventKeeps ==
  ASSUME PurchaseInv,
         Purchase!OpenScreen \/ Purchase!ContainerClose \/ Purchase!Failure \/ Purchase!Grace
  PROVE  PurchaseInv'
<1> USE DEF Purchase!game, Purchase!bot, Purchase!flags
<1>0. Purchase!TypeOK BY DEF PurchaseInv
<1>1. PICK kind : /\ Purchase!Event(kind)
                  /\ \/ Purchase!OpenScreen /\ kind \in {"view", "confirm"}
                        /\ lastWindow' = Head(pending)[2]
                        /\ Purchase!Becomes(Head(pending)[2], kind)
                     \/ Purchase!ContainerClose /\ kind = "close"
                     \/ Purchase!Failure /\ kind = "fail"
                     \/ Purchase!Grace /\ kind = "grace"
  BY DEF Purchase!OpenScreen, Purchase!ContainerClose, Purchase!Failure, Purchase!Grace
<1>2. /\ pending' \in Seq(PurchaseEvent) /\ exec # "close" /\ ~Views(sent)
      /\ kind \in {"view", "confirm"} => pending' = <<>> /\ Head(pending)[2] = lastId
      /\ kind \notin {"view", "confirm"} =>
            lastWindow \in {0, lastId} /\ \A e \in Range(pending') : ~Opening(e)
  BY <1>1, PurchaseEvents
<1>3. UNCHANGED <<offer, shown, lastId, fastBuy, fast, exec, begun, byHand>>
  BY <1>1 DEF Purchase!OpenScreen, Purchase!ContainerClose, Purchase!Failure, Purchase!Grace
<1>w. lastId \in Purchase!Window /\ lastWindow \in Purchase!Window \cup {0}
      /\ spam \in Purchase!Window \cup {0}
  BY <1>0 DEF Purchase!TypeOK
<1>4. PurchaseSent
  <2>1. CASE UNCHANGED sent BY <2>1, PurchaseStill
  <2>2. CASE Purchase!Failure /\ lastWindow # 0 /\ Purchase!SendClose(lastWindow)
    BY <2>2, <1>w, PurchaseCloses
  <2> QED BY <1>1, <2>1, <2>2
     DEF Purchase!OpenScreen, Purchase!ContainerClose, Purchase!Failure, Purchase!Grace
<1>5. /\ handler' \in [Purchase!Window -> WindowTask]
      /\ \A w \in Purchase!Window : handler'[w].pc \in {"view", "slot"} => w = lastId
  <2>1. CASE UNCHANGED handler
    BY <2>1, <1>0 DEF PurchaseInv, Purchase!TypeOK, WindowTask
  <2>2. CASE kind \in {"view", "confirm"} /\ Purchase!Becomes(Head(pending)[2], kind)
    <3>1. kind \in {"none", "view", "slot", "bed", "confirm", "retry"} /\ Purchase!Becomes(lastId, kind)
      BY <1>2, <2>2
    <3>2. /\ handler' \in [Purchase!Window -> WindowTask]
          /\ handler'[lastId].pc = kind
          /\ \A v \in Purchase!Window : v # lastId => handler'[v] = handler[v]
      BY <1>0, <1>w, <3>1, PurchaseBecomes
    <3> QED BY <3>2 DEF PurchaseInv
  <2> QED BY <1>1, <2>1, <2>2
     DEF Purchase!ContainerClose, Purchase!Failure, Purchase!Grace
<1>6. lastWindow' \in {0, lastId} /\ \A e \in Range(pending') : ~Opening(e)
  <2>1. CASE kind \in {"view", "confirm"}
    <3>1. pending' = <<>> /\ lastWindow' = lastId BY <1>1, <1>2, <2>1
    <3>2. Range(pending') = {} BY <3>1, EmptyLine
    <3> QED BY <3>1, <3>2
  <2>2. CASE kind \notin {"view", "confirm"}
    <3>1. lastWindow' \in {0, lastWindow}
      BY <1>1, <2>2 DEF Purchase!ContainerClose, Purchase!Failure, Purchase!Grace, Purchase!SendClose
    <3> QED BY <1>2, <2>2, <3>1
  <2> QED BY <2>1, <2>2
<1>7. /\ botState' \in {"Idle", "Purchasing"} /\ spam' \in Purchase!Window \cup {0}
      /\ skipSent' \in BOOLEAN /\ bed' \in BOOLEAN /\ dog' \in 0..MaxCommands
  <2>1. CASE Purchase!OpenScreen BY <1>0, <2>1 DEF Purchase!OpenScreen, Purchase!TypeOK
  <2>2. CASE Purchase!ContainerClose BY <1>0, <2>2 DEF Purchase!ContainerClose, Purchase!TypeOK
  <2>3. CASE Purchase!Failure BY <1>0, <2>3 DEF Purchase!Failure, Purchase!TypeOK
  <2>4. CASE Purchase!Grace BY <1>0, <2>4 DEF Purchase!Grace, Purchase!TypeOK
  <2> QED BY <1>1, <2>1, <2>2, <2>3, <2>4
<1>8. Purchase!TypeOK'
  BY <1>0, <1>2, <1>3, <1>4, <1>5, <1>6, <1>7, <1>w
     DEF Purchase!TypeOK, PurchaseEvent, WindowTask, PurchaseSent
<1>9. ~Views(sent') /\ exec' # "close" BY <1>2, <1>3, <1>4 DEF PurchaseSent
<1>10. shown'.kind # "none" => shown'.id = lastId' BY <1>3 DEF PurchaseInv
<1>11. \A c \in Purchase!Command : fast'[c].pc \in {"title", "slot"} => fast'[c].win = lastId'
  BY <1>3 DEF PurchaseInv
<1> QED BY <1>3, <1>4, <1>5, <1>6, <1>8, <1>9, <1>10, <1>11
     DEF PurchaseInv, Views, OneView, Closing, Opening, PurchaseSent

(* The game: it answers when nothing is left to be handled, and opens a     *)
(* window when nobody looks at the last one.                                *)
ShownWindow ==
    {Purchase!None} \cup [kind : {"view"}, id : Purchase!Window, auction : Lots, loaded : BOOLEAN]
                    \cup [kind : {"confirm"}, id : Purchase!Window, auction : Lots]

LEMMA PurchaseOpens ==
  ASSUME Purchase!TypeOK, pending = <<>>,
         NEW win \in ShownWindow, win.kind # "none", Purchase!Opens(win)
  PROVE  /\ lastId' \in Purchase!Window /\ shown' = win /\ shown'.id = lastId'
         /\ pending' \in Seq(PurchaseEvent)
         /\ \E k \in {"view", "confirm"} : pending' = << <<k, lastId'>> >>
         /\ fast' \in [Purchase!Command -> FastTask]
         /\ \A c \in Purchase!Command :
               fast'[c].pc \in {"title", "slot"} => fast'[c].win = lastId' \/ fast[c].pc \in {"title", "slot"}
<1>1. win.id \in Purchase!Window /\ win.kind \in {"view", "confirm"}
  BY DEF ShownWindow, Purchase!None
<1>2. /\ shown' = win /\ lastId' = win.id
      /\ pending' = Append(pending, <<win.kind, win.id>>)
      /\ fast' = [c \in Purchase!Command |->
                    IF fast[c].pc = "wait" THEN [pc |-> "title", win |-> win.id] ELSE fast[c]]
  BY DEF Purchase!Opens
<1>3. pending' = << <<win.kind, lastId'>> >> BY <1>2
<1>4. <<win.kind, lastId'>> \in PurchaseEvent BY <1>1, <1>2 DEF PurchaseEvent
<1>5. pending' \in Seq(PurchaseEvent) BY <1>3, <1>4
<1>6. fast \in [Purchase!Command -> FastTask] BY DEF Purchase!TypeOK, FastTask
<1>7. [pc |-> "title", win |-> win.id] \in FastTask BY <1>1 DEF FastTask
<1>8. fast' \in [Purchase!Command -> FastTask] BY <1>2, <1>6, <1>7
<1>9. \A c \in Purchase!Command :
         fast'[c].pc \in {"title", "slot"} => fast'[c].win = lastId' \/ fast[c].pc \in {"title", "slot"}
  BY <1>2
<1> QED BY <1>1, <1>2, <1>3, <1>5, <1>8, <1>9

(* What an answer has to show.                                              *)
LEMMA PurchaseAnswerKeeps ==
  ASSUME PurchaseInv, Purchase!Game, PurchaseSent,
         offer' \in [Lots -> {"bed", "gold_nugget", "potato"}], shown' \in ShownWindow,
         lastId' \in Purchase!Window, pending' \in Seq(PurchaseEvent),
         fast' \in [Purchase!Command -> FastTask],
         shown'.kind # "none" => shown'.id = lastId',
         \/ \E k \in {"view", "confirm"} : pending' = << <<k, lastId'>> >>
         \/ lastWindow \in {0, lastId'} /\ \A e \in Range(pending') : ~Opening(e),
         \A c \in Purchase!Command : fast'[c].pc \in {"title", "slot"} => fast'[c].win = lastId',
         \A w \in Purchase!Window : handler[w].pc \in {"view", "slot"} => w = lastId',
         exec = "close" \/ Views(sent') => Calm',
         exec = "close" => Closing(sent')
  PROVE  PurchaseInv'
<1> USE DEF Purchase!bot, Purchase!flags
<1>0. Purchase!TypeOK BY DEF PurchaseInv
<1>1. UNCHANGED <<botState, lastWindow, fastBuy, skipSent, bed, spam, handler, dog, exec, begun,
                  byHand>>
  BY DEF Purchase!Game
<1>2. Purchase!TypeOK'
  BY <1>0, <1>1 DEF Purchase!TypeOK, ShownWindow, PurchaseEvent, FastTask, PurchaseSent
<1>3. exec' = "close" => lastWindow' = 0 /\ Closing(sent') BY <1>1 DEF PurchaseInv
<1>4. exec' = "close" \/ Views(sent') => Calm' BY <1>1
<1>5. \/ \E k \in {"view", "confirm"} : pending' = << <<k, lastId'>> >>
      \/ lastWindow' \in {0, lastId'} /\ \A e \in Range(pending') : ~Opening(e)
  BY <1>1
<1>6. \A w \in Purchase!Window : handler'[w].pc \in {"view", "slot"} => w = lastId' BY <1>1
<1> QED BY <1>2, <1>3, <1>4, <1>5, <1>6
     DEF PurchaseInv, Views, OneView, Closing, Opening, Calm, PurchaseSent

LEMMA PurchaseGameKeeps ==
  ASSUME PurchaseInv, Purchase!Game
  PROVE  PurchaseInv'
<1>0. Purchase!TypeOK BY DEF PurchaseInv
<1> DEFINE p == Head(sent)
<1>1. sent \in Seq(Purchase!Packet) /\ sent # <<>> /\ OneView(sent) /\ Purchase!Settled
      /\ Purchase!Answer(p) /\ sent' = Tail(sent)
  <2>1. sent \in Seq(Purchase!Packet) BY <1>0 DEF Purchase!TypeOK
  <2>2. OneView(sent) BY DEF PurchaseInv
  <2>3. sent # <<>> /\ Purchase!Settled /\ Purchase!Answer(p) /\ sent' = Tail(sent)
    BY DEF Purchase!Game
  <2> HIDE DEF p
  <2> QED BY <2>1, <2>2, <2>3
<1>2. p \in Purchase!Packet /\ p \in Range(sent) /\ sent' \in Seq(Purchase!Packet)
      /\ Range(sent') \subseteq Range(sent)
  BY <1>1, Leaves DEF Purchase!TypeOK
<1>3. /\ OneView(sent') /\ (p.op = "view" => ~Views(sent'))
      /\ (p.op \notin {"view", "close"} => ~Views(sent))
  BY <1>1, OneViewLeaves
<1> HIDE DEF p
<1>4. PurchaseSent /\ (exec = "close" => Closing(sent'))
  BY <1>2, <1>3 DEF PurchaseSent, Views, Closing, PurchaseInv
<1>5. p.op = "view" => exec # "close" /\ Calm
  BY <1>2 DEF Views, Closing, PurchaseInv
<1>6. p.op # "close" => exec # "close" /\ ~Views(sent')
  BY <1>2, <1>3, <1>4 DEF Views, Closing, PurchaseInv, PurchaseSent
<1>7. pending = <<>> /\ UNCHANGED <<lastWindow, handler, exec>>
  BY <1>1 DEF Purchase!Settled, Purchase!Game, Purchase!bot
<1>8. lastWindow \in {0, lastId}
  <2>1. \A k : pending # << <<k, lastId>> >> BY <1>7
  <2> QED BY <2>1 DEF PurchaseInv
<1>t. /\ offer \in [Lots -> {"bed", "gold_nugget", "potato"}] /\ shown \in ShownWindow
      /\ lastId \in Purchase!Window /\ fast \in [Purchase!Command -> FastTask]
      /\ Purchase!None \in ShownWindow /\ Purchase!None.kind = "none"
      /\ Purchase!NextId(lastId) \in Purchase!Window
  <2>1. lastId \in Purchase!Window BY <1>0 DEF Purchase!TypeOK
  <2> QED BY <1>0, <2>1, PurchasePackets DEF Purchase!TypeOK, ShownWindow, FastTask, Purchase!None
<1>u. /\ shown.kind # "none" => shown.id = lastId
      /\ \A c \in Purchase!Command : fast[c].pc \in {"title", "slot"} => fast[c].win = lastId
      /\ \A w \in Purchase!Window : handler[w].pc \in {"view", "slot"} => w = lastId
  BY DEF PurchaseInv
<1>v. /\ <<>> \in Seq(PurchaseEvent) /\ Range(<<>>) = {} BY EmptyLine
<1>s. ASSUME NEW e \in {"fail", "grace"}, Purchase!Says(e), p.op # "close" PROVE PurchaseInv'
  <2> DEFINE x == <<e, 0>>
  <2>1. x \in PurchaseEvent /\ ~Opening(x) BY DEF PurchaseEvent, Opening
  <2>2. pending' = Append(pending, x) /\ UNCHANGED <<shown, lastId, fast, offer>>
    BY <1>s DEF Purchase!Says
  <2> HIDE DEF x
  <2>3. pending' \in Seq(PurchaseEvent) /\ Range(pending') = {x}
    <3>1. pending \in Seq(PurchaseEvent) /\ Range(pending) = {} BY <1>7, <1>v
    <3>2. Range(pending') = Range(pending) \cup {x} /\ pending' \in Seq(PurchaseEvent)
      BY <2>1, <2>2, <3>1, Joins
    <3> QED BY <3>1, <3>2
  <2> QED BY <1>s, <1>4, <1>6, <1>8, <1>t, <1>u, <2>1, <2>2, <2>3, PurchaseAnswerKeeps
<1>9. CASE Purchase!Silent
  <2>1. pending' = <<>> /\ UNCHANGED <<shown, lastId, fast, offer>> BY <1>7, <1>9 DEF Purchase!Silent
  <2>2. exec = "close" \/ Views(sent') => Calm'
    BY <1>4, <1>7, <2>1 DEF PurchaseInv, PurchaseSent, Calm
  <2> QED BY <1>4, <1>8, <1>t, <1>u, <1>v, <2>1, <2>2, PurchaseAnswerKeeps
<1>10. CASE p.op = "view" /\ \E l \in BOOLEAN :
              Purchase!Opens([kind |-> "view", id |-> Purchase!NextId(lastId),
                              auction |-> p.auction, loaded |-> l])
            /\ UNCHANGED offer
  <2>1. PICK l \in BOOLEAN : Purchase!Opens([kind |-> "view", id |-> Purchase!NextId(lastId),
                                             auction |-> p.auction, loaded |-> l])
    BY <1>10
  <2> DEFINE win == [kind |-> "view", id |-> Purchase!NextId(lastId), auction |-> p.auction, loaded |-> l]
  <2>2. p.auction \in Lots BY <1>2, <1>10 DEF Purchase!Packet
  <2>3. win \in ShownWindow /\ win.kind = "view" /\ Purchase!Opens(win)
    BY <1>t, <2>1, <2>2 DEF ShownWindow
  <2> HIDE DEF win
  <2>4. /\ lastId' \in Purchase!Window /\ shown' = win /\ shown'.id = lastId'
        /\ pending' \in Seq(PurchaseEvent)
        /\ \E k \in {"view", "confirm"} : pending' = << <<k, lastId'>> >>
        /\ fast' \in [Purchase!Command -> FastTask]
        /\ \A c \in Purchase!Command :
              fast'[c].pc \in {"title", "slot"} => fast'[c].win = lastId' \/ fast[c].pc \in {"title", "slot"}
    BY <1>0, <1>7, <2>3, PurchaseOpens
  <2>5. /\ \A c \in Purchase!Command : fast[c].pc \notin {"title", "slot"}
        /\ \A w \in Purchase!Window : handler[w].pc \notin {"view", "slot"}
    BY <1>5, <1>10 DEF Calm
  <2>6. \A c \in Purchase!Command : fast'[c].pc \in {"title", "slot"} => fast'[c].win = lastId'
    BY <2>4, <2>5
  <2>7. \A w \in Purchase!Window : handler[w].pc \in {"view", "slot"} => w = lastId' BY <2>5
  <2>8. p.op # "close" /\ offer' = offer /\ shown' \in ShownWindow
        /\ (shown'.kind # "none" => shown'.id = lastId')
    BY <1>10, <2>3, <2>4
  <2> QED BY <1>4, <1>6, <1>t, <2>4, <2>6, <2>7, <2>8, PurchaseAnswerKeeps
<1>11. CASE p.op = "view" /\ Purchase!Says("fail") BY <1>11, <1>s
<1>12. CASE p.op = "buy" /\ Purchase!Says("grace") BY <1>12, <1>s
<1>13. CASE /\ p.op = "buy" /\ Purchase!Shows(p.win, "view") /\ shown.loaded
            /\ Purchase!Opens([kind |-> "confirm", id |-> Purchase!NextId(lastId),
                               auction |-> shown.auction])
            /\ UNCHANGED offer
  <2> DEFINE win == [kind |-> "confirm", id |-> Purchase!NextId(lastId), auction |-> shown.auction]
  <2>2. shown.kind = "view" /\ shown.auction \in Lots /\ Purchase!Loaded
    <3>1. shown.kind = "view" /\ Purchase!Loaded
      BY <1>13 DEF Purchase!Shows, Purchase!Is, Purchase!Loaded
    <3> QED BY <1>t, <3>1 DEF ShownWindow, Purchase!None
  <2>3. win \in ShownWindow /\ win.kind = "confirm" /\ Purchase!Opens(win)
    BY <1>t, <1>13, <2>2 DEF ShownWindow
  <2> HIDE DEF win
  <2>4. /\ lastId' \in Purchase!Window /\ shown' = win /\ shown'.id = lastId'
        /\ pending' \in Seq(PurchaseEvent)
        /\ \E k \in {"view", "confirm"} : pending' = << <<k, lastId'>> >>
        /\ fast' \in [Purchase!Command -> FastTask]
        /\ \A c \in Purchase!Command :
              fast'[c].pc \in {"title", "slot"} => fast'[c].win = lastId' \/ fast[c].pc \in {"title", "slot"}
    BY <1>0, <1>7, <2>3, PurchaseOpens
  <2>5. /\ \A c \in Purchase!Command : fast[c].pc \notin {"title", "slot"}
        /\ \A w \in Purchase!Window : handler[w].pc \notin {"view", "slot"}
    BY <1>1, <2>2 DEF Purchase!Settled
  <2>6. \A c \in Purchase!Command : fast'[c].pc \in {"title", "slot"} => fast'[c].win = lastId'
    BY <2>4, <2>5
  <2>7. \A w \in Purchase!Window : handler[w].pc \in {"view", "slot"} => w = lastId' BY <2>5
  <2>8. p.op # "close" /\ offer' = offer /\ shown' \in ShownWindow
        /\ (shown'.kind # "none" => shown'.id = lastId')
    BY <1>13, <2>3, <2>4
  <2> QED BY <1>4, <1>6, <1>t, <2>4, <2>6, <2>7, <2>8, PurchaseAnswerKeeps
<1>14. CASE /\ p.op = "confirm" /\ shown' = Purchase!None
            /\ pending' = pending \o (IF offer[shown.auction] = "potato"
                                      THEN << <<"fail", 0>>, <<"close", 0>> >> ELSE << <<"close", 0>> >>)
            /\ offer' = [offer EXCEPT ![shown.auction] = "potato"]
            /\ UNCHANGED <<lastId, fast>>
  <2>1. pending' \in {<< <<"fail", 0>>, <<"close", 0>> >>, << <<"close", 0>> >>} BY <1>7, <1>14
  <2> DEFINE f == <<"fail", 0>>
             c == <<"close", 0>>
  <2>2. f \in PurchaseEvent /\ c \in PurchaseEvent /\ ~Opening(f) /\ ~Opening(c)
    BY DEF PurchaseEvent, Opening
  <2>3. pending' = <<f, c>> \/ pending' = <<c>> BY <2>1
  <2> HIDE DEF f, c
  <2>4. pending' \in Seq(PurchaseEvent) /\ \A e \in Range(pending') : ~Opening(e)
    <3>1. <<f, c>> \in Seq(PurchaseEvent) /\ <<c>> \in Seq(PurchaseEvent) BY <2>2
    <3>2. DOMAIN <<f, c>> = 1..2 /\ <<f, c>>[1] = f /\ <<f, c>>[2] = c
          /\ DOMAIN <<c>> = 1..1 /\ <<c>>[1] = c
      OBVIOUS
    <3>3. (\A i \in 1..2 : i = 1 \/ i = 2) /\ (\A i \in 1..1 : i = 1) OBVIOUS
    <3>4. Range(<<f, c>>) \subseteq {f, c} /\ Range(<<c>>) \subseteq {c} BY <3>2, <3>3 DEF Range
    <3> QED BY <2>2, <2>3, <3>1, <3>4
  <2>5. offer' \in [Lots -> {"bed", "gold_nugget", "potato"}] BY <1>t, <1>14
  <2>6. p.op # "close" /\ shown' \in ShownWindow /\ shown'.kind = "none"
        /\ lastId' = lastId /\ fast' = fast
    BY <1>t, <1>14
  <2> QED BY <1>4, <1>6, <1>8, <1>t, <1>u, <2>4, <2>5, <2>6, PurchaseAnswerKeeps
<1>15. CASE p.op = "close" /\ shown' = Purchase!None /\ UNCHANGED <<lastId, pending, fast, offer>>
  <2>1. pending' = <<>> /\ UNCHANGED <<lastId, fast, offer>> /\ shown' \in ShownWindow
        /\ shown'.kind = "none"
    BY <1>7, <1>15, <1>t
  <2>2. exec = "close" \/ Views(sent') => Calm'
    BY <1>4, <1>7, <2>1 DEF PurchaseInv, PurchaseSent, Calm
  <2> QED BY <1>4, <1>8, <1>t, <1>u, <1>v, <2>1, <2>2, PurchaseAnswerKeeps
<1>16. \/ Purchase!Silent
       \/ p.op = "view" /\ UNCHANGED offer
          /\ \/ \E l \in BOOLEAN : Purchase!Opens([kind |-> "view", id |-> Purchase!NextId(lastId),
                                                   auction |-> p.auction, loaded |-> l])
             \/ Purchase!Says("fail")
       \/ /\ p.op = "buy" /\ Purchase!Shows(p.win, "view") /\ shown.loaded
          /\ \/ Purchase!Opens([kind |-> "confirm", id |-> Purchase!NextId(lastId),
                                auction |-> shown.auction]) /\ UNCHANGED offer
             \/ Purchase!Says("grace")
       \/ /\ p.op = "confirm" /\ shown' = Purchase!None
          /\ pending' = pending \o (IF offer[shown.auction] = "potato"
                                    THEN << <<"fail", 0>>, <<"close", 0>> >> ELSE << <<"close", 0>> >>)
          /\ offer' = [offer EXCEPT ![shown.auction] = "potato"]
          /\ UNCHANGED <<lastId, fast>>
       \/ p.op = "close" /\ shown' = Purchase!None /\ UNCHANGED <<lastId, pending, fast, offer>>
  BY <1>1 DEF Purchase!Answer
<1> QED BY <1>9, <1>10, <1>11, <1>12, <1>13, <1>14, <1>15, <1>16

LEMMA PurchaseInit == Purchase!Init => PurchaseInv
<1> SUFFICES ASSUME Purchase!Init PROVE PurchaseInv OBVIOUS
<1>1. sent = <<>> /\ pending = <<>> /\ shown = Purchase!None /\ lastWindow = 0 /\ exec = "none"
      /\ lastId = MaxWindow /\ fast = [c \in Purchase!Command |-> [pc |-> "none", win |-> 0]]
      /\ handler = [w \in Purchase!Window |-> [pc |-> "none", tries |-> 0]]
  BY DEF Purchase!Init
<1>2. MaxWindow \in Purchase!Window /\ 0 \in 0..MaxCommands /\ 0 \in 0..MaxByHand
      /\ 0 \in 0..MaxConfirmRetries
  BY PartsAssumption DEF Purchase!Window
<1>3. /\ \A S : sent \in Seq(S) /\ pending \in Seq(S)
      /\ Range(sent) = {} /\ Range(pending) = {} /\ Len(sent) = 0
  BY <1>1, EmptyLine
<1>4. Purchase!TypeOK
  <2>1. /\ fast \in [Purchase!Command -> [pc : {"none", "wait", "title", "slot", "mark"},
                                           win : Purchase!Window \cup {0}]]
        /\ handler \in [Purchase!Window -> [pc : {"none", "view", "slot", "bed", "confirm", "retry"},
                                             tries : 0..MaxConfirmRetries]]
    BY <1>1, <1>2
  <2>2. /\ offer \in [Lots -> {"bed", "gold_nugget", "potato"}]
        /\ botState = "Idle" /\ fastBuy = FALSE /\ skipSent = FALSE /\ bed = FALSE /\ spam = 0
        /\ dog = 0 /\ begun = 0 /\ byHand = 0
    BY DEF Purchase!Init
  <2> QED BY <1>1, <1>2, <1>3, <2>1, <2>2 DEF Purchase!TypeOK
<1>5. shown.kind = "none" BY <1>1 DEF Purchase!None
<1> QED BY <1>1, <1>3, <1>4, <1>5 DEF PurchaseInv, Views, OneView

LEMMA PurchaseNext ==
  ASSUME PurchaseInv, [Purchase!Next]_(Purchase!vars)
  PROVE  PurchaseInv'
<1>1. CASE Purchase!Begin BY <1>1, PurchaseBeginKeeps
<1>2. CASE Purchase!Execute \/ Purchase!ByHand BY <1>2, PurchaseViewKeeps
<1>3. CASE \/ Purchase!Complete \/ Purchase!Timeout \/ Purchase!Watchdog \/ Purchase!Spam
           \/ Purchase!Fills \/ Purchase!Turns \/ UNCHANGED Purchase!vars
  BY <1>3, PurchaseProcessorKeeps
<1>4. CASE \E c \in Purchase!Command :
               Purchase!FastTitle(c) \/ Purchase!FastSlot(c) \/ Purchase!FastMark(c)
  BY <1>4, PurchaseFastKeeps
<1>5. CASE \E w \in Purchase!Window : Purchase!Handle(w) BY <1>5, PurchaseHandleKeeps
<1>6. CASE \/ Purchase!OpenScreen \/ Purchase!ContainerClose \/ Purchase!Failure \/ Purchase!Grace
  BY <1>6, PurchaseEventKeeps
<1>7. CASE Purchase!Game BY <1>7, PurchaseGameKeeps
<1> QED BY <1>1, <1>2, <1>3, <1>4, <1>5, <1>6, <1>7 DEF Purchase!Next

(* What a step sends.                                                       *)
LEMMA NewOnes ==
  ASSUME NEW S, NEW s \in Seq(S), NEW t \in Seq(S),
         NEW x \in Range(SubSeq(t, Len(s) + 1, Len(t)))
  PROVE  \E i \in (Len(s) + 1)..Len(t) : x = t[i]
<1>1. Len(s) \in Nat /\ Len(t) \in Nat OBVIOUS
<1> DEFINE l == Len(s)
           r == SubSeq(t, l + 1, Len(t))
<1>2. r = [i \in 1..(Len(t) - l) |-> t[l + i]]
  <2>1. r = [i \in 1..(Len(t) - (l + 1) + 1) |-> t[(l + 1) + i - 1]] BY <1>1 DEF SubSeq
  <2>2. Len(t) - (l + 1) + 1 = Len(t) - l /\ \A i \in Int : (l + 1) + i - 1 = l + i BY <1>1
  <2> QED BY <2>1, <2>2
<1>3. PICK i \in 1..(Len(t) - l) : x = t[l + i]
  <2>1. DOMAIN r = 1..(Len(t) - l) BY <1>2
  <2> HIDE DEF r
  <2>2. x \in Range(r) BY DEF r
  <2> QED BY <1>2, <2>1, <2>2 DEF Range
<1>4. l + i \in (l + 1)..Len(t) BY <1>1
<1> QED BY <1>3, <1>4

LEMMA PurchaseSends ==
  ASSUME PurchaseInv, sent' \in Seq(Purchase!Packet), NEW q, Purchase!Sends(q)
  PROVE  /\ sent' # sent /\ (sent # <<>> => sent' # Tail(sent))
         /\ \A p \in Purchase!Packet : sent' = Append(sent, p) => q = p
         /\ \A p, r \in Purchase!Packet : sent' = sent \o <<p, r>> => q \in {p, r}
<1>0. sent \in Seq(Purchase!Packet) BY DEF PurchaseInv, Purchase!TypeOK
<1>1. \A s : Purchase!Range(s) = Range(s) BY DEF Purchase!Range, Range
<1>2. q \in Range(SubSeq(sent', Len(sent) + 1, Len(sent'))) BY <1>1 DEF Purchase!Sends
<1>3. PICK i \in (Len(sent) + 1)..Len(sent') : q = sent'[i] BY <1>0, <1>2, NewOnes
<1>4. Len(sent) \in Nat /\ Len(sent') \in Nat BY <1>0
<1>5. Len(sent') >= Len(sent) + 1 /\ i >= Len(sent) + 1 /\ i <= Len(sent') BY <1>3, <1>4
<1>6. sent' # sent BY <1>4, <1>5
<1>7. sent # <<>> => sent' # Tail(sent)
  <2> SUFFICES ASSUME sent # <<>> PROVE sent' # Tail(sent) OBVIOUS
  <2>1. Len(Tail(sent)) = Len(sent) - 1 BY <1>0, Leaves
  <2> QED BY <1>4, <1>5, <2>1
<1>8. ASSUME NEW p \in Purchase!Packet, sent' = Append(sent, p) PROVE q = p
  <2>1. Len(sent') = Len(sent) + 1 /\ sent'[Len(sent) + 1] = p BY <1>0, <1>8
  <2>2. i = Len(sent) + 1 BY <1>3, <1>4, <2>1
  <2> QED BY <1>3, <2>1, <2>2
<1>9. ASSUME NEW p \in Purchase!Packet, NEW r \in Purchase!Packet, sent' = sent \o <<p, r>>
      PROVE  q \in {p, r}
  <2>1. /\ Len(sent') = Len(sent) + 2
        /\ sent'[Len(sent) + 1] = p /\ sent'[Len(sent) + 2] = r
    BY <1>0, <1>9
  <2>2. i = Len(sent) + 1 \/ i = Len(sent) + 2 BY <1>3, <1>4, <2>1
  <2> QED BY <1>3, <2>1, <2>2
<1> QED BY <1>6, <1>7, <1>8, <1>9

LEMMA PurchaseClicksSend ==
  ASSUME PurchaseInv, sent' \in Seq(Purchase!Packet), NEW v \in Purchase!Window, Purchase!Clicks(v),
         NEW w \in Purchase!Window, Purchase!Sends(Purchase!Buy(w))
  PROVE  w = v
<1> DEFINE b == Purchase!Buy(v)
           c == Purchase!Confirm(Purchase!NextId(v))
<1>1. /\ b \in Purchase!Packet /\ b.op = "buy" /\ b.win = v
      /\ c \in Purchase!Packet /\ c.op = "confirm"
  <2>1. Purchase!NextId(v) \in Purchase!Window BY PurchasePackets
  <2> QED BY <2>1, PurchasePackets DEF Purchase!Buy
<1>2. sent' = sent \o (IF Skip THEN <<b, c>> ELSE <<b>>) BY DEF Purchase!Clicks
<1>3. sent \in Seq(Purchase!Packet) BY DEF PurchaseInv, Purchase!TypeOK
<1> HIDE DEF b, c
<1>4. sent' = sent \o <<b, c>> \/ sent' = Append(sent, b) BY <1>1, <1>2, <1>3
<1> DEFINE q == Purchase!Buy(w)
<1>5. q.op = "buy" /\ q.win = w BY DEF Purchase!Buy
<1>6. Purchase!Sends(q) OBVIOUS
<1> HIDE DEF q
<1>7. q \in {b, c} BY <1>1, <1>4, <1>6, PurchaseSends
<1> QED BY <1>1, <1>5, <1>7

\* A nugget or a bed is read in the window of an auction that is not sold.
LEMMA PurchaseSees ==
  ASSUME "gold_nugget" \in Purchase!Slot31 \/ "bed" \in Purchase!Slot31
  PROVE  Purchase!Is("view") /\ Purchase!Loaded /\ offer[shown.auction] # "potato"
BY DEF Purchase!Slot31, Purchase!Is, Purchase!Loaded

LEMMA PurchaseClickSeen ==
  ASSUME PurchaseInv, PurchaseInv', [Purchase!Next]_(Purchase!vars)
  PROVE  Purchase!ClickSeen
<1> SUFFICES ASSUME NEW w \in Purchase!Window, Purchase!Sends(Purchase!Buy(w)), pending = <<>>
             PROVE  Purchase!Shows(w, "view") /\ Purchase!Loaded /\ offer[shown.auction] # "potato"
  BY DEF Purchase!ClickSeen
<1> DEFINE q == Purchase!Buy(w)
<1>0. Purchase!TypeOK /\ sent' \in Seq(Purchase!Packet) BY DEF PurchaseInv, Purchase!TypeOK
<1>q. q.op = "buy" /\ q.win = w /\ Purchase!Sends(q) BY DEF Purchase!Buy
<1>l. lastWindow \in {0, lastId} /\ w # 0
  <2>1. \A k : pending # << <<k, lastId>> >> OBVIOUS
  <2> QED BY <2>1 DEF PurchaseInv, Purchase!Window
<1>s. /\ sent' # sent /\ (sent # <<>> => sent' # Tail(sent))
      /\ \A p \in Purchase!Packet : sent' = Append(sent, p) => q = p
  <2> HIDE DEF q
  <2> QED BY <1>0, <1>q, PurchaseSends
<1> HIDE DEF q
<1>b. ASSUME NEW v \in Purchase!Window, sent' = Append(sent, Purchase!Buy(v)) PROVE w = v
  <2>1. Purchase!Buy(v) \in Purchase!Packet /\ Purchase!Buy(v).win = v
    BY PurchasePackets DEF Purchase!Buy
  <2> QED BY <1>b, <1>q, <1>s, <2>1
<1>o. ASSUME NEW p \in Purchase!Packet, sent' = Append(sent, p), p.op # "buy" PROVE FALSE
  BY <1>o, <1>q, <1>s
<1>c. \A v \in Purchase!Window : ~Purchase!SendClose(v)
  <2> SUFFICES ASSUME NEW v \in Purchase!Window, Purchase!SendClose(v) PROVE FALSE OBVIOUS
  <2> DEFINE p == [op |-> "close", win |-> v]
  <2>1. p \in Purchase!Packet /\ p.op = "close" BY PurchasePackets
  <2>2. sent' = Append(sent, p) BY DEF Purchase!SendClose
  <2> HIDE DEF p
  <2> QED BY <1>o, <2>1, <2>2
<1>v. \A a \in Lots : sent' # Append(sent, Purchase!View(a))
  <2> SUFFICES ASSUME NEW a \in Lots, sent' = Append(sent, Purchase!View(a)) PROVE FALSE OBVIOUS
  <2>1. Purchase!View(a) \in Purchase!Packet /\ Purchase!View(a).op = "view"
    BY DEF Purchase!View, Purchase!Packet
  <2> QED BY <1>o, <2>1
<1>f. \A v \in Purchase!Window : sent' # Append(sent, Purchase!Confirm(v))
  <2> SUFFICES ASSUME NEW v \in Purchase!Window, sent' = Append(sent, Purchase!Confirm(v)) PROVE FALSE
    OBVIOUS
  <2>1. Purchase!Confirm(v) \in Purchase!Packet /\ Purchase!Confirm(v).op = "confirm"
    BY PurchasePackets
  <2> QED BY <1>o, <2>1
<1>g. \A v \in Purchase!Window : Purchase!Clicks(v) => w = v
  <2>1. Purchase!Sends(Purchase!Buy(w)) BY <1>q DEF q
  <2> QED BY <1>0, <2>1, PurchaseClicksSend
<1>k. \/ /\ w = lastId
         /\ "gold_nugget" \in Purchase!Slot31 \/ "bed" \in Purchase!Slot31
      \/ \E c \in Purchase!Command : Purchase!FastSlot(c)
  <2> USE DEF Purchase!wire, Purchase!bot
  <2>1. CASE Purchase!Begin
    <3>1. lastWindow # 0 /\ Purchase!SendClose(lastWindow) BY <1>s, <2>1 DEF Purchase!Begin
    <3> QED BY <1>0, <1>c, <3>1 DEF Purchase!TypeOK
  <2>2. CASE Purchase!Execute \/ Purchase!ByHand BY <1>v, <2>2 DEF Purchase!Execute, Purchase!ByHand
  <2>3. CASE \/ Purchase!Complete \/ Purchase!Timeout \/ Purchase!Fills \/ Purchase!Turns
             \/ UNCHANGED Purchase!vars
    BY <1>s, <2>3 DEF Purchase!Complete, Purchase!Timeout, Purchase!Fills, Purchase!Turns,
                      Purchase!vars
  <2>4. CASE Purchase!Watchdog BY <1>0, <1>c, <2>4 DEF Purchase!Watchdog, Purchase!TypeOK
  <2>5. CASE Purchase!Spam
    <3>1. /\ spam # 0 /\ lastWindow = spam /\ "gold_nugget" \in Purchase!Slot31
          /\ sent' = Append(sent, Purchase!Buy(spam))
      BY <1>s, <2>5 DEF Purchase!Spam
    <3>2. spam \in Purchase!Window BY <1>0, <3>1 DEF Purchase!TypeOK
    <3> QED BY <1>b, <1>l, <3>1, <3>2
  <2>6. CASE \E c \in Purchase!Command :
                 Purchase!FastTitle(c) \/ Purchase!FastSlot(c) \/ Purchase!FastMark(c)
    BY <1>s, <2>6 DEF Purchase!FastTitle, Purchase!FastMark
  <2>7. ASSUME NEW v \in Purchase!Window, Purchase!Handle(v)
        PROVE  w = lastId /\ ("gold_nugget" \in Purchase!Slot31 \/ "bed" \in Purchase!Slot31)
    <3>1. CASE Purchase!ViewBegins(v) \/ Purchase!SeesBed(v) \/ Purchase!SeesNothing(v)
      BY <1>s, <3>1 DEF Purchase!ViewBegins, Purchase!SeesBed, Purchase!SeesNothing
    <3>2. CASE Purchase!SeesNugget(v)
      <4>1. v = lastId BY <3>2 DEF Purchase!SeesNugget, PurchaseInv
      <4> QED BY <1>s, <1>g, <3>2, <4>1 DEF Purchase!SeesNugget
    <3>3. CASE Purchase!SeesOther(v) BY <1>s, <1>c, <3>3 DEF Purchase!SeesOther
    <3>4. CASE Purchase!BedClick(v)
      BY <1>b, <1>l, <3>4 DEF Purchase!BedClick, Purchase!BedMayClick
    <3>5. CASE Purchase!BedNugget(v)
      BY <1>b, <1>l, <1>s, <3>5 DEF Purchase!BedNugget, Purchase!BedMayClick
    <3>6. CASE Purchase!BedEnds(v) \/ Purchase!ConfirmEnds(v)
      BY <1>c, <3>6 DEF Purchase!BedEnds, Purchase!ConfirmEnds
    <3>7. CASE Purchase!ConfirmBegins(v) \/ Purchase!ConfirmRetries(v)
      BY <1>f, <1>s, <3>7 DEF Purchase!ConfirmBegins, Purchase!ConfirmRetries
    <3> QED BY <2>7, <3>1, <3>2, <3>3, <3>4, <3>5, <3>6, <3>7 DEF Purchase!Handle
  <2>8. CASE Purchase!OpenScreen \/ Purchase!ContainerClose \/ Purchase!Failure \/ Purchase!Grace
    BY <2>8 DEF Purchase!OpenScreen, Purchase!ContainerClose, Purchase!Failure, Purchase!Grace,
                Purchase!Event
  <2>9. CASE Purchase!Game BY <1>s, <2>9 DEF Purchase!Game
  <2> QED BY <2>1, <2>2, <2>3, <2>4, <2>5, <2>6, <2>7, <2>8, <2>9 DEF Purchase!Next
<1>h. /\ w = lastId
      /\ "gold_nugget" \in Purchase!Slot31 \/ "bed" \in Purchase!Slot31
  <2>1. ASSUME NEW c \in Purchase!Command, Purchase!FastSlot(c)
        PROVE  w = lastId /\ "gold_nugget" \in Purchase!Slot31
    <3>1. "gold_nugget" \in Purchase!Slot31 /\ Purchase!Clicks(fast[c].win)
      BY <1>s, <2>1 DEF Purchase!FastSlot
    <3>2. fast[c].win = lastId /\ lastId \in Purchase!Window
      BY <2>1, <1>0 DEF PurchaseInv, Purchase!FastSlot, Purchase!TypeOK
    <3> QED BY <1>g, <3>1, <3>2
  <2> QED BY <1>k, <2>1
<1>i. Purchase!Is("view") /\ Purchase!Loaded /\ offer[shown.auction] # "potato" BY <1>h, PurchaseSees
<1>j. shown.id = lastId BY <1>i DEF Purchase!Is, PurchaseInv
<1> QED BY <1>h, <1>i, <1>j DEF Purchase!Shows

-----------------------------------------------------------------------------
(* Listings. *)

ListingSlot ==
    {"manage", "create", "bin", "next", "sign", "confirm", "preview", "price"} \cup Goods
ListingPacket ==
    [op : {"ah"}] \cup [op : {"sign"}, text : Listing!Number]
    \cup [op : {"click"}, win : Listing!Window, slot : ListingSlot]
    \cup [op : {"close"}, win : Listing!Window]
ListingEvent ==
    ({"open"} \X Listing!Window \X Listing!Pages) \cup {<<"sign">>, <<"stuck">>, <<"started">>}
ListingTask ==
    [pc : {"none", "start", "item", "place", "price", "click", "done"},
     page : Listing!Pages \cup {"none"}, item : Goods \cup {Listing!Nobody}]

\* While the bot sells, the fields are those of a command, the slot is not
\* blocked, and the count of stuck items leaves room for one more.
ListingInv ==
    /\ Listing!TypeOK
    /\ sent \in Seq(ListingPacket) /\ pending \in Seq(ListingEvent)
    /\ handler \in [Listing!Window -> ListingTask]
    /\ asked \in [Listing!Command -> Goods]
    /\ \A w \in Listing!Window :
          /\ handler[w].pc # "none" => field # 0 /\ handler[w].page \in Listing!Pages
          /\ handler[w].pc = "place" => handler[w].item \in Goods
    /\ shown.page = "sure" => slot.item \in Goods
    /\ exec = "close" => begun # 0 /\ ~blocked
    /\ botState = "Selling" => field # 0 /\ exec = "poll" /\ ~blocked
    /\ blocked \/ stuck <= MaxStuckRetries

LEMMA ListingPackets ==
  /\ Listing!Ah \in ListingPacket
  /\ \A n \in Listing!Number : [op |-> "sign", text |-> n] \in ListingPacket
  /\ \A w \in Listing!Window :
        /\ \A s \in ListingSlot : Listing!Click(w, s) \in ListingPacket
        /\ Listing!Close(w) \in ListingPacket
        /\ Listing!NextId(w) \in Listing!Window
BY PartsAssumption DEF ListingPacket, Listing!Ah, Listing!Click, Listing!Close, Listing!Window,
   Listing!NextId

LEMMA ListingJoins ==
  ASSUME ListingInv, NEW p \in ListingPacket, sent' = Append(sent, p)
  PROVE  sent' \in Seq(ListingPacket)
BY DEF ListingInv

LEMMA ListingCloses ==
  ASSUME ListingInv, NEW w \in Listing!Window, Listing!SendClose(w)
  PROVE  sent' \in Seq(ListingPacket) /\ lastWindow' \in 0..MaxWindow
<1>1. Listing!Close(w) \in ListingPacket /\ sent' = Append(sent, Listing!Close(w)) /\ lastWindow' = 0
  BY ListingPackets DEF Listing!SendClose
<1>2. 0 \in 0..MaxWindow BY PartsAssumption
<1> QED BY <1>1, <1>2, ListingJoins

LEMMA ListingClicks ==
  ASSUME ListingInv, NEW w \in Listing!Window, NEW s \in ListingSlot, Listing!ClickIfCurrent(w, s)
  PROVE  sent' \in Seq(ListingPacket)
<1>1. Listing!Click(w, s) \in ListingPacket BY ListingPackets
<1>2. CASE lastWindow = w
  <2>1. sent' = Append(sent, Listing!Click(w, s)) BY <1>2 DEF Listing!ClickIfCurrent
  <2> QED BY <1>1, <2>1, ListingJoins
<1>3. CASE lastWindow # w
  <2>1. sent' = sent BY <1>3 DEF Listing!ClickIfCurrent
  <2> QED BY <2>1 DEF ListingInv
<1> QED BY <1>2, <1>3

LEMMA ListingWindow ==
  ASSUME ListingInv
  PROVE  /\ lastWindow # 0 => lastWindow \in Listing!Window
         /\ lastWindow \in 0..MaxWindow /\ 0 \in 0..MaxWindow /\ Listing!Window \subseteq 0..MaxWindow
BY PartsAssumption DEF ListingInv, Listing!TypeOK, Listing!Window

(* What a handler becomes.                                                  *)
ListingTasks ==
    /\ handler' \in [Listing!Window -> ListingTask]
    /\ \A v \in Listing!Window : handler'[v].pc # "none" => handler'[v].page \in Listing!Pages
                                 /\ (handler'[v].pc = "place" => handler'[v].item \in Goods)
    /\ \A v \in Listing!Window : handler'[v].pc # "none" => field # 0

LEMMA ListingEnds ==
  ASSUME ListingInv, NEW w \in Listing!Window, Listing!Ends(w)
  PROVE  ListingTasks
<1>1. Listing!Off \in ListingTask /\ Listing!Off.pc = "none" BY DEF Listing!Off, ListingTask
<1>2. handler' = [handler EXCEPT ![w] = Listing!Off] BY DEF Listing!Ends
<1>3. handler \in [Listing!Window -> ListingTask] BY DEF ListingInv
<1>4. handler' \in [Listing!Window -> ListingTask] /\ handler'[w].pc = "none"
      /\ \A v \in Listing!Window : v # w => handler'[v] = handler[v]
  BY <1>1, <1>2, <1>3
<1> QED BY <1>4 DEF ListingInv, ListingTasks

LEMMA ListingBecomes ==
  ASSUME ListingInv, NEW w \in Listing!Window, handler[w].pc # "none",
         NEW pc \in {"item", "price", "click", "done"}, Listing!Becomes(w, pc)
  PROVE  ListingTasks
<1>1. handler' = [handler EXCEPT ![w].pc = pc] BY DEF Listing!Becomes
<1>2. handler \in [Listing!Window -> ListingTask] BY DEF ListingInv
<1>3. handler' \in [Listing!Window -> ListingTask] /\ handler'[w].page = handler[w].page
      /\ handler'[w].pc # "place" /\ \A v \in Listing!Window : v # w => handler'[v] = handler[v]
  BY <1>1, <1>2 DEF ListingTask
<1> QED BY <1>3 DEF ListingInv, ListingTasks

LEMMA ListingPlaces ==
  ASSUME ListingInv, NEW w \in Listing!Window, handler[w].pc # "none", Listing!ToPlace(w)
  PROVE  ListingTasks
<1>1. field \in Listing!Command
  BY PartsAssumption DEF ListingInv, Listing!TypeOK, Listing!Number, Listing!Command
<1>2. asked[field] \in Goods BY <1>1 DEF ListingInv
<1>3. handler' = [handler EXCEPT ![w].pc = "place", ![w].item = asked[field]] BY DEF Listing!ToPlace
<1>4. handler \in [Listing!Window -> ListingTask] BY DEF ListingInv
<1>5. handler' \in [Listing!Window -> ListingTask] /\ handler'[w].page = handler[w].page
      /\ handler'[w].item \in Goods /\ \A v \in Listing!Window : v # w => handler'[v] = handler[v]
  BY <1>2, <1>3, <1>4 DEF ListingTask
<1> QED BY <1>5 DEF ListingInv, ListingTasks

LEMMA ListingHandleKeeps ==
  ASSUME ListingInv, NEW w \in Listing!Window, Listing!Handle(w)
  PROVE  ListingInv'
<1> USE DEF Listing!game, Listing!wire, Listing!bot, Listing!flow, Listing!flags, Listing!proc
<1>0. Listing!TypeOK BY DEF ListingInv
<1>1. UNCHANGED <<shown, lastId, slot, auctions, pending, field, aborted, stuck, blocked, dog, retry,
                  exec, begun, asked, lost>>
  BY DEF Listing!Handle, Listing!Bails, Listing!Steers, Listing!Presses, Listing!Done,
     Listing!LimitReached, Listing!Waits, Listing!Selects, Listing!Places, Listing!Prices
<1>2. ListingTasks
  <2>0. handler[w].pc # "none"
    BY DEF Listing!Handle, Listing!Bails, Listing!Steers, Listing!Goes, Listing!Presses,
       Listing!Done, Listing!LimitReached, Listing!Waits, Listing!Selects, Listing!Places,
       Listing!Prices, Listing!At, Listing!Reads
  <2>1. CASE Listing!Ends(w) BY <2>1, ListingEnds
  <2>2. CASE \E pc \in {"item", "price", "click", "done"} : Listing!Becomes(w, pc)
    BY <2>0, <2>2, ListingBecomes
  <2>3. CASE Listing!ToPlace(w) BY <2>0, <2>3, ListingPlaces
  <2> QED BY <2>1, <2>2, <2>3 DEF Listing!Handle, Listing!Bails, Listing!Steers, Listing!Goes,
     Listing!Presses, Listing!Done, Listing!LimitReached, Listing!Waits, Listing!Selects,
     Listing!Places, Listing!Prices, Listing!GoesIdle
<1>3. sent' \in Seq(ListingPacket) /\ lastWindow' \in 0..MaxWindow
  <2>1. CASE UNCHANGED <<sent, lastWindow>> BY <2>1, <1>0 DEF ListingInv, Listing!TypeOK
  <2>2. CASE Listing!SendClose(w) BY <2>2, ListingCloses
  <2>3. CASE UNCHANGED lastWindow /\ \E s \in ListingSlot : Listing!ClickIfCurrent(w, s)
    BY <2>3, <1>0, ListingClicks DEF Listing!TypeOK
  <2>4. CASE Listing!Presses(w)
    <3>1. handler[w].page \in Listing!Pages BY <2>4 DEF ListingInv, Listing!Presses, Listing!At
    <3>2. Listing!Target[handler[w].page] \in ListingSlot
      BY <3>1 DEF Listing!Target, Listing!Pages, ListingSlot
    <3> QED BY <2>3, <2>4, <3>2 DEF Listing!Presses
  <2>5. CASE Listing!Selects(w)
    <3>1. "preview" \in ListingSlot BY DEF ListingSlot
    <3> QED BY <2>1, <2>2, <2>3, <2>5, <3>1 DEF Listing!Selects, Listing!GoesIdle
  <2>6. CASE Listing!Places(w)
    <3>1. handler[w].item \in Goods BY <2>6 DEF ListingInv, Listing!Places, Listing!At
    <3>2. handler[w].item \in ListingSlot BY <3>1 DEF ListingSlot
    <3> QED BY <2>3, <2>6, <3>2 DEF Listing!Places
  <2>7. CASE Listing!Prices(w)
    <3>1. "price" \in ListingSlot BY DEF ListingSlot
    <3> QED BY <2>3, <2>7, <3>1 DEF Listing!Prices
  <2> QED BY <2>1, <2>2, <2>4, <2>5, <2>6, <2>7 DEF Listing!Handle, Listing!Bails, Listing!Steers,
     Listing!Done, Listing!LimitReached, Listing!Waits, Listing!GoesIdle
<1>4. botState' \in {botState, "Idle"} /\ stage' \in Listing!Steps /\ atLimit' \in BOOLEAN
  <2>0. stage \in Listing!Steps /\ atLimit \in BOOLEAN BY <1>0 DEF Listing!TypeOK
  <2>1. CASE Listing!Bails(w) \/ Listing!Waits(w) BY <2>0, <2>1 DEF Listing!Bails, Listing!Waits
  <2>2. CASE Listing!Steers(w)
    BY <2>0, <2>2 DEF Listing!Steers, Listing!Goes, Listing!Steps
  <2>3. CASE Listing!Presses(w) \/ Listing!Places(w) BY <2>0, <2>3 DEF Listing!Presses, Listing!Places
  <2>4. CASE Listing!Done(w) BY <2>0, <2>4 DEF Listing!Done, Listing!GoesIdle
  <2>5. CASE Listing!LimitReached(w) BY <2>0, <2>5 DEF Listing!LimitReached, Listing!GoesIdle
  <2>6. CASE Listing!Selects(w) BY <2>0, <2>6 DEF Listing!Selects, Listing!GoesIdle
  <2>7. CASE Listing!Prices(w) BY <2>0, <2>7 DEF Listing!Prices, Listing!Steps
  <2> QED BY <2>1, <2>2, <2>3, <2>4, <2>5, <2>6, <2>7 DEF Listing!Handle
<1>5. \A v \in Listing!Window :
         handler'[v].pc \in {"none", "start", "item", "place", "price", "click", "done"}
  BY <1>2 DEF ListingTasks, ListingTask
<1>6. Listing!TypeOK' BY <1>0, <1>1, <1>3, <1>4, <1>5 DEF Listing!TypeOK
<1> QED BY <1>1, <1>2, <1>3, <1>4, <1>6 DEF ListingInv, ListingTasks

(* The processor, and what comes without a packet.                          *)
LEMMA ListingProcessorKeeps ==
  ASSUME ListingInv,
         \/ Listing!Begin \/ Listing!Execute \/ Listing!Complete \/ Listing!Timeout
         \/ Listing!ClearBlocked \/ Listing!Watchdog \/ Listing!RetryTask
         \/ UNCHANGED Listing!vars
  PROVE  ListingInv'
<1> USE DEF Listing!game, Listing!wire, Listing!bot, Listing!flow, Listing!flags, Listing!tasks,
        Listing!proc, Listing!vars
<1>0. Listing!TypeOK BY DEF ListingInv
<1>1. UNCHANGED <<shown, lastId, slot, auctions, pending, atLimit, handler, asked, lost>>
  BY DEF Listing!Begin, Listing!Execute, Listing!Complete, Listing!Timeout, Listing!ClearBlocked,
     Listing!Watchdog, Listing!RetryTask
<1>2. sent' \in Seq(ListingPacket) /\ lastWindow' \in 0..MaxWindow
  <2>1. CASE UNCHANGED <<sent, lastWindow>> BY <2>1, <1>0 DEF ListingInv, Listing!TypeOK
  <2>2. CASE lastWindow # 0 /\ Listing!SendClose(lastWindow)
    BY <2>2, ListingWindow, ListingCloses
  <2>3. CASE UNCHANGED lastWindow /\ sent' = Append(sent, Listing!Ah)
    BY <2>3, <1>0, ListingPackets, ListingJoins DEF Listing!TypeOK
  <2> QED BY <2>1, <2>2, <2>3 DEF Listing!Begin, Listing!Execute, Listing!Complete,
     Listing!Timeout, Listing!ClearBlocked, Listing!Watchdog, Listing!RetryTask
<1>3. /\ field' \in Listing!Number /\ stage' \in Listing!Steps /\ (field # 0 => field' # 0)
      /\ botState' \in {"Idle", "Selling"}
      /\ botState' = "Selling" => field' # 0 /\ exec' = "poll" /\ ~blocked'
  <2>1. CASE Listing!Execute
    <3>1. begun \in Listing!Number /\ begun # 0 /\ ~blocked
      BY <2>1, <1>0 DEF Listing!Execute, ListingInv, Listing!TypeOK
    <3>2. /\ field' = begun /\ stage' = "Initial" /\ exec' = "poll" /\ botState' = "Selling"
          /\ blocked' = blocked
      BY <2>1 DEF Listing!Execute
    <3> QED BY <3>1, <3>2 DEF Listing!Steps
  <2>2. CASE UNCHANGED <<field, stage>> /\ botState' = "Idle" BY <2>2, <1>0 DEF Listing!TypeOK
  <2>3. CASE UNCHANGED <<field, stage, botState, blocked, exec>>
    BY <2>3, <1>0 DEF ListingInv, Listing!TypeOK
  <2>4. CASE Listing!Begin \/ Listing!Complete \/ Listing!Timeout \/ Listing!ClearBlocked
    BY <2>2, <2>4 DEF Listing!Begin, Listing!Complete, Listing!Timeout, Listing!ClearBlocked
  <2>5. CASE Listing!Watchdog \/ Listing!RetryTask
    BY <2>2, <2>3, <2>5 DEF Listing!Watchdog, Listing!RetryTask
  <2> QED BY <2>1, <2>3, <2>4, <2>5
<1>4. begun' \in Listing!Number /\ (exec' = "close" => begun' # 0 /\ ~blocked')
  <2>1. CASE Listing!Begin
    <3>1. begun \in 0..MaxCommands /\ begun < MaxCommands /\ begun' = begun + 1
      BY <1>0, <2>1 DEF Listing!Begin, Listing!TypeOK, Listing!Number
    <3>2. begun' \in Listing!Number /\ begun' # 0 BY <3>1, PartsAssumption DEF Listing!Number
    <3>3. exec' = "close" => ~blocked' BY <2>1 DEF Listing!Begin
    <3> QED BY <3>2, <3>3
  <2>2. CASE begun' = begun /\ (exec' \in {"none", "poll"} \/ UNCHANGED <<exec, blocked>>)
    BY <2>2, <1>0 DEF ListingInv, Listing!TypeOK
  <2> QED BY <2>1, <2>2 DEF Listing!Execute, Listing!Complete, Listing!Timeout,
     Listing!ClearBlocked, Listing!Watchdog, Listing!RetryTask
<1>5. /\ exec' \in {"none", "close", "poll"} /\ dog' \in BOOLEAN /\ retry' \in BOOLEAN
      /\ aborted' \in BOOLEAN /\ blocked' \in BOOLEAN
  <2>0. /\ exec \in {"none", "close", "poll"} /\ dog \in BOOLEAN /\ retry \in BOOLEAN
        /\ aborted \in BOOLEAN /\ blocked \in BOOLEAN
    BY <1>0 DEF Listing!TypeOK
  <2>1. CASE Listing!Begin BY <2>0, <2>1 DEF Listing!Begin
  <2>2. CASE Listing!Execute BY <2>0, <2>2 DEF Listing!Execute
  <2>3. CASE Listing!Complete \/ Listing!Timeout BY <2>0, <2>3 DEF Listing!Complete, Listing!Timeout
  <2>4. CASE Listing!ClearBlocked \/ Listing!Watchdog
    BY <2>0, <2>4 DEF Listing!ClearBlocked, Listing!Watchdog
  <2>5. CASE Listing!RetryTask BY <2>0, <2>5 DEF Listing!RetryTask
  <2>6. CASE UNCHANGED Listing!vars BY <2>0, <2>6
  <2> QED BY <2>1, <2>2, <2>3, <2>4, <2>5, <2>6
<1>6. stuck' \in 0..MaxStuckRetries + 1 /\ (blocked' \/ stuck' <= MaxStuckRetries)
  <2>1. CASE Listing!ClearBlocked BY <2>1, PartsAssumption DEF Listing!ClearBlocked
  <2>2. CASE UNCHANGED <<stuck, blocked>> BY <2>2, <1>0 DEF ListingInv, Listing!TypeOK
  <2> QED BY <2>1, <2>2 DEF Listing!Begin, Listing!Execute, Listing!Complete, Listing!Timeout,
     Listing!Watchdog, Listing!RetryTask
<1>7. Listing!TypeOK' BY <1>0, <1>1, <1>2, <1>3, <1>4, <1>5, <1>6 DEF Listing!TypeOK
<1> QED BY <1>1, <1>2, <1>3, <1>4, <1>6, <1>7 DEF ListingInv

LEMMA ListingEvents ==
  ASSUME ListingInv, NEW kind, Listing!Event(kind)
  PROVE  /\ pending' \in Seq(ListingEvent)
         /\ kind = "open" => Head(pending)[2] \in Listing!Window /\ Head(pending)[3] \in Listing!Pages
<1>1. pending \in Seq(ListingEvent) /\ pending # <<>> /\ Head(pending)[1] = kind
      /\ pending' = Tail(pending)
  BY DEF ListingInv, Listing!Event
<1>2. Head(pending) \in ListingEvent /\ pending' \in Seq(ListingEvent) BY <1>1, Leaves
<1>3. ASSUME kind = "open" PROVE Head(pending) \in {"open"} \X Listing!Window \X Listing!Pages
  BY <1>1, <1>2, <1>3 DEF ListingEvent
<1> QED BY <1>2, <1>3

LEMMA ListingOpenKeeps ==
  ASSUME ListingInv, Listing!OpenScreen
  PROVE  ListingInv'
<1> USE DEF Listing!game, Listing!flow, Listing!flags, Listing!proc
<1>0. Listing!TypeOK BY DEF ListingInv
<1>1. UNCHANGED <<shown, lastId, slot, auctions, sent, botState, field, stage, aborted, stuck, blocked,
                  atLimit, retry, exec, begun, asked, lost>> /\ dog' = TRUE
  BY DEF Listing!OpenScreen
<1>2. pending' \in Seq(ListingEvent) BY ListingEvents DEF Listing!OpenScreen
<1> DEFINE w == Head(pending)[2]
           h == IF botState = "Selling"
                THEN [Listing!Off EXCEPT !.pc = "start", !.page = Head(pending)[3]] ELSE Listing!Off
<1>3. w \in Listing!Window /\ Head(pending)[3] \in Listing!Pages
  BY ListingEvents DEF Listing!OpenScreen
<1>4. h \in ListingTask /\ h.pc \in {"none", "start"}
      /\ (h.pc # "none" => h.page \in Listing!Pages /\ botState = "Selling")
  BY <1>3 DEF Listing!Off, ListingTask
<1>5. handler' = [handler EXCEPT ![w] = h] /\ lastWindow' = w BY DEF Listing!OpenScreen
<1> HIDE DEF w, h
<1>6. handler \in [Listing!Window -> ListingTask] BY DEF ListingInv
<1>7. handler' \in [Listing!Window -> ListingTask] /\ handler'[w] = h
      /\ \A v \in Listing!Window : v # w => handler'[v] = handler[v]
  BY <1>3, <1>4, <1>5, <1>6
<1>8. ListingTasks BY <1>4, <1>7 DEF ListingInv, ListingTasks
<1>9. \A v \in Listing!Window :
         handler'[v].pc \in {"none", "start", "item", "place", "price", "click", "done"}
  BY <1>7 DEF ListingTask
<1>10. lastWindow' \in 0..MaxWindow BY <1>3, <1>5, ListingWindow
<1>11. Listing!TypeOK' BY <1>0, <1>1, <1>9, <1>10 DEF Listing!TypeOK
<1> QED BY <1>1, <1>2, <1>8, <1>11 DEF ListingInv, ListingTasks

LEMMA ListingChatKeeps ==
  ASSUME ListingInv, Listing!SignEditor \/ Listing!StuckItem \/ Listing!Started
  PROVE  ListingInv'
<1> USE DEF Listing!game, Listing!bot, Listing!flow, Listing!flags, Listing!tasks, Listing!proc
<1>0. Listing!TypeOK BY DEF ListingInv
<1>1. UNCHANGED <<shown, lastId, slot, auctions, field, handler, dog, exec, begun, asked, lost>>
  BY DEF Listing!SignEditor, Listing!StuckItem, Listing!Started
<1>2. pending' \in Seq(ListingEvent)
  BY ListingEvents DEF Listing!SignEditor, Listing!StuckItem, Listing!Started
<1>3. sent' \in Seq(ListingPacket) /\ lastWindow' \in 0..MaxWindow
  <2>1. CASE UNCHANGED <<sent, lastWindow>> BY <2>1, <1>0 DEF ListingInv, Listing!TypeOK
  <2>2. CASE UNCHANGED lastWindow /\ sent' = Append(sent, [op |-> "sign", text |-> field])
    <3> DEFINE p == [op |-> "sign", text |-> field]
    <3>1. field \in Listing!Number /\ lastWindow \in 0..MaxWindow BY <1>0 DEF Listing!TypeOK
    <3>2. p \in ListingPacket BY <3>1, ListingPackets
    <3>3. sent' = Append(sent, p) /\ lastWindow' = lastWindow BY <2>2
    <3> HIDE DEF p
    <3> QED BY <3>1, <3>2, <3>3, ListingJoins
  <2>3. CASE Listing!StuckItem /\ lastWindow # 0
             /\ sent' = sent \o <<Listing!Click(lastWindow, "preview"), Listing!Close(lastWindow)>>
             /\ lastWindow' = 0
    <3> DEFINE p == Listing!Click(lastWindow, "preview")
               q == Listing!Close(lastWindow)
    <3>1. lastWindow \in Listing!Window /\ "preview" \in ListingSlot
      BY <2>3, ListingWindow DEF ListingSlot
    <3>2. p \in ListingPacket /\ q \in ListingPacket BY <3>1, ListingPackets
    <3>3. sent' = sent \o <<p, q>> /\ lastWindow' = 0 /\ 0 \in 0..MaxWindow BY <2>3, ListingWindow
    <3> HIDE DEF p, q
    <3> QED BY <3>2, <3>3 DEF ListingInv
  <2> QED BY <2>1, <2>2, <2>3 DEF Listing!SignEditor, Listing!StuckItem, Listing!Started
<1>4. /\ stage' \in Listing!Steps /\ aborted' \in BOOLEAN /\ atLimit' \in BOOLEAN /\ retry' \in BOOLEAN
  <2>0. stage \in Listing!Steps /\ aborted \in BOOLEAN /\ atLimit \in BOOLEAN /\ retry \in BOOLEAN
    BY <1>0 DEF Listing!TypeOK
  <2>1. CASE Listing!SignEditor BY <2>0, <2>1 DEF Listing!SignEditor, Listing!Steps
  <2>2. CASE Listing!StuckItem BY <2>0, <2>2 DEF Listing!StuckItem, Listing!Steps
  <2>3. CASE Listing!Started BY <2>0, <2>3 DEF Listing!Started
  <2> QED BY <2>1, <2>2, <2>3
<1>5. /\ botState' \in {botState, "Idle"} /\ blocked' \in BOOLEAN
      /\ botState' = "Selling" \/ exec' = "close" => ~blocked'
      /\ stuck' \in 0..MaxStuckRetries + 1 /\ (blocked' \/ stuck' <= MaxStuckRetries)
  <2>0. /\ stuck \in 0..MaxStuckRetries + 1 /\ blocked \in BOOLEAN /\ MaxStuckRetries \in Nat
        /\ botState \in {"Idle", "Selling"} /\ (blocked \/ stuck <= MaxStuckRetries)
        /\ (botState = "Selling" => exec = "poll" /\ ~blocked) /\ (exec = "close" => ~blocked)
    BY <1>0, PartsAssumption DEF Listing!TypeOK, ListingInv
  <2>1. CASE UNCHANGED <<botState, blocked, stuck>> BY <1>1, <2>0, <2>1
  <2>2. CASE UNCHANGED <<botState, blocked>> /\ stuck' = 0 BY <1>1, <2>0, <2>2
  <2>3. CASE /\ botState = "Selling" /\ stuck' = stuck + 1
             /\ IF stuck >= MaxStuckRetries THEN blocked' = TRUE /\ botState' = "Idle"
                ELSE UNCHANGED <<blocked, botState>>
    <3>1. stuck <= MaxStuckRetries /\ exec' = "poll" BY <1>1, <2>0, <2>3
    <3>2. stuck + 1 \in 0..MaxStuckRetries + 1 /\ (stuck >= MaxStuckRetries \/ stuck + 1 <= MaxStuckRetries)
      BY <2>0, <3>1
    <3>3. CASE stuck >= MaxStuckRetries BY <2>3, <3>1, <3>2, <3>3
    <3>4. CASE ~(stuck >= MaxStuckRetries) BY <2>0, <2>3, <3>1, <3>2, <3>4
    <3> QED BY <3>3, <3>4
  <2>4. CASE Listing!SignEditor BY <2>1, <2>4 DEF Listing!SignEditor
  <2>5. CASE Listing!StuckItem BY <2>1, <2>3, <2>5 DEF Listing!StuckItem
  <2>6. CASE Listing!Started BY <2>2, <2>6 DEF Listing!Started
  <2> QED BY <2>4, <2>5, <2>6
<1>6. botState' \in {"Idle", "Selling"} BY <1>0, <1>5 DEF Listing!TypeOK
<1>7. Listing!TypeOK' BY <1>0, <1>1, <1>3, <1>4, <1>5, <1>6 DEF Listing!TypeOK
<1> QED BY <1>1, <1>2, <1>3, <1>5, <1>7 DEF ListingInv

(* The game.                                                                *)
ListingShown == [page : Listing!Pages \cup {"none", "priceSign", "hoursSign"}, id : 0..MaxWindow]
ListingMade  == [item : Goods \cup {Listing!Nobody}, price : Listing!Number, hours : Listing!Number]

LEMMA ListingOpens ==
  ASSUME ListingInv, NEW page \in Listing!Pages, Listing!Opens(page)
  PROVE  shown' \in ListingShown /\ lastId' \in Listing!Window /\ pending' \in Seq(ListingEvent)
         /\ shown'.page = page
<1> DEFINE e == <<"open", Listing!NextId(lastId), page>>
<1>1. Listing!NextId(lastId) \in Listing!Window /\ Listing!NextId(lastId) \in 0..MaxWindow
  BY ListingPackets, ListingWindow DEF ListingInv, Listing!TypeOK
<1>2. e \in ListingEvent BY <1>1 DEF ListingEvent
<1>3. /\ shown' = [page |-> page, id |-> Listing!NextId(lastId)]
      /\ lastId' = Listing!NextId(lastId) /\ pending' = Append(pending, e)
  BY DEF Listing!Opens
<1> HIDE DEF e
<1> QED BY <1>1, <1>2, <1>3 DEF ListingInv, ListingShown

LEMMA ListingSigns ==
  ASSUME ListingInv, NEW page \in {"priceSign", "hoursSign"}, Listing!SignFor(page)
  PROVE  shown' \in ListingShown /\ lastId' \in Listing!Window /\ pending' \in Seq(ListingEvent)
         /\ shown'.page = page
<1> DEFINE e == <<"sign">>
<1>1. e \in ListingEvent BY DEF ListingEvent
<1>2. /\ shown' = [page |-> page, id |-> 0] /\ lastId' = lastId /\ 0 \in 0..MaxWindow
      /\ pending' = Append(pending, e)
  BY ListingWindow DEF Listing!SignFor
<1> HIDE DEF e
<1> QED BY <1>1, <1>2 DEF ListingInv, Listing!TypeOK, ListingShown

LEMMA ListingSays ==
  ASSUME ListingInv, NEW what \in {"stuck", "started"}, pending' = Append(pending, <<what>>)
  PROVE  pending' \in Seq(ListingEvent)
<1> DEFINE e == <<what>>
<1>1. e \in ListingEvent BY DEF ListingEvent
<1>2. pending' = Append(pending, e) OBVIOUS
<1>3. pending \in Seq(ListingEvent) BY DEF ListingInv
<1> HIDE DEF e
<1> QED BY <1>1, <1>2, <1>3, Joins

LEMMA ListingAnswer ==
  ASSUME ListingInv, NEW p \in ListingPacket, Listing!Answer(p)
  PROVE  /\ shown' \in ListingShown /\ lastId' \in Listing!Window
         /\ pending' \in Seq(ListingEvent)
         /\ slot' \in ListingMade
         /\ auctions' \subseteq [item : Goods, price : Listing!Number, hours : Listing!Number]
         /\ shown'.page = "sure" => slot'.item \in Goods
<1>0. /\ shown \in ListingShown /\ lastId \in Listing!Window /\ pending \in Seq(ListingEvent)
      /\ slot \in ListingMade
      /\ auctions \subseteq [item : Goods, price : Listing!Number, hours : Listing!Number]
      /\ Listing!None \in ListingShown /\ 0 \in Listing!Number
      /\ Listing!Empty \in ListingMade
      /\ (shown.page = "sure" => slot.item \in Goods) /\ Listing!None.page = "none"
  BY ListingWindow, PartsAssumption DEF ListingInv, Listing!TypeOK, ListingShown, ListingMade,
     Listing!None, Listing!Number, Listing!Empty
<1>p. {"ah", "manage", "type", "bin", "duration", "sure"} = Listing!Pages BY DEF Listing!Pages
<1>1. CASE UNCHANGED <<slot, auctions>>
           /\ \E page \in Listing!Pages : Listing!Opens(page) /\ (page = "sure" => slot.item \in Goods)
  BY <1>0, <1>1, ListingOpens
<1>2. CASE UNCHANGED <<slot, auctions>> /\ \E page \in {"priceSign", "hoursSign"} : Listing!SignFor(page)
  BY <1>0, <1>2, ListingSigns
<1>3. CASE UNCHANGED auctions /\ UNCHANGED <<lastId, pending>>
           /\ shown' \in {shown, Listing!None} /\ slot' \in {slot, Listing!Empty}
           /\ (shown' = Listing!None \/ shown.page = "bin")
  BY <1>0, <1>3
<1>4. CASE UNCHANGED <<shown, lastId, auctions>> /\ slot' \in {slot} \cup {[Listing!Empty EXCEPT !.item = i] : i \in Goods}
           /\ (UNCHANGED pending \/ Listing!Says("stuck")) /\ shown.page = "bin"
  <2>1. slot' \in ListingMade BY <1>0, <1>4 DEF ListingMade, Listing!Empty
  <2>2. pending' \in Seq(ListingEvent) BY <1>0, <1>4, ListingSays DEF Listing!Says
  <2> QED BY <1>0, <1>4, <2>1, <2>2
<1>5. CASE /\ shown.page = "sure" /\ auctions' = auctions \cup {slot} /\ slot' = Listing!Empty
           /\ shown' = Listing!None /\ pending' = Append(pending, <<"started">>) /\ UNCHANGED lastId
  <2>1. pending' \in Seq(ListingEvent) BY <1>5, ListingSays
  <2>2. slot \in [item : Goods, price : Listing!Number, hours : Listing!Number]
    BY <1>0, <1>5 DEF ListingMade
  <2> QED BY <1>0, <1>5, <2>1, <2>2
<1>6. CASE p.op = "ah" BY <1>1, <1>6, <1>p DEF Listing!Answer
<1>7. CASE p.op = "close" BY <1>0, <1>3, <1>7 DEF Listing!Answer
<1>8. CASE p.op = "sign"
  <2>1. p.text \in Listing!Number BY <1>8 DEF ListingPacket
  <2>2. slot' = [slot EXCEPT !.price = p.text] \/ slot' = [slot EXCEPT !.hours = p.text]
    BY <1>8 DEF Listing!Answer
  <2>3. slot' \in ListingMade BY <1>0, <2>1, <2>2 DEF ListingMade
  <2>4. UNCHANGED auctions /\ Listing!Opens("bin") BY <1>8 DEF Listing!Answer
  <2>5. "bin" \in Listing!Pages BY <1>p
  <2>6. shown' \in ListingShown /\ lastId' \in Listing!Window /\ pending' \in Seq(ListingEvent)
         /\ shown'.page = "bin"
    BY <2>4, <2>5, ListingOpens
  <2> QED BY <1>0, <2>3, <2>4, <2>6
<1>9. CASE p.op = "click"
  <2> USE DEF Listing!On
  <2>1. slot.item # Listing!Nobody => slot.item \in Goods BY <1>0 DEF ListingMade
  <2>2. CASE shown.page = "bin" /\ slot' = Listing!Empty /\ UNCHANGED <<shown, lastId, pending, auctions>>
    BY <1>3, <2>2
  <2>3. CASE p.slot \in Goods /\ shown.page = "bin" /\ UNCHANGED <<auctions, lastId>>
             /\ \/ slot' = [Listing!Empty EXCEPT !.item = p.slot] /\ UNCHANGED <<shown, pending>>
                \/ Listing!Says("stuck") /\ UNCHANGED slot
    BY <1>4, <2>3 DEF Listing!Says
  <2> QED BY <1>1, <1>2, <1>5, <1>9, <1>p, <2>1, <2>2, <2>3 DEF Listing!Answer, Listing!Says
<1> QED BY <1>6, <1>7, <1>8, <1>9 DEF Listing!Answer

LEMMA ListingGameKeeps ==
  ASSUME ListingInv, Listing!Game
  PROVE  ListingInv'
<1> USE DEF Listing!game, Listing!bot, Listing!flow, Listing!flags, Listing!tasks, Listing!proc
<1>0. Listing!TypeOK BY DEF ListingInv
<1>1. UNCHANGED <<botState, lastWindow, field, stage, aborted, stuck, blocked, atLimit, handler, dog,
                  retry, exec, begun, asked>>
  BY DEF Listing!Game
<1>2. Head(sent) \in ListingPacket /\ sent' \in Seq(ListingPacket)
  BY Leaves DEF Listing!Game, ListingInv
<1>3. /\ shown' \in ListingShown /\ lastId' \in Listing!Window
      /\ pending' \in Seq(ListingEvent)
      /\ slot' \in ListingMade
      /\ auctions' \subseteq [item : Goods, price : Listing!Number, hours : Listing!Number]
      /\ shown'.page = "sure" => slot'.item \in Goods
  <2>1. CASE Listing!Answer(Head(sent)) BY <1>2, <2>1, ListingAnswer
  <2>2. CASE Listing!NoAnswer(Head(sent))
    BY <1>0, <2>2 DEF Listing!NoAnswer, ListingInv, Listing!TypeOK, ListingShown, ListingMade
  <2> QED BY <2>1, <2>2 DEF Listing!Game
<1>4. lost' \in 0..MaxLost
  <2>1. lost \in 0..MaxLost BY <1>0 DEF Listing!TypeOK
  <2>2. lost' = lost \/ (lost < MaxLost /\ lost' = lost + 1) BY DEF Listing!Game, Listing!NoAnswer
  <2> QED BY <2>1, <2>2, PartsAssumption
<1>5. Listing!TypeOK' BY <1>0, <1>1, <1>3, <1>4 DEF Listing!TypeOK, ListingShown, ListingMade
<1> QED BY <1>1, <1>2, <1>3, <1>5 DEF ListingInv

LEMMA ListingInit == Listing!Init => ListingInv
<1> SUFFICES ASSUME Listing!Init PROVE ListingInv OBVIOUS
<1> USE DEF Listing!Init
<1>1. /\ 0 \in 0..MaxWindow /\ 0 \in 0..MaxLost /\ 0 \in Listing!Number /\ MaxWindow \in Listing!Window
      /\ 0 \in 0..MaxStuckRetries + 1 /\ 0 <= MaxStuckRetries
  BY PartsAssumption DEF Listing!Number, Listing!Window
<1>2. sent \in Seq(ListingPacket) /\ pending \in Seq(ListingEvent) BY EmptyLine
<1>3. Listing!Off \in ListingTask /\ Listing!Off.pc = "none" BY DEF Listing!Off, ListingTask
<1>4. handler \in [Listing!Window -> ListingTask]
      /\ \A w \in Listing!Window : handler[w].pc = "none"
  BY <1>3
<1>5. slot \in [item : Goods \cup {Listing!Nobody}, price : Listing!Number, hours : Listing!Number]
  BY <1>1 DEF Listing!Empty
<1>6. shown \in [page : Listing!Pages \cup {"none", "priceSign", "hoursSign"}, id : 0..MaxWindow]
      /\ shown.page = "none"
  BY <1>1 DEF Listing!None
<1>7. /\ auctions = {} /\ lastId = MaxWindow /\ lastWindow = 0 /\ botState = "Idle" /\ stage = "Initial"
      /\ aborted = FALSE /\ stuck = 0 /\ blocked = FALSE /\ atLimit = FALSE /\ dog = FALSE
      /\ retry = FALSE /\ field = 0 /\ exec = "none" /\ begun = 0 /\ lost = 0
      /\ asked \in [Listing!Command -> Goods]
  OBVIOUS
<1> HIDE DEF Listing!Init
<1>8. Listing!TypeOK BY <1>1, <1>4, <1>5, <1>6, <1>7 DEF Listing!TypeOK, Listing!Steps
<1> QED BY <1>1, <1>2, <1>4, <1>6, <1>7, <1>8 DEF ListingInv

LEMMA ListingNext ==
  ASSUME ListingInv, [Listing!Next]_(Listing!vars)
  PROVE  ListingInv'
<1>1. CASE \/ Listing!Begin \/ Listing!Execute \/ Listing!Complete \/ Listing!Timeout
           \/ Listing!ClearBlocked \/ Listing!Watchdog \/ Listing!RetryTask
           \/ UNCHANGED Listing!vars
  BY <1>1, ListingProcessorKeeps
<1>2. CASE \E w \in Listing!Window : Listing!Handle(w) BY <1>2, ListingHandleKeeps
<1>3. CASE Listing!OpenScreen BY <1>3, ListingOpenKeeps
<1>4. CASE Listing!SignEditor \/ Listing!StuckItem \/ Listing!Started BY <1>4, ListingChatKeeps
<1>5. CASE Listing!Game BY <1>5, ListingGameKeeps
<1> QED BY <1>1, <1>2, <1>3, <1>4, <1>5 DEF Listing!Next

-----------------------------------------------------------------------------
(* Listings as asked. *)

\* Packets that change at most what lies in the slot, those that may be left of a
\* listing that is over, and of them those that lead to no sign.
Quiet == {Listing!Close(w) : w \in Listing!Window} \cup {Listing!Click(w, "preview") : w \in Listing!Window}
Confirms == {Listing!Click(w, "confirm") : w \in Listing!Window}
Spent == Quiet \cup Confirms
Old == Spent \cup {Listing!Click(w, "price") : w \in Listing!Window}

Told == {<<"started">>}
OldTold == Told \cup {<<"sign">>}

\* A line of what is in P, and then u.
Line(s, P, u) == \E t \in Seq(P) : s = t \o u

\* A handler of a listing that is over has nothing left but to set the step.
Stale(w) == handler[w].pc = "none" \/ (handler[w].pc = "price" /\ w # lastWindow)
AllStale == \A w \in Listing!Window : Stale(w)
AllNone == \A w \in Listing!Window : handler[w].pc = "none"
Works(w, pc) == /\ handler[w].pc = pc /\ w = lastWindow
                /\ \A v \in Listing!Window : v # w => Stale(v)

EarlySteps == {"OpenManage", "ClickCreate", "SelectBIN", "PriceSign"}
LateSteps == {"SetDuration", "DurationSign", "ConfirmSell", "FinalConfirm", "PriceSign"}
EarlyPages == {"manage", "type", "bin"}
LatePages == {"bin", "duration", "sure"}

\* The slot as the item, the bid, and the duration make it.
Item1 == [item |-> asked[field], price |-> 0, hours |-> 0]
Made == slot.item = asked[field] /\ slot.price = field
Late == Made \/ (slot.item = Listing!Nobody /\ shown.page \notin {"duration", "hoursSign"})
Fits(w) == \/ shown.page # "bin" \/ shown.id # w
           \/ slot = Item1 \/ slot.item = Listing!Nobody

\* Where the listing stands.  Over, or given up.
ListOff ==
    /\ botState = "Idle" \/ aborted
    /\ AllStale /\ sent \in Seq(Old) /\ pending \in Seq(OldTold)
    /\ botState = "Idle" => AllNone \/ (sent \in Seq(Spent) /\ pending \in Seq(Told))

\* Nothing of an earlier listing leads to a sign that is filled in.
Unsigned == pending \in Seq(Told) \/ (AllNone /\ stage = "Initial")

ListOpening ==
    /\ AllStale /\ pending \in Seq(OldTold)
    /\ \/ Line(sent, Spent, <<Listing!Ah>>) /\ pending \in Seq(Told)
       \/ Line(sent, Old, <<Listing!Ah>>) /\ AllNone /\ stage = "Initial"

ListArrived ==
    /\ AllStale /\ sent \in Seq(Quiet)
    /\ \E w \in Listing!Window :
          \/ Line(pending, Told, <<<<"open", w, "ah">>>>)
          \/ Line(pending, OldTold, <<<<"open", w, "ah">>>>) /\ AllNone /\ stage = "Initial"

ListDead ==
    /\ AllStale /\ sent \in Seq(Quiet)
    /\ (pending \in Seq(OldTold) /\ Unsigned) \/ Line(pending, Told, <<<<"stuck">>>>)

ListSteers ==
    \/ /\ AllStale /\ sent \in Seq(Quiet) /\ stage \in EarlySteps
       /\ \E w \in Listing!Window, page \in EarlyPages : Line(pending, Told, <<<<"open", w, page>>>>)
    \/ /\ sent \in Seq(Quiet) /\ pending \in Seq(Told)
       /\ \E w \in Listing!Window :
             \/ Works(w, "start") /\ handler[w].page = "ah"
             \/ Works(w, "start") /\ handler[w].page \in EarlyPages /\ stage \in EarlySteps
             \/ Works(w, "click") /\ handler[w].page \in {"ah", "manage", "type"} /\ stage \in EarlySteps
    \/ /\ AllStale /\ pending \in Seq(Told) /\ stage \in EarlySteps
       /\ \E w \in Listing!Window, s \in {"manage", "create", "bin"} :
             Line(sent, Quiet, <<Listing!Click(w, s)>>)

ListPlaces ==
    /\ sent \in Seq(Quiet) /\ pending \in Seq(Told)
    /\ \E w \in Listing!Window : Works(w, "place") /\ handler[w].item = asked[field]

\* The item is in the slot, or was refused.
ListItem(w) ==
    \/ pending \in Seq(Told) /\ Fits(w)
    \/ Line(pending, Told, <<<<"stuck">>>>)

ListPrices ==
    \/ \E w \in Listing!Window :
          /\ Works(w, "price")
          /\ \/ sent \in Seq(Quiet) /\ ListItem(w)
             \/ Line(sent, Quiet, <<Listing!Click(w, asked[field])>>) /\ pending \in Seq(Told)
    \/ /\ AllStale /\ stage = "PriceSign"
       /\ \E w \in Listing!Window :
             \/ Line(sent, Quiet, <<Listing!Click(w, "price")>>) /\ ListItem(w)
             \/ /\ Line(sent, Quiet, <<Listing!Click(w, asked[field]), Listing!Click(w, "price")>>)
                /\ pending \in Seq(Told)
    \/ /\ AllStale /\ stage = "PriceSign" /\ sent \in Seq(Quiet)
       /\ \/ shown = [page |-> "priceSign", id |-> 0] /\ slot = Item1 /\ Line(pending, Told, <<<<"sign">>>>)
          \/ Line(pending, Told, <<<<"stuck">>, <<"sign">>>>)
    \/ /\ AllStale /\ stage \in LateSteps /\ pending \in Seq(Told)
       /\ shown = [page |-> "priceSign", id |-> 0] /\ slot = Item1
       /\ Line(sent, Quiet, <<[op |-> "sign", text |-> field]>>)

ListLasts ==
    /\ stage \in LateSteps /\ Late
    /\ \/ /\ AllStale /\ sent \in Seq(Quiet)
          /\ \E w \in Listing!Window, page \in LatePages : Line(pending, Told, <<<<"open", w, page>>>>)
       \/ /\ sent \in Seq(Quiet) /\ pending \in Seq(Told)
          /\ \E w \in Listing!Window :
                (Works(w, "start") \/ Works(w, "click")) /\ handler[w].page \in LatePages
       \/ /\ AllStale /\ pending \in Seq(Told)
          /\ \E w \in Listing!Window, s \in {"next", "sign"} : Line(sent, Quiet, <<Listing!Click(w, s)>>)
       \/ /\ AllStale /\ sent \in Seq(Quiet) /\ shown = [page |-> "hoursSign", id |-> 0]
          /\ Line(pending, Told, <<<<"sign">>>>)
       \/ /\ AllStale /\ pending \in Seq(Told) /\ shown = [page |-> "hoursSign", id |-> 0]
          /\ Line(sent, Quiet, <<[op |-> "sign", text |-> field]>>)

ListDone ==
    /\ sent \in Seq(Spent) /\ pending \in Seq(Told)
    /\ \E w \in Listing!Window : Works(w, "done")

ListStage ==
    \/ ListOff
    \/ /\ botState = "Selling" /\ ~aborted
       /\ \/ ListOpening \/ ListArrived \/ ListDead \/ ListSteers \/ ListPlaces
          \/ ListPrices \/ ListLasts \/ ListDone

\* Bid and duration in the slot are of the command that put the item there.
SlotMade ==
    /\ slot.price <= begun /\ field <= begun
    /\ slot.price # 0 => slot.item = asked[slot.price]
    /\ slot.hours # 0 => slot.hours = slot.price
    /\ shown.page = "sure" => slot.hours # 0

\* Once an item was stuck, no handler of a listing that is over works any more.
StuckFits ==
    stuck # 0 /\ ~blocked /\ ~(aborted /\ botState = "Selling") =>
        \A w \in Listing!Window : handler[w].pc = "price" => w = lastWindow

ListingAsked == Listing!ListedAsAsked /\ SlotMade /\ StuckFits /\ ListStage

\* What the operators on lines do to one that ends in u.
LEMMA Line0 ==
  ASSUME NEW P, NEW s \in Seq(P)
  PROVE  /\ \A p : Line(Append(s, p), P, <<p>>)
         /\ \A p \in P : Append(s, p) \in Seq(P)
         /\ s # <<>> => Head(s) \in P /\ Tail(s) \in Seq(P)
<1>1. \A p : Append(s, p) = s \o <<p>> OBVIOUS
<1> QED BY <1>1 DEF Line

LEMMA Line1 ==
  ASSUME NEW P, NEW s, NEW a, Line(s, P, <<a>>)
  PROVE  /\ s # <<>>
         /\ \A b : Line(Append(s, b), P, <<a, b>>)
         /\ \/ Head(s) \in P /\ Line(Tail(s), P, <<a>>)
            \/ Head(s) = a /\ Tail(s) = <<>>
<1>1. PICK t \in Seq(P) : s = t \o <<a>> BY DEF Line
<1>2. s # <<>> BY <1>1
<1>3. \A b : Append(s, b) = t \o <<a, b>> BY <1>1
<1>4. CASE t = <<>> BY <1>1, <1>2, <1>3, <1>4 DEF Line
<1>5. CASE t # <<>>
  <2>1. Head(s) = Head(t) /\ Tail(s) = Tail(t) \o <<a>> /\ Head(t) \in P /\ Tail(t) \in Seq(P)
    BY <1>1, <1>5
  <2> QED BY <1>1, <1>2, <1>3, <2>1 DEF Line
<1> QED BY <1>4, <1>5

LEMMA Line2 ==
  ASSUME NEW P, NEW s, NEW a, NEW b, Line(s, P, <<a, b>>)
  PROVE  /\ s # <<>>
         /\ \/ Head(s) \in P /\ Line(Tail(s), P, <<a, b>>)
            \/ Head(s) = a /\ Line(Tail(s), P, <<b>>)
<1>1. PICK t \in Seq(P) : s = t \o <<a, b>> BY DEF Line
<1>2. s # <<>> BY <1>1
<1>4. CASE t = <<>>
  <2>1. Head(s) = a /\ Tail(s) = <<b>> BY <1>1, <1>4
  <2>2. <<b>> = <<>> \o <<b>> /\ <<>> \in Seq(P) OBVIOUS
  <2> QED BY <1>2, <2>1, <2>2 DEF Line
<1>5. CASE t # <<>>
  <2>1. Head(s) = Head(t) /\ Tail(s) = Tail(t) \o <<a, b>> /\ Head(t) \in P /\ Tail(t) \in Seq(P)
    BY <1>1, <1>5
  <2> QED BY <1>1, <1>2, <2>1 DEF Line
<1> QED BY <1>4, <1>5

LEMMA LineOf == \A P, R, s, u : Line(s, P, u) /\ P \subseteq R => Line(s, R, u)
BY DEF Line

LEMMA LineKinds ==
  /\ \A p \in Quiet : \E w \in Listing!Window : p = Listing!Close(w) \/ p = Listing!Click(w, "preview")
  /\ \A p \in Confirms : \E w \in Listing!Window : p = Listing!Click(w, "confirm")
  /\ \A p \in Spent : p \in Quiet \/ p \in Confirms
  /\ \A p \in Old : p \in Spent \/ \E w \in Listing!Window : p = Listing!Click(w, "price")
  /\ Quiet \subseteq Spent /\ Spent \subseteq Old
  /\ \A w \in Listing!Window : Listing!Close(w) \in Quiet /\ Listing!Click(w, "preview") \in Quiet
                               /\ Listing!Click(w, "confirm") \in Spent
                               /\ Listing!Click(w, "price") \in Old
  /\ Told \subseteq OldTold /\ <<"started">> \in Told /\ <<"sign">> \in OldTold
  /\ \A e \in Told : e[1] = "started"
  /\ \A e \in OldTold : e[1] = "started" \/ e[1] = "sign"
  /\ \A e \in OldTold : e \in Told \/ e[1] = "sign"
BY DEF Quiet, Confirms, Spent, Old, Told, OldTold

LEMMA LineSeqs ==
  /\ Seq(Quiet) \subseteq Seq(Spent) /\ Seq(Spent) \subseteq Seq(Old) /\ Seq(Told) \subseteq Seq(OldTold)
  /\ \A P : <<>> \in Seq(P)
<1>1. \A A, B : A \subseteq B => Seq(A) \subseteq Seq(B) OBVIOUS
<1> QED BY <1>1, LineKinds

LEMMA ListSame ==
  ASSUME ListStage, UNCHANGED <<shown, slot, sent, pending, botState, aborted, lastWindow, handler, stage,
                                field, asked>>
  PROVE  ListStage'
<1>1. /\ AllStale' <=> AllStale
      /\ AllNone' <=> AllNone
      /\ \A w, pc : Works(w, pc)' <=> Works(w, pc)
  BY DEF AllStale, AllNone, Works, Stale
<1>2. /\ \A w : Fits(w)' <=> Fits(w)
      /\ Late' <=> Late
      /\ Item1' = Item1
  BY DEF Fits, Late, Made, Item1
<1>3. ListOff' <=> ListOff BY <1>1 DEF ListOff
<1>4. ListOpening' <=> ListOpening BY <1>1 DEF ListOpening
<1>5. ListArrived' <=> ListArrived BY <1>1 DEF ListArrived
<1>6. ListDead' <=> ListDead BY <1>1 DEF ListDead, Unsigned
<1>7. ListSteers' <=> ListSteers BY <1>1 DEF ListSteers
<1>8. ListPlaces' <=> ListPlaces BY <1>1 DEF ListPlaces
<1>9. ListPrices' <=> ListPrices BY <1>1, <1>2 DEF ListPrices, ListItem
<1>10. ListLasts' <=> ListLasts BY <1>1, <1>2 DEF ListLasts
<1>11. ListDone' <=> ListDone BY <1>1 DEF ListDone
<1> QED BY <1>3, <1>4, <1>5, <1>6, <1>7, <1>8, <1>9, <1>10, <1>11 DEF ListStage

\* Who works, and at what.
LEMMA ListWorks ==
  ASSUME ListStage, NEW w \in Listing!Window, ~Stale(w)
  PROVE  /\ botState = "Selling" /\ ~aborted /\ w = lastWindow
         /\ \A v \in Listing!Window : v # w => Stale(v)
         /\ \/ /\ handler[w].pc = "start" /\ sent \in Seq(Quiet) /\ pending \in Seq(Told)
               /\ \/ handler[w].page = "ah"
                  \/ handler[w].page \in EarlyPages /\ stage \in EarlySteps
                  \/ handler[w].page \in LatePages /\ stage \in LateSteps /\ Late
            \/ /\ handler[w].pc = "click" /\ sent \in Seq(Quiet) /\ pending \in Seq(Told)
               /\ \/ handler[w].page \in {"ah", "manage", "type"} /\ stage \in EarlySteps
                  \/ handler[w].page \in LatePages /\ stage \in LateSteps /\ Late
            \/ /\ handler[w].pc = "place" /\ sent \in Seq(Quiet) /\ pending \in Seq(Told)
               /\ handler[w].item = asked[field]
            \/ /\ handler[w].pc = "price"
               /\ \/ sent \in Seq(Quiet) /\ ListItem(w)
                  \/ Line(sent, Quiet, <<Listing!Click(w, asked[field])>>) /\ pending \in Seq(Told)
            \/ handler[w].pc = "done" /\ sent \in Seq(Spent) /\ pending \in Seq(Told)
<1>1. ~AllStale BY DEF AllStale
<1>2. \A v \in Listing!Window : \A pc : Works(v, pc) => v = w BY DEF Works
<1>3. botState = "Selling" /\ ~aborted BY <1>1 DEF ListStage, ListOff
<1>4. \/ \E v \in Listing!Window : \E pc : Works(v, pc)
  BY <1>1, <1>3 DEF ListStage, ListOff, ListOpening, ListArrived, ListDead, ListSteers, ListPlaces,
     ListPrices, ListLasts, ListDone
<1>5. w = lastWindow /\ \A v \in Listing!Window : v # w => Stale(v) BY <1>2, <1>4 DEF Works
<1>6. CASE ListSteers BY <1>1, <1>2, <1>3, <1>5, <1>6 DEF ListSteers, Works
<1>7. CASE ListPlaces BY <1>1, <1>2, <1>3, <1>5, <1>7 DEF ListPlaces, Works
<1>8. CASE ListPrices BY <1>1, <1>2, <1>3, <1>5, <1>8 DEF ListPrices, Works
<1>9. CASE ListLasts BY <1>1, <1>2, <1>3, <1>5, <1>9 DEF ListLasts, Works
<1>10. CASE ListDone BY <1>1, <1>2, <1>3, <1>5, <1>10 DEF ListDone, Works
<1> QED BY <1>1, <1>6, <1>7, <1>8, <1>9, <1>10 DEF ListStage, ListOff, ListOpening, ListArrived, ListDead

\* What becomes of the handlers when that of w ends or goes on.
LEMMA ListHands ==
  ASSUME ListingInv, NEW w \in Listing!Window
  PROVE  /\ Listing!Ends(w) =>
               handler'[w].pc = "none" /\ \A v \in Listing!Window : v # w => handler'[v] = handler[v]
         /\ \A pc : Listing!Becomes(w, pc) =>
               /\ handler'[w].pc = pc /\ handler'[w].page = handler[w].page
               /\ \A v \in Listing!Window : v # w => handler'[v] = handler[v]
         /\ Listing!ToPlace(w) =>
               /\ handler'[w].pc = "place" /\ handler'[w].item = asked[field]
               /\ \A v \in Listing!Window : v # w => handler'[v] = handler[v]
<1>1. handler \in [Listing!Window -> ListingTask] BY DEF ListingInv
<1>2. handler[w] \in ListingTask BY <1>1
<1>3. ASSUME Listing!Ends(w)
      PROVE  handler'[w].pc = "none" /\ \A v \in Listing!Window : v # w => handler'[v] = handler[v]
  BY <1>1, <1>3 DEF Listing!Ends, Listing!Off
<1>4. ASSUME NEW pc, Listing!Becomes(w, pc)
      PROVE  /\ handler'[w].pc = pc /\ handler'[w].page = handler[w].page
             /\ \A v \in Listing!Window : v # w => handler'[v] = handler[v]
  BY <1>1, <1>2, <1>4 DEF Listing!Becomes, ListingTask
<1>5. ASSUME Listing!ToPlace(w)
      PROVE  /\ handler'[w].pc = "place" /\ handler'[w].item = asked[field]
             /\ \A v \in Listing!Window : v # w => handler'[v] = handler[v]
  BY <1>1, <1>2, <1>5 DEF Listing!ToPlace, ListingTask
<1> QED BY <1>3, <1>4, <1>5

\* Only stale handlers are left, or w works on.
LEMMA ListLeaves ==
  ASSUME ListingInv, NEW w \in Listing!Window, \A v \in Listing!Window : v # w => Stale(v),
         \A v \in Listing!Window : v # w => handler'[v] = handler[v]
  PROVE  /\ handler'[w].pc = "none" /\ lastWindow' \in {lastWindow, 0} => AllStale'
         /\ lastWindow' = w /\ w = lastWindow => \A pc : handler'[w].pc = pc => Works(w, pc)'
<1>1. \A v \in Listing!Window : v # 0 BY DEF Listing!Window
<1>2. ASSUME handler'[w].pc = "none", lastWindow' \in {lastWindow, 0} PROVE AllStale'
  <2>1. ASSUME NEW v \in Listing!Window PROVE Stale(v)'
    BY <1>1, <1>2 DEF Stale
  <2> QED BY <2>1 DEF AllStale
<1>3. ASSUME lastWindow' = w, w = lastWindow, NEW pc, handler'[w].pc = pc PROVE Works(w, pc)'
  <2>1. ASSUME NEW v \in Listing!Window, v # w PROVE Stale(v)' BY <1>3, <2>1 DEF Stale
  <2> QED BY <1>3, <2>1 DEF Works
<1> QED BY <1>2, <1>3

\* The handler of a listing that is over sets the step.
LEMMA ListStalePrices ==
  ASSUME ListingInv, ListStage, NEW w \in Listing!Window, Listing!Prices(w), Stale(w)
  PROVE  ListStage'
<1> USE DEF Listing!game, Listing!bot, Listing!flags, Listing!proc
<1>1. /\ handler[w].pc = "price" /\ w # lastWindow /\ stage' = "PriceSign"
      /\ UNCHANGED <<shown, slot, sent, pending, botState, aborted, lastWindow, field, asked>>
  BY DEF Stale, Listing!Prices, Listing!At, Listing!ClickIfCurrent
<1>2. handler'[w].pc = "none" /\ \A v \in Listing!Window : v # w => handler'[v] = handler[v]
  BY ListHands DEF Listing!Prices
<1>3. ~AllNone BY <1>1 DEF AllNone
<1>4. AllStale => AllStale' BY <1>1, <1>2 DEF AllStale, Stale
<1>5. \A v \in Listing!Window : \A pc : Works(v, pc) => Works(v, pc)' /\ handler'[v] = handler[v] BY <1>1, <1>2 DEF Works, Stale
<1>6. /\ \A v : Fits(v)' <=> Fits(v)
      /\ Late' <=> Late
      /\ Item1' = Item1
  BY <1>1 DEF Fits, Late, Made, Item1
<1>7. stage' \in EarlySteps /\ stage' \in LateSteps BY <1>1 DEF EarlySteps, LateSteps
<1>8. ListOff => ListOff' BY <1>1, <1>3, <1>4 DEF ListOff
<1>9. ListOpening => ListOpening' BY <1>1, <1>3, <1>4 DEF ListOpening
<1>10. ListArrived => ListArrived' BY <1>1, <1>3, <1>4 DEF ListArrived
<1>11. ListDead => ListDead' BY <1>1, <1>3, <1>4 DEF ListDead, Unsigned
<1>12. ListSteers => ListSteers' BY <1>1, <1>4, <1>5, <1>7 DEF ListSteers
<1>13. ListPlaces => ListPlaces' BY <1>1, <1>5 DEF ListPlaces
<1>14. ListPrices => ListPrices' BY <1>1, <1>4, <1>5, <1>6, <1>7 DEF ListPrices, ListItem
<1>15. ListLasts => ListLasts' BY <1>1, <1>4, <1>5, <1>6, <1>7 DEF ListLasts
<1>16. ListDone => ListDone' BY <1>1, <1>5 DEF ListDone
<1> QED BY <1>1, <1>8, <1>9, <1>10, <1>11, <1>12, <1>13, <1>14, <1>15, <1>16 DEF ListStage

LEMMA ListClicks ==
  ASSUME NEW w, w = lastWindow, NEW s, Listing!ClickIfCurrent(w, s)
  PROVE  sent' = Append(sent, Listing!Click(w, s))
BY DEF Listing!ClickIfCurrent

\* The bot is idle again, and the handler of w has ended.
LEMMA ListIdles ==
  ASSUME ListingInv, NEW w \in Listing!Window, \A v \in Listing!Window : v # w => Stale(v),
         Listing!GoesIdle(w), sent \in Seq(Spent), pending \in Seq(Told), UNCHANGED pending
  PROVE  ListStage'
<1>1. /\ handler'[w].pc = "none" /\ \A v \in Listing!Window : v # w => handler'[v] = handler[v]
  BY ListHands DEF Listing!GoesIdle
<1>2. botState' = "Idle" /\ lastWindow' = 0 /\ sent' = Append(sent, Listing!Close(w))
  BY DEF Listing!GoesIdle, Listing!SendClose
<1>3. AllStale' BY <1>1, <1>2, ListLeaves
<1>4. sent' \in Seq(Spent) BY <1>2, Line0, LineKinds
<1>5. sent' \in Seq(Old) /\ pending' \in Seq(OldTold) /\ pending' \in Seq(Told) BY <1>4, LineSeqs
<1> QED BY <1>2, <1>3, <1>4, <1>5 DEF ListStage, ListOff

LEMMA ListHandleKeeps ==
  ASSUME ListingInv, ListStage, NEW w \in Listing!Window, Listing!Handle(w)
  PROVE  ListStage'
<1> USE DEF Listing!game, Listing!flow, Listing!flags, Listing!proc, Listing!At
<1>1. CASE Stale(w)
  <2>1. Listing!Prices(w)
    BY <1>1 DEF Listing!Handle, Stale, Listing!Bails, Listing!Steers, Listing!Goes, Listing!Reads,
       Listing!Presses, Listing!Done, Listing!LimitReached, Listing!Waits, Listing!Selects, Listing!Places
  <2> QED BY <1>1, <2>1, ListStalePrices
<1>2. CASE ~Stale(w)
  <2>1. botState = "Selling" /\ ~aborted /\ w = lastWindow /\ \A v \in Listing!Window : v # w => Stale(v)
    BY <1>2, ListWorks
  <2>2. CASE Listing!Bails(w) BY <2>1, <2>2 DEF Listing!Bails
  <2>3. CASE Listing!Steers(w)
    <3>1. /\ UNCHANGED <<shown, slot, sent, pending, botState, aborted, lastWindow, field, asked>>
          /\ handler[w].pc = "start" /\ Listing!Becomes(w, "click")
          /\ \/ stage = "Initial" /\ handler[w].page = "ah" /\ stage' = "OpenManage"
             \/ stage = "OpenManage" /\ handler[w].page = "manage" /\ stage' = "ClickCreate"
             \/ stage \in {"OpenManage", "ClickCreate"} /\ handler[w].page = "type" /\ stage' = "SelectBIN"
             \/ stage \in {"SetDuration", "ConfirmSell"} /\ handler[w].page = "bin" /\ stage' \in LateSteps
             \/ handler[w].page \in {"duration", "sure"} /\ stage' = stage
      BY <2>3 DEF Listing!Steers, Listing!Goes, Listing!Reads, Listing!bot, Listing!wire, LateSteps
    <3>2. /\ handler'[w].pc = "click" /\ handler'[w].page = handler[w].page
          /\ \A v \in Listing!Window : v # w => handler'[v] = handler[v]
      BY <3>1, ListHands
    <3>3. Works(w, "click")' BY <2>1, <3>1, <3>2, ListLeaves
    <3>4. /\ sent' \in Seq(Quiet) /\ pending' \in Seq(Told)
          /\ \/ handler[w].page = "ah"
             \/ handler[w].page \in EarlyPages /\ stage \in EarlySteps
             \/ handler[w].page \in LatePages /\ stage \in LateSteps /\ Late
      BY <1>2, <3>1, ListWorks
    <3>5. CASE handler[w].page \in {"ah", "manage", "type"}
      <4>1. stage' \in EarlySteps BY <3>1, <3>5 DEF EarlySteps
      <4> QED BY <2>1, <3>1, <3>2, <3>3, <3>4, <3>5, <4>1 DEF ListStage, ListSteers
    <3>6. CASE handler[w].page \in LatePages
      <4>1. stage \in LateSteps /\ stage' \in LateSteps /\ Late
        BY <3>1, <3>4, <3>6 DEF EarlySteps, LateSteps, EarlyPages, LatePages
      <4>2. Late' BY <3>1, <4>1 DEF Late, Made
      <4> QED BY <2>1, <3>1, <3>2, <3>3, <3>4, <3>6, <4>1, <4>2 DEF ListStage, ListLasts
    <3> QED BY <3>1, <3>5, <3>6 DEF LatePages
  <2>4. CASE Listing!Presses(w)
    <3>1. /\ UNCHANGED <<shown, slot, pending, botState, aborted, lastWindow, stage, field, asked>>
          /\ handler[w].pc = "click" /\ Listing!ClickIfCurrent(w, Listing!Target[handler[w].page])
          /\ handler[w].page = "sure" => Listing!Becomes(w, "done")
          /\ handler[w].page # "sure" => Listing!Ends(w)
      BY <2>4 DEF Listing!Presses, Listing!bot
    <3>2. /\ sent \in Seq(Quiet) /\ pending' \in Seq(Told)
          /\ \/ handler[w].page \in {"ah", "manage", "type"} /\ stage \in EarlySteps
             \/ handler[w].page \in LatePages /\ stage \in LateSteps /\ Late
      BY <1>2, <3>1, ListWorks
    <3>3. sent' = Append(sent, Listing!Click(w, Listing!Target[handler[w].page])) BY <2>1, <3>1, ListClicks
    <3>4. Late => Late' BY <3>1 DEF Late, Made
    <3>5. CASE handler[w].page = "sure"
      <4>1. Listing!Target[handler[w].page] = "confirm" BY <3>5 DEF Listing!Target
      <4>2. sent' \in Seq(Spent) BY <3>2, <3>3, <4>1, Line0, LineKinds, LineSeqs
      <4>3. Works(w, "done")' BY <2>1, <3>1, <3>5, ListHands, ListLeaves
      <4> QED BY <2>1, <3>1, <3>2, <4>2, <4>3 DEF ListStage, ListDone
    <3>6. CASE handler[w].page # "sure"
      <4>1. AllStale' BY <2>1, <3>1, <3>6, ListHands, ListLeaves
      <4>2. CASE handler[w].page \in {"ah", "manage", "type"} /\ stage \in EarlySteps
        <5>1. \E s \in {"manage", "create", "bin"} : Listing!Target[handler[w].page] = s
          BY <4>2 DEF Listing!Target
        <5>2. \E s \in {"manage", "create", "bin"} : Line(sent', Quiet, <<Listing!Click(w, s)>>)
          BY <3>2, <3>3, <5>1, Line0
        <5> QED BY <2>1, <3>1, <3>2, <4>1, <4>2, <5>2 DEF ListStage, ListSteers
      <4>3. CASE handler[w].page \in LatePages /\ stage \in LateSteps /\ Late
        <5>1. \E s \in {"next", "sign"} : Listing!Target[handler[w].page] = s
          BY <3>6, <4>3 DEF Listing!Target, LatePages
        <5>2. \E s \in {"next", "sign"} : Line(sent', Quiet, <<Listing!Click(w, s)>>)
          BY <3>2, <3>3, <5>1, Line0
        <5> QED BY <2>1, <3>1, <3>2, <3>4, <4>1, <4>3, <5>2 DEF ListStage, ListLasts
      <4> QED BY <3>2, <4>2, <4>3
    <3> QED BY <3>5, <3>6
  <2>5. CASE Listing!Done(w) \/ Listing!LimitReached(w)
    <3>1. handler[w].pc \in {"start", "done"} /\ Listing!GoesIdle(w) /\ UNCHANGED pending
      BY <2>5 DEF Listing!Done, Listing!LimitReached, Listing!Reads
    <3>2. sent \in Seq(Spent) /\ pending \in Seq(Told) BY <1>2, <3>1, ListWorks, LineSeqs
    <3> QED BY <2>1, <3>1, <3>2, ListIdles
  <2>6. CASE Listing!Waits(w)
    <3>1. /\ UNCHANGED <<sent, pending, botState, aborted, lastWindow>>
          /\ handler[w].pc = "start" /\ Listing!Ends(w)
      BY <2>6 DEF Listing!Waits, Listing!bot, Listing!wire
    <3>2. sent' \in Seq(Quiet) /\ pending' \in Seq(Told) BY <1>2, <3>1, ListWorks
    <3>3. AllStale' BY <2>1, <3>1, ListHands, ListLeaves
    <3> QED BY <2>1, <3>1, <3>2, <3>3, LineSeqs DEF ListStage, ListDead, Unsigned
  <2>7. CASE Listing!Selects(w)
    <3>1. /\ UNCHANGED <<pending, aborted, field, asked>> /\ handler[w].pc = "start"
          /\ \/ /\ UNCHANGED <<botState, lastWindow>> /\ Listing!ToPlace(w)
                /\ Listing!ClickIfCurrent(w, "preview") \/ UNCHANGED sent
             \/ Listing!GoesIdle(w)
      BY <2>7 DEF Listing!Selects, Listing!bot, Listing!Reads
    <3>2. sent \in Seq(Quiet) /\ pending \in Seq(Told) BY <1>2, <3>1, ListWorks
    <3>3. CASE Listing!GoesIdle(w) BY <2>1, <3>1, <3>2, <3>3, ListIdles, LineSeqs
    <3>4. CASE /\ UNCHANGED <<botState, lastWindow>> /\ Listing!ToPlace(w)
               /\ Listing!ClickIfCurrent(w, "preview") \/ UNCHANGED sent
      <4>0. sent' = sent \/ sent' = Append(sent, Listing!Click(w, "preview")) BY <2>1, <3>4, ListClicks
      <4>1. sent' \in Seq(Quiet) BY <3>2, <4>0, Line0, LineKinds
      <4>2. Works(w, "place")' /\ handler'[w].item = asked[field] BY <2>1, <3>4, ListHands, ListLeaves
      <4> QED BY <2>1, <3>1, <3>2, <3>4, <4>1, <4>2 DEF ListStage, ListPlaces
    <3> QED BY <3>1, <3>3, <3>4
  <2>8. CASE Listing!Places(w)
    <3>1. /\ UNCHANGED <<pending, botState, aborted, lastWindow, field, asked>>
          /\ handler[w].pc = "place" /\ Listing!ClickIfCurrent(w, handler[w].item) /\ Listing!Becomes(w, "price")
      BY <2>8 DEF Listing!Places, Listing!bot
    <3>2. sent \in Seq(Quiet) /\ pending' \in Seq(Told) /\ handler[w].item = asked[field]
      BY <1>2, <3>1, ListWorks
    <3>3. Line(sent', Quiet, <<Listing!Click(w, asked[field])>>) BY <2>1, <3>1, <3>2, ListClicks, Line0
    <3>4. Works(w, "price")' BY <2>1, <3>1, ListHands, ListLeaves
    <3> QED BY <2>1, <3>1, <3>2, <3>3, <3>4 DEF ListStage, ListPrices
  <2>9. CASE Listing!Prices(w)
    <3>1. /\ UNCHANGED <<shown, slot, pending, botState, aborted, lastWindow, field, asked>>
          /\ handler[w].pc = "price" /\ Listing!ClickIfCurrent(w, "price") /\ Listing!Ends(w)
          /\ stage' = "PriceSign"
      BY <2>9 DEF Listing!Prices, Listing!bot
    <3>2. \/ sent \in Seq(Quiet) /\ ListItem(w)
          \/ Line(sent, Quiet, <<Listing!Click(w, asked[field])>>) /\ pending' \in Seq(Told)
      BY <1>2, <3>1, ListWorks
    <3>3. \/ Line(sent', Quiet, <<Listing!Click(w, "price")>>) /\ ListItem(w)
          \/ /\ Line(sent', Quiet, <<Listing!Click(w, asked[field]), Listing!Click(w, "price")>>)
             /\ pending' \in Seq(Told)
      <4>1. sent' = Append(sent, Listing!Click(w, "price")) BY <2>1, <3>1, ListClicks
      <4>2. CASE sent \in Seq(Quiet) /\ ListItem(w) BY <4>1, <4>2, Line0
      <4>3. CASE Line(sent, Quiet, <<Listing!Click(w, asked[field])>>) /\ pending' \in Seq(Told)
        BY <4>1, <4>3, Line1
      <4> QED BY <3>2, <4>2, <4>3
    <3>4. AllStale' BY <2>1, <3>1, ListHands, ListLeaves
    <3>5. ListItem(w) => ListItem(w)' BY <3>1 DEF ListItem, Fits, Item1
    <3> QED BY <2>1, <3>1, <3>3, <3>4, <3>5 DEF ListStage, ListPrices
  <2> QED BY <2>2, <2>3, <2>4, <2>5, <2>6, <2>7, <2>8, <2>9 DEF Listing!Handle
<1> QED BY <1>1, <1>2

LEMMA ListProcessorKeeps ==
  ASSUME ListingInv, ListStage,
         \/ Listing!Begin \/ Listing!Execute \/ Listing!Complete \/ Listing!Timeout
         \/ Listing!ClearBlocked \/ Listing!Watchdog \/ Listing!RetryTask
         \/ UNCHANGED Listing!vars
  PROVE  ListStage'
<1> USE DEF Listing!game, Listing!wire, Listing!bot, Listing!flow, Listing!flags, Listing!tasks, Listing!proc
<1>0. /\ botState \in {"Idle", "Selling"}
      /\ lastWindow # 0 => lastWindow \in Listing!Window
      /\ \A v \in Listing!Window : v # 0
  BY ListingWindow DEF ListingInv, Listing!TypeOK, Listing!Window
<1>1. CASE Listing!Complete \/ Listing!ClearBlocked \/ UNCHANGED Listing!vars
  BY <1>1, ListSame DEF Listing!Complete, Listing!ClearBlocked, Listing!vars
<1>2. CASE Listing!Begin
  <2>1. /\ botState = "Idle" /\ botState' = "Idle"
        /\ UNCHANGED <<shown, slot, pending, aborted, handler, stage, field, asked>>
    BY <1>2 DEF Listing!Begin
  <2>2. ListOff BY <2>1 DEF ListStage
  <2>3. CASE UNCHANGED <<sent, lastWindow>> BY <2>1, <2>3, ListSame DEF Listing!bot
  <2>4. CASE lastWindow # 0 /\ Listing!SendClose(lastWindow)
    <3>1. lastWindow' = 0 /\ sent' = Append(sent, Listing!Close(lastWindow)) BY <2>4 DEF Listing!SendClose
    <3>2. AllStale' BY <1>0, <2>1, <2>2, <3>1 DEF ListOff, AllStale, Stale
    <3>3. Listing!Close(lastWindow) \in Spent /\ Listing!Close(lastWindow) \in Old BY <1>0, <2>4, LineKinds
    <3>4. sent' \in Seq(Old) BY <2>2, <3>1, <3>3, Line0 DEF ListOff
    <3>5. sent \in Seq(Spent) => sent' \in Seq(Spent) BY <3>1, <3>3, Line0
    <3> QED BY <2>1, <2>2, <3>2, <3>4, <3>5 DEF ListStage, ListOff, AllNone
  <2> QED BY <1>2, <2>3, <2>4 DEF Listing!Begin
<1>3. CASE Listing!Execute
  <2>1. /\ botState' = "Selling" /\ ~aborted' /\ stage' = "Initial" /\ sent' = Append(sent, Listing!Ah)
        /\ UNCHANGED <<pending, lastWindow, handler>>
    BY <1>3 DEF Listing!Execute
  <2>2. botState = "Idle" BY <1>0, <1>3 DEF Listing!Execute, ListingInv
  <2>3. ListOff BY <2>2 DEF ListStage
  <2>4. AllStale' /\ (AllNone => AllNone') BY <2>1, <2>3 DEF ListOff, AllStale, AllNone, Stale
  <2>5. /\ Line(sent', Old, <<Listing!Ah>>)
        /\ sent \in Seq(Spent) => Line(sent', Spent, <<Listing!Ah>>)
    BY <2>1, <2>3, Line0 DEF ListOff
  <2> QED BY <2>1, <2>2, <2>3, <2>4, <2>5 DEF ListStage, ListOff, ListOpening
<1>4. CASE Listing!Timeout \/ Listing!Watchdog
  <2>1. /\ botState' = "Idle" /\ sent = <<>> /\ pending = <<>> /\ AllNone /\ UNCHANGED <<pending, handler>>
        /\ sent' = <<>> \/ (lastWindow # 0 /\ sent' = Append(sent, Listing!Close(lastWindow)))
    BY <1>4 DEF Listing!Timeout, Listing!Watchdog, Listing!Nothing, Listing!AllFree, Listing!Free, AllNone,
       Listing!SendClose
  <2>2. sent \in Seq(Old) /\ pending' \in Seq(OldTold) BY <2>1, LineSeqs
  <2>3. sent' \in Seq(Old)
    <3>1. lastWindow # 0 => Listing!Close(lastWindow) \in Old BY <1>0, LineKinds
    <3> QED BY <2>1, <2>2, <3>1, Line0
  <2>4. AllNone' /\ AllStale' BY <2>1 DEF AllNone, AllStale, Stale
  <2> QED BY <2>1, <2>2, <2>3, <2>4 DEF ListStage, ListOff
<1>5. CASE Listing!RetryTask
  <2>1. /\ sent = <<>> /\ pending = <<>> /\ AllNone
        /\ UNCHANGED <<shown, slot, pending, handler, botState, lastWindow, stage, field, asked>>
    BY <1>5 DEF Listing!RetryTask, Listing!Nothing, Listing!AllFree, Listing!Free, AllNone
  <2>2. CASE UNCHANGED <<aborted, sent>> BY <2>1, <2>2, ListSame
  <2>3. CASE botState = "Selling" /\ aborted' = FALSE /\ sent' = Append(sent, Listing!Ah)
    <3>1. sent \in Seq(Spent) /\ pending' \in Seq(Told) /\ pending' \in Seq(OldTold) BY <2>1, LineSeqs
    <3>2. Line(sent', Spent, <<Listing!Ah>>) BY <2>3, <3>1, Line0
    <3>3. AllStale' BY <2>1 DEF AllNone, AllStale, Stale
    <3> QED BY <2>1, <2>3, <3>1, <3>2, <3>3 DEF ListStage, ListOpening
  <2> QED BY <1>5, <2>2, <2>3 DEF Listing!RetryTask
<1> QED BY <1>1, <1>2, <1>3, <1>4, <1>5

\* The event that a window has opened is the last there is.
LEMMA ListOpenKeeps ==
  ASSUME ListingInv, ListStage, Listing!OpenScreen
  PROVE  AllStale /\ ListStage'
<1> USE DEF Listing!game, Listing!flow, Listing!flags, Listing!proc
<1> DEFINE e == Head(pending)
<1>1. pending # <<>> /\ e[1] = "open" /\ pending' = Tail(pending)
  BY DEF Listing!OpenScreen, Listing!Event
<1>2. pending \notin Seq(OldTold) /\ pending \notin Seq(Told)
  BY <1>1, Line0, LineKinds, LineSeqs
<1>3. \A x : x[1] # "open" => ~Line(pending, Told, <<x>>)
  BY <1>1, Line1, LineKinds
<1>4. \A x, y : x[1] # "open" => ~Line(pending, Told, <<x, y>>)
  BY <1>1, Line2, LineKinds
<1>5. \A x : Line(pending, OldTold, <<x>>) => e = x /\ pending' = <<>>
  BY <1>1, Line1, LineKinds
<1>6. \A x : Line(pending, Told, <<x>>) => e = x /\ pending' = <<>>
  BY <1>1, Line1, LineKinds
<1> HIDE DEF e
<1> SUFFICES ASSUME NEW w, w = e[2], NEW page, page = e[3] PROVE AllStale /\ ListStage' OBVIOUS
<1>7. /\ ~ListOff /\ ~ListOpening /\ ~ListDead /\ ~ListPlaces /\ ~ListPrices /\ ~ListDone
  BY <1>2, <1>3, <1>4 DEF ListOff, ListOpening, ListDead, ListPlaces, ListPrices, ListItem, ListDone
<1>8. /\ botState = "Selling" /\ ~aborted /\ w \in Listing!Window /\ AllStale /\ sent \in Seq(Quiet) /\ pending' = <<>>
      /\ \/ page = "ah"
         \/ page \in EarlyPages /\ stage \in EarlySteps
         \/ page \in LatePages /\ stage \in LateSteps /\ Late
  <2>1. CASE ListArrived
    <3>1. PICK v \in Listing!Window : \/ Line(pending, Told, <<<<"open", v, "ah">>>>)
                                      \/ Line(pending, OldTold, <<<<"open", v, "ah">>>>)
      BY <2>1 DEF ListArrived
    <3>2. e = <<"open", v, "ah">> /\ pending' = <<>> BY <3>1, <1>5, <1>6
    <3> QED BY <1>7, <2>1, <3>2 DEF ListStage, ListArrived
  <2>2. CASE ListSteers
    <3>1. PICK v \in Listing!Window, g \in EarlyPages : Line(pending, Told, <<<<"open", v, g>>>>)
      BY <1>2, <2>2 DEF ListSteers
    <3>2. e = <<"open", v, g>> /\ pending' = <<>> BY <3>1, <1>6
    <3> QED BY <1>2, <1>7, <2>2, <3>2 DEF ListStage, ListSteers
  <2>3. CASE ListLasts
    <3>1. ~Line(pending, Told, <<<<"sign">>>>) BY <1>3
    <3>2. PICK v \in Listing!Window, g \in LatePages : Line(pending, Told, <<<<"open", v, g>>>>)
      BY <1>2, <2>3, <3>1 DEF ListLasts
    <3>3. e = <<"open", v, g>> /\ pending' = <<>> BY <3>2, <1>6
    <3> QED BY <1>2, <1>7, <2>3, <3>1, <3>3 DEF ListStage, ListLasts
  <2> QED BY <1>7, <2>1, <2>2, <2>3 DEF ListStage
<1>9. /\ UNCHANGED <<shown, slot, sent, botState, aborted, stage, field, asked>> /\ lastWindow' = w
      /\ handler' = [handler EXCEPT ![w] = [Listing!Off EXCEPT !.pc = "start", !.page = page]]
  BY <1>8 DEF Listing!OpenScreen, e
<1>10. /\ handler'[w].pc = "start" /\ handler'[w].page = page
       /\ \A v \in Listing!Window : v # w => handler'[v] = handler[v]
  <2>1. handler \in [Listing!Window -> ListingTask] BY DEF ListingInv
  <2> QED BY <1>8, <1>9, <2>1 DEF Listing!Off
<1>11. Works(w, "start")'
  <2>1. ASSUME NEW v \in Listing!Window, v # w PROVE Stale(v)'
    BY <1>8, <1>9, <1>10, <2>1 DEF AllStale, Stale
  <2> QED BY <1>9, <1>10, <2>1 DEF Works
<1>12. pending' \in Seq(Told) /\ sent' \in Seq(Quiet) BY <1>8, <1>9, LineSeqs
<1>13. Late => Late' BY <1>9 DEF Late, Made
<1> QED BY <1>8, <1>9, <1>10, <1>11, <1>12, <1>13 DEF ListStage, ListSteers, ListLasts

\* What is left of the events when the first is handled.
LEMMA ListEvents ==
  ASSUME NEW kind, Listing!Event(kind), kind # "open"
  PROVE  /\ \A P : pending \in Seq(P) => Head(pending) \in P /\ pending' \in Seq(P)
         /\ \A P : \A a : a[1] # kind /\ Line(pending, P, <<a>>) => Line(pending', P, <<a>>) /\ Head(pending) \in P
         /\ \A P : \A a : Line(pending, P, <<a>>) =>
               \/ Head(pending) \in P /\ Line(pending', P, <<a>>)
               \/ a[1] = kind /\ pending' = <<>>
         /\ \A P : \A a, b : Line(pending, P, <<a, b>>) =>
               \/ Head(pending) \in P /\ Line(pending', P, <<a, b>>)
               \/ a[1] = kind /\ Line(pending', P, <<b>>)
         /\ \A P : P \in {Told, OldTold} /\ Head(pending) \in P => kind \in {"started", "sign"}
         /\ Head(pending) \in Told => kind = "started"
<1>1. pending # <<>> /\ Head(pending)[1] = kind /\ pending' = Tail(pending) BY DEF Listing!Event
<1>2. ASSUME NEW P, pending \in Seq(P) PROVE Head(pending) \in P /\ pending' \in Seq(P)
  BY <1>1, <1>2, Line0
<1>3. ASSUME NEW P, NEW a, Line(pending, P, <<a>>)
      PROVE  \/ Head(pending) \in P /\ Line(pending', P, <<a>>)
             \/ a[1] = kind /\ pending' = <<>>
  BY <1>1, <1>3, Line1
<1>4. ASSUME NEW P, NEW a, NEW b, Line(pending, P, <<a, b>>)
      PROVE  \/ Head(pending) \in P /\ Line(pending', P, <<a, b>>)
             \/ a[1] = kind /\ Line(pending', P, <<b>>)
  BY <1>1, <1>4, Line2
<1>5. /\ Head(pending) \in Told => kind = "started"
      /\ Head(pending) \in OldTold => kind \in {"started", "sign"}
  BY <1>1, LineKinds
<1> QED BY <1>2, <1>3, <1>4, <1>5

LEMMA ListStartedKeeps ==
  ASSUME ListStage, Listing!Started
  PROVE  ListStage'
<1> USE DEF Listing!game, Listing!bot, Listing!flow, Listing!tasks, Listing!proc
<1>1. UNCHANGED <<shown, slot, sent, botState, aborted, lastWindow, handler, stage, field, asked>>
      /\ Listing!Event("started")
  BY DEF Listing!Started
<1>2. /\ AllStale' <=> AllStale
      /\ AllNone' <=> AllNone
      /\ \A w, pc : Works(w, pc)' <=> Works(w, pc)
  BY <1>1 DEF AllStale, AllNone, Works, Stale
<1>3. /\ \A w : Fits(w)' <=> Fits(w)
      /\ Late' <=> Late
      /\ Item1' = Item1
  BY <1>1 DEF Fits, Late, Made, Item1
<1>4. /\ pending \in Seq(Told) => pending' \in Seq(Told)
      /\ pending \in Seq(OldTold) => pending' \in Seq(OldTold)
  BY <1>1, ListEvents
<1>5. /\ \A P, w, page : Line(pending, P, <<<<"open", w, page>>>>) => Line(pending', P, <<<<"open", w, page>>>>)
      /\ \A P : Line(pending, P, <<<<"sign">>>>) => Line(pending', P, <<<<"sign">>>>)
      /\ \A P : Line(pending, P, <<<<"stuck">>>>) => Line(pending', P, <<<<"stuck">>>>)
      /\ \A P : Line(pending, P, <<<<"stuck">>, <<"sign">>>>) => Line(pending', P, <<<<"stuck">>, <<"sign">>>>)
  <2>1. ASSUME NEW P, NEW a, a[1] # "started", Line(pending, P, <<a>>) PROVE Line(pending', P, <<a>>)
    BY <1>1, <2>1, ListEvents
  <2>2. ASSUME NEW P, NEW a, NEW b, a[1] # "started", Line(pending, P, <<a, b>>) PROVE Line(pending', P, <<a, b>>)
    BY <1>1, <2>2, ListEvents
  <2>3. \A w, page : <<"open", w, page>>[1] # "started" OBVIOUS
  <2>4. <<"sign">>[1] # "started" /\ <<"stuck">>[1] # "started" OBVIOUS
  <2> QED BY <2>1, <2>2, <2>3, <2>4
<1>6. ListOff => ListOff' BY <1>1, <1>2, <1>4 DEF ListOff
<1>7. ListOpening => ListOpening' BY <1>1, <1>2, <1>4 DEF ListOpening
<1>8. ListArrived => ListArrived' BY <1>1, <1>2, <1>5 DEF ListArrived
<1>9. ListDead => ListDead' BY <1>1, <1>2, <1>4, <1>5 DEF ListDead, Unsigned
<1>10. ListSteers => ListSteers' BY <1>1, <1>2, <1>4, <1>5 DEF ListSteers
<1>11. ListPlaces => ListPlaces' BY <1>1, <1>2, <1>4 DEF ListPlaces
<1>12. ListPrices => ListPrices' BY <1>1, <1>2, <1>3, <1>4, <1>5 DEF ListPrices, ListItem
<1>13. ListLasts => ListLasts' BY <1>1, <1>2, <1>3, <1>4, <1>5 DEF ListLasts
<1>14. ListDone => ListDone' BY <1>1, <1>2, <1>4 DEF ListDone
<1> QED BY <1>1, <1>6, <1>7, <1>8, <1>9, <1>10, <1>11, <1>12, <1>13, <1>14 DEF ListStage

\* A sign that a listing left behind is not filled in; its own has the bid, or
\* the hours.
LEMMA ListSignKeeps ==
  ASSUME ListStage, Listing!SignEditor
  PROVE  ListStage'
<1> USE DEF Listing!game, Listing!bot, Listing!flags, Listing!tasks, Listing!proc
<1>1. UNCHANGED <<shown, slot, botState, aborted, lastWindow, handler, field, asked>>
      /\ Listing!Event("sign")
  BY DEF Listing!SignEditor
<1>2. /\ AllStale' <=> AllStale
      /\ AllNone' <=> AllNone
  BY <1>1 DEF AllStale, AllNone, Stale
<1>3. pending \notin Seq(Told) \/ pending = <<>> BY <1>1, ListEvents
<1>4. pending # <<>> /\ pending \notin Seq(Told) BY <1>1, <1>3 DEF Listing!Event
<1>5. pending \in Seq(OldTold) => pending' \in Seq(OldTold) BY <1>1, ListEvents
<1>6. \/ UNCHANGED <<stage, sent>>
      \/ /\ botState = "Selling" /\ ~aborted /\ stage \in {"PriceSign", "DurationSign"}
         /\ stage' \in {"SetDuration", "ConfirmSell"}
         /\ sent' = Append(sent, [op |-> "sign", text |-> field])
  BY DEF Listing!SignEditor
<1>7. ASSUME botState = "Idle" \/ aborted \/ stage = "Initial" PROVE UNCHANGED <<stage, sent>>
  BY <1>6, <1>7
<1>8. CASE ListOff BY <1>1, <1>2, <1>4, <1>5, <1>7, <1>8 DEF ListStage, ListOff
<1>9. CASE ListOpening /\ botState = "Selling" /\ ~aborted
  BY <1>1, <1>2, <1>4, <1>5, <1>7, <1>9 DEF ListStage, ListOpening
<1>10. CASE ListArrived /\ botState = "Selling" /\ ~aborted
  <2>1. PICK w \in Listing!Window : Line(pending, Told, <<<<"open", w, "ah">>>>)
                                    \/ (Line(pending, OldTold, <<<<"open", w, "ah">>>>) /\ AllNone /\ stage = "Initial")
    BY <1>10 DEF ListArrived
  <2>2. ~Line(pending, Told, <<<<"open", w, "ah">>>>) BY <1>1, ListEvents
  <2>3. Line(pending', OldTold, <<<<"open", w, "ah">>>>) BY <1>1, <2>1, <2>2, ListEvents
  <2> QED BY <1>1, <1>2, <1>7, <1>10, <2>1, <2>2, <2>3 DEF ListStage, ListArrived
<1>11. CASE ListDead /\ botState = "Selling" /\ ~aborted
  <2>1. ~Line(pending, Told, <<<<"stuck">>>>) BY <1>1, ListEvents
  <2> QED BY <1>1, <1>2, <1>4, <1>5, <1>7, <1>11, <2>1 DEF ListStage, ListDead, Unsigned
<1>12. CASE ListPrices /\ botState = "Selling" /\ ~aborted
  <2>1. ~Line(pending, Told, <<<<"stuck">>>>) /\ ~Line(pending, Told, <<<<"stuck">>, <<"sign">>>>)
    <3>1. <<"stuck">>[1] # "sign" /\ Head(pending) \notin Told BY <1>1, ListEvents
    <3>2. ~Line(pending, Told, <<<<"stuck">>>>) BY <1>1, <3>1, ListEvents
    <3>3. ~Line(pending, Told, <<<<"stuck">>, <<"sign">>>>) BY <1>1, <3>1, ListEvents
    <3> QED BY <3>2, <3>3
  <2>2. /\ AllStale /\ stage = "PriceSign" /\ sent \in Seq(Quiet)
        /\ shown = [page |-> "priceSign", id |-> 0] /\ slot = Item1 /\ Line(pending, Told, <<<<"sign">>>>)
    BY <1>4, <1>12, <2>1 DEF ListPrices, ListItem
  <2>3. pending' = <<>>
    <3>1. Head(pending) \notin Told BY <1>1, ListEvents
    <3> QED BY <1>1, <2>2, <3>1, ListEvents
  <2>4. stage' = "SetDuration" /\ sent' = Append(sent, [op |-> "sign", text |-> field])
    BY <1>12, <2>2 DEF Listing!SignEditor
  <2>5. Line(sent', Quiet, <<[op |-> "sign", text |-> field]>>) BY <2>2, <2>4, Line0
  <2>6. stage' \in LateSteps /\ pending' \in Seq(Told) BY <2>3, <2>4, LineSeqs DEF LateSteps
  <2>7. slot' = Item1' BY <1>1, <2>2 DEF Item1
  <2> QED BY <1>1, <1>2, <1>12, <2>2, <2>5, <2>6, <2>7 DEF ListStage, ListPrices
<1>13. CASE ListLasts /\ botState = "Selling" /\ ~aborted
  <2>1. \A w, page : ~Line(pending, Told, <<<<"open", w, page>>>>) BY <1>1, ListEvents
  <2>2. /\ stage \in LateSteps /\ Late
        /\ AllStale /\ sent \in Seq(Quiet) /\ shown = [page |-> "hoursSign", id |-> 0]
        /\ Line(pending, Told, <<<<"sign">>>>)
    BY <1>4, <1>13, <2>1 DEF ListLasts
  <2>3. pending' = <<>>
    <3>1. Head(pending) \notin Told BY <1>1, ListEvents
    <3> QED BY <1>1, <2>2, <3>1, ListEvents
  <2>4. pending' \in Seq(Told) /\ pending' \in Seq(OldTold) BY <2>3, LineSeqs
  <2>5. Late' BY <1>1, <2>2 DEF Late, Made
  <2>6. CASE UNCHANGED <<stage, sent>>
    BY <1>1, <1>2, <1>13, <2>2, <2>4, <2>6 DEF ListStage, ListDead, Unsigned
  <2>7. CASE stage' \in {"SetDuration", "ConfirmSell"} /\ sent' = Append(sent, [op |-> "sign", text |-> field])
    <3>1. Line(sent', Quiet, <<[op |-> "sign", text |-> field]>>) BY <2>2, <2>7, Line0
    <3>2. stage' \in LateSteps BY <2>7 DEF LateSteps
    <3> QED BY <1>1, <1>2, <1>13, <2>2, <2>4, <2>5, <3>1, <3>2 DEF ListStage, ListLasts
  <2> QED BY <1>6, <2>6, <2>7
<1>14. ~ListSteers /\ ~ListPlaces /\ ~ListDone
  <2>1. \A w, page : ~Line(pending, Told, <<<<"open", w, page>>>>) BY <1>1, ListEvents
  <2> QED BY <1>4, <2>1 DEF ListSteers, ListPlaces, ListDone
<1> QED BY <1>8, <1>9, <1>10, <1>11, <1>12, <1>13, <1>14 DEF ListStage

\* The item did not fit: the listing is given up, for now or for good.
LEMMA ListStuckKeeps ==
  ASSUME ListingInv, ListStage, StuckFits, Listing!StuckItem
  PROVE  ListStage'
<1> USE DEF Listing!game, Listing!bot, Listing!proc
<1>1. UNCHANGED handler /\ Listing!Event("stuck") BY DEF Listing!StuckItem
<1>2. pending \notin Seq(Told) /\ pending \notin Seq(OldTold)
  <2>1. pending # <<>> BY <1>1 DEF Listing!Event
  <2> QED BY <1>1, <2>1, ListEvents
<1>3. /\ \A w, page : ~Line(pending, Told, <<<<"open", w, page>>>>) /\ ~Line(pending, OldTold, <<<<"open", w, page>>>>)
      /\ ~Line(pending, Told, <<<<"sign">>>>)
  <2>1. Head(pending) \notin Told /\ Head(pending) \notin OldTold BY <1>1, ListEvents
  <2>2. ASSUME NEW P \in {Told, OldTold}, NEW a, a[1] # "stuck" PROVE ~Line(pending, P, <<a>>)
    BY <1>1, <2>1, <2>2, ListEvents
  <2>3. \A w, page : <<"open", w, page>>[1] # "stuck" OBVIOUS
  <2>4. <<"sign">>[1] # "stuck" OBVIOUS
  <2> QED BY <2>2, <2>3, <2>4
<1>4. /\ Line(pending, Told, <<<<"stuck">>>>) => pending' = <<>>
      /\ Line(pending, Told, <<<<"stuck">>, <<"sign">>>>) => Line(pending', Told, <<<<"sign">>>>)
  BY <1>1, ListEvents
<1>5. /\ botState = "Selling" /\ ~aborted /\ sent \in Seq(Old)
      /\ \/ AllStale /\ pending' \in Seq(OldTold)
         \/ /\ \E w \in Listing!Window : Works(w, "price")
            /\ sent \in Seq(Quiet) /\ pending' = <<>>
  <2>1. ~ListOff /\ ~ListOpening /\ ~ListArrived /\ ~ListSteers /\ ~ListPlaces /\ ~ListLasts /\ ~ListDone
    <3>2. ~ListOff /\ ~ListOpening /\ ~ListPlaces /\ ~ListDone
      BY <1>2 DEF ListOff, ListOpening, ListPlaces, ListDone
    <3>3. ~ListArrived /\ ~ListSteers BY <1>2, <1>3 DEF ListArrived, ListSteers
    <3>4. ~ListLasts BY <1>2, <1>3 DEF ListLasts
    <3> QED BY <3>2, <3>3, <3>4
  <2>2. \A w \in Listing!Window : Line(sent, Quiet, <<Listing!Click(w, "price")>>) => sent \in Seq(Old)
    <3> SUFFICES ASSUME NEW w \in Listing!Window, NEW t \in Seq(Quiet), sent = t \o <<Listing!Click(w, "price")>>
                 PROVE  sent \in Seq(Old)
      BY DEF Line
    <3> QED BY LineKinds, LineSeqs
  <2>3. Line(pending', Told, <<<<"sign">>>>) => pending' \in Seq(OldTold)
    <3> SUFFICES ASSUME NEW t \in Seq(Told), pending' = t \o <<<<"sign">>>>
                 PROVE  pending' \in Seq(OldTold)
      BY DEF Line
    <3> QED BY LineKinds, LineSeqs
  <2>4. CASE ListDead BY <1>2, <1>4, <2>1, <2>4, LineSeqs DEF ListStage, ListDead
  <2>5. CASE ListPrices BY <1>2, <1>3, <1>4, <2>1, <2>2, <2>3, <2>5, LineSeqs DEF ListStage, ListPrices, ListItem
  <2> QED BY <2>1, <2>4, <2>5 DEF ListStage
<1>6. /\ aborted' /\ lastWindow' \in {lastWindow, 0}
      /\ lastWindow # 0 => lastWindow' = 0
                           /\ sent' = sent \o <<Listing!Click(lastWindow, "preview"), Listing!Close(lastWindow)>>
      /\ lastWindow = 0 => lastWindow' = 0 /\ sent' = sent
      /\ botState' = "Idle" => stuck >= MaxStuckRetries
  BY <1>5 DEF Listing!StuckItem, Listing!IsStuckMessage
<1>7. /\ sent' \in Seq(Old)
      /\ sent \in Seq(Quiet) => sent' \in Seq(Quiet)
  <2>1. lastWindow # 0 => lastWindow \in Listing!Window BY ListingWindow
  <2>2. ASSUME NEW P, Quiet \subseteq P, sent \in Seq(P) PROVE sent' \in Seq(P)
    <3>1. lastWindow # 0 => Listing!Click(lastWindow, "preview") \in P /\ Listing!Close(lastWindow) \in P
      BY <2>1, <2>2, LineKinds
    <3>2. \A a \in P, b \in P : sent \o <<a, b>> \in Seq(P) BY <2>2
    <3>3. CASE lastWindow # 0 BY <1>6, <3>1, <3>2, <3>3
    <3> QED BY <1>6, <2>2, <3>3
  <2> QED BY <1>5, <2>2, LineKinds
<1>8. AllStale'
  <2>1. \A w \in Listing!Window : handler[w].pc = "none" \/ handler[w].pc = "price"
    BY <1>5 DEF AllStale, Works, Stale
  <2> QED BY <1>1, <1>6, <2>1 DEF AllStale, Stale, Listing!Window
<1>9. pending' \in Seq(OldTold) BY <1>5, LineSeqs
<1>10. botState' = "Idle" => AllNone' \/ (sent' \in Seq(Spent) /\ pending' \in Seq(Told))
  <2>1. CASE AllStale
    <3>1. botState' = "Idle" => stuck # 0
      BY <1>6, PartsAssumption DEF ListingInv, Listing!TypeOK
    <3>2. botState' = "Idle" => \A w \in Listing!Window : handler[w].pc = "price" => w = lastWindow
      BY <1>5, <3>1 DEF StuckFits, ListingInv
    <3> QED BY <1>1, <2>1, <3>2 DEF AllStale, AllNone, Stale
  <2>2. CASE sent \in Seq(Quiet) /\ pending' = <<>> BY <1>7, <2>2, LineSeqs
  <2> QED BY <1>5, <2>1, <2>2
<1> QED BY <1>6, <1>7, <1>8, <1>9, <1>10 DEF ListStage, ListOff

\* What the game does with each packet.
LEMMA ListQuietGame ==
  ASSUME ListingInv, NEW p \in Quiet, Listing!Answer(p) \/ Listing!NoAnswer(p)
  PROVE  /\ pending' = pending /\ auctions' = auctions
         /\ shown' \in {shown, Listing!None} /\ slot' \in {slot, Listing!Empty}
         /\ shown.id = 0 => UNCHANGED <<shown, slot>>
         /\ slot' = slot \/ shown' = Listing!None \/ shown'.page = "bin"
<1> USE DEF Listing!game
<1>1. PICK w \in Listing!Window : p = Listing!Close(w) \/ p = Listing!Click(w, "preview") BY LineKinds
<1>2. w # 0 /\ "preview" \notin Goods BY PartsAssumption DEF Listing!Window
<1>3. CASE p = Listing!Close(w)
  <2>1. p.op = "close" /\ p.win = w BY <1>3 DEF Listing!Close
  <2> QED BY <1>2, <2>1 DEF Listing!Answer, Listing!NoAnswer
<1>4. CASE p = Listing!Click(w, "preview")
  <2>1. p.op = "click" /\ p.win = w /\ p.slot = "preview" BY <1>4 DEF Listing!Click
  <2>2. CASE Listing!NoAnswer(p) BY <2>2 DEF Listing!NoAnswer
  <2>3. CASE Listing!Answer(p)
    <3>1. shown.id = w /\ shown.page = "bin" /\ slot' = Listing!Empty /\ UNCHANGED <<shown, pending, auctions>>
      BY <1>2, <2>1, <2>3 DEF Listing!Answer, Listing!On
    <3> QED BY <1>2, <3>1
  <2> QED BY <2>2, <2>3
<1> QED BY <1>1, <1>3, <1>4

LEMMA ListOpens ==
  ASSUME ListingInv, NEW page, Listing!Opens(page)
  PROVE  \E w \in Listing!Window : /\ shown' = [page |-> page, id |-> w]
                                   /\ pending' = Append(pending, <<"open", w, page>>)
<1>1. Listing!NextId(lastId) \in Listing!Window BY ListingPackets DEF ListingInv, Listing!TypeOK
<1> QED BY <1>1 DEF Listing!Opens

LEMMA ListAhGame ==
  ASSUME ListingInv, Listing!Answer(Listing!Ah) \/ Listing!NoAnswer(Listing!Ah)
  PROVE  \/ pending' = pending
         \/ \E w \in Listing!Window : pending' = Append(pending, <<"open", w, "ah">>)
<1>1. Listing!Ah.op = "ah" BY DEF Listing!Ah
<1> QED BY <1>1, ListOpens DEF Listing!Answer, Listing!NoAnswer, Listing!game

LEMMA ListClickGame ==
  ASSUME ListingInv, NEW w \in Listing!Window, NEW s,
         Listing!Answer(Listing!Click(w, s)) \/ Listing!NoAnswer(Listing!Click(w, s))
  PROVE  /\ s \in {"manage", "create", "bin"} =>
               \/ pending' = pending
               \/ \E v \in Listing!Window, page \in EarlyPages : pending' = Append(pending, <<"open", v, page>>)
         /\ s \in {"next", "sign"} =>
               \/ pending' = pending
               \/ /\ slot' = slot /\ slot.item # Listing!Nobody
                  /\ \E v \in Listing!Window, page \in LatePages : pending' = Append(pending, <<"open", v, page>>)
               \/ /\ slot' = slot /\ shown.page = "duration"
                  /\ shown' = [page |-> "hoursSign", id |-> 0] /\ pending' = Append(pending, <<"sign">>)
         /\ s = "price" =>
               \/ pending' = pending
               \/ /\ slot' = slot /\ slot.item # Listing!Nobody /\ shown.page = "bin" /\ shown.id = w
                  /\ shown' = [page |-> "priceSign", id |-> 0] /\ pending' = Append(pending, <<"sign">>)
         /\ s = "confirm" => pending' = pending \/ pending' = Append(pending, <<"started">>)
         /\ s \in Goods =>
               \/ pending' = pending /\ shown' = shown /\ slot' = slot /\ shown.id # w
               \/ pending' = pending /\ slot' = [Listing!Empty EXCEPT !.item = s]
               \/ pending' = Append(pending, <<"stuck">>)
<1> USE DEF Listing!game
<1> DEFINE p == Listing!Click(w, s)
<1>1. p.op = "click" /\ p.win = w /\ p.slot = s BY DEF Listing!Click
<1>2. Goods \cap {"none", "manage", "create", "bin", "next", "sign", "confirm", "preview", "price"} = {}
  BY PartsAssumption
<1> HIDE DEF p
<1>3. ASSUME s \in {"manage", "create", "bin"}
      PROVE  \/ pending' = pending
             \/ \E v \in Listing!Window, page \in EarlyPages : pending' = Append(pending, <<"open", v, page>>)
  <2>1. CASE Listing!NoAnswer(p) BY <2>1 DEF Listing!NoAnswer
  <2>2. CASE Listing!Answer(p)
    <3>1. \E page \in EarlyPages : Listing!Opens(page)
      BY <1>1, <1>2, <1>3, <2>2 DEF Listing!Answer, Listing!On, EarlyPages
    <3> QED BY <3>1, ListOpens
  <2> QED BY <2>1, <2>2 DEF p
<1>4. ASSUME s \in {"next", "sign"}
      PROVE  \/ pending' = pending
             \/ /\ slot' = slot /\ slot.item # Listing!Nobody
                /\ \E v \in Listing!Window, page \in LatePages : pending' = Append(pending, <<"open", v, page>>)
             \/ /\ slot' = slot /\ shown.page = "duration"
                /\ shown' = [page |-> "hoursSign", id |-> 0] /\ pending' = Append(pending, <<"sign">>)
  <2>1. CASE Listing!NoAnswer(p) BY <2>1 DEF Listing!NoAnswer
  <2>2. CASE Listing!Answer(p)
    <3>1. \/ /\ slot' = slot /\ slot.item # Listing!Nobody
             /\ \E page \in LatePages : Listing!Opens(page)
          \/ slot' = slot /\ shown.page = "duration" /\ Listing!SignFor("hoursSign")
      BY <1>1, <1>2, <1>4, <2>2 DEF Listing!Answer, Listing!On, LatePages
    <3> QED BY <3>1, ListOpens DEF Listing!SignFor
  <2> QED BY <2>1, <2>2 DEF p
<1>5. ASSUME s = "price"
      PROVE  \/ pending' = pending
             \/ /\ slot' = slot /\ slot.item # Listing!Nobody /\ shown.page = "bin" /\ shown.id = w
                /\ shown' = [page |-> "priceSign", id |-> 0] /\ pending' = Append(pending, <<"sign">>)
  <2>1. CASE Listing!NoAnswer(p) BY <2>1 DEF Listing!NoAnswer
  <2>2. CASE Listing!Answer(p) BY <1>1, <1>2, <1>5, <2>2 DEF Listing!Answer, Listing!On, Listing!SignFor
  <2> QED BY <2>1, <2>2 DEF p
<1>6. ASSUME s = "confirm" PROVE pending' = pending \/ pending' = Append(pending, <<"started">>)
  <2>1. CASE Listing!NoAnswer(p) BY <2>1 DEF Listing!NoAnswer
  <2>2. CASE Listing!Answer(p) BY <1>1, <1>2, <1>6, <2>2 DEF Listing!Answer, Listing!On
  <2> QED BY <2>1, <2>2 DEF p
<1>7. ASSUME s \in Goods
      PROVE  \/ pending' = pending /\ shown' = shown /\ slot' = slot /\ shown.id # w
             \/ pending' = pending /\ slot' = [Listing!Empty EXCEPT !.item = s]
             \/ pending' = Append(pending, <<"stuck">>)
  <2>1. CASE Listing!NoAnswer(p) BY <1>1, <1>7, <2>1 DEF Listing!NoAnswer
  <2>2. CASE Listing!Answer(p) BY <1>1, <1>2, <1>7, <2>2 DEF Listing!Answer, Listing!On, Listing!Says
  <2> QED BY <2>1, <2>2 DEF p
<1> QED BY <1>3, <1>4, <1>5, <1>6, <1>7

LEMMA ListSignGame ==
  ASSUME ListingInv, NEW n,
         Listing!Answer([op |-> "sign", text |-> n]) \/ Listing!NoAnswer([op |-> "sign", text |-> n])
  PROVE  \/ pending' = pending
         \/ /\ slot' = IF shown.page = "priceSign" THEN [slot EXCEPT !.price = n] ELSE [slot EXCEPT !.hours = n]
            /\ \E w \in Listing!Window : /\ shown' = [page |-> "bin", id |-> w]
                                         /\ pending' = Append(pending, <<"open", w, "bin">>)
<1> DEFINE p == [op |-> "sign", text |-> n]
<1>1. p.op = "sign" /\ p.text = n OBVIOUS
<1> HIDE DEF p
<1>2. CASE Listing!NoAnswer(p) BY <1>2 DEF Listing!NoAnswer, Listing!game
<1>3. CASE Listing!Answer(p) BY <1>1, <1>3, ListOpens DEF Listing!Answer
<1> QED BY <1>2, <1>3 DEF p

\* A packet that is not of the listing leaves it where it stands.
LEMMA ListOldGame ==
  ASSUME ListingInv, NEW p \in Old, Listing!Answer(p) \/ Listing!NoAnswer(p)
  PROVE  /\ pending \in Seq(OldTold) => pending' \in Seq(OldTold)
         /\ p \in Spent /\ pending \in Seq(Told) => pending' \in Seq(Told)
<1>1. CASE p \in Quiet BY <1>1, ListQuietGame
<1>2. CASE p \in Confirms
  <2>1. pending' = pending \/ pending' = Append(pending, <<"started">>)
    BY <1>2, LineKinds, ListClickGame
  <2> QED BY <2>1, Line0, LineKinds
<1>3. CASE p \notin Spent
  <2>1. pending' = pending \/ pending' = Append(pending, <<"sign">>)
    BY <1>3, LineKinds, ListClickGame
  <2> QED BY <1>3, <2>1, Line0, LineKinds
<1> QED BY <1>1, <1>2, <1>3, LineKinds

\* A step of the game.
LEMMA ListGameStep ==
  ASSUME ListingInv, ListStage, Listing!Game
  PROVE  /\ UNCHANGED <<botState, aborted, lastWindow, handler, stage, field, asked, stuck, blocked, begun>>
         /\ sent # <<>> /\ sent' = Tail(sent)
         /\ Listing!Answer(Head(sent)) \/ Listing!NoAnswer(Head(sent))
         /\ AllStale' <=> AllStale
         /\ AllNone' <=> AllNone
         /\ \A w, pc : Works(w, pc)' <=> Works(w, pc)
         /\ \A P : sent \in Seq(P) => Head(sent) \in P /\ sent' \in Seq(P)
         /\ \A P : \A a : Line(sent, P, <<a>>) => \/ Head(sent) \in P /\ Line(sent', P, <<a>>)
                                                  \/ Head(sent) = a /\ sent' = <<>>
         /\ \A P : \A a, b : Line(sent, P, <<a, b>>) => \/ Head(sent) \in P /\ Line(sent', P, <<a, b>>)
                                                        \/ Head(sent) = a /\ Line(sent', P, <<b>>)
<1>1. /\ UNCHANGED <<botState, aborted, lastWindow, handler, stage, field, asked, stuck, blocked, begun>>
      /\ sent # <<>> /\ sent' = Tail(sent)
      /\ Listing!Answer(Head(sent)) \/ Listing!NoAnswer(Head(sent))
  BY DEF Listing!Game, Listing!bot, Listing!flow, Listing!flags, Listing!tasks, Listing!proc
<1>2. /\ AllStale' <=> AllStale
      /\ AllNone' <=> AllNone
      /\ \A w, pc : Works(w, pc)' <=> Works(w, pc)
  BY <1>1 DEF AllStale, AllNone, Works, Stale
<1>3. ASSUME NEW P, sent \in Seq(P) PROVE Head(sent) \in P /\ sent' \in Seq(P) BY <1>1, <1>3, Line0
<1>4. ASSUME NEW P, NEW a, Line(sent, P, <<a>>)
      PROVE  \/ Head(sent) \in P /\ Line(sent', P, <<a>>)
             \/ Head(sent) = a /\ sent' = <<>>
  BY <1>1, <1>4, Line1
<1>5. ASSUME NEW P, NEW a, NEW b, Line(sent, P, <<a, b>>)
      PROVE  \/ Head(sent) \in P /\ Line(sent', P, <<a, b>>)
             \/ Head(sent) = a /\ Line(sent', P, <<b>>)
  BY <1>1, <1>5, Line2
<1> QED BY <1>1, <1>2, <1>3, <1>4, <1>5

LEMMA ListQuietKeeps ==
  ASSUME ListingInv, ListStage, Listing!Game, Head(sent) \in Quiet
  PROVE  ListStage'
<1> DEFINE p == Head(sent)
<1>1. /\ UNCHANGED <<botState, aborted, lastWindow, handler, stage, field, asked, pending>>
      /\ shown' \in {shown, Listing!None} /\ slot' \in {slot, Listing!Empty}
      /\ shown.id = 0 => UNCHANGED <<shown, slot>>
      /\ slot' = slot \/ shown' = Listing!None \/ shown'.page = "bin"
  BY ListGameStep, ListQuietGame
<1>2. /\ AllStale' <=> AllStale
      /\ AllNone' <=> AllNone
      /\ \A w, pc : Works(w, pc)' <=> Works(w, pc)
  BY ListGameStep
<1>3. /\ p \in Spent /\ p \in Old
      /\ \A w \in Listing!Window : \A s : s \notin {"preview"} => p # Listing!Click(w, s)
      /\ p # Listing!Ah /\ \A n : p # [op |-> "sign", text |-> n]
  <2>1. PICK w \in Listing!Window : p = Listing!Close(w) \/ p = Listing!Click(w, "preview") BY LineKinds
  <2> QED BY <2>1, LineKinds DEF Listing!Close, Listing!Click, Listing!Ah
<1>4. /\ sent \in Seq(Quiet) => sent' \in Seq(Quiet)
      /\ sent \in Seq(Spent) => sent' \in Seq(Spent)
      /\ sent \in Seq(Old) => sent' \in Seq(Old)
  BY ListGameStep
<1>5. /\ \A P : Line(sent, P, <<Listing!Ah>>) => Line(sent', P, <<Listing!Ah>>)
      /\ \A n : Line(sent, Quiet, <<[op |-> "sign", text |-> n]>>) => Line(sent', Quiet, <<[op |-> "sign", text |-> n]>>)
      /\ \A w \in Listing!Window : \A s : s # "preview" /\ Line(sent, Quiet, <<Listing!Click(w, s)>>) =>
            Line(sent', Quiet, <<Listing!Click(w, s)>>)
      /\ \A w \in Listing!Window : \A s : s # "preview" /\ Line(sent, Quiet, <<Listing!Click(w, s), Listing!Click(w, "price")>>) =>
            Line(sent', Quiet, <<Listing!Click(w, s), Listing!Click(w, "price")>>)
  <2>1. ASSUME NEW P, NEW a, a # p, Line(sent, P, <<a>>) PROVE Line(sent', P, <<a>>)
    BY <2>1, ListGameStep
  <2>2. ASSUME NEW a, NEW b, a # p, Line(sent, Quiet, <<a, b>>) PROVE Line(sent', Quiet, <<a, b>>)
    BY <2>2, ListGameStep
  <2> QED BY <1>3, <2>1, <2>2
<1> HIDE DEF p
<1>6. asked' = asked /\ field' = field /\ Listing!None.page = "none" /\ Listing!None.id = 0
      /\ Listing!Empty.item = Listing!Nobody
  BY <1>1 DEF Listing!None, Listing!Empty
<1>7. \A w : Fits(w) => Fits(w)'
  BY <1>1, <1>6 DEF Fits, Item1
<1>8. Late => Late'
  BY <1>1, <1>6 DEF Late, Made
<1>9. \A w : ListItem(w) => ListItem(w)' BY <1>1, <1>7 DEF ListItem
<1>10. ~(botState = "Selling" /\ ~aborted) \/ (field # 0 /\ asked[field] \in Goods)
  <2>1. field # 0 => field \in Listing!Command
    BY PartsAssumption DEF ListingInv, Listing!TypeOK, Listing!Number, Listing!Command
  <2> QED BY <2>1 DEF ListingInv
<1>11. \A g \in Goods : g # "preview" BY PartsAssumption
<1>12. shown = [page |-> "hoursSign", id |-> 0] \/ shown = [page |-> "priceSign", id |-> 0] => UNCHANGED <<shown, slot>>
  BY <1>1
<1>13. Item1' = Item1 BY <1>1 DEF Item1
<1>14. ListOff => ListOff' BY <1>1, <1>2, <1>4 DEF ListOff
<1>15. ListOpening => ListOpening' BY <1>1, <1>2, <1>5 DEF ListOpening
<1>16. ListArrived => ListArrived' BY <1>1, <1>2, <1>4 DEF ListArrived
<1>17. ListDead => ListDead' BY <1>1, <1>2, <1>4 DEF ListDead, Unsigned
<1>18. ListSteers => ListSteers'
  <2>1. \A w \in Listing!Window, s \in {"manage", "create", "bin"} :
           Line(sent, Quiet, <<Listing!Click(w, s)>>) => Line(sent', Quiet, <<Listing!Click(w, s)>>)
    BY <1>5
  <2> QED BY <1>1, <1>2, <1>4, <2>1 DEF ListSteers
<1>19. ListPlaces => ListPlaces' BY <1>1, <1>2, <1>4 DEF ListPlaces
<1>20. ListPrices /\ botState = "Selling" /\ ~aborted => ListPrices'
  <2>1. \A w \in Listing!Window : Line(sent, Quiet, <<Listing!Click(w, "price")>>) =>
           Line(sent', Quiet, <<Listing!Click(w, "price")>>)
    BY <1>5
  <2>2. ASSUME botState = "Selling" /\ ~aborted, NEW w \in Listing!Window
        PROVE  /\ Line(sent, Quiet, <<Listing!Click(w, asked[field])>>) =>
                     Line(sent', Quiet, <<Listing!Click(w, asked[field])>>)
               /\ Line(sent, Quiet, <<Listing!Click(w, asked[field]), Listing!Click(w, "price")>>) =>
                     Line(sent', Quiet, <<Listing!Click(w, asked[field]), Listing!Click(w, "price")>>)
    BY <1>5, <1>10, <1>11, <2>2
  <2>3. Line(sent, Quiet, <<[op |-> "sign", text |-> field]>>) => Line(sent', Quiet, <<[op |-> "sign", text |-> field]>>)
    BY <1>5
  <2> QED BY <1>1, <1>2, <1>4, <1>6, <1>9, <1>12, <1>13, <2>1, <2>2, <2>3 DEF ListPrices
<1>21. ListLasts => ListLasts'
  <2>1. \A w \in Listing!Window, s \in {"next", "sign"} :
           Line(sent, Quiet, <<Listing!Click(w, s)>>) => Line(sent', Quiet, <<Listing!Click(w, s)>>)
    BY <1>5
  <2>2. Line(sent, Quiet, <<[op |-> "sign", text |-> field]>>) => Line(sent', Quiet, <<[op |-> "sign", text |-> field]>>)
    BY <1>5
  <2> QED BY <1>1, <1>2, <1>4, <1>6, <1>8, <1>12, <2>1, <2>2 DEF ListLasts
<1>22. ListDone => ListDone' BY <1>1, <1>2, <1>4 DEF ListDone
<1> QED BY <1>1, <1>14, <1>15, <1>16, <1>17, <1>18, <1>19, <1>20, <1>21, <1>22 DEF ListStage

LEMMA ListGameKeeps ==
  ASSUME ListingInv, ListStage, Listing!Game
  PROVE  ListStage'
<1> SUFFICES ASSUME Head(sent) \notin Quiet PROVE ListStage' BY ListQuietKeeps
<1> SUFFICES ASSUME NEW p, p = Head(sent) PROVE ListStage' OBVIOUS
<1>1. /\ UNCHANGED <<botState, aborted, lastWindow, handler, stage, field, asked>>
      /\ Listing!Answer(p) \/ Listing!NoAnswer(p)
      /\ AllStale' <=> AllStale
      /\ AllNone' <=> AllNone
      /\ \A w, pc : Works(w, pc)' <=> Works(w, pc)
  BY ListGameStep
<1>2. sent \notin Seq(Quiet) BY ListGameStep
<1>3. ASSUME NEW a, Line(sent, Quiet, <<a>>) PROVE p = a /\ sent' \in Seq(Quiet)
  BY <1>3, ListGameStep, LineSeqs
<1>4. ASSUME NEW a, NEW b, Line(sent, Quiet, <<a, b>>) PROVE p = a /\ Line(sent', Quiet, <<b>>)
  BY <1>4, ListGameStep
<1>5. /\ sent \in Seq(Spent) => p \in Spent /\ sent' \in Seq(Spent)
      /\ sent \in Seq(Old) => p \in Old /\ sent' \in Seq(Old)
  BY ListGameStep
<1>6. /\ p \in Old /\ pending \in Seq(OldTold) => pending' \in Seq(OldTold)
      /\ p \in Spent /\ pending \in Seq(Told) => pending' \in Seq(Told)
  BY <1>1, ListOldGame, LineKinds
<1>7. /\ \A q : pending \in Seq(Told) => Line(Append(pending, q), Told, <<q>>)
      /\ \A q : pending \in Seq(OldTold) => Line(Append(pending, q), OldTold, <<q>>)
      /\ pending \in Seq(Told) => pending \in Seq(OldTold)
  BY Line0, LineSeqs
<1>8. CASE ListOff BY <1>1, <1>5, <1>6, <1>8, LineKinds DEF ListStage, ListOff
<1>9. CASE ListOpening /\ botState = "Selling" /\ ~aborted
  <2>1. CASE p = Listing!Ah
    <3>1. p \notin Old
      <4>1. p.op = "ah" BY <2>1 DEF Listing!Ah
      <4>2. \A q \in Old : q.op \in {"click", "close"}
        BY LineKinds DEF Listing!Click, Listing!Close
      <4> QED BY <4>1, <4>2
    <3>2. sent' = <<>> /\ p \notin Spent BY <1>9, <2>1, <3>1, ListGameStep, LineKinds DEF ListOpening
    <3>3. sent' \in Seq(Quiet) BY <3>2, LineSeqs
    <3>4. pending' = pending \/ \E w \in Listing!Window : pending' = Append(pending, <<"open", w, "ah">>)
      BY <1>1, <2>1, ListAhGame
    <3>5. AllStale' /\ pending \in Seq(OldTold) BY <1>1, <1>9 DEF ListOpening
    <3>6. pending \in Seq(Told) \/ (AllNone' /\ stage' = "Initial") BY <1>1, <1>9 DEF ListOpening
    <3>7. CASE pending' = pending BY <1>1, <1>9, <3>3, <3>5, <3>6, <3>7 DEF ListStage, ListDead, Unsigned
    <3>8. ASSUME NEW w \in Listing!Window, pending' = Append(pending, <<"open", w, "ah">>) PROVE ListStage'
      BY <1>1, <1>7, <1>9, <3>3, <3>5, <3>6, <3>8 DEF ListStage, ListArrived
    <3> QED BY <3>4, <3>7, <3>8
  <2>2. CASE p # Listing!Ah
    <3>1. CASE Line(sent, Spent, <<Listing!Ah>>) /\ pending \in Seq(Told)
      <4>1. p \in Spent /\ Line(sent', Spent, <<Listing!Ah>>) BY <2>2, <3>1, ListGameStep
      <4> QED BY <1>1, <1>6, <1>7, <1>9, <3>1, <4>1, LineSeqs DEF ListStage, ListOpening
    <3>2. CASE Line(sent, Old, <<Listing!Ah>>) /\ AllNone /\ stage = "Initial"
      <4>1. p \in Old /\ Line(sent', Old, <<Listing!Ah>>) BY <2>2, <3>2, ListGameStep
      <4> QED BY <1>1, <1>6, <1>9, <3>2, <4>1 DEF ListStage, ListOpening
    <3> QED BY <1>9, <3>1, <3>2 DEF ListOpening
  <2> QED BY <2>1, <2>2
<1>10. ~ListArrived /\ ~ListDead /\ ~ListPlaces BY <1>2 DEF ListArrived, ListDead, ListPlaces
\* A click that is lost leaves a listing that waits.
<1>11. ASSUME botState = "Selling", ~aborted, AllStale, pending' = pending, sent' \in Seq(Quiet),
              pending \in Seq(Told) \/ Line(pending, Told, <<<<"stuck">>>>)
       PROVE  ListStage'
  BY <1>1, <1>7, <1>11 DEF ListStage, ListDead, Unsigned
<1>12. CASE ListSteers /\ botState = "Selling" /\ ~aborted
  <2>1. PICK w \in Listing!Window, s \in {"manage", "create", "bin"} : Line(sent, Quiet, <<Listing!Click(w, s)>>)
    BY <1>2, <1>12 DEF ListSteers
  <2>2. AllStale /\ pending \in Seq(Told) /\ stage \in EarlySteps BY <1>2, <1>12 DEF ListSteers
  <2>3. p = Listing!Click(w, s) /\ sent' \in Seq(Quiet) BY <1>3, <2>1
  <2>4. \/ pending' = pending
        \/ \E v \in Listing!Window, page \in EarlyPages : pending' = Append(pending, <<"open", v, page>>)
    BY <1>1, <2>3, ListClickGame
  <2>5. ASSUME NEW v \in Listing!Window, NEW page \in EarlyPages, pending' = Append(pending, <<"open", v, page>>)
        PROVE  ListStage'
    <3>1. Line(pending', Told, <<<<"open", v, page>>>>) BY <1>7, <2>2, <2>5
    <3> QED BY <1>1, <1>12, <2>2, <2>3, <3>1 DEF ListStage, ListSteers
  <2> QED BY <1>11, <1>12, <2>2, <2>3, <2>4, <2>5
<1>13. CASE ListPrices /\ botState = "Selling" /\ ~aborted
  <2>1. field # 0 /\ asked[field] \in Goods
    <3>1. field # 0 => field \in Listing!Command
      BY PartsAssumption DEF ListingInv, Listing!TypeOK, Listing!Number, Listing!Command
    <3> QED BY <1>13, <3>1 DEF ListingInv
  <2>2. ASSUME NEW w \in Listing!Window, p = Listing!Click(w, asked[field]), pending \in Seq(Told)
        PROVE  ListItem(w)'
    <3>1. \/ pending' = pending /\ shown' = shown /\ slot' = slot /\ shown.id # w
          \/ pending' = pending /\ slot' = [Listing!Empty EXCEPT !.item = asked[field]]
          \/ pending' = Append(pending, <<"stuck">>)
      BY <1>1, <2>1, <2>2, ListClickGame
    <3>2. CASE pending' = pending /\ shown' = shown /\ slot' = slot /\ shown.id # w
      BY <2>2, <3>2 DEF ListItem, Fits
    <3>3. CASE pending' = pending /\ slot' = [Listing!Empty EXCEPT !.item = asked[field]]
      BY <1>1, <2>2, <3>3 DEF ListItem, Fits, Item1, Listing!Empty
    <3>4. CASE pending' = Append(pending, <<"stuck">>)
      BY <1>7, <2>2, <3>4 DEF ListItem
    <3> QED BY <3>1, <3>2, <3>3, <3>4
  <2>3. ASSUME NEW w \in Listing!Window, Works(w, "price"),
               Line(sent, Quiet, <<Listing!Click(w, asked[field])>>), pending \in Seq(Told)
        PROVE  ListStage'
    <3>1. p = Listing!Click(w, asked[field]) /\ sent' \in Seq(Quiet) BY <1>3, <2>3
    <3> QED BY <1>1, <1>13, <2>2, <2>3, <3>1 DEF ListStage, ListPrices
  <2>4. ASSUME NEW w \in Listing!Window, AllStale, stage = "PriceSign",
               Line(sent, Quiet, <<Listing!Click(w, asked[field]), Listing!Click(w, "price")>>), pending \in Seq(Told)
        PROVE  ListStage'
    <3>1. p = Listing!Click(w, asked[field]) /\ Line(sent', Quiet, <<Listing!Click(w, "price")>>) BY <1>4, <2>4
    <3> QED BY <1>1, <1>13, <2>2, <2>4, <3>1 DEF ListStage, ListPrices
  <2>5. ASSUME NEW w \in Listing!Window, AllStale, stage = "PriceSign",
               Line(sent, Quiet, <<Listing!Click(w, "price")>>), ListItem(w)
        PROVE  ListStage'
    <3>1. p = Listing!Click(w, "price") /\ sent' \in Seq(Quiet) BY <1>3, <2>5
    <3>2. \/ pending' = pending
          \/ /\ slot' = slot /\ slot.item # Listing!Nobody /\ shown.page = "bin" /\ shown.id = w
             /\ shown' = [page |-> "priceSign", id |-> 0] /\ pending' = Append(pending, <<"sign">>)
      BY <1>1, <3>1, ListClickGame
    <3>3. CASE pending' = pending BY <1>11, <1>13, <2>5, <3>1, <3>3 DEF ListItem
    <3>4. CASE /\ slot' = slot /\ slot.item # Listing!Nobody /\ shown.page = "bin" /\ shown.id = w
               /\ shown' = [page |-> "priceSign", id |-> 0] /\ pending' = Append(pending, <<"sign">>)
      <4>1. CASE pending \in Seq(Told) /\ Fits(w)
        <5>1. slot' = Item1' BY <1>1, <3>4, <4>1 DEF Fits, Item1
        <5>2. Line(pending', Told, <<<<"sign">>>>) BY <1>7, <3>4, <4>1
        <5> QED BY <1>1, <1>13, <2>5, <3>1, <3>4, <5>1, <5>2 DEF ListStage, ListPrices
      <4>2. CASE Line(pending, Told, <<<<"stuck">>>>)
        <5>1. Line(pending', Told, <<<<"stuck">>, <<"sign">>>>) BY <3>4, <4>2, Line1
        <5> QED BY <1>1, <1>13, <2>5, <3>1, <5>1 DEF ListStage, ListPrices
      <4> QED BY <2>5, <4>1, <4>2 DEF ListItem
    <3> QED BY <3>2, <3>3, <3>4
  <2>6. ASSUME AllStale, stage \in LateSteps, pending \in Seq(Told),
               shown = [page |-> "priceSign", id |-> 0], slot = Item1,
               Line(sent, Quiet, <<[op |-> "sign", text |-> field]>>)
        PROVE  ListStage'
    <3>1. p = [op |-> "sign", text |-> field] /\ sent' \in Seq(Quiet) BY <1>3, <2>6
    <3>2. \/ pending' = pending
          \/ /\ slot' = IF shown.page = "priceSign" THEN [slot EXCEPT !.price = field] ELSE [slot EXCEPT !.hours = field]
             /\ \E w \in Listing!Window : /\ shown' = [page |-> "bin", id |-> w]
                                          /\ pending' = Append(pending, <<"open", w, "bin">>)
      BY <1>1, <3>1, ListSignGame
    <3>3. CASE pending' = pending BY <1>11, <1>13, <2>6, <3>1, <3>3
    <3>4. ASSUME NEW w \in Listing!Window, slot' = [slot EXCEPT !.price = field],
                 pending' = Append(pending, <<"open", w, "bin">>)
          PROVE  ListStage'
      <4>1. Line(pending', Told, <<<<"open", w, "bin">>>>) /\ "bin" \in LatePages
        BY <1>7, <2>6, <3>4 DEF LatePages
      <4>2. Late' BY <1>1, <2>6, <3>4 DEF Late, Made, Item1
      <4> QED BY <1>1, <1>13, <2>6, <3>1, <4>1, <4>2 DEF ListStage, ListLasts
    <3> QED BY <2>6, <3>2, <3>3, <3>4
  <2> QED BY <1>2, <1>13, <2>3, <2>4, <2>5, <2>6 DEF ListPrices
<1>14. CASE ListLasts /\ botState = "Selling" /\ ~aborted
  <2>1. AllStale /\ pending \in Seq(Told) /\ stage \in LateSteps /\ Late BY <1>2, <1>14 DEF ListLasts
  <2>2. ASSUME NEW v \in Listing!Window, NEW page \in LatePages, sent' \in Seq(Quiet), Late',
               pending' = Append(pending, <<"open", v, page>>)
        PROVE  ListStage'
    <3>1. Line(pending', Told, <<<<"open", v, page>>>>) BY <1>7, <2>1, <2>2
    <3> QED BY <1>1, <1>14, <2>1, <2>2, <3>1 DEF ListStage, ListLasts
  <2>3. ASSUME NEW w \in Listing!Window, NEW s \in {"next", "sign"}, Line(sent, Quiet, <<Listing!Click(w, s)>>)
        PROVE  ListStage'
    <3>1. p = Listing!Click(w, s) /\ sent' \in Seq(Quiet) BY <1>3, <2>3
    <3>2. \/ pending' = pending
          \/ /\ slot' = slot /\ slot.item # Listing!Nobody
             /\ \E v \in Listing!Window, page \in LatePages : pending' = Append(pending, <<"open", v, page>>)
          \/ /\ slot' = slot /\ shown.page = "duration"
             /\ shown' = [page |-> "hoursSign", id |-> 0] /\ pending' = Append(pending, <<"sign">>)
      BY <1>1, <3>1, ListClickGame
    <3>3. CASE pending' = pending BY <1>11, <1>14, <2>1, <3>1, <3>3
    <3>4. CASE /\ slot' = slot /\ slot.item # Listing!Nobody
               /\ \E v \in Listing!Window, page \in LatePages : pending' = Append(pending, <<"open", v, page>>)
      <4>1. Late' BY <1>1, <2>1, <3>4 DEF Late, Made
      <4> QED BY <2>2, <3>1, <3>4, <4>1
    <3>5. CASE /\ slot' = slot /\ shown.page = "duration"
               /\ shown' = [page |-> "hoursSign", id |-> 0] /\ pending' = Append(pending, <<"sign">>)
      <4>1. Late' BY <1>1, <2>1, <3>5 DEF Late, Made
      <4>2. Line(pending', Told, <<<<"sign">>>>) BY <1>7, <2>1, <3>5
      <4> QED BY <1>1, <1>14, <2>1, <3>1, <3>5, <4>1, <4>2 DEF ListStage, ListLasts
    <3> QED BY <3>2, <3>3, <3>4, <3>5
  <2>4. ASSUME Line(sent, Quiet, <<[op |-> "sign", text |-> field]>>), shown = [page |-> "hoursSign", id |-> 0]
        PROVE  ListStage'
    <3>1. p = [op |-> "sign", text |-> field] /\ sent' \in Seq(Quiet) BY <1>3, <2>4
    <3>2. \/ pending' = pending
          \/ /\ slot' = IF shown.page = "priceSign" THEN [slot EXCEPT !.price = field] ELSE [slot EXCEPT !.hours = field]
             /\ \E w \in Listing!Window : /\ shown' = [page |-> "bin", id |-> w]
                                          /\ pending' = Append(pending, <<"open", w, "bin">>)
      BY <1>1, <3>1, ListSignGame
    <3>3. CASE pending' = pending BY <1>11, <1>14, <2>1, <3>1, <3>3
    <3>4. ASSUME NEW w \in Listing!Window, slot' = [slot EXCEPT !.hours = field],
                 pending' = Append(pending, <<"open", w, "bin">>)
          PROVE  ListStage'
      <4>1. Late' BY <1>1, <2>1, <2>4, <3>4 DEF Late, Made, ListingInv, Listing!TypeOK
      <4> QED BY <2>2, <3>1, <3>4, <4>1 DEF LatePages
    <3> QED BY <2>4, <3>2, <3>3, <3>4
  <2> QED BY <1>2, <1>14, <2>3, <2>4 DEF ListLasts
<1>15. CASE ListDone /\ botState = "Selling" /\ ~aborted
  BY <1>1, <1>5, <1>6, <1>15 DEF ListStage, ListDone
<1> QED BY <1>8, <1>9, <1>10, <1>12, <1>13, <1>14, <1>15 DEF ListStage

\* Only the game makes an auction, and only a sign fills a bid or a duration in.
LEMMA ListSlotSame ==
  ASSUME ListingInv, [Listing!Next]_(Listing!vars), ~Listing!Game
  PROVE  /\ UNCHANGED <<shown, slot, auctions, asked>>
         /\ begun' \in {begun, begun + 1} /\ field' \in {field, begun}
<1> USE DEF Listing!game, Listing!wire, Listing!bot, Listing!flow, Listing!flags, Listing!tasks, Listing!proc
<1>1. CASE \E w \in Listing!Window : Listing!Handle(w)
  BY <1>1 DEF Listing!Handle, Listing!Bails, Listing!Steers, Listing!Presses, Listing!Done,
     Listing!LimitReached, Listing!Waits, Listing!Selects, Listing!Places, Listing!Prices
<1>2. CASE Listing!Begin \/ Listing!Execute \/ Listing!Complete \/ Listing!Timeout
  BY <1>2 DEF Listing!Begin, Listing!Execute, Listing!Complete, Listing!Timeout
<1>3. CASE Listing!ClearBlocked \/ Listing!Watchdog \/ Listing!RetryTask \/ UNCHANGED Listing!vars
  BY <1>3 DEF Listing!ClearBlocked, Listing!Watchdog, Listing!RetryTask, Listing!vars
<1>4. CASE Listing!OpenScreen \/ Listing!SignEditor \/ Listing!StuckItem \/ Listing!Started
  BY <1>4 DEF Listing!OpenScreen, Listing!SignEditor, Listing!StuckItem, Listing!Started
<1> QED BY <1>1, <1>2, <1>3, <1>4 DEF Listing!Next

LEMMA ListSignHead ==
  ASSUME ListingInv, ListStage, sent # <<>>, Head(sent).op = "sign"
  PROVE  /\ Head(sent).text = field
         /\ \/ shown.page = "priceSign" /\ slot = Item1
            \/ shown.page = "hoursSign" /\ Made
<1>1. \A P : sent \in Seq(P) => Head(sent) \in P BY Line0
<1>2. \A P, a : Line(sent, P, <<a>>) => Head(sent) \in P \/ Head(sent) = a BY Line1
<1>3. \A P, a, b : Line(sent, P, <<a, b>>) => Head(sent) \in P \/ Head(sent) = a BY Line2
<1>4. Head(sent) \notin Old /\ Head(sent) \notin Spent /\ Head(sent) \notin Quiet
  <2>1. \A q \in Old : q.op \in {"click", "close"} BY LineKinds DEF Listing!Click, Listing!Close
  <2> QED BY <2>1, LineKinds
<1>5. Head(sent) # Listing!Ah /\ \A w, s : Head(sent) # Listing!Click(w, s)
  BY DEF Listing!Ah, Listing!Click
<1>6. ~ListOff /\ ~ListOpening /\ ~ListArrived /\ ~ListDead /\ ~ListPlaces /\ ~ListDone
  BY <1>1, <1>2, <1>4, <1>5 DEF ListOff, ListOpening, ListArrived, ListDead, ListPlaces, ListDone
<1>7. ~ListSteers BY <1>1, <1>2, <1>4, <1>5 DEF ListSteers
<1>8. CASE ListPrices
  <2>1. shown = [page |-> "priceSign", id |-> 0] /\ slot = Item1
        /\ Line(sent, Quiet, <<[op |-> "sign", text |-> field]>>)
    BY <1>1, <1>2, <1>3, <1>4, <1>5, <1>8 DEF ListPrices
  <2> QED BY <1>2, <1>4, <2>1
<1>9. CASE ListLasts
  <2>1. shown = [page |-> "hoursSign", id |-> 0] /\ Late
        /\ Line(sent, Quiet, <<[op |-> "sign", text |-> field]>>)
    BY <1>1, <1>2, <1>4, <1>5, <1>9 DEF ListLasts
  <2> QED BY <1>2, <1>4, <2>1 DEF Late
<1> QED BY <1>6, <1>7, <1>8, <1>9 DEF ListStage

LEMMA ListAnswerMakes ==
  ASSUME NEW p, Listing!Answer(p)
  PROVE  \/ /\ slot' = slot /\ auctions' = auctions
            /\ shown'.page = "sure" => slot.hours # 0
         \/ /\ slot'.price = 0 /\ slot'.hours = 0 /\ auctions' = auctions
            /\ shown'.page # "sure"
         \/ /\ shown.page = "sure" /\ auctions' = auctions \cup {slot}
            /\ slot' = Listing!Empty /\ shown' = Listing!None
         \/ /\ p.op = "sign" /\ auctions' = auctions /\ shown'.page = "bin"
            /\ slot' = IF shown.page = "priceSign" THEN [slot EXCEPT !.price = p.text]
                       ELSE [slot EXCEPT !.hours = p.text]
<1>1. /\ \A page : Listing!Opens(page) => shown'.page = page
      /\ \A page : Listing!SignFor(page) => shown'.page = page
      /\ Listing!None.page = "none" /\ Listing!Empty.price = 0 /\ Listing!Empty.hours = 0
      /\ \A i : [Listing!Empty EXCEPT !.item = i].price = 0 /\ [Listing!Empty EXCEPT !.item = i].hours = 0
  BY DEF Listing!Opens, Listing!SignFor, Listing!None, Listing!Empty
<1>2. CASE p.op = "ah" BY <1>1, <1>2 DEF Listing!Answer
<1>3. CASE p.op = "sign" BY <1>1, <1>3 DEF Listing!Answer
<1>4. CASE p.op = "close" BY <1>1, <1>4 DEF Listing!Answer
<1>5. CASE p.op = "click" BY <1>1, <1>5 DEF Listing!Answer, Listing!On, Listing!Says
<1> QED BY <1>2, <1>3, <1>4, <1>5 DEF Listing!Answer

LEMMA ListMadeKeeps ==
  ASSUME ListingInv, ListStage, SlotMade, Listing!ListedAsAsked, [Listing!Next]_(Listing!vars)
  PROVE  SlotMade' /\ Listing!ListedAsAsked'
<1> USE PartsAssumption
<1>0. /\ begun \in Nat /\ field \in Nat
      /\ slot.item \in Goods \cup {"none"} /\ slot.price \in Nat /\ slot.hours \in Nat
      /\ slot \in [item : Goods \cup {"none"}, price : Listing!Number, hours : Listing!Number]
  BY DEF ListingInv, Listing!TypeOK, Listing!Number, Listing!Nobody
<1>1. CASE ~Listing!Game
  <2>1. /\ UNCHANGED <<shown, slot, auctions, asked>>
        /\ begun' \in Nat /\ begun <= begun' /\ field' <= begun
    BY <1>0, <1>1, ListSlotSame DEF SlotMade
  <2>2. SlotMade'
    <3>1. slot'.price <= begun' /\ field' <= begun' 
      <4>1. slot.price <= begun BY DEF SlotMade
      <4>2. field' \in Nat BY <1>0, <1>1, ListSlotSame
      <4> QED BY <1>0, <2>1, <4>1, <4>2
    <3> QED BY <2>1, <3>1 DEF SlotMade
  <2>3. \A c \in 1..begun : c \in 1..begun' BY <1>0, <2>1
  <2> QED BY <2>1, <2>2, <2>3 DEF Listing!ListedAsAsked
<1>2. CASE Listing!Game
  <2>1. UNCHANGED <<asked, begun, field>> /\ sent # <<>> BY <1>2, ListGameStep
  <2>2. SUFFICES ASSUME NEW p, p = Head(sent), Listing!Answer(p) \/ Listing!NoAnswer(p)
                 PROVE  SlotMade' /\ Listing!ListedAsAsked'
    BY <1>2, ListGameStep
  <2>3. CASE Listing!NoAnswer(p)
    BY <2>1, <2>3 DEF Listing!NoAnswer, Listing!game, SlotMade, Listing!ListedAsAsked
  <2>4. CASE /\ slot' = slot /\ auctions' = auctions
             /\ shown'.page = "sure" => slot.hours # 0
    BY <2>1, <2>4 DEF SlotMade, Listing!ListedAsAsked
  <2>5. CASE /\ slot'.price = 0 /\ slot'.hours = 0 /\ auctions' = auctions
             /\ shown'.page # "sure"
    BY <1>0, <2>1, <2>5 DEF SlotMade, Listing!ListedAsAsked
  <2>6. CASE /\ shown.page = "sure" /\ auctions' = auctions \cup {slot}
             /\ slot' = Listing!Empty /\ shown' = Listing!None
    <3>1. slot'.price = 0 /\ slot'.hours = 0 /\ shown'.page = "none"
      BY <2>6 DEF Listing!Empty, Listing!None
    <3>2. SlotMade' BY <1>0, <2>1, <3>1 DEF SlotMade
    <3>3. /\ slot.price # 0 /\ slot.price <= begun
          /\ slot.item = asked[slot.price] /\ slot.hours = slot.price
      BY <2>6 DEF SlotMade
    <3>4. slot = [item |-> asked[slot.price], price |-> slot.price, hours |-> slot.price]
      BY <1>0, <3>3
    <3>5. slot.price \in 1..begun BY <1>0, <3>3
    <3>6. \E c \in 1..begun : slot = [item |-> asked[c], price |-> c, hours |-> c] BY <3>4, <3>5
    <3> QED BY <2>1, <2>6, <3>2, <3>6 DEF Listing!ListedAsAsked
  <2>7. CASE /\ p.op = "sign" /\ auctions' = auctions /\ shown'.page = "bin"
             /\ slot' = IF shown.page = "priceSign" THEN [slot EXCEPT !.price = p.text]
                        ELSE [slot EXCEPT !.hours = p.text]
    <3>1. /\ p.text = field
          /\ \/ shown.page = "priceSign" /\ slot = Item1
             \/ shown.page = "hoursSign" /\ Made
      BY <2>1, <2>2, <2>7, ListSignHead
    <3>2. /\ slot'.item = asked[field] /\ slot'.price = field
          /\ slot'.hours = 0 \/ slot'.hours = field
      BY <1>0, <2>7, <3>1 DEF Item1, Made
    <3> QED BY <1>0, <2>1, <2>7, <3>2 DEF SlotMade, Listing!ListedAsAsked
  <2> QED BY <2>2, <2>3, <2>4, <2>5, <2>6, <2>7, ListAnswerMakes
<1> QED BY <1>1, <1>2

LEMMA ListStuckFits ==
  ASSUME ListingInv, ListStage, StuckFits, [Listing!Next]_(Listing!vars)
  PROVE  StuckFits'
<1> USE DEF Listing!game, Listing!wire, Listing!bot, Listing!flow, Listing!flags, Listing!tasks, Listing!proc
<1>0. /\ botState \in {"Idle", "Selling"}
      /\ handler \in [Listing!Window -> ListingTask]
      /\ botState = "Selling" => exec = "poll"
      /\ \A w \in Listing!Window : w # 0
  BY DEF ListingInv, Listing!TypeOK, Listing!Window
\* Where only stale handlers are left, none works.
<1>1. ASSUME AllStale, stuck # 0, ~blocked, ~(aborted /\ botState = "Selling"), NEW w \in Listing!Window
      PROVE  handler[w].pc # "price"
  BY <1>1 DEF AllStale, Stale, StuckFits
<1>2. ASSUME NEW w \in Listing!Window, Listing!Handle(w) PROVE StuckFits'
  <2>1. CASE Stale(w)
    <3>1. Listing!Prices(w)
      BY <1>2, <2>1 DEF Listing!Handle, Stale, Listing!Bails, Listing!Steers, Listing!Goes, Listing!Reads,
         Listing!Presses, Listing!Done, Listing!LimitReached, Listing!Waits, Listing!Selects, Listing!Places,
         Listing!At
    <3>2. handler'[w].pc = "none" /\ \A v \in Listing!Window : v # w => handler'[v] = handler[v]
      BY <3>1, ListHands DEF Listing!Prices
    <3>3. UNCHANGED <<botState, lastWindow, aborted, stuck, blocked>> BY <3>1 DEF Listing!Prices
    <3> QED BY <3>2, <3>3 DEF StuckFits
  <2>2. CASE ~Stale(w)
    <3>1. botState = "Selling" /\ ~aborted /\ w = lastWindow BY <2>2, ListWorks
    <3>2. /\ UNCHANGED <<aborted, stuck, blocked>>
          /\ \/ Listing!Ends(w) \/ Listing!ToPlace(w)
             \/ Listing!Becomes(w, "click") \/ Listing!Becomes(w, "done")
             \/ Listing!Becomes(w, "price") /\ lastWindow' = lastWindow
      BY <1>2, <3>1 DEF Listing!Handle, Listing!Bails, Listing!Steers, Listing!Goes, Listing!Presses, Listing!Done,
         Listing!LimitReached, Listing!Waits, Listing!Selects, Listing!Places, Listing!Prices, Listing!GoesIdle
    <3>3. /\ \A v \in Listing!Window : v # w => handler'[v] = handler[v]
          /\ handler'[w].pc = "price" => lastWindow' = lastWindow
      BY <3>2, ListHands
    <3> QED BY <3>1, <3>2, <3>3 DEF StuckFits
  <2> QED BY <2>1, <2>2
<1>3. CASE Listing!Begin
  <2>1. /\ AllStale /\ botState = "Idle" /\ botState' = "Idle" /\ UNCHANGED <<handler, aborted, stuck, blocked>>
    BY <1>3 DEF Listing!Begin, ListStage, ListOff
  <2> QED BY <1>0, <1>1, <2>1 DEF StuckFits
<1>4. CASE Listing!Execute
  <2>1. botState = "Idle" /\ UNCHANGED <<handler, stuck, blocked, lastWindow>>
    BY <1>0, <1>4 DEF Listing!Execute
  <2> QED BY <2>1 DEF StuckFits
<1>5. CASE Listing!Complete \/ Listing!Game \/ UNCHANGED Listing!vars
  <2>1. UNCHANGED <<handler, stuck, blocked, aborted, botState, lastWindow>>
    BY <1>5 DEF Listing!Complete, Listing!Game, Listing!vars
  <2> QED BY <2>1 DEF StuckFits
<1>6. CASE Listing!Timeout \/ Listing!Watchdog \/ Listing!RetryTask
  <2>1. UNCHANGED handler /\ \A w \in Listing!Window : handler[w].pc = "none"
    BY <1>6 DEF Listing!Timeout, Listing!Watchdog, Listing!RetryTask, Listing!AllFree, Listing!Free
  <2> QED BY <2>1 DEF StuckFits
<1>7. CASE Listing!ClearBlocked \/ Listing!Started
  <2>1. stuck' = 0 BY <1>7 DEF Listing!ClearBlocked, Listing!Started
  <2> QED BY <2>1 DEF StuckFits
<1>8. CASE Listing!OpenScreen
  <2>1. AllStale BY <1>8, ListOpenKeeps
  <2>2. UNCHANGED <<stuck, blocked, aborted, botState>> BY <1>8 DEF Listing!OpenScreen
  <2>3. \A v \in Listing!Window : handler'[v].pc = "price" => handler[v].pc = "price"
    BY <1>0, <1>8 DEF Listing!OpenScreen, Listing!Off
  <2> QED BY <1>1, <2>1, <2>2, <2>3 DEF StuckFits
<1>9. CASE Listing!SignEditor
  <2>1. UNCHANGED <<handler, stuck, blocked, aborted, botState, lastWindow>> BY <1>9 DEF Listing!SignEditor
  <2> QED BY <2>1 DEF StuckFits
<1>10. CASE Listing!StuckItem
  <2>1. \/ UNCHANGED <<handler, stuck, blocked, aborted, botState, lastWindow>>
        \/ blocked'
        \/ aborted' /\ botState' = "Selling"
    BY <1>10 DEF Listing!StuckItem
  <2> QED BY <2>1 DEF StuckFits
<1> QED BY <1>2, <1>3, <1>4, <1>5, <1>6, <1>7, <1>8, <1>9, <1>10 DEF Listing!Next

LEMMA ListAskedInit == Listing!Init => ListingAsked
<1> SUFFICES ASSUME Listing!Init PROVE ListingAsked OBVIOUS
<1> USE DEF Listing!Init
<1>1. slot.price = 0 /\ slot.hours = 0 /\ shown.page = "none" /\ begun = 0 /\ field = 0
  BY DEF Listing!Empty, Listing!None
<1>2. SlotMade /\ StuckFits /\ Listing!ListedAsAsked BY <1>1 DEF SlotMade, StuckFits, Listing!ListedAsAsked
<1>3. AllNone /\ AllStale BY DEF AllNone, AllStale, Stale, Listing!Off
<1>4. sent \in Seq(Old) /\ pending \in Seq(OldTold) BY LineSeqs
<1> QED BY <1>2, <1>3, <1>4 DEF ListingAsked, ListStage, ListOff

LEMMA ListAskedNext ==
  ASSUME ListingInv, ListingAsked, [Listing!Next]_(Listing!vars)
  PROVE  ListingAsked'
<1>1. ListStage /\ SlotMade /\ StuckFits /\ Listing!ListedAsAsked BY DEF ListingAsked
<1>2. ListStage'
  <2>1. CASE \E w \in Listing!Window : Listing!Handle(w) BY <1>1, <2>1, ListHandleKeeps
  <2>2. CASE \/ Listing!Begin \/ Listing!Execute \/ Listing!Complete \/ Listing!Timeout
             \/ Listing!ClearBlocked \/ Listing!Watchdog \/ Listing!RetryTask
             \/ UNCHANGED Listing!vars
    BY <1>1, <2>2, ListProcessorKeeps
  <2>3. CASE Listing!OpenScreen BY <1>1, <2>3, ListOpenKeeps
  <2>4. CASE Listing!SignEditor BY <1>1, <2>4, ListSignKeeps
  <2>5. CASE Listing!StuckItem BY <1>1, <2>5, ListStuckKeeps
  <2>6. CASE Listing!Started BY <1>1, <2>6, ListStartedKeeps
  <2>7. CASE Listing!Game BY <1>1, <2>7, ListGameKeeps
  <2> QED BY <2>1, <2>2, <2>3, <2>4, <2>5, <2>6, <2>7 DEF Listing!Next
<1>3. SlotMade' /\ Listing!ListedAsAsked' BY <1>1, ListMadeKeeps
<1>4. StuckFits' BY <1>1, ListStuckFits
<1> QED BY <1>2, <1>3, <1>4 DEF ListingAsked

=============================================================================
