---------------------------- MODULE ServicesProofs ----------------------------
(***************************************************************************)
(* What is proved of the components around the bot (MCServices), for every *)
(* value of the constants that ServicesAssumption admits: every property   *)
(* that the run of MCServices checks.                                      *)
(*                                                                         *)
(* The seven components share no variable, and one is chosen at the start: *)
(* the inductive invariant ServicesInv is that of the part that was chosen.*)
(* Each section states the invariant of its component in named parts and   *)
(* proves that the initial states have it (...Begins), that each group of  *)
(* actions, and with them Next, keeps it (...Keeps), and what it implies   *)
(* (...Shows).  The last section puts them together.                       *)
(***************************************************************************)
EXTENDS MCServices, QueueLemmas, TLAPS

-----------------------------------------------------------------------------
(* Rentals. *)

\* What runs is hosted; and what the last look has left running had not
\* outlived the grace then, which is less than a minute ago once the next look
\* is due.
Covered ==
    /\ looked => connected
    /\ \A i \in Id : tracked[i].running =>
          /\ i \in hosted
          /\ looked => minute <= tracked[i].paid + Grace + (1 - untilLook)

RentalsInv == Rental!TypeOK /\ Covered

LEMMA RentalsBegin == Rental!Init => RentalsInv
<1> SUFFICES ASSUME Rental!Init PROVE RentalsInv OBVIOUS
<1> USE ServicesAssumption DEF Rental!Init, Rental!None
<1>1. tracked \in [Id -> [paid : Rental!Times, off : BOOLEAN, running : BOOLEAN,
                          there : BOOLEAN]]
  <2>1. Rental!None \in [paid : Rental!Times, off : BOOLEAN, running : BOOLEAN,
                         there : BOOLEAN]
    BY DEF Rental!Times
  <2> QED BY <2>1
<1>2. minute \in Rental!Times /\ untilLook \in 0..1 /\ hosted \subseteq Id
  BY DEF Rental!Times
<1>5. connected \in BOOLEAN /\ looked \in BOOLEAN OBVIOUS
<1>4. Rental!TypeOK BY <1>1, <1>2, <1>5 DEF Rental!TypeOK
<1>3. Covered BY <1>1 DEF Covered
<1> QED BY <1>3, <1>4 DEF RentalsInv

(* An update that is taken gives a record of the type, and one that runs is  *)
(* paid for.                                                                 *)
LEMMA ManagedType ==
  ASSUME NEW u \in Rental!Instance, Rental!Valid(u), minute \in Rental!Times
  PROVE  /\ Rental!Managed(u) \in [paid : Rental!Times, off : BOOLEAN,
                                   running : BOOLEAN, there : BOOLEAN]
         /\ Rental!Managed(u).running <=> Rental!ShouldRun(u)
         /\ Rental!ShouldRun(u) => minute <= Rental!Managed(u).paid
<1>1. u.paid \in Rental!Times /\ u.off \in BOOLEAN
  BY DEF Rental!Instance, Rental!Valid, Rental!Times
<1>2. Rental!ShouldRun(u) \in BOOLEAN BY DEF Rental!ShouldRun
<1>3. Rental!ShouldRun(u) => minute <= u.paid
  BY <1>1, ServicesAssumption DEF Rental!ShouldRun, Rental!Expired, Rental!Times
<1> QED BY <1>1, <1>2, <1>3 DEF Rental!Managed

LEMMA RentalsClock ==
  ASSUME RentalsInv, Rental!Tick \/ Rental!Connect \/ Rental!Disconnect
  PROVE  RentalsInv'
<1> USE ServicesAssumption DEF RentalsInv
<1>1. CASE Rental!Tick
  <2>1. Rental!TypeOK' BY <1>1 DEF Rental!Tick, Rental!TypeOK, Rental!Times
  <2>2. Covered' BY <1>1 DEF Rental!Tick, Covered, Rental!TypeOK, Rental!Times
  <2> QED BY <2>1, <2>2
<1>2. CASE Rental!Connect \/ Rental!Disconnect
  <2>3. UNCHANGED <<minute, tracked, hosted>> /\ untilLook' \in 0..1
    BY <1>2 DEF Rental!Connect, Rental!Disconnect
  <2>4. connected' \in BOOLEAN /\ looked' \in BOOLEAN
    BY <1>2 DEF Rental!Connect, Rental!Disconnect
  <2>1. Rental!TypeOK' BY <2>3, <2>4 DEF Rental!TypeOK
  <2>2. Covered' BY <1>2 DEF Rental!Connect, Rental!Disconnect, Covered
  <2> QED BY <2>1, <2>2
<1> QED BY <1>1, <1>2

LEMMA RentalsInit ==
  ASSUME RentalsInv, Rental!HandleInit
  PROVE  RentalsInv'
<1> USE ServicesAssumption DEF RentalsInv
<1>1. PICK named \in SUBSET Id : \E list \in [named -> Rental!Instance] :
        LET valid == {i \in named : Rental!Valid(list[i])}
            gone  == {i \in Rental!Known \ named : tracked[i].running}
        IN /\ tracked' = [i \in Id |-> IF i \in valid THEN Rental!Managed(list[i])
                                       ELSE IF i \in named THEN tracked[i] ELSE Rental!None]
           /\ hosted' = (hosted \ gone) \cup {i \in valid : Rental!ShouldRun(list[i])}
  BY DEF Rental!HandleInit
<1>2. PICK list \in [named -> Rental!Instance] :
        LET valid == {i \in named : Rental!Valid(list[i])}
            gone  == {i \in Rental!Known \ named : tracked[i].running}
        IN /\ tracked' = [i \in Id |-> IF i \in valid THEN Rental!Managed(list[i])
                                       ELSE IF i \in named THEN tracked[i] ELSE Rental!None]
           /\ hosted' = (hosted \ gone) \cup {i \in valid : Rental!ShouldRun(list[i])}
  BY <1>1
<1> DEFINE valid == {i \in named : Rental!Valid(list[i])}
           gone  == {i \in Rental!Known \ named : tracked[i].running}
           Kind  == [paid : Rental!Times, off : BOOLEAN, running : BOOLEAN, there : BOOLEAN]
<1>3. UNCHANGED <<minute, connected, untilLook, looked>> BY DEF Rental!HandleInit
<1>4. \A i \in valid : /\ Rental!Managed(list[i]) \in Kind
                       /\ Rental!Managed(list[i]).running <=> Rental!ShouldRun(list[i])
                       /\ Rental!ShouldRun(list[i]) => minute <= Rental!Managed(list[i]).paid
  BY ManagedType DEF Rental!TypeOK
<1>5. Rental!None \in Kind /\ ~Rental!None.running BY DEF Rental!None, Rental!Times
<1>6. tracked \in [Id -> Kind] /\ hosted \subseteq Id BY DEF Rental!TypeOK
<1>7. Rental!TypeOK'
  <2>1. tracked' \in [Id -> Kind] BY <1>2, <1>4, <1>5, <1>6
  <2>2. hosted' \subseteq Id BY <1>2, <1>6
  <2> QED BY <1>3, <2>1, <2>2 DEF Rental!TypeOK
<1>8. Covered'
  <2> SUFFICES ASSUME NEW i \in Id, tracked'[i].running
               PROVE  i \in hosted' /\ (looked => minute <= tracked'[i].paid + Grace + (1 - untilLook))
    BY <1>3 DEF Covered
  <2>1. CASE i \in valid
    <3>1. tracked'[i] = Rental!Managed(list[i]) BY <1>2, <2>1
    <3>2. i \in hosted' BY <1>2, <1>4, <2>1, <3>1
    <3>3. minute <= tracked'[i].paid /\ tracked'[i].paid \in Nat
      BY <1>4, <2>1, <3>1 DEF Rental!Times
    <3> QED BY <3>2, <3>3 DEF Rental!TypeOK, Rental!Times
  <2>2. CASE i \notin valid
    <3>1. i \in named /\ tracked'[i] = tracked[i] BY <1>2, <1>5, <2>2
    <3>2. i \in hosted' BY <1>2, <3>1 DEF Covered
    <3> QED BY <3>1, <3>2 DEF Covered
  <2> QED BY <2>1, <2>2
<1> QED BY <1>7, <1>8

LEMMA RentalsChange ==
  ASSUME RentalsInv, NEW i \in Id, NEW u \in Rental!Instance, Rental!HandleConfigUpdate(i, u)
  PROVE  RentalsInv'
<1> USE ServicesAssumption DEF RentalsInv
<1>1. /\ Rental!Managed(u) \in [paid : Rental!Times, off : BOOLEAN, running : BOOLEAN,
                                there : BOOLEAN]
      /\ Rental!Managed(u).running <=> Rental!ShouldRun(u)
      /\ Rental!ShouldRun(u) => minute <= Rental!Managed(u).paid
  BY ManagedType DEF Rental!HandleConfigUpdate, Rental!TypeOK
<1>2. /\ tracked' = [tracked EXCEPT ![i] = Rental!Managed(u)]
      /\ hosted' = Rental!Hooks(i, u)
      /\ UNCHANGED <<minute, connected, untilLook, looked>>
  BY DEF Rental!HandleConfigUpdate
<1>3. Rental!TypeOK' BY <1>1, <1>2 DEF Rental!TypeOK, Rental!Hooks
<1>4. Covered'
  <2> SUFFICES ASSUME NEW j \in Id, tracked'[j].running
               PROVE  j \in hosted' /\ (looked => minute <= tracked'[j].paid + Grace + (1 - untilLook))
    BY <1>2 DEF Covered
  <2>1. CASE j = i
    <3>1. tracked'[j] = Rental!Managed(u) BY <1>2, <2>1 DEF Rental!TypeOK
    <3>2. j \in hosted' BY <1>1, <1>2, <2>1, <3>1 DEF Rental!Hooks
    <3>3. minute <= tracked'[j].paid /\ tracked'[j].paid \in Nat
      BY <1>1, <3>1 DEF Rental!Times
    <3> QED BY <3>2, <3>3 DEF Rental!TypeOK, Rental!Times
  <2>2. CASE j # i
    <3>1. tracked'[j] = tracked[j] BY <1>2, <2>2 DEF Rental!TypeOK
    <3>2. j \in hosted' BY <1>2, <2>2, <3>1 DEF Rental!Hooks, Covered
    <3> QED BY <3>1, <3>2 DEF Covered
  <2> QED BY <2>1, <2>2
<1> QED BY <1>3, <1>4

LEMMA RentalsLook ==
  ASSUME RentalsInv, Rental!CheckExpired
  PROVE  RentalsInv'
<1> USE ServicesAssumption DEF RentalsInv
<1> DEFINE over == {i \in Id : tracked[i].running /\ Rental!GraceOver(tracked[i].paid)}
           Kind == [paid : Rental!Times, off : BOOLEAN, running : BOOLEAN, there : BOOLEAN]
<1>1. /\ hosted' = hosted \ over
      /\ tracked' = [i \in Id |-> [tracked[i] EXCEPT !.running = @ /\ i \notin over]]
      /\ connected /\ untilLook' = 1 /\ looked' = TRUE /\ UNCHANGED <<minute, connected>>
  BY DEF Rental!CheckExpired
<1>2. tracked \in [Id -> Kind] BY DEF Rental!TypeOK
<1>3. \A i \in Id : /\ tracked'[i] \in Kind
                    /\ tracked'[i].running <=> tracked[i].running /\ i \notin over
                    /\ tracked'[i].paid = tracked[i].paid
  BY <1>1, <1>2
<1>4. Rental!TypeOK'
  <2>1. tracked' \in [Id -> Kind] BY <1>1, <1>3
  <2> QED BY <1>1, <2>1 DEF Rental!TypeOK
<1>5. Covered'
  <2> SUFFICES ASSUME NEW i \in Id, tracked'[i].running
               PROVE  i \in hosted' /\ minute <= tracked'[i].paid + Grace + (1 - untilLook')
    BY <1>1 DEF Covered
  <2>1. tracked[i].running /\ i \notin over BY <1>3
  <2>2. i \in hosted' BY <1>1, <2>1 DEF Covered
  <2>3. tracked[i].paid \in Nat /\ minute \in Nat BY <1>2 DEF Rental!TypeOK, Rental!Times
  <2>4. minute <= tracked[i].paid + Grace BY <2>1, <2>3 DEF Rental!GraceOver
  <2> QED BY <1>1, <1>3, <2>2, <2>3, <2>4
<1> QED BY <1>4, <1>5

LEMMA RentalsKeep == RentalsInv /\ [Rental!Next]_(Rental!vars) => RentalsInv'
<1> SUFFICES ASSUME RentalsInv, [Rental!Next]_(Rental!vars) PROVE RentalsInv' OBVIOUS
<1>1. CASE UNCHANGED Rental!vars
  BY <1>1 DEF Rental!vars, RentalsInv, Rental!TypeOK, Covered
<1> QED BY <1>1, RentalsClock, RentalsInit, RentalsChange, RentalsLook DEF Rental!Next

LEMMA RentalsShow == RentalsInv => Rental!PaidTimeEnds
BY ServicesAssumption DEF RentalsInv, Covered, Rental!PaidTimeEnds, Rental!TypeOK, Rental!Times

-----------------------------------------------------------------------------
(* Upgrade. *)

\* Nobody works on an update but a process, and the script runs alone.
Alone ==
    /\ step # "none" => proc # "nobody"
    /\ script => proc = "nobody" /\ ~Update!Unix

\* What takes the place of the binary is all of a release.
Intact ==
    /\ binary.whole
    /\ step = "written" => sidecar = Update!Whole(tag)
    /\ script \/ (step = "restart" /\ ~Update!Unix) => sidecar.whole

\* No file is of a release that is still to come, and on Unix an update never
\* takes the binary back, nor behind .version.
Forward ==
    /\ binary.tag <= latest /\ sidecar.tag <= latest /\ tag <= latest
    /\ Update!Unix =>
          /\ version <= binary.tag
          /\ step \in {"download", "write", "written"} => binary.tag <= tag
          /\ step = "swapped" => binary.tag = tag
    /\ step = "swapped" => Update!Unix

UpgradeInv == Update!TypeOK /\ Alone /\ Intact /\ Forward

(* The files there may be.                                                   *)
LEMMA FilesMade ==
  ASSUME NEW t \in Update!Tags
  PROVE  /\ Update!Whole(t) \in Update!File /\ Update!Whole(t).tag = t /\ Update!Whole(t).whole
         /\ Update!Part(t) \in Update!File /\ Update!Part(t).tag = t
         /\ Update!Absent \in Update!File /\ Update!Absent.tag = 0 /\ Update!Absent.whole
<1>1. 0 \in Update!Tags BY ServicesAssumption DEF Update!Tags
<1>2. Update!Whole(t) \in Update!File /\ Update!Whole(t).tag = t /\ Update!Whole(t).whole
  BY DEF Update!Whole, Update!File
<1>3. Update!Part(t) \in Update!File /\ Update!Part(t).tag = t
  BY DEF Update!Part, Update!File
<1>4. Update!Absent \in Update!File /\ Update!Absent.tag = 0 /\ Update!Absent.whole
  BY <1>1 DEF Update!Absent, Update!File
<1> QED BY <1>2, <1>3, <1>4

LEMMA UpgradeBegins == Update!Init => UpgradeInv
<1> SUFFICES ASSUME Update!Init PROVE UpgradeInv OBVIOUS
<1> USE ServicesAssumption DEF Update!Init
<1>0. 1 \in Update!Tags BY DEF Update!Tags
<1>1. /\ binary \in Update!File /\ binary.whole /\ binary.tag \in {0, 1}
      /\ sidecar \in Update!File /\ sidecar.tag = 0
  BY <1>0, FilesMade
<1>2. /\ latest \in Update!Tags \ {0} /\ version \in Update!Tags /\ tag \in Update!Tags
      /\ version <= binary.tag
  BY <1>1 DEF Update!Tags
<1>3. Update!TypeOK BY <1>1, <1>2 DEF Update!TypeOK, Update!Steps
<1>4. Alone /\ Intact BY <1>1 DEF Alone, Intact
<1>5. Forward BY <1>1, <1>2 DEF Forward
<1> QED BY <1>3, <1>4, <1>5 DEF UpgradeInv

(* What the files may be and what the parts of the invariant ask of them.    *)
LEMMA UpgradeWorld ==
  ASSUME UpgradeInv, Update!Release \/ Update!Run \/ Update!Dies
  PROVE  UpgradeInv'
<1> USE ServicesAssumption DEF UpgradeInv, Update!files
<1>1. CASE Update!Release
  <2>1. latest' = latest + 1 /\ latest \in Nat
    BY <1>1 DEF Update!Release, Update!TypeOK, Update!Tags
  <2>a. latest' \in Update!Tags \ {0}
    BY <1>1 DEF Update!Release, Update!TypeOK, Update!Tags
  <2>2. UNCHANGED <<os, binary, sidecar, version, proc, step, tag, script>>
    BY <1>1 DEF Update!Release
  <2>3. Update!TypeOK' BY <2>a, <2>2 DEF Update!TypeOK
  <2>4. Alone' /\ Intact' BY <2>2 DEF Alone, Intact, Update!Unix, Update!Whole
  <2>5. binary.tag \in Nat /\ sidecar.tag \in Nat /\ tag \in Nat
    BY DEF Update!TypeOK, Update!File, Update!Tags
  <2>6. Forward' BY <2>1, <2>2, <2>5 DEF Forward, Update!Unix
  <2> QED BY <2>3, <2>4, <2>6
<1>2. CASE Update!Run
  <2>1. UNCHANGED <<os, latest, binary, sidecar, version, step, tag, script>>
    BY <1>2 DEF Update!Run
  <2>2. proc' \in {"loader", "bot"} /\ proc = "nobody" /\ ~script BY <1>2 DEF Update!Run
  <2>3. Update!TypeOK' BY <2>1, <2>2 DEF Update!TypeOK
  <2>4. Alone' /\ Intact' BY <2>1, <2>2 DEF Alone, Intact, Update!Unix, Update!Whole
  <2>5. Forward' BY <2>1 DEF Forward, Update!Unix
  <2> QED BY <2>3, <2>4, <2>5
<1>3. CASE Update!Dies
  <2>1. UNCHANGED <<os, latest, binary, sidecar, version>> BY <1>3 DEF Update!Dies
  <2>2. proc' = "nobody" /\ step' = "none" /\ tag' = 0 /\ script' = FALSE
    BY <1>3 DEF Update!Dies
  <2>a. script' \in BOOLEAN BY <2>2
  <2>b. tag' \in Update!Tags /\ step' \in Update!Steps BY <2>2, ServicesAssumption DEF Update!Tags, Update!Steps
  <2>3. Update!TypeOK' BY <2>1, <2>2, <2>a, <2>b DEF Update!TypeOK
  <2>4. Alone' /\ Intact' BY <2>1, <2>2 DEF Alone, Intact
  <2>5. latest \in Nat BY DEF Update!TypeOK, Update!Tags
  <2>6. Forward' BY <2>1, <2>2, <2>5 DEF Forward, Update!Unix
  <2> QED BY <2>3, <2>4, <2>6
<1> QED BY <1>1, <1>2, <1>3

(* The update ends here, in whatever way, and the files are left as they are.*)
LEMMA UpgradeRests ==
  ASSUME UpgradeInv, UNCHANGED <<os, latest, binary, sidecar, version>>,
         step' = "none", tag' = 0, proc' \in {"nobody", "loader", "bot"},
         script' \in BOOLEAN, script' => proc' = "nobody" /\ ~Update!Unix /\ sidecar.whole
  PROVE  UpgradeInv'
<1> USE ServicesAssumption DEF UpgradeInv
<1>1. Update!TypeOK' BY DEF Update!TypeOK, Update!Tags, Update!Steps
<1>2. Alone' /\ Intact' BY DEF Alone, Intact, Update!Unix
<1>3. latest \in Nat BY DEF Update!TypeOK, Update!Tags
<1>4. Forward' BY <1>3 DEF Forward, Update!Unix
<1> QED BY <1>1, <1>2, <1>4

LEMMA AfterwardsEnds ==
  ASSUME UpgradeInv, proc # "nobody", Update!Afterwards
  PROVE  step' = "none" /\ tag' = 0 /\ proc' \in {"nobody", "loader", "bot"} /\ ~script
BY DEF Update!Afterwards, UpgradeInv, Alone

LEMMA UpgradeDownload ==
  ASSUME UpgradeInv,
         Update!Query \/ Update!Fails \/ Update!WriteBegins \/ Update!WriteEnds
  PROVE  UpgradeInv'
<1> USE ServicesAssumption DEF UpgradeInv, Update!files
<1>0. latest \in Update!Tags \ {0} /\ tag \in Update!Tags /\ Update!Tags \subseteq Nat
  BY DEF Update!TypeOK, Update!Tags
<1>1. CASE Update!Query
  <2>1. CASE Update!UpToDate
    BY <1>1, <2>1, AfterwardsEnds, UpgradeRests DEF Update!Query, Update!TypeOK
  <2>2. CASE ~Update!UpToDate
    <3>1. /\ step' = "download" /\ tag' = latest
          /\ UNCHANGED <<os, latest, binary, sidecar, version, proc, script>>
          /\ proc # "nobody" /\ step = "none"
      BY <1>1, <2>2 DEF Update!Query
    <3>2. Update!TypeOK' BY <1>0, <3>1 DEF Update!TypeOK, Update!Steps
    <3>3. Alone' /\ Intact' BY <3>1 DEF Alone, Intact, Update!Unix
    <3>4. Forward' BY <1>0, <3>1 DEF Forward, Update!Unix
    <3> QED BY <3>2, <3>3, <3>4
  <2> QED BY <2>1, <2>2
<1>2. CASE Update!Fails
  <2>1. proc # "nobody" BY <1>2 DEF Update!Fails, Alone
  <2> QED BY <1>2, <2>1, AfterwardsEnds, UpgradeRests DEF Update!Fails, Update!TypeOK
<1>3. CASE Update!WriteBegins \/ Update!WriteEnds
  <2>1. /\ UNCHANGED <<os, latest, binary, version, proc, tag, script>>
        /\ \/ step = "download" /\ step' = "write" /\ sidecar' = Update!Part(tag)
           \/ step = "write" /\ step' = "written" /\ sidecar' = Update!Whole(tag)
    BY <1>3 DEF Update!WriteBegins, Update!WriteEnds, Update!Write
  <2>2. sidecar' \in Update!File /\ sidecar'.tag = tag BY <1>0, <2>1, FilesMade
  <2>3. Update!TypeOK' BY <2>1, <2>2 DEF Update!TypeOK, Update!Steps
  <2>4. proc # "nobody" /\ ~script BY <2>1 DEF Alone
  <2>5. Alone' BY <2>1, <2>4 DEF Alone
  <2>6. Intact' BY <2>1, <2>4 DEF Intact, Update!Whole
  <2>7. Forward' BY <1>0, <2>1, <2>2 DEF Forward, Update!Unix
  <2> QED BY <2>3, <2>5, <2>6, <2>7
<1> QED BY <1>1, <1>2, <1>3

LEMMA UpgradeSwap ==
  ASSUME UpgradeInv, Update!Swap \/ Update!WriteVersion
  PROVE  UpgradeInv'
<1> USE ServicesAssumption DEF UpgradeInv, Update!files
<1>0. /\ latest \in Nat /\ tag \in Update!Tags /\ 0 \in Update!Tags
      /\ Update!Tags \subseteq Nat /\ binary.tag \in Nat
  BY DEF Update!TypeOK, Update!Tags, Update!File
<1>1. CASE Update!Swap
  <2>1. /\ UNCHANGED <<os, latest, version, proc, tag, script>> /\ Update!Unix
        /\ step = "written" /\ step' = "swapped"
        /\ binary' = Update!Whole(tag) /\ sidecar' = Update!Absent
    BY <1>1 DEF Update!Swap, Intact
  <2>2. /\ binary' \in Update!File /\ binary'.tag = tag /\ binary'.whole
        /\ sidecar' \in Update!File /\ sidecar'.tag = 0
    BY <1>0, <2>1, FilesMade
  <2>3. Update!TypeOK' BY <2>1, <2>2 DEF Update!TypeOK, Update!Steps
  <2>4. Alone' BY <2>1 DEF Alone, Update!Unix
  <2>5. Intact' BY <2>1, <2>2, <2>4 DEF Intact, Alone
  <2>6. version \in Nat BY DEF Update!TypeOK, Update!Tags
  <2>7. Forward' BY <1>0, <2>1, <2>2, <2>6 DEF Forward, Update!Unix
  <2> QED BY <2>3, <2>4, <2>5, <2>7
<1>2. CASE Update!WriteVersion
  <2>1. /\ UNCHANGED <<os, latest, binary, sidecar, script>>
        /\ step = IF Update!Unix THEN "swapped" ELSE "written"
        /\ version' \in {tag, 0}
        /\ \/ Update!Unix /\ Update!Afterwards
           \/ step' = "restart" /\ UNCHANGED <<proc, tag>>
    BY <1>2 DEF Update!WriteVersion
  <2>2. proc # "nobody" /\ ~script BY <2>1 DEF Alone
  <2>3. /\ step' \in {"none", "restart"} /\ tag' \in {tag, 0}
        /\ proc' \in {"nobody", "loader", "bot"}
        /\ step' = "restart" => proc' # "nobody"
    BY <2>1, <2>2, AfterwardsEnds DEF Update!TypeOK
  <2>4. Update!TypeOK' BY <1>0, <2>1, <2>3 DEF Update!TypeOK, Update!Steps
  <2>5. Alone' BY <2>1, <2>2, <2>3 DEF Alone, Update!Unix
  <2>6. ~Update!Unix => sidecar.whole BY <2>1 DEF Intact, Update!Whole
  <2>7. Intact' BY <2>1, <2>2, <2>3, <2>6 DEF Intact, Update!Unix
  <2>8. Forward' BY <1>0, <2>1, <2>3 DEF Forward, Update!Unix
  <2> QED BY <2>4, <2>5, <2>7, <2>8
<1> QED BY <1>1, <1>2

LEMMA UpgradeRestart ==
  ASSUME UpgradeInv, Update!Restart \/ Update!Leave \/ Update!Script
  PROVE  UpgradeInv'
<1> USE ServicesAssumption DEF UpgradeInv, Update!files
<1>1. CASE Update!Restart
  <2>1. proc' \in {"nobody", "loader", "bot"} /\ ~script /\ UNCHANGED script
    BY <1>1 DEF Update!Restart, Alone
  <2>2. script' \in BOOLEAN BY <2>1 DEF Update!TypeOK
  <2> QED BY <1>1, <2>1, <2>2, UpgradeRests DEF Update!Restart
<1>2. CASE Update!Leave
  <2>1. proc # "nobody" BY <1>2 DEF Update!Leave, Alone
  <2>2. ~Update!Unix /\ sidecar.whole BY <1>2 DEF Update!Leave, Intact
  <2>3. step' = "none" /\ tag' = 0 /\ proc' \in {"nobody", "loader", "bot"}
        /\ script' \in BOOLEAN /\ (script' => proc' = "nobody")
    BY <1>2, <2>1, AfterwardsEnds DEF Update!Leave
  <2> QED BY <1>2, <2>2, <2>3, UpgradeRests DEF Update!Leave
<1>3. CASE Update!Script
  <2>1. /\ UNCHANGED <<os, latest, version, step, tag>> /\ script /\ script' = FALSE
        /\ \/ binary' = sidecar /\ sidecar' = Update!Absent
           \/ UNCHANGED <<binary, sidecar>>
        /\ proc' \in {"nobody", "loader", "bot"}
    BY <1>3 DEF Update!Script
  <2>2. step = "none" /\ ~Update!Unix /\ sidecar.whole BY <2>1 DEF Alone, Intact
  <2>3. Update!Absent \in Update!File /\ Update!Absent.tag = 0
    BY FilesMade DEF Update!TypeOK
  <2>4. Update!TypeOK' BY <2>1, <2>3 DEF Update!TypeOK
  <2>5. Alone' BY <2>1, <2>2 DEF Alone
  <2>6. Intact' BY <2>1, <2>2 DEF Intact
  <2>7. latest \in Nat BY DEF Update!TypeOK, Update!Tags
  <2>8. Forward' BY <2>1, <2>2, <2>3, <2>7 DEF Forward, Update!Unix
  <2> QED BY <2>4, <2>5, <2>6, <2>8
<1> QED BY <1>1, <1>2, <1>3

LEMMA UpgradeKeeps == UpgradeInv /\ [Update!Next]_(Update!vars) => UpgradeInv'
<1> SUFFICES ASSUME UpgradeInv, [Update!Next]_(Update!vars) PROVE UpgradeInv' OBVIOUS
<1>1. CASE UNCHANGED Update!vars
  BY <1>1 DEF Update!vars, Update!files, UpgradeInv, Update!TypeOK, Alone, Intact, Forward,
              Update!Unix, Update!Whole
<1> QED BY <1>1, UpgradeWorld, UpgradeDownload, UpgradeSwap, UpgradeRestart
        DEF Update!Next

LEMMA UpgradeShows == UpgradeInv => Update!NeverHalfUpdated
BY DEF UpgradeInv, Intact, Forward, Update!NeverHalfUpdated

-----------------------------------------------------------------------------
(* Guards. *)

\* How many commands of its sequence a guard that stands there has ordered, at
\* most.
Stage(place) == IF place = "backoff" THEN 0
                ELSE IF place = "lobby" THEN 1
                ELSE IF place = "play" THEN 2 ELSE 3

\* Nothing counts as left over while the bot is online, and what does is of the
\* sequence that was begun before.
Spent ==
    /\ online => leftover = Guard!None
    /\ leftover["guard"] <= Stage(guard) /\ leftover["beat"] <= Stage(beat)

\* If something has happened since the first stall, the next look will not find
\* the fifteen minutes of silence of another one.
Lively ==
    /\ beat # "restart" => stalls < MaxStalls
    /\ stalls > 0 /\ livened => silence = "active" \/ (silence = "quiet" /\ aged)

GuardsInv == Guard!TypeOK /\ Spent /\ Lively

LEMMA GuardsBegin == Guard!Init => GuardsInv
<1> SUFFICES ASSUME Guard!Init PROVE GuardsInv OBVIOUS
<1> USE ServicesAssumption DEF Guard!Init
<1>1. Guard!None \in [{"guard", "beat"} -> 0..4] /\ Guard!None["guard"] = 0 /\ Guard!None["beat"] = 0
  BY DEF Guard!None
<1>2. /\ silence \in {"active", "quiet", "stalled"} /\ guard \in Guard!Places \ {"restart"}
      /\ rejoins \in 0..(MaxRejoins - 1) /\ beat \in Guard!Places \ {"backoff"}
      /\ stalls \in 0..MaxStalls /\ friend \in {"none", "open", "refused"}
      /\ trips \in 0..MaxTrips /\ trip \in {"none", "visit"}
  BY DEF Guard!Places
<1>3. /\ online \in BOOLEAN /\ maintenance \in BOOLEAN /\ aged \in BOOLEAN
      /\ attempted \in BOOLEAN /\ refusal \in BOOLEAN /\ livened \in BOOLEAN
  OBVIOUS
<1>4. leftover = Guard!None OBVIOUS
<1>5. Guard!TypeOK BY <1>1, <1>2, <1>3, <1>4 DEF Guard!TypeOK
<1>6. Spent BY <1>1, <1>4 DEF Spent, Stage
<1>7. Lively BY DEF Lively
<1> QED BY <1>5, <1>6, <1>7 DEF GuardsInv

(* What a guard's order does to the count of what is left over.              *)
LEMMA OrdersCount ==
  ASSUME GuardsInv, NEW g \in {"guard", "beat"}, NEW k \in {0, 1}, Guard!Orders(g, k)
  PROVE  /\ trips' \in 0..MaxTrips
         /\ online => leftover' = Guard!None
         /\ ~online => leftover' = [leftover EXCEPT ![g] = @ + 1]
BY ServicesAssumption DEF GuardsInv, Spent, Guard!Orders, Guard!TypeOK

LEMMA GuardsWorld ==
  ASSUME GuardsInv,
         Guard!Disconnect \/ Guard!Maintenance \/ Guard!Activity \/ Guard!NothingHappens
  PROVE  GuardsInv'
<1> USE ServicesAssumption DEF GuardsInv, Guard!home, Guard!away, Guard!seen
<1>1. /\ UNCHANGED <<guard, rejoins, beat, stalls, friend, attempted, trip, refusal, trips, leftover>>
      /\ online' => online
  BY DEF Guard!Disconnect, Guard!Maintenance, Guard!Activity, Guard!NothingHappens
<1>2. /\ online' \in BOOLEAN /\ maintenance' \in BOOLEAN /\ aged' \in BOOLEAN
      /\ livened' \in BOOLEAN
  BY DEF Guard!Disconnect, Guard!Maintenance, Guard!Activity, Guard!NothingHappens, Guard!TypeOK
<1>3. silence' \in {"active", "quiet", "stalled"}
  BY DEF Guard!Disconnect, Guard!Maintenance, Guard!Activity, Guard!NothingHappens, Guard!TypeOK
<1>4. Guard!TypeOK' BY <1>1, <1>2, <1>3 DEF Guard!TypeOK
<1>5. Spent' BY <1>1 DEF Spent
<1>6. Lively'
  BY <1>1 DEF Guard!Disconnect, Guard!Maintenance, Guard!Activity, Guard!NothingHappens, Lively,
              Guard!TypeOK
<1> QED BY <1>4, <1>5, <1>6

LEMMA GuardSteps ==
  ASSUME GuardsInv, Guard!GuardRests \/ Guard!GuardSetsOut \/ Guard!GuardGoesOn
  PROVE  GuardsInv'
<1> USE ServicesAssumption DEF GuardsInv, Guard!watch, Guard!home, Guard!away, Guard!seen
<1>1. UNCHANGED <<online, maintenance, silence, aged, beat, stalls, friend, attempted, trip,
                  refusal, livened>>
  BY DEF Guard!GuardRests, Guard!GuardSetsOut, Guard!GuardGoesOn
<1>2. Lively' BY <1>1 DEF Lively
<1>3. /\ guard' \in Guard!Places \ {"restart"} /\ rejoins' \in 0..(MaxRejoins - 1)
  <2>1. CASE Guard!GuardRests BY <2>1 DEF Guard!GuardRests, Guard!TypeOK
  <2>2. CASE Guard!GuardSetsOut
    BY <2>2 DEF Guard!GuardSetsOut, Guard!Attempt, Guard!TypeOK, Guard!Places
  <2>3. CASE Guard!GuardGoesOn BY <2>3 DEF Guard!GuardGoesOn, Guard!TypeOK, Guard!Places
  <2> QED BY <2>1, <2>2, <2>3
<1> DEFINE Stays == UNCHANGED <<trips, leftover>> /\ (online \/ Stage(guard') >= Stage(guard))
           Moves == /\ \E k \in {0, 1} : Guard!Orders("guard", k)
                    /\ online \/ Stage(guard') = Stage(guard) + 1
<1>6. Stays \/ Moves
  <2>1. CASE Guard!GuardRests BY <2>1 DEF Guard!GuardRests, Stage
  <2>2. CASE Guard!GuardSetsOut BY <2>2 DEF Guard!GuardSetsOut, Guard!Excused
  <2>3. CASE Guard!GuardGoesOn BY <2>3 DEF Guard!GuardGoesOn, Stage
  <2> QED BY <2>1, <2>2, <2>3
<1>4. CASE Stays
  <2>1. Guard!TypeOK' BY <1>1, <1>3, <1>4 DEF Guard!TypeOK
  <2>3. Spent' BY <1>1, <1>4 DEF Spent, Stage, Guard!None, Guard!TypeOK
  <2> QED BY <1>2, <2>1, <2>3
<1>5. CASE Moves
  <2>1. /\ trips' \in 0..MaxTrips /\ (online => leftover' = Guard!None)
        /\ ~online => leftover' = [leftover EXCEPT !["guard"] = @ + 1]
    BY <1>5, OrdersCount
  <2>2. online \/ Stage(guard') = Stage(guard) + 1 BY <1>5
  <2>3. Spent' BY <1>1, <2>1, <2>2 DEF Spent, Stage, Guard!None, Guard!TypeOK
  <2>4. leftover' \in [{"guard", "beat"} -> 0..4]
    BY <2>1, <2>2 DEF Spent, Stage, Guard!None, Guard!TypeOK
  <2>5. Guard!TypeOK' BY <1>1, <1>3, <2>1, <2>4 DEF Guard!TypeOK
  <2> QED BY <1>2, <2>3, <2>5
<1> QED BY <1>4, <1>5, <1>6

LEMMA BeatSteps ==
  ASSUME GuardsInv, Guard!BeatRests \/ Guard!BeatSuspects \/ Guard!BeatGoesOn
  PROVE  GuardsInv'
<1> USE ServicesAssumption DEF GuardsInv, Guard!watch, Guard!home, Guard!away, Guard!seen
<1>1. UNCHANGED <<online, maintenance, silence, guard, rejoins, friend, attempted, trip, refusal>>
  BY DEF Guard!BeatRests, Guard!BeatSuspects, Guard!BeatGoesOn
<1>2. beat' \in Guard!Places \ {"backoff"} /\ stalls' \in 0..MaxStalls
  <2>1. CASE Guard!BeatRests BY <2>1 DEF Guard!BeatRests, Guard!Calm, Guard!TypeOK
  <2>2. CASE Guard!BeatSuspects
    BY <2>2 DEF Guard!BeatSuspects, Guard!TypeOK, Guard!Places, Lively
  <2>3. CASE Guard!BeatGoesOn BY <2>3 DEF Guard!BeatGoesOn, Guard!TypeOK, Guard!Places
  <2> QED BY <2>1, <2>2, <2>3
<1>3. aged' \in BOOLEAN /\ livened' \in BOOLEAN
  BY DEF Guard!BeatRests, Guard!BeatSuspects, Guard!BeatGoesOn, Guard!TypeOK
<1>4. Lively'
  <2>1. CASE Guard!BeatRests BY <1>1, <2>1 DEF Guard!BeatRests, Guard!Calm, Lively, Guard!TypeOK
  <2>2. CASE Guard!BeatSuspects
    BY <1>1, <2>2 DEF Guard!BeatSuspects, Lively, Guard!TypeOK
  <2>3. CASE Guard!BeatGoesOn BY <1>1, <2>3 DEF Guard!BeatGoesOn, Lively
  <2> QED BY <2>1, <2>2, <2>3
<1> DEFINE Stays == UNCHANGED <<trips, leftover>> /\ Stage(beat') >= Stage(beat)
           Moves == /\ \E k \in {0, 1} : Guard!Orders("beat", k)
                    /\ online \/ Stage(beat') = Stage(beat) + 1
<1>7. Stays \/ Moves
  <2>1. CASE Guard!BeatRests BY <2>1 DEF Guard!BeatRests, Stage
  <2>2. CASE Guard!BeatSuspects BY <2>2 DEF Guard!BeatSuspects, Guard!Excused, Stage
  <2>3. CASE Guard!BeatGoesOn BY <2>3 DEF Guard!BeatGoesOn, Stage
  <2> QED BY <2>1, <2>2, <2>3
<1>5. CASE Stays
  <2>1. Guard!TypeOK' BY <1>1, <1>2, <1>3, <1>5 DEF Guard!TypeOK
  <2>3. Spent' BY <1>1, <1>5 DEF Spent, Stage, Guard!TypeOK
  <2> QED BY <1>4, <2>1, <2>3
<1>6. CASE Moves
  <2>1. /\ trips' \in 0..MaxTrips /\ (online => leftover' = Guard!None)
        /\ ~online => leftover' = [leftover EXCEPT !["beat"] = @ + 1]
    BY <1>6, OrdersCount
  <2>2. online \/ Stage(beat') = Stage(beat) + 1 BY <1>6
  <2>3. Spent' BY <1>1, <2>1, <2>2 DEF Spent, Stage, Guard!None, Guard!TypeOK
  <2>4. leftover' \in [{"guard", "beat"} -> 0..4]
    BY <2>1, <2>2 DEF Spent, Stage, Guard!None, Guard!TypeOK
  <2>5. Guard!TypeOK' BY <1>1, <1>2, <1>3, <2>1, <2>4 DEF Guard!TypeOK
  <2> QED BY <1>4, <2>3, <2>5
<1> QED BY <1>5, <1>6, <1>7

LEMMA HomeSteps ==
  ASSUME GuardsInv,
         Guard!GoToIsland \/ Guard!Visit \/ Guard!Refused \/ Guard!AttemptAges
  PROVE  GuardsInv'
<1> USE ServicesAssumption DEF GuardsInv, Guard!watch, Guard!seen
<1>1. UNCHANGED <<online, maintenance, silence, aged, guard, rejoins, beat, stalls, leftover,
                  livened>>
  BY DEF Guard!GoToIsland, Guard!Visit, Guard!Refused, Guard!AttemptAges
<1>2. /\ friend' \in {"none", "open", "refused"} /\ trips' \in 0..MaxTrips
      /\ trip' \in {"none", "visit"}
  <2>1. CASE Guard!GoToIsland BY <2>1 DEF Guard!GoToIsland, Guard!TypeOK
  <2>2. CASE Guard!Visit \/ Guard!AttemptAges BY <2>2 DEF Guard!Visit, Guard!AttemptAges, Guard!TypeOK
  <2>3. CASE Guard!Refused BY <2>3 DEF Guard!Refused, Guard!TypeOK
  <2> QED BY <2>1, <2>2, <2>3
<1>3. attempted' \in BOOLEAN /\ refusal' \in BOOLEAN
  BY DEF Guard!GoToIsland, Guard!Visit, Guard!Refused, Guard!AttemptAges, Guard!TypeOK
<1>4. Guard!TypeOK' BY <1>1, <1>2, <1>3 DEF Guard!TypeOK
<1>5. Spent' /\ Lively' BY <1>1 DEF Spent, Lively
<1> QED BY <1>4, <1>5

LEMMA GuardsRestart == ASSUME GuardsInv, Guard!Restart PROVE GuardsInv'
<1> USE ServicesAssumption DEF Guard!Restart
<1>1. Guard!None \in [{"guard", "beat"} -> 0..4] /\ Guard!None["guard"] = 0 /\ Guard!None["beat"] = 0
  BY DEF Guard!None
<1>2. /\ silence' \in {"active", "quiet", "stalled"} /\ guard' \in Guard!Places \ {"restart"}
      /\ rejoins' \in 0..(MaxRejoins - 1) /\ beat' \in Guard!Places \ {"backoff"}
      /\ stalls' \in 0..MaxStalls /\ friend' \in {"none", "open", "refused"}
      /\ trips' \in 0..MaxTrips /\ trip' \in {"none", "visit"}
  BY DEF Guard!Places
<1>3. /\ online' \in BOOLEAN /\ maintenance' \in BOOLEAN /\ aged' \in BOOLEAN
      /\ attempted' \in BOOLEAN /\ refusal' \in BOOLEAN /\ livened' \in BOOLEAN
  OBVIOUS
<1>4. leftover' = Guard!None OBVIOUS
<1>5. Guard!TypeOK' BY <1>1, <1>2, <1>3, <1>4 DEF Guard!TypeOK
<1>6. Spent' BY <1>1, <1>4 DEF Spent, Stage
<1>7. Lively' BY DEF Lively
<1> QED BY <1>5, <1>6, <1>7 DEF GuardsInv

LEMMA GuardsKeep == GuardsInv /\ [Guard!Next]_(Guard!vars) => GuardsInv'
<1> SUFFICES ASSUME GuardsInv, [Guard!Next]_(Guard!vars) PROVE GuardsInv' OBVIOUS
<1>1. CASE UNCHANGED Guard!vars
  BY <1>1 DEF Guard!vars, Guard!watch, Guard!away, Guard!home, Guard!seen, GuardsInv,
              Guard!TypeOK, Spent, Lively
<1> QED BY <1>1, GuardsWorld, GuardSteps, BeatSteps, HomeSteps, GuardsRestart DEF Guard!Next

LEMMA GuardsShow == GuardsInv => Guard!OfflineIsLeftAlone
BY DEF GuardsInv, Spent, Stage, Guard!OfflineIsLeftAlone, Guard!TypeOK

(* A heartbeat that gives up has found fifteen minutes of silence again.     *)
LEMMA SilentRestart ==
  ASSUME GuardsInv, [Guard!Next]_(Guard!vars) PROVE Guard!RestartsAfterSilence
<1> SUFFICES ASSUME beat = "watch", beat' = "restart" PROVE ~livened
  BY DEF Guard!RestartsAfterSilence
<1>1. Guard!BeatSuspects
  BY DEF Guard!Next, Guard!vars, Guard!watch, Guard!away, Guard!home, Guard!seen, Guard!Disconnect,
         Guard!Maintenance, Guard!Activity, Guard!NothingHappens, Guard!GuardRests,
         Guard!GuardSetsOut, Guard!GuardGoesOn, Guard!BeatRests, Guard!BeatGoesOn, Guard!Restart,
         Guard!GoToIsland, Guard!Visit, Guard!Refused, Guard!AttemptAges
<1>2. silence = "stalled" /\ stalls + 1 >= MaxStalls BY <1>1 DEF Guard!BeatSuspects
<1> QED BY <1>2, ServicesAssumption DEF GuardsInv, Lively, Guard!TypeOK

-----------------------------------------------------------------------------
(* SessionBook. *)

\* No file counts more than there has been, one that is not there counts
\* nothing, and an uptime that is taken up is older than the session.
Accounts ==
    /\ times.value <= now /\ profits.value <= bought
    /\ ~times.there => times.value = 0
    /\ ~profits.there => profits.value = 0
    /\ Book!Running => prevSecs <= since
    /\ switchMarker => phase = "down"

\* Where the session of a rest break is, from its end to the next start: in the
\* files, then in the memory of the process, the profit last.
Kept ==
    kept.counts =>
        /\ phase # "away" /\ ~switchMarker
        /\ phase \in {"down", "resting"} =>
              marker.there /\ times.value = kept.secs /\ flips = kept.flip
        /\ phase \in {"down", "resting", "login"} => profits.value = kept.total
        /\ phase \in {"resting", "login"} =>
              prevSecs = kept.secs /\ entry = kept.flip /\ afterBreak /\ ~switched
        /\ Book!Running => Book!Uptime >= kept.secs /\ total >= kept.total

BookInv == Book!TypeOK /\ Accounts /\ Kept

LEMMA FilesWritten ==
  ASSUME NEW S, NEW v \in S, now \in 0..MaxTime
  PROVE  /\ Book!Written(v) \in Book!File(S)
         /\ Book!Written(v).there /\ Book!Written(v).value = v
<1>1. Book!Written(v) \in Book!File(S) BY DEF Book!Written, Book!File
<1>2. Book!Written(v).there /\ Book!Written(v).value = v BY DEF Book!Written
<1> QED BY <1>1, <1>2

LEMMA NoFileWritten ==
  ASSUME NEW n \in Nat
  PROVE  /\ Book!NoFile \in Book!File(0..n)
         /\ ~Book!NoFile.there /\ Book!NoFile.value = 0
<1>1. 0 \in 0..n /\ 0 \in 0..MaxTime BY ServicesAssumption
<1>2. Book!NoFile \in Book!File(0..n) BY <1>1 DEF Book!NoFile, Book!File
<1>3. ~Book!NoFile.there /\ Book!NoFile.value = 0 BY DEF Book!NoFile
<1> QED BY <1>2, <1>3

(* What the type says of the numbers in the files.                           *)
LEMMA BookNumbers ==
  ASSUME Book!TypeOK
  PROVE  /\ now \in 0..MaxTime /\ prevSecs \in 0..now /\ since \in 0..now
         /\ times.value \in 0..MaxTime /\ times.there \in BOOLEAN
         /\ profits.value \in 0..MaxPurchases /\ profits.there \in BOOLEAN
         /\ bought \in 0..MaxPurchases /\ total \in 0..bought
BY ServicesAssumption DEF Book!TypeOK, Book!File

LEMMA BookBegins == Book!Init => BookInv
<1> SUFFICES ASSUME Book!Init PROVE BookInv OBVIOUS
<1> USE ServicesAssumption DEF Book!Init
<1>1. /\ Book!NoFile \in Book!File(0..MaxTime) /\ Book!NoFile \in Book!File(0..MaxPurchases)
      /\ Book!NoFile \in Book!File(0..(MaxTime + BreakTime))
      /\ ~Book!NoFile.there /\ Book!NoFile.value = 0
  <2>1. MaxTime \in Nat /\ MaxPurchases \in Nat /\ MaxTime + BreakTime \in Nat OBVIOUS
  <2> QED BY <2>1, NoFileWritten
<1>2. /\ Book!Nothing \in [counts : BOOLEAN, secs : 0..MaxTime, total : 0..MaxPurchases,
                           flip : {"none", "bought"}]
      /\ ~Book!Nothing.counts
  BY DEF Book!Nothing
<1>3. /\ switchMarker \in BOOLEAN /\ afterBreak \in BOOLEAN /\ switched \in BOOLEAN
      /\ intake \in BOOLEAN
  OBVIOUS
<1>4. Book!TypeOK BY <1>1, <1>2, <1>3 DEF Book!TypeOK
<1>5. Accounts BY <1>1 DEF Accounts, Book!Running
<1>6. Kept BY <1>2 DEF Kept
<1> QED BY <1>4, <1>5, <1>6 DEF BookInv

LEMMA BookTick == ASSUME BookInv, Book!Tick PROVE BookInv'
<1> USE ServicesAssumption DEF BookInv, Book!Tick, Book!files, Book!start, Book!book, Book!tasks
<1>1. now' \in 0..MaxTime /\ prevSecs' \in 0..now' /\ since' \in 0..now' /\ now' = now + 1
  BY BookNumbers
<1>2. Book!TypeOK' BY <1>1 DEF Book!TypeOK
<1>3. Accounts' BY <1>1, BookNumbers DEF Accounts, Book!Running
<1>4. kept.counts => kept.secs \in Nat BY DEF Book!TypeOK
<1>5. Kept' BY <1>1, <1>4, BookNumbers DEF Kept, Book!Running, Book!Uptime
<1> QED BY <1>2, <1>3, <1>5

LEMMA BookStarts ==
  ASSUME BookInv, Book!Start \/ Book!Rested \/ Book!LoggedIn
  PROVE  BookInv'
<1> USE ServicesAssumption DEF BookInv, Book!files, Book!start, Book!book, Book!tasks
<1>1. CASE Book!Start
  <2>1. /\ UNCHANGED <<now, times, profits, flips, marker, since, total, bought>>
        /\ UNCHANGED <<saver, breaker, rotator, intake>>
        /\ phase = "down" /\ phase' = "resting" /\ switchMarker' = FALSE
        /\ switched' = switchMarker /\ afterBreak' = marker.there /\ entry' = flips
        /\ prevSecs' = IF Book!Carries(times, switchMarker, marker.there) THEN times.value ELSE 0
    BY <1>1 DEF Book!Start, Book!Resumed
  <2>2. (kept' = kept /\ ~switchMarker) \/ kept' = Book!Nothing
    BY <1>1 DEF Book!Start
  <2>3. /\ Book!Nothing \in [counts : BOOLEAN, secs : 0..MaxTime, total : 0..MaxPurchases,
                             flip : {"none", "bought"}]
        /\ ~Book!Nothing.counts
    BY DEF Book!Nothing
  <2>4. switched' \in BOOLEAN /\ afterBreak' \in BOOLEAN /\ switchMarker' \in BOOLEAN
    BY <2>1 DEF Book!TypeOK, Book!File
  <2>5. prevSecs' \in 0..now' BY <2>1, BookNumbers DEF Accounts
  <2>6. kept' \in [counts : BOOLEAN, secs : 0..MaxTime, total : 0..MaxPurchases,
                   flip : {"none", "bought"}]
    BY <2>2, <2>3 DEF Book!TypeOK
  <2>7. Book!TypeOK' BY <2>1, <2>4, <2>5, <2>6 DEF Book!TypeOK
  <2>8. Accounts' BY <2>1 DEF Accounts, Book!Running
  <2>9. Kept'
    <3> SUFFICES ASSUME kept'.counts PROVE Kept' BY DEF Kept
    <3>1. kept' = kept /\ ~switchMarker BY <2>2, <2>3
    <3>2. marker.there /\ times.value = kept.secs /\ flips = kept.flip /\ profits.value = kept.total
      BY <2>1, <3>1 DEF Kept
    <3>3. prevSecs' = times.value BY <2>1, <3>1, <3>2 DEF Book!Carries, Accounts
    <3> QED BY <2>1, <3>1, <3>2, <3>3 DEF Kept, Book!Running
  <2> QED BY <2>7, <2>8, <2>9
<1>2. CASE Book!Rested
  <2>1. /\ UNCHANGED <<now, times, profits, flips, switchMarker, afterBreak, switched,
                       prevSecs, since, total, entry, saver, breaker, rotator, intake, bought, kept>>
        /\ phase = "resting" /\ phase' = "login" /\ marker' = Book!NoFile
    BY <1>2 DEF Book!Rested
  <2>2. marker' \in Book!File(0..(MaxTime + BreakTime))
    <3>1. MaxTime + BreakTime \in Nat OBVIOUS
    <3> QED BY <2>1, <3>1, NoFileWritten
  <2>3. Book!TypeOK' BY <2>1, <2>2 DEF Book!TypeOK
  <2>4. Accounts' BY <2>1 DEF Accounts, Book!Running
  <2>5. Kept' BY <2>1 DEF Kept, Book!Running
  <2> QED BY <2>3, <2>4, <2>5
<1>3. CASE Book!LoggedIn
  <2>1. /\ UNCHANGED <<now, times, profits, flips, marker, switchMarker, afterBreak, switched,
                       prevSecs, entry, saver, breaker, rotator, intake, bought, kept>>
        /\ phase = "login" /\ phase' = "running" /\ since' = now
        /\ total' = IF Book!Carries(profits, switched, afterBreak) THEN profits.value ELSE 0
    BY <1>3 DEF Book!LoggedIn
  <2>2. total' \in 0..bought' /\ since' \in 0..now' BY <2>1, BookNumbers DEF Accounts
  <2>3. Book!TypeOK' BY <2>1, <2>2 DEF Book!TypeOK
  <2>4. Accounts' BY <2>1, BookNumbers DEF Accounts, Book!Running
  <2>5. Kept'
    <3> SUFFICES ASSUME kept.counts PROVE Kept' BY <2>1 DEF Kept
    <3>1. prevSecs = kept.secs /\ afterBreak /\ ~switched /\ profits.value = kept.total
      BY <2>1 DEF Kept
    <3>2. total' = profits.value BY <2>1, <3>1 DEF Book!Carries, Accounts
    <3>3. Book!Uptime' = prevSecs BY <2>1, BookNumbers DEF Book!Uptime
    <3>4. prevSecs \in Nat /\ profits.value \in Nat BY BookNumbers
    <3>5. Book!Uptime' >= kept.secs /\ total' >= kept.total BY <3>1, <3>2, <3>3, <3>4
    <3>6. phase # "away" /\ ~switchMarker BY <2>1 DEF Kept
    <3> QED BY <2>1, <3>5, <3>6 DEF Kept
  <2> QED BY <2>3, <2>4, <2>5
<1> QED BY <1>1, <1>2, <1>3

LEMMA BookFlips ==
  ASSUME BookInv, Book!Offer \/ Book!Purchase \/ Book!Sale
  PROVE  BookInv'
<1> USE ServicesAssumption DEF BookInv, Book!files, Book!start, Book!book, Book!tasks
<1>1. /\ UNCHANGED <<now, times, profits, flips, marker, switchMarker, phase, afterBreak, switched,
                     prevSecs, since, saver, breaker, rotator, intake, kept>>
      /\ phase = "running" /\ entry' \in {"none", "offered", "bought"}
      /\ \/ UNCHANGED <<total, bought>>
         \/ bought < MaxPurchases /\ total' = total + 1 /\ bought' = bought + 1
  BY DEF Book!Offer, Book!Purchase, Book!Sale, Book!Running
<1>2. /\ total' \in 0..bought' /\ bought' \in 0..MaxPurchases /\ total' >= total
      /\ bought' >= bought
  BY <1>1, BookNumbers
<1>3. Book!TypeOK' BY <1>1, <1>2 DEF Book!TypeOK
<1>4. Accounts' BY <1>1, <1>2, BookNumbers DEF Accounts, Book!Running
<1>5. kept.counts => kept.total \in Nat BY DEF Book!TypeOK
<1>6. Kept' BY <1>1, <1>2, <1>5, BookNumbers DEF Kept, Book!Running, Book!Uptime
<1> QED BY <1>3, <1>4, <1>6

LEMMA BookSaves ==
  ASSUME BookInv,
         Book!EveryMinute \/ Book!BreakBegins \/ Book!BreakSaves \/ Book!RotationBegins
  PROVE  BookInv'
<1> USE ServicesAssumption DEF BookInv, Book!files, Book!start, Book!book, Book!tasks
<1>1. /\ UNCHANGED <<now, marker, switchMarker, phase, afterBreak, switched, prevSecs, since,
                     total, entry, bought, kept>>
      /\ phase = "running"
  BY DEF Book!EveryMinute, Book!BreakBegins, Book!BreakSaves, Book!RotationBegins, Book!Running,
         Book!SaveTimes, Book!SaveProfit, Book!SaveFlips
<1>2. /\ saver' \in {"times", "profit", "flips"}
      /\ breaker' \in {"waits", "profit", "flips", "times", "marker"}
      /\ rotator' \in {"waits", "leaves"}
  BY DEF Book!EveryMinute, Book!BreakBegins, Book!BreakSaves, Book!RotationBegins, Book!TypeOK
<1>3. intake' \in BOOLEAN
  BY DEF Book!EveryMinute, Book!BreakBegins, Book!BreakSaves, Book!RotationBegins, Book!TypeOK
<1>4. Book!Uptime \in 0..MaxTime /\ Book!Uptime <= now
  BY <1>1, BookNumbers DEF Accounts, Book!Running, Book!Uptime
<1>5. /\ times' \in {times, Book!Written(Book!Uptime), Book!NoFile}
      /\ profits' \in {profits, Book!Written(total)}
      /\ flips' \in {flips, Book!Unsold}
  BY DEF Book!EveryMinute, Book!BreakBegins, Book!BreakSaves, Book!RotationBegins,
         Book!SaveTimes, Book!SaveProfit, Book!SaveFlips
<1>6. /\ times' \in Book!File(0..MaxTime) /\ times'.value <= now
      /\ ~times'.there => times'.value = 0
  <2>1. CASE times' = times BY <2>1 DEF Accounts, Book!TypeOK
  <2>2. CASE times' = Book!Written(Book!Uptime) BY <1>4, <2>2, FilesWritten, BookNumbers
  <2>3. CASE times' = Book!NoFile
    <3>1. MaxTime \in Nat /\ 0 <= now BY BookNumbers
    <3> QED BY <2>3, <3>1, NoFileWritten
  <2> QED BY <1>5, <2>1, <2>2, <2>3
<1>7. /\ profits' \in Book!File(0..MaxPurchases) /\ profits'.value <= bought
      /\ ~profits'.there => profits'.value = 0
  <2>1. total \in 0..MaxPurchases /\ total <= bought BY BookNumbers
  <2>2. CASE profits' = profits BY <2>2 DEF Accounts, Book!TypeOK
  <2>3. CASE profits' = Book!Written(total) BY <2>1, <2>3, FilesWritten, BookNumbers
  <2> QED BY <1>5, <2>2, <2>3
<1>8. flips' \in {"none", "bought"} BY <1>5 DEF Book!Unsold, Book!TypeOK
<1>9. Book!TypeOK' BY <1>1, <1>2, <1>3, <1>6, <1>7, <1>8 DEF Book!TypeOK
<1>10. Accounts' BY <1>1, <1>6, <1>7 DEF Accounts, Book!Running
<1>11. Kept' BY <1>1 DEF Kept, Book!Running, Book!Uptime
<1> QED BY <1>9, <1>10, <1>11

(* A process ends: what it leaves is in the files.                           *)
LEMMA ProcessEnds ==
  ASSUME BookInv, Book!Fresh, phase' \in {"down", "away"},
         UNCHANGED <<now, flips, switchMarker, bought>>,
         times' \in Book!File(0..MaxTime), profits' \in Book!File(0..MaxPurchases),
         marker' \in Book!File(0..(MaxTime + BreakTime)),
         kept' \in [counts : BOOLEAN, secs : 0..MaxTime, total : 0..MaxPurchases,
                    flip : {"none", "bought"}]
  PROVE  Book!TypeOK'
<1>1. /\ afterBreak' \in BOOLEAN /\ switched' \in BOOLEAN /\ intake' \in BOOLEAN
  BY DEF Book!Fresh
<1>2. prevSecs' \in 0..now' /\ since' \in 0..now' /\ total' \in 0..bought'
  BY BookNumbers DEF BookInv, Book!Fresh
<1> QED BY <1>1, <1>2 DEF BookInv, Book!TypeOK, Book!Fresh

LEMMA BookEnds ==
  ASSUME BookInv, Book!BreakLeaves \/ Book!CtrlC \/ Book!Crash \/ Book!SwitchAway
  PROVE  BookInv'
<1> USE ServicesAssumption DEF BookInv, Book!files
<1> DEFINE Keepable == [counts : BOOLEAN, secs : 0..MaxTime, total : 0..MaxPurchases,
                        flip : {"none", "bought"}]
<1>1. Book!Nothing \in Keepable /\ ~Book!Nothing.counts BY DEF Book!Nothing
<1>2. CASE Book!BreakLeaves
  <2>1. /\ UNCHANGED <<now, times, profits, flips, switchMarker, bought>>
        /\ phase = "running" /\ phase' = "down" /\ Book!Fresh
        /\ marker' = Book!Written(now + BreakTime)
        /\ kept' = [counts |-> TRUE, secs |-> times.value, total |-> profits.value, flip |-> flips]
    BY <1>2 DEF Book!BreakLeaves, Book!Running
  <2>2. marker' \in Book!File(0..(MaxTime + BreakTime)) /\ marker'.there
    <3>1. now + BreakTime \in 0..(MaxTime + BreakTime) BY BookNumbers
    <3> QED BY <2>1, <3>1, FilesWritten, BookNumbers
  <2>3. kept' \in Keepable BY <2>1, BookNumbers DEF Book!TypeOK
  <2>4. Book!TypeOK' BY <2>1, <2>2, <2>3, ProcessEnds DEF Book!TypeOK
  <2>5. ~switchMarker BY <2>1 DEF Accounts
  <2>6. Accounts' BY <2>1 DEF Accounts, Book!Running
  <2>7. Kept' BY <2>1, <2>2, <2>5 DEF Kept, Book!Running
  <2> QED BY <2>4, <2>6, <2>7
<1>3. CASE Book!CtrlC
  <2>1. /\ UNCHANGED <<now, flips, marker, switchMarker, bought>>
        /\ phase = "running" /\ phase' = "down" /\ Book!Fresh /\ kept' = Book!Nothing
        /\ times' = Book!Written(Book!Uptime) /\ profits' = Book!Written(total)
    BY <1>3 DEF Book!CtrlC, Book!Running
  <2>2. Book!Uptime \in 0..MaxTime /\ Book!Uptime <= now
    BY <2>1, BookNumbers DEF Accounts, Book!Running, Book!Uptime
  <2>3. total \in 0..MaxPurchases /\ total <= bought BY BookNumbers
  <2>4. /\ times' \in Book!File(0..MaxTime) /\ times'.there /\ times'.value = Book!Uptime
        /\ profits' \in Book!File(0..MaxPurchases) /\ profits'.there /\ profits'.value = total
    BY <2>1, <2>2, <2>3, FilesWritten, BookNumbers
  <2>5. Book!TypeOK' BY <1>1, <2>1, <2>4, ProcessEnds DEF Book!TypeOK
  <2>6. Accounts' BY <2>1, <2>2, <2>3, <2>4 DEF Accounts, Book!Running
  <2>7. Kept' BY <1>1, <2>1 DEF Kept
  <2> QED BY <2>5, <2>6, <2>7
<1>4. CASE Book!Crash \/ Book!SwitchAway
  <2>1. /\ UNCHANGED <<now, times, profits, flips, marker, switchMarker, bought>> /\ Book!Fresh
        /\ phase \in {"resting", "login", "running"} /\ phase' \in {"down", "away"}
        /\ \/ kept' = Book!Nothing
           \/ kept' = kept /\ phase = "resting" /\ phase' = "down"
    BY <1>4 DEF Book!Crash, Book!SwitchAway, Book!Running
  <2>2. kept' \in Keepable BY <1>1, <2>1 DEF Book!TypeOK
  <2>3. Book!TypeOK' BY <2>1, <2>2, ProcessEnds DEF Book!TypeOK
  <2>4. Accounts' BY <2>1 DEF Accounts, Book!Running
  <2>5. Kept' BY <1>1, <2>1 DEF Kept, Book!Running
  <2> QED BY <2>3, <2>4, <2>5
<1> QED BY <1>2, <1>3, <1>4

LEMMA BookSwitchBack == ASSUME BookInv, Book!SwitchBack PROVE BookInv'
<1> USE DEF BookInv, Book!SwitchBack, Book!book, Book!tasks
<1>1. phase' = "down" /\ phase = "away" /\ UNCHANGED kept OBVIOUS
<1>2. switchMarker' \in BOOLEAN OBVIOUS
<1>3. Book!TypeOK' BY <1>1, <1>2 DEF Book!TypeOK
<1>4. Accounts' BY <1>1 DEF Accounts, Book!Running
<1>5. Kept' BY <1>1 DEF Kept
<1> QED BY <1>3, <1>4, <1>5

LEMMA BookKeeps == BookInv /\ [Book!Next]_(Book!vars) => BookInv'
<1> SUFFICES ASSUME BookInv, [Book!Next]_(Book!vars) PROVE BookInv' OBVIOUS
<1>1. CASE UNCHANGED Book!vars
  <2>1. Book!TypeOK'
    BY <1>1 DEF Book!vars, Book!files, Book!start, Book!book, Book!tasks, BookInv, Book!TypeOK
  <2>2. Accounts' /\ Kept'
    BY <1>1 DEF Book!vars, Book!files, Book!start, Book!book, Book!tasks, BookInv, Accounts, Kept,
                Book!Running, Book!Uptime
  <2> QED BY <2>1, <2>2 DEF BookInv
<1> QED BY <1>1, BookTick, BookStarts, BookFlips, BookSaves, BookEnds, BookSwitchBack
        DEF Book!Next

LEMMA BookShows == BookInv => Book!BreakKeepsSession
BY DEF BookInv, Kept, Book!BreakKeepsSession

-----------------------------------------------------------------------------
(* Relist. *)

\* An instruction is remembered, or it was given before a forced upload; and
\* only an upload that has been asked for counts as forced.
Remembered ==
    \A n \in Name :
        /\ told[n] <= forcedSince[n] + (IF n \in recent THEN 1 ELSE 0)
        /\ forcedSince[n] + (IF wanted THEN 1 ELSE 0) <= forces

RelistInv == List!TypeOK /\ Remembered

LEMMA RelistBegins == List!Init => RelistInv
<1> SUFFICES ASSUME List!Init PROVE RelistInv OBVIOUS
<1> USE ServicesAssumption DEF List!Init
<1>1. List!Zero \in [Name -> 0..MaxQueued] /\ List!Zero \in [Name -> 0..(1 + MaxForces)]
      /\ List!Zero \in [Name -> 0..MaxForces]
  BY DEF List!Zero
<1>2. /\ worth \in [Name -> List!Entries] /\ inquiries \in 0..MaxAnswers
      /\ answers \in Seq(SUBSET Name) /\ Len(answers) <= MaxAnswers /\ forces \in 0..MaxForces
      /\ held \subseteq Name /\ owed \subseteq Name /\ recent \subseteq Name
  BY DEF List!Entries
<1>3. noSlot \in BOOLEAN /\ deferring \in BOOLEAN /\ up \in BOOLEAN /\ wanted \in BOOLEAN
  OBVIOUS
<1>4. List!TypeOK BY <1>1, <1>2, <1>3 DEF List!TypeOK
<1>5. Remembered BY DEF Remembered, List!Zero
<1> QED BY <1>4, <1>5 DEF RelistInv

(* What the type says of the numbers and of the sets of names.               *)
LEMMA RelistNumbers ==
  ASSUME List!TypeOK
  PROVE  /\ MaxQueued \in Nat /\ MaxAnswers \in Nat /\ MaxForces \in Nat
         /\ deferred \in [Name -> 0..MaxQueued] /\ sales \in [Name -> 0..MaxQueued]
         /\ inquiries \in 0..MaxAnswers /\ forces \in 0..MaxForces
         /\ told \in [Name -> 0..(1 + MaxForces)] /\ forcedSince \in [Name -> 0..MaxForces]
         /\ held \subseteq Name /\ owed \subseteq Name /\ recent \subseteq Name
BY ServicesAssumption DEF List!TypeOK

(* Commands are put in the queue while there is room.                        *)
LEMMA QueueType ==
  ASSUME List!TypeOK, NEW ns \in SUBSET Name, List!Queue(ns)
  PROVE  sales' \in [Name -> 0..MaxQueued]
<1>1. \A n \in Name : sales[n] \in 0..MaxQueued /\ (n \in ns => sales[n] + 1 \in 0..MaxQueued)
  BY RelistNumbers DEF List!Queue
<1> QED BY <1>1 DEF List!Queue

(* The actions of the bot and of COFL leave the auto-lister alone.           *)
LEMMA RelistOthers ==
  ASSUME RelistInv,
         \/ \E n \in Name, e \in List!Entries \ {"none"} : List!Bought(n, e)
         \/ \E n \in Name : List!Listed(n) \/ List!CreateAuction(n) \/ List!DeferralEnds(n)
         \/ List!FlagsChange \/ List!Ask \/ List!Sold
         \/ \E ns \in SUBSET Name : List!ListInstructions(ns)
  PROVE  RelistInv'
<1> USE ServicesAssumption
    DEF RelistInv, List!cofl, List!lister, List!force, List!count, List!stock
<1>1. UNCHANGED <<up, answers, recent, wanted, forces, told, forcedSince>>
  BY DEF List!Bought, List!Listed, List!CreateAuction, List!DeferralEnds, List!FlagsChange,
         List!Ask, List!Sold, List!ListInstructions
<1>2. Remembered' BY <1>1 DEF Remembered
<1>3. ASSUME NEW n \in Name, NEW e \in List!Entries, List!Bought(n, e) PROVE List!TypeOK'
  BY <1>1, <1>3 DEF List!Bought, List!TypeOK
<1>4. ASSUME NEW n \in Name, List!Listed(n) PROVE List!TypeOK'
  <2>1. sales' \in [Name -> 0..MaxQueued] BY <1>4, RelistNumbers DEF List!Listed
  <2> QED BY <1>1, <1>4, <2>1 DEF List!Listed, List!TypeOK
<1>5. ASSUME NEW n \in Name, List!CreateAuction(n) \/ List!DeferralEnds(n) PROVE List!TypeOK'
  <2>1. sales' \in [Name -> 0..MaxQueued]
    BY <1>5, QueueType DEF List!CreateAuction, List!DeferralEnds, List!TypeOK
  <2>2. deferred' \in [Name -> 0..MaxQueued]
    <3>1. CASE deferred[n] < MaxQueued /\ deferred' = [deferred EXCEPT ![n] = @ + 1]
      BY <3>1, RelistNumbers
    <3>2. CASE deferred[n] > 0 /\ deferred' = [deferred EXCEPT ![n] = @ - 1]
      BY <3>2, RelistNumbers
    <3>3. CASE UNCHANGED deferred BY <3>3, RelistNumbers
    <3> QED BY <1>5, <3>1, <3>2, <3>3 DEF List!CreateAuction, List!DeferralEnds
  <2> QED BY <1>1, <1>5, <2>1, <2>2 DEF List!CreateAuction, List!DeferralEnds, List!TypeOK
<1>6. CASE List!FlagsChange
  <2>1. noSlot' \in BOOLEAN /\ deferring' \in BOOLEAN
    BY <1>6 DEF List!FlagsChange, List!TypeOK
  <2> QED BY <1>1, <1>2, <1>6, <2>1 DEF List!FlagsChange, List!TypeOK
<1>7. CASE List!Ask \/ List!Sold
  <2>1. inquiries' \in 0..MaxAnswers /\ owed' \subseteq Name
    BY <1>7, RelistNumbers DEF List!Ask, List!Sold
  <2> QED BY <1>1, <1>2, <1>7, <2>1 DEF List!Ask, List!Sold, List!TypeOK
<1>8. ASSUME NEW ns \in SUBSET Name, List!ListInstructions(ns) PROVE List!TypeOK'
  <2>1. sales' \in [Name -> 0..MaxQueued]
    <3>1. {n \in ns : ~List!Barred(n)} \in SUBSET Name OBVIOUS
    <3> QED BY <1>8, <3>1, QueueType DEF List!ListInstructions
  <2>2. inquiries' \in 0..MaxAnswers BY <1>8, RelistNumbers DEF List!ListInstructions
  <2> QED BY <1>1, <1>8, <2>1, <2>2 DEF List!ListInstructions, List!TypeOK
<1> QED BY <1>2, <1>3, <1>4, <1>5, <1>6, <1>7, <1>8

(* The answers under way are names, and no more than there may be.           *)
LEMMA AnswersType ==
  ASSUME List!TypeOK
  PROVE  /\ Len(answers) < MaxAnswers =>
               /\ Append(answers, held) \in Seq(SUBSET Name)
               /\ Len(Append(answers, held)) <= MaxAnswers
         /\ answers # <<>> => /\ Head(answers) \subseteq Name /\ Tail(answers) \in Seq(SUBSET Name)
                              /\ Len(Tail(answers)) <= MaxAnswers
<1>1. answers \in Seq(SUBSET Name) /\ held \in SUBSET Name /\ Len(answers) <= MaxAnswers
      /\ MaxAnswers \in Nat
  BY ServicesAssumption DEF List!TypeOK
<1> QED BY <1>1

LEMMA RelistUploads ==
  ASSUME RelistInv,
         \/ List!Connects \/ List!Disconnects \/ List!Upload \/ List!SellInventory
         \/ List!ForcedUpload
  PROVE  RelistInv'
<1> USE ServicesAssumption
    DEF RelistInv, List!cofl, List!lister, List!force, List!count, List!stock
<1>1. UNCHANGED <<held, worth, noSlot, deferring, deferred, sales, owed, told>>
  BY DEF List!Connects, List!Disconnects, List!Upload, List!SellInventory, List!ForcedUpload
<1>2. answers' \in Seq(SUBSET Name) /\ Len(answers') <= MaxAnswers
  <2>1. <<>> \in Seq(SUBSET Name) /\ Len(<<>>) <= MaxAnswers OBVIOUS
  <2>2. answers \in Seq(SUBSET Name) /\ Len(answers) <= MaxAnswers BY DEF List!TypeOK
  <2>3. \/ answers' = answers \/ answers' = <<>>
        \/ Len(answers) < MaxAnswers /\ answers' = Append(answers, held)
    BY DEF List!Connects, List!Disconnects, List!Upload, List!SellInventory, List!ForcedUpload
  <2> QED BY <2>1, <2>2, <2>3, AnswersType
<1>3. up' \in BOOLEAN /\ wanted' \in BOOLEAN
  BY DEF List!Connects, List!Connect, List!Disconnects, List!Upload, List!SellInventory,
         List!ForcedUpload, List!TypeOK
<1>4. CASE List!Connects \/ List!Disconnects \/ List!Upload
  <2>1. UNCHANGED <<inquiries, recent, wanted, forces, forcedSince>>
    BY <1>4 DEF List!Connects, List!Connect, List!Disconnects, List!Upload
  <2>2. List!TypeOK' BY <1>1, <1>2, <1>3, <2>1 DEF List!TypeOK
  <2>3. Remembered' BY <1>1, <2>1 DEF Remembered
  <2> QED BY <2>2, <2>3
<1>5. CASE List!SellInventory
  <2>1. /\ UNCHANGED <<recent, forcedSince>> /\ ~wanted /\ wanted'
        /\ forces' = forces + 1 /\ forces' \in 0..MaxForces /\ inquiries' \in 0..MaxAnswers
    BY <1>5, RelistNumbers DEF List!SellInventory
  <2>2. List!TypeOK' BY <1>1, <1>2, <1>3, <2>1 DEF List!TypeOK
  <2>3. \A n \in Name : forcedSince[n] \in Nat /\ forces \in Nat BY RelistNumbers
  <2>4. Remembered' BY <1>1, <2>1, <2>3 DEF Remembered
  <2> QED BY <2>2, <2>4
<1>6. CASE List!ForcedUpload
  <2>1. /\ UNCHANGED <<inquiries, forces>> /\ wanted /\ ~wanted' /\ recent' = {}
        /\ forcedSince' = [n \in Name |-> forcedSince[n] + 1]
    BY <1>6 DEF List!ForcedUpload
  <2>2. \A n \in Name : forcedSince[n] \in Nat /\ told[n] \in Nat /\ forces \in 0..MaxForces
    BY RelistNumbers
  <2>3. forcedSince' \in [Name -> 0..MaxForces] BY <2>1, <2>2 DEF Remembered
  <2>4. List!TypeOK' BY <1>1, <1>2, <1>3, <2>1, <2>3 DEF List!TypeOK
  <2>5. Remembered' BY <1>1, <2>1, <2>2 DEF Remembered
  <2> QED BY <2>4, <2>5
<1> QED BY <1>4, <1>5, <1>6

LEMMA RelistInstructs ==
  ASSUME RelistInv, NEW ns \in SUBSET Name, List!Instructions(ns)
  PROVE  RelistInv'
<1> USE ServicesAssumption
    DEF RelistInv, List!cofl, List!lister, List!force, List!count, List!stock
<1> DEFINE new == {n \in ns : ~List!Barred(n)} \ recent
<1>1. /\ answers # <<>> /\ answers' = Tail(answers) /\ List!Queue(new)
      /\ recent' = recent \cup new
      /\ told' = [n \in Name |-> IF n \in new THEN told[n] + 1 ELSE told[n]]
      /\ UNCHANGED <<held, worth, noSlot, deferring, deferred, owed, inquiries, up, wanted, forces,
                     forcedSince>>
  BY DEF List!Instructions
<1>2. answers' \in Seq(SUBSET Name) /\ Len(answers') <= MaxAnswers BY <1>1, AnswersType
<1>3. new \in SUBSET Name /\ recent' \subseteq Name BY <1>1 DEF List!TypeOK
<1>4. sales' \in [Name -> 0..MaxQueued] BY <1>1, <1>3, QueueType
<1>5. \A n \in Name : forcedSince[n] \in 0..MaxForces /\ told[n] \in Nat
  BY RelistNumbers
<1>6. \A n \in Name : n \in new => told[n] <= forcedSince[n] /\ n \in recent'
  <2> SUFFICES ASSUME NEW n \in Name, n \in new PROVE told[n] <= forcedSince[n] /\ n \in recent'
    OBVIOUS
  <2>1. n \notin recent /\ n \in recent' BY <1>1
  <2>2. told[n] <= forcedSince[n] + 0 BY <2>1 DEF Remembered
  <2> QED BY <1>5, <2>1, <2>2
<1>7. told' \in [Name -> 0..(1 + MaxForces)]
  <2>1. \A n \in Name : told[n] \in 0..(1 + MaxForces) BY RelistNumbers
  <2>2. \A n \in Name : n \in new => told[n] + 1 \in 0..(1 + MaxForces) BY <1>5, <1>6
  <2> QED BY <1>1, <2>1, <2>2
<1>8. List!TypeOK' BY <1>1, <1>2, <1>3, <1>4, <1>7 DEF List!TypeOK
<1>9. Remembered'
  <2> SUFFICES ASSUME NEW n \in Name
               PROVE  told'[n] <= forcedSince[n] + (IF n \in recent' THEN 1 ELSE 0)
    BY <1>1 DEF Remembered
  <2>1. CASE n \in new
    <3>1. told'[n] = told[n] + 1 /\ n \in recent' /\ told[n] <= forcedSince[n]
      BY <1>1, <1>6, <2>1
    <3>2. told'[n] <= forcedSince[n] + 1 BY <1>5, <3>1
    <3> QED BY <3>1, <3>2
  <2>2. CASE n \notin new
    <3>1. told'[n] = told[n] /\ (n \in recent' <=> n \in recent) BY <1>1, <2>2
    <3> QED BY <3>1 DEF Remembered
  <2> QED BY <2>1, <2>2
<1> QED BY <1>8, <1>9

LEMMA RelistExpires ==
  ASSUME RelistInv, NEW n \in Name, List!Expires(n)
  PROVE  RelistInv'
<1> USE ServicesAssumption
    DEF RelistInv, List!cofl, List!lister, List!force, List!count, List!stock
<1>1. /\ recent' = recent \ {n} /\ told' = [told EXCEPT ![n] = 0]
      /\ forcedSince' = [forcedSince EXCEPT ![n] = 0]
      /\ UNCHANGED <<held, worth, noSlot, deferring, deferred, owed, inquiries, sales, up, answers,
                     wanted, forces>>
  BY DEF List!Expires
<1>2. /\ told' \in [Name -> 0..(1 + MaxForces)] /\ forcedSince' \in [Name -> 0..MaxForces]
      /\ recent' \subseteq Name
  BY <1>1, RelistNumbers
<1>3. List!TypeOK' BY <1>1, <1>2 DEF List!TypeOK
<1>4. Remembered'
  <2> SUFFICES ASSUME NEW m \in Name
               PROVE  /\ told'[m] <= forcedSince'[m] + (IF m \in recent' THEN 1 ELSE 0)
                      /\ forcedSince'[m] + (IF wanted THEN 1 ELSE 0) <= forces
    BY <1>1 DEF Remembered
  <2>1. forcedSince[n] \in Nat /\ forces \in Nat BY RelistNumbers
  <2>2. CASE m = n
    <3>1. told'[m] = 0 /\ forcedSince'[m] = 0 BY <1>1, <2>2, RelistNumbers
    <3> QED BY <2>1, <2>2, <3>1 DEF Remembered
  <2>3. CASE m # n
    <3>1. told'[m] = told[m] /\ forcedSince'[m] = forcedSince[m] /\ (m \in recent' <=> m \in recent)
      BY <1>1, <2>3, RelistNumbers
    <3> QED BY <3>1 DEF Remembered
  <2> QED BY <2>2, <2>3
<1> QED BY <1>3, <1>4

LEMMA RelistKeeps == RelistInv /\ [List!Next]_(List!vars) => RelistInv'
<1> SUFFICES ASSUME RelistInv, [List!Next]_(List!vars) PROVE RelistInv' OBVIOUS
<1>1. CASE UNCHANGED List!vars
  <2>1. List!TypeOK'
    BY <1>1 DEF List!vars, List!stock, List!cofl, List!lister, List!force, List!count, RelistInv,
                List!TypeOK
  <2>2. Remembered'
    BY <1>1 DEF List!vars, List!stock, List!cofl, List!lister, List!force, List!count, RelistInv,
                Remembered
  <2> QED BY <2>1, <2>2 DEF RelistInv
<1> QED BY <1>1, RelistOthers, RelistUploads, RelistInstructs, RelistExpires DEF List!Next

LEMMA RelistShows == RelistInv => List!InstructsOnce
<1> SUFFICES ASSUME RelistInv, NEW n \in Name PROVE told[n] <= 1 + forcedSince[n]
  BY DEF List!InstructsOnce
<1>1. told[n] \in Nat /\ forcedSince[n] \in Nat BY RelistNumbers DEF RelistInv
<1>2. told[n] <= forcedSince[n] + (IF n \in recent THEN 1 ELSE 0) BY DEF RelistInv, Remembered
<1> QED BY <1>1, <1>2

-----------------------------------------------------------------------------
(* Panel. *)

Passwords == Password \cup {Page!Generated}
Starting  == {"stored", "loading"}
Holding   == {"loaded", "rewriting", "held", "saving", "writing"}

\* What a request may have its task do, and what the task holds as it goes.
Jobs ==
    [kind : {"toggle"}, field : Switch, value : BOOLEAN]
    \cup [kind : {"get"}]
    \cup [kind : {"toml"}, config : Page!Config]
    \cup [kind : {"json"}, field : Switch, value : BOOLEAN]
    \cup [kind : {"json"}, field : {"password"}, value : Password \cup {Page!Blank}]
    \cup [kind : {"link"}, field : {"owner"}, value : {TRUE}]
Tasks ==
    [step : {"idle", "done"}] \cup [step : Starting, job : Jobs]
    \cup [step : Holding, job : Jobs, config : Page!Config]

PanelTyped ==
    /\ toml \in Page!Config \cup {Page!Empty, Page!Garbled}
    /\ onNow \in Page!Choices
    /\ secret \in Passwords /\ token \in Passwords \cup {Page!Blank}
    /\ task \in [Page!Request -> Tasks]
    /\ outbox \in {"nowhere", "file", "socket", "queue"} /\ starts \in 0..MaxRestarts
    /\ asked = [f \in Page!Field |-> asked[f]]
    /\ \A f \in Page!Field : asked[f] \subseteq Page!Value(f)
    /\ torn \in BOOLEAN /\ adrift \in BOOLEAN

\* Somebody has asked for what the job changes.
Wanted(job) ==
    /\ job.kind \in {"toggle", "link"} => job.value \in asked[job.field]
    /\ job.kind = "json" => \/ job.value \in asked[job.field]
                            \/ job.field = "password" /\ job.value = Page!Blank
    /\ job.kind = "toml" => \A f \in Page!Field : Page!Of(job.config, f) \in asked[f]

\* A configuration with its sessions, every setting of which was asked for.
Good(c) ==
    /\ c \in Page!Config /\ c.sessions = "signedIn"
    /\ \A f \in Page!Field : Page!Of(c, f) \in asked[f]

\* As long as no save was met half-way, what is in the file and in the hands of
\* the tasks is good, and a truncated file is about to be filled.
PanelGood ==
    /\ \A r \in Page!Request : Page!Running(r) => Wanted(task[r].job)
    /\ ~torn =>
          /\ secret \in asked["password"]
          /\ \A r \in Page!Request : task[r].step \in Holding => Good(task[r].config)
          /\ IF toml = Page!Empty THEN \E r \in Page!Request : Page!Writing(r) ELSE Good(toml)

\* The switches as the task will leave them.
After(job, on) == IF job.kind = "toggle" THEN [on EXCEPT ![job.field] = job.value] ELSE on

\* The switches in memory are those the task is on its way to write.
Follows(t, read, on) ==
    /\ t.step \in Starting => on = After(t.job, read.on)
    /\ t.step \in {"loaded", "held"} => read = t.config
    /\ t.step \in {"loaded", "rewriting", "held"} => on = After(t.job, t.config.on)
    /\ t.step \in {"saving", "writing"} => on = t.config.on

\* While the tasks run one after the other, the one that runs brings the file
\* and the memory together.
PanelFollows ==
    ~torn /\ ~adrift =>
        /\ \A r, o \in Page!Request : Page!Running(r) /\ Page!Running(o) => r = o
        /\ \A r \in Page!Request : Follows(task[r], toml, onNow)
        /\ (\A r \in Page!Request : ~Page!Running(r)) => toml.on = onNow

PanelInv == PanelTyped /\ PanelGood /\ PanelFollows

(* A file that is whole is none of the others.                               *)
LEMMA FileKinds ==
  /\ \A c \in Page!Config : c # Page!Empty /\ c # Page!Garbled
  /\ Page!Empty # Page!Garbled
<1>1. \A c \in Page!Config : "owner" \in DOMAIN c BY DEF Page!Config
<1>2. "owner" \notin DOMAIN Page!Empty /\ "owner" \notin DOMAIN Page!Garbled
  BY DEF Page!Empty, Page!Garbled
<1>3. Page!Empty.is # Page!Garbled.is BY DEF Page!Empty, Page!Garbled
<1> QED BY <1>1, <1>2, <1>3

(* A configuration with one setting changed.                                 *)
LEMMA SetField ==
  ASSUME NEW c \in Page!Config, NEW f \in Page!Field, NEW v \in Page!Value(f)
  PROVE  /\ Page!Set(c, f, v) \in Page!Config
         /\ Page!Set(c, f, v).sessions = c.sessions
         /\ f \in Switch => Page!Set(c, f, v).on = [c.on EXCEPT ![f] = v]
         /\ f \notin Switch => Page!Set(c, f, v).on = c.on
<1>0. "owner" \notin Switch /\ "password" \notin Switch BY ServicesAssumption
<1>c. /\ c = [on |-> c.on, owner |-> c.owner, password |-> c.password, sessions |-> c.sessions]
      /\ c.on \in [Switch -> BOOLEAN] /\ c.owner \in BOOLEAN
      /\ c.password \in Password \cup {Page!Generated} /\ c.sessions \in Page!Sessions
  BY DEF Page!Config, Page!Choices
<1>1. CASE f \in Switch
  <2>1. v \in BOOLEAN BY <1>0, <1>1 DEF Page!Value
  <2>2. Page!Set(c, f, v) = [on |-> [c.on EXCEPT ![f] = v], owner |-> c.owner,
                             password |-> c.password, sessions |-> c.sessions]
    BY <1>c, <1>1 DEF Page!Set
  <2>3. [c.on EXCEPT ![f] = v] \in [Switch -> BOOLEAN] BY <1>c, <2>1
  <2>4. Page!Set(c, f, v) \in Page!Config BY <1>c, <2>2, <2>3 DEF Page!Config, Page!Choices
  <2> QED BY <1>1, <2>2, <2>4
<1>2. CASE f = "owner"
  <2>1. v \in BOOLEAN BY <1>2 DEF Page!Value
  <2>2. Page!Set(c, f, v) = [on |-> c.on, owner |-> v, password |-> c.password,
                             sessions |-> c.sessions]
    BY <1>0, <1>c, <1>2 DEF Page!Set
  <2>4. Page!Set(c, f, v) \in Page!Config BY <1>c, <2>1, <2>2 DEF Page!Config, Page!Choices
  <2> QED BY <1>0, <1>2, <2>2, <2>4
<1>3. CASE f = "password"
  <2>1. v \in Password \cup {Page!Generated} BY <1>3 DEF Page!Value
  <2>2. Page!Set(c, f, v) = [on |-> c.on, owner |-> c.owner, password |-> v,
                             sessions |-> c.sessions]
    BY <1>0, <1>c, <1>3 DEF Page!Set
  <2>4. Page!Set(c, f, v) \in Page!Config BY <1>c, <2>1, <2>2 DEF Page!Config, Page!Choices
  <2> QED BY <1>0, <1>3, <2>2, <2>4
<1> QED BY <1>1, <1>2, <1>3 DEF Page!Field

(* The changed setting is the new one, and the others are the old ones.      *)
LEMMA SetReads ==
  ASSUME NEW c \in Page!Config, NEW f \in Page!Field, NEW v \in Page!Value(f),
         NEW g \in Page!Field
  PROVE  Page!Of(Page!Set(c, f, v), g) = IF g = f THEN v ELSE Page!Of(c, g)
<1>0. "owner" \notin Switch /\ "password" \notin Switch BY ServicesAssumption
<1>1. /\ c = [on |-> c.on, owner |-> c.owner, password |-> c.password, sessions |-> c.sessions]
      /\ c.on \in [Switch -> BOOLEAN]
  BY DEF Page!Config, Page!Choices
<1>2. CASE f \in Switch
  <2>1. Page!Set(c, f, v) = [on |-> [c.on EXCEPT ![f] = v], owner |-> c.owner,
                             password |-> c.password, sessions |-> c.sessions]
    BY <1>1, <1>2 DEF Page!Set
  <2> QED BY <1>0, <1>1, <1>2, <2>1 DEF Page!Of, Page!Field
<1>3. CASE f = "owner"
  <2>1. Page!Set(c, f, v) = [on |-> c.on, owner |-> v, password |-> c.password,
                             sessions |-> c.sessions]
    BY <1>0, <1>1, <1>3 DEF Page!Set
  <2> QED BY <1>0, <1>1, <1>3, <2>1 DEF Page!Of, Page!Field
<1>4. CASE f = "password"
  <2>1. Page!Set(c, f, v) = [on |-> c.on, owner |-> c.owner, password |-> v,
                             sessions |-> c.sessions]
    BY <1>0, <1>1, <1>4 DEF Page!Set
  <2> QED BY <1>0, <1>1, <1>4, <2>1 DEF Page!Of, Page!Field
<1> QED BY <1>2, <1>3, <1>4 DEF Page!Field

LEMMA DefaultsType == Page!Defaults \in Page!Config
BY DEF Page!Defaults, Page!Config, Page!Choices, Page!Sessions

(* What the record of a task looks like at each of its steps.                *)
LEMMA TaskForms ==
  ASSUME PanelTyped, NEW r \in Page!Request
  PROVE  /\ task[r].step \in {"idle", "done"} \cup Starting \cup Holding
         /\ Page!Running(r) <=> task[r].step \in Starting \cup Holding
         /\ Page!Running(r) => task[r].job \in Jobs
         /\ task[r].step \in Starting =>
               [task[r] EXCEPT !.step = "loading"] = [step |-> "loading", job |-> task[r].job]
         /\ task[r].step \in Holding =>
               /\ task[r].config \in Page!Config
               /\ \A s \in Holding : [task[r] EXCEPT !.step = s]
                                     = [step |-> s, job |-> task[r].job, config |-> task[r].config]
<1>1. task[r] \in Tasks BY DEF PanelTyped
<1>2. CASE task[r] \in [step : {"idle", "done"}] BY <1>2 DEF Page!Running, Holding, Starting
<1>3. CASE task[r] \in [step : Starting, job : Jobs] BY <1>3 DEF Page!Running, Holding, Starting
<1>4. CASE task[r] \in [step : Holding, job : Jobs, config : Page!Config]
  <2>1. task[r] = [step |-> task[r].step, job |-> task[r].job, config |-> task[r].config]
    BY <1>4
  <2>2. task[r].step \in Holding /\ task[r].job \in Jobs /\ task[r].config \in Page!Config
    BY <1>4
  <2>3. \A s \in Holding : [task[r] EXCEPT !.step = s]
                           = [step |-> s, job |-> task[r].job, config |-> task[r].config]
    BY <2>1
  <2>4. Page!Running(r) BY <2>2 DEF Page!Running, Holding
  <2>5. task[r].step \notin Starting BY <2>2 DEF Holding, Starting
  <2> QED BY <2>2, <2>3, <2>4, <2>5
<1> QED BY <1>1, <1>2, <1>3, <1>4 DEF Tasks

(* A task moves.                                                             *)
LEMMA TaskMoves ==
  ASSUME PanelTyped, NEW r \in Page!Request, NEW t \in Tasks, task' = [task EXCEPT ![r] = t]
  PROVE  /\ task' \in [Page!Request -> Tasks] /\ task'[r] = t
         /\ \A o \in Page!Request \ {r} : task'[o] = task[o]
BY DEF PanelTyped

(* One task goes a step further, or ends.                                    *)
LEMMA PanelMoves ==
  ASSUME PanelInv, NEW r \in Page!Request, NEW t \in Tasks, Page!Running(r),
         task' = [task EXCEPT ![r] = t],
         t.step \in {"done", "loading"} \cup Holding, t.step # "done" => t.job = task[r].job,
         toml' \in Page!Config \cup {Page!Empty, Page!Garbled}, onNow' \in Page!Choices,
         secret' \in Passwords, torn' \in BOOLEAN,
         UNCHANGED <<token, outbox, starts, asked, adrift>>,
         ~torn' =>
            /\ ~torn /\ secret' \in asked["password"]
            /\ t.step \in Holding => Good(t.config)
            /\ IF toml' = Page!Empty
               THEN \/ t.step \in {"rewriting", "writing"}
                    \/ toml = Page!Empty /\ task[r].step \notin {"rewriting", "writing"}
               ELSE Good(toml'),
         ~torn' /\ ~adrift =>
            IF t.step = "done" THEN toml'.on = onNow' ELSE Follows(t, toml', onNow')
  PROVE  PanelInv'
<1>0. PanelTyped BY DEF PanelInv
<1>1. /\ task' \in [Page!Request -> Tasks] /\ task'[r] = t
      /\ \A o \in Page!Request \ {r} : task'[o] = task[o]
  BY <1>0, TaskMoves
<1>2. \A o \in Page!Request : Page!Running(o)' <=> IF o = r THEN t.step # "done" ELSE Page!Running(o)
  BY <1>1 DEF Page!Running, Holding
<1>3. \A o \in Page!Request : Page!Writing(o)'
                              <=> IF o = r THEN t.step \in {"rewriting", "writing"} ELSE Page!Writing(o)
  BY <1>1 DEF Page!Writing
<1>4. PanelTyped'
  <2>1. adrift' \in BOOLEAN BY <1>0 DEF PanelTyped
  <2> QED BY <1>0, <1>1, <2>1 DEF PanelTyped
<1>5. PanelGood'
  <2>1. \A o \in Page!Request : Page!Running(o)' => Wanted(task[o].job)' /\ task'[o].job = task[o].job
    <3> SUFFICES ASSUME NEW o \in Page!Request, Page!Running(o)'
                 PROVE  Wanted(task[o].job)' /\ task'[o].job = task[o].job
      OBVIOUS
    <3>1. Page!Running(o) BY <1>2
    <3>2. task'[o].job = task[o].job BY <1>1, <1>2
    <3>3. Wanted(task[o].job) BY <3>1 DEF PanelInv, PanelGood
    <3> QED BY <3>2, <3>3 DEF Wanted
  <2>2. CASE ~torn'
    <3>1. secret' \in asked'["password"] BY <2>2
    <3>2. \A o \in Page!Request : task'[o].step \in Holding => Good(task[o].config)'
      <4> SUFFICES ASSUME NEW o \in Page!Request, task'[o].step \in Holding
                   PROVE  Good(task[o].config)'
        OBVIOUS
      <4>1. Good(task'[o].config) BY <1>1, <2>2 DEF PanelInv, PanelGood
      <4> QED BY <4>1 DEF Good
    <3>3. CASE toml' = Page!Empty
      <4>1. CASE t.step \in {"rewriting", "writing"} BY <1>3, <2>1, <2>2, <3>1, <3>2, <3>3, <4>1 DEF PanelGood
      <4>2. CASE toml = Page!Empty /\ task[r].step \notin {"rewriting", "writing"}
        <5>1. PICK o \in Page!Request : Page!Writing(o) BY <2>2, <4>2 DEF PanelInv, PanelGood
        <5>2. Page!Writing(o)' BY <1>3, <4>2, <5>1 DEF Page!Writing
        <5> QED BY <2>1, <2>2, <3>1, <3>2, <3>3, <5>2 DEF PanelGood
      <4> QED BY <2>2, <3>3, <4>1, <4>2
    <3>4. CASE toml' # Page!Empty
      <4>1. Good(toml)' BY <2>2, <3>4 DEF Good
      <4> QED BY <2>1, <2>2, <3>1, <3>2, <3>4, <4>1 DEF PanelGood
    <3> QED BY <3>3, <3>4
  <2>3. CASE torn' BY <2>1, <2>3 DEF PanelGood
  <2> QED BY <2>2, <2>3
<1>6. PanelFollows'
  <2> SUFFICES ASSUME ~torn', ~adrift'
               PROVE  /\ \A o, q \in Page!Request : Page!Running(o)' /\ Page!Running(q)' => o = q
                      /\ \A o \in Page!Request : Follows(task'[o], toml', onNow')
                      /\ (\A o \in Page!Request : ~Page!Running(o)') => toml'.on = onNow'
    BY DEF PanelFollows
  <2>1. ~torn /\ ~adrift OBVIOUS
  <2>2. \A o \in Page!Request : Page!Running(o) => o = r BY <2>1 DEF PanelInv, PanelFollows
  <2>3. \A o \in Page!Request : Page!Running(o)' => o = r BY <1>2, <2>2
  <2>4. \A o \in Page!Request : Follows(task'[o], toml', onNow')
    <3> SUFFICES ASSUME NEW o \in Page!Request PROVE Follows(task'[o], toml', onNow') OBVIOUS
    <3>1. CASE o = r
      <4>1. CASE t.step = "done" BY <1>1, <3>1, <4>1 DEF Follows, Starting
      <4> QED BY <1>1, <2>1, <3>1, <4>1
    <3>2. CASE o # r
      <4>1. task'[o].step \in {"idle", "done"} BY <1>1, <2>2, <3>2 DEF Page!Running
      <4> QED BY <4>1 DEF Follows, Starting
    <3> QED BY <3>1, <3>2
  <2>5. (\A o \in Page!Request : ~Page!Running(o)') => toml'.on = onNow' BY <1>2, <2>1
  <2> QED BY <2>3, <2>4, <2>5
<1> QED BY <1>4, <1>5, <1>6 DEF PanelInv

(* A request begins a task.                                                  *)
LEMMA PanelSpawns ==
  ASSUME PanelInv, NEW r \in Page!Request, NEW job \in Jobs, NEW begun \in Starting,
         Page!Begin(r, begun, job),
         onNow' \in Page!Choices, onNow' = After(job, onNow),
         NEW more \in [Page!Field -> SUBSET UNION {Page!Value(f) : f \in Page!Field}],
         \A f \in Page!Field : more[f] \subseteq Page!Value(f),
         asked' = [f \in Page!Field |-> asked[f] \cup more[f]], Wanted(job)'
  PROVE  PanelInv'
<1> DEFINE t == [step |-> begun, job |-> job]
<1>0. PanelTyped BY DEF PanelInv
<1>1. /\ task[r] = [step |-> "idle"] /\ task' = [task EXCEPT ![r] = t] /\ outbox' = "file"
      /\ UNCHANGED <<toml, secret, token, starts, torn>>
      /\ adrift' = (adrift \/ \E o \in Page!Request : Page!Running(o))
  BY DEF Page!Begin, Page!Idle
<1>2. t \in Tasks BY DEF Tasks
<1>3. /\ task' \in [Page!Request -> Tasks] /\ task'[r] = t
      /\ \A o \in Page!Request \ {r} : task'[o] = task[o]
  BY <1>0, <1>1, <1>2, TaskMoves
<1>4. /\ \A o \in Page!Request : Page!Running(o)' <=> (o = r \/ Page!Running(o))
      /\ \A o \in Page!Request : Page!Writing(o)' <=> Page!Writing(o)
  BY <1>1, <1>3 DEF Page!Running, Page!Writing, Starting
<1>5. PanelTyped'
  <2>1. torn' \in BOOLEAN BY <1>0, <1>1 DEF PanelTyped
  <2>2. adrift' \in BOOLEAN BY <1>0, <1>1 DEF PanelTyped
  <2>3. /\ asked' = [f \in Page!Field |-> asked'[f]]
        /\ \A f \in Page!Field : asked'[f] \subseteq Page!Value(f)
    BY <1>0 DEF PanelTyped
  <2> QED BY <1>0, <1>1, <1>3, <2>1, <2>2, <2>3 DEF PanelTyped
<1>6. \A f \in Page!Field : asked[f] \subseteq asked'[f] OBVIOUS
<1>7. PanelGood'
  <2>1. \A o \in Page!Request : Page!Running(o)' => Wanted(task[o].job)'
    <3> SUFFICES ASSUME NEW o \in Page!Request, Page!Running(o)' PROVE Wanted(task[o].job)'
      OBVIOUS
    <3>1. CASE o = r BY <1>3, <3>1 DEF Wanted
    <3>2. CASE o # r
      <4>1. Page!Running(o) /\ task'[o] = task[o] BY <1>3, <1>4, <3>2
      <4>2. Wanted(task[o].job) /\ task[o].job \in Jobs
        BY <1>0, <4>1, TaskForms DEF PanelInv, PanelGood
      <4>3. /\ task[o].job.kind \in {"toggle", "link", "json"} => task[o].job.field \in Page!Field
            /\ task[o].job.kind \in {"toggle", "link", "json", "toml", "get"}
        BY <4>2 DEF Jobs, Page!Field
      <4> QED BY <1>6, <4>1, <4>2, <4>3 DEF Wanted
    <3> QED BY <3>1, <3>2
  <2>2. CASE ~torn'
    <3>1. "password" \in Page!Field BY DEF Page!Field
    <3>2. secret' \in asked'["password"] BY <1>1, <1>6, <2>2, <3>1 DEF PanelInv, PanelGood
    <3>3. \A o \in Page!Request : task'[o].step \in Holding => Good(task[o].config)'
      <4> SUFFICES ASSUME NEW o \in Page!Request, task'[o].step \in Holding
                   PROVE  Good(task[o].config)'
        OBVIOUS
      <4>1. task'[o] = task[o] BY <1>3 DEF Holding, Starting
      <4>2. Good(task[o].config) BY <1>1, <2>2, <4>1 DEF PanelInv, PanelGood
      <4> QED BY <1>6, <4>1, <4>2 DEF Good
    <3>4. IF toml' = Page!Empty THEN \E o \in Page!Request : Page!Writing(o)' ELSE Good(toml)'
      <4>1. CASE toml = Page!Empty BY <1>1, <1>4, <2>2, <4>1 DEF PanelInv, PanelGood
      <4>2. CASE toml # Page!Empty
        <5>1. Good(toml) BY <1>1, <2>2, <4>2 DEF PanelInv, PanelGood
        <5> QED BY <1>1, <1>6, <4>2, <5>1 DEF Good
      <4> QED BY <4>1, <4>2
    <3> QED BY <2>1, <2>2, <3>2, <3>3, <3>4 DEF PanelGood
  <2>3. CASE torn' BY <2>1, <2>3 DEF PanelGood
  <2> QED BY <2>2, <2>3
<1>8. PanelFollows'
  <2> SUFFICES ASSUME ~torn', ~adrift'
               PROVE  /\ \A o, q \in Page!Request : Page!Running(o)' /\ Page!Running(q)' => o = q
                      /\ \A o \in Page!Request : Follows(task'[o], toml', onNow')
                      /\ ~\A o \in Page!Request : ~Page!Running(o)'
    BY DEF PanelFollows
  <2>1. ~torn /\ ~adrift /\ \A o \in Page!Request : ~Page!Running(o) BY <1>1
  <2>2. toml.on = onNow BY <2>1 DEF PanelInv, PanelFollows
  <2>3. Follows(t, toml', onNow') BY <1>1, <2>2 DEF Follows, Starting
  <2>4. \A o \in Page!Request : Follows(task'[o], toml', onNow')
    <3> SUFFICES ASSUME NEW o \in Page!Request, o # r PROVE Follows(task'[o], toml', onNow')
      BY <1>3, <2>3
    <3>1. task'[o].step \in {"idle", "done"} BY <1>3, <2>1 DEF Page!Running
    <3> QED BY <3>1 DEF Follows, Starting
  <2> QED BY <1>4, <2>1, <2>4
<1> QED BY <1>5, <1>7, <1>8 DEF PanelInv

LEMMA PanelBegins == Page!Init => PanelInv
<1> SUFFICES ASSUME Page!Init PROVE PanelInv OBVIOUS
<1>0. "owner" \notin Switch /\ "password" \notin Switch BY ServicesAssumption
<1>1. PICK p \in Password : toml = [Page!Defaults EXCEPT !.password = p, !.sessions = "signedIn"]
  BY DEF Page!Init
<1>2. /\ toml = [on |-> Page!Defaults.on, owner |-> FALSE, password |-> p, sessions |-> "signedIn"]
      /\ Page!Defaults.on \in [Switch -> BOOLEAN]
  BY <1>1 DEF Page!Defaults
<1>3. /\ onNow = toml.on /\ secret = toml.password /\ token = Page!Blank
      /\ task = [r \in Page!Request |-> [step |-> "idle"]] /\ outbox = "nowhere" /\ starts = 0
      /\ asked = [f \in Page!Field |-> {Page!Of(toml, f)}] /\ torn = FALSE /\ adrift = FALSE
  BY DEF Page!Init, Page!Idle
<1>4. toml \in Page!Config BY <1>2 DEF Page!Config, Page!Choices, Page!Sessions
<1>5. \A f \in Page!Field : Page!Of(toml, f) \in Page!Value(f)
  BY <1>0, <1>2 DEF Page!Of, Page!Field, Page!Value
<1>6. PanelTyped
  <2>1. torn \in BOOLEAN BY <1>3
  <2>2. adrift \in BOOLEAN BY <1>3
  <2>3. task \in [Page!Request -> Tasks] BY <1>3 DEF Tasks
  <2>4. starts \in 0..MaxRestarts BY <1>3, ServicesAssumption
  <2>5. onNow \in Page!Choices /\ secret \in Passwords BY <1>2, <1>3 DEF Page!Choices, Passwords
  <2>6. /\ asked = [f \in Page!Field |-> asked[f]]
        /\ \A f \in Page!Field : asked[f] \subseteq Page!Value(f)
    BY <1>3, <1>5
  <2> QED BY <1>3, <1>4, <2>1, <2>2, <2>3, <2>4, <2>5, <2>6 DEF PanelTyped
<1>7. \A r \in Page!Request : task[r].step = "idle" BY <1>3
<1>8. "password" \in Page!Field /\ Page!Of(toml, "password") = toml.password
  BY <1>0 DEF Page!Field, Page!Of
<1>9. PanelGood BY <1>2, <1>3, <1>4, <1>7, <1>8, FileKinds DEF PanelGood, Good, Page!Running, Holding
<1>10. PanelFollows BY <1>3, <1>7 DEF PanelFollows, Follows, Starting, Page!Running
<1> QED BY <1>6, <1>9, <1>10 DEF PanelInv

(* The task of a toggle starts after the switch is in memory.                *)
LEMMA PanelPersists == ASSUME PanelInv, NEW r \in Page!Request, Page!Persist(r) PROVE PanelInv'
<1> DEFINE t == [step |-> "loading", job |-> task[r].job]
<1>0. PanelTyped BY DEF PanelInv
<1>1. /\ task[r].step = "stored" /\ task' = [task EXCEPT ![r].step = "loading"]
      /\ UNCHANGED <<toml, onNow, secret, token, outbox, starts, asked, torn, adrift>>
  BY DEF Page!Persist, Page!Step, Page!Memory, Page!History
<1>2. /\ Page!Running(r) /\ task[r].job \in Jobs
      /\ [task[r] EXCEPT !.step = "loading"] = t
  BY <1>0, <1>1, TaskForms DEF Starting
<1>3. t \in Tasks BY <1>2 DEF Tasks, Starting
<1>4. task' = [task EXCEPT ![r] = t] BY <1>0, <1>1, <1>2 DEF PanelTyped
<1>5. torn' \in BOOLEAN BY <1>0, <1>1 DEF PanelTyped
<1>6. /\ toml' \in Page!Config \cup {Page!Empty, Page!Garbled}
      /\ onNow' \in Page!Choices /\ secret' \in Passwords
  BY <1>0, <1>1 DEF PanelTyped
<1>7. ~torn' => /\ ~torn /\ secret' \in asked["password"]
                /\ toml' # Page!Empty => Good(toml')
  BY <1>1 DEF PanelInv, PanelGood
<1>8. ~torn' /\ ~adrift => Follows(t, toml', onNow')
  BY <1>1 DEF PanelInv, PanelFollows, Follows, Starting
<1>9. t.step \notin Holding /\ t.step \in {"done", "loading"} \cup Holding /\ t.step # "done"
      /\ t.job = task[r].job
  BY DEF Holding
<1> HIDE DEF t
<1> QED BY <1>1, <1>2, <1>3, <1>4, <1>5, <1>6, <1>7, <1>8, <1>9, PanelMoves

LEMMA PanelLoads == ASSUME PanelInv, NEW r \in Page!Request, Page!Load(r) PROVE PanelInv'
<1>0. PanelTyped BY DEF PanelInv
<1>1. /\ task[r].step = "loading" /\ torn' = (torn \/ toml \notin Page!Config)
      /\ UNCHANGED <<toml, onNow, secret, token, outbox, starts, asked, adrift>>
  BY DEF Page!Load, Page!Memory
<1>2. torn' \in BOOLEAN BY <1>1
<1>3. Page!Running(r) /\ task[r].job \in Jobs BY <1>0, <1>1, TaskForms DEF Page!Running
<1>4. /\ toml' \in Page!Config \cup {Page!Empty, Page!Garbled} /\ onNow' \in Page!Choices
      /\ secret' \in Passwords
  BY <1>0, <1>1 DEF PanelTyped
<1>5. ~torn' => ~torn /\ toml \in Page!Config /\ Good(toml) /\ secret' \in asked["password"]
  BY <1>1, FileKinds DEF PanelInv, PanelGood
<1>6. CASE toml \in Page!Config /\ Page!Take(r, "loaded", toml)
  <2> DEFINE t == [step |-> "loaded", job |-> task[r].job, config |-> toml]
  <2>1. t \in Tasks BY <1>3, <1>6 DEF Tasks, Holding
  <2>2. task' = [task EXCEPT ![r] = t] BY <1>0, <1>6 DEF Page!Take, PanelTyped
  <2>3. ~torn' /\ ~adrift => Follows(t, toml', onNow')
    BY <1>1, <1>5 DEF PanelInv, PanelFollows, Follows, Starting
  <2>4. toml # Page!Empty BY <1>6, FileKinds
  <2> QED BY <1>1, <1>2, <1>3, <1>4, <1>5, <2>1, <2>2, <2>3, <2>4, PanelMoves DEF Holding
<1>7. ASSUME toml \notin Page!Config, NEW t \in Tasks, task' = [task EXCEPT ![r] = t],
             t.step \in {"done"} \cup Holding, t.step # "done" => t.job = task[r].job
      PROVE  PanelInv'
  <2>1. torn' BY <1>1, <1>7
  <2> QED BY <1>1, <1>2, <1>3, <1>4, <1>7, <2>1, PanelMoves
<1>8. CASE toml = Page!Empty /\ Page!Take(r, "loaded", Page!Defaults)
  <2> DEFINE t == [step |-> "loaded", job |-> task[r].job, config |-> Page!Defaults]
  <2>1. t \in Tasks BY <1>3, DefaultsType DEF Tasks, Holding
  <2>2. task' = [task EXCEPT ![r] = t] BY <1>0, <1>8 DEF Page!Take, PanelTyped
  <2> QED BY <1>7, <1>8, <2>1, <2>2, FileKinds DEF Holding
<1>9. CASE toml = Page!Garbled /\ Page!Take(r, "held", Page!Defaults)
  <2> DEFINE t == [step |-> "held", job |-> task[r].job, config |-> Page!Defaults]
  <2>1. t \in Tasks BY <1>3, DefaultsType DEF Tasks, Holding
  <2>2. task' = [task EXCEPT ![r] = t] BY <1>0, <1>9 DEF Page!Take, PanelTyped
  <2> QED BY <1>7, <1>9, <2>1, <2>2, FileKinds DEF Holding
<1>10. CASE toml = Page!Garbled /\ Page!End(r)
  <2>1. [step |-> "done"] \in Tasks BY DEF Tasks
  <2> QED BY <1>7, <1>10, <2>1, FileKinds DEF Page!End, Holding
<1> QED BY <1>6, <1>8, <1>9, <1>10 DEF Page!Load

LEMMA PanelTruncates ==
  ASSUME PanelInv, NEW r \in Page!Request,
         Page!Truncate(r, "loaded", "rewriting") \/ Page!Truncate(r, "saving", "writing")
  PROVE  PanelInv'
<1> DEFINE s == IF task[r].step = "loaded" THEN "rewriting" ELSE "writing"
           t == [step |-> s, job |-> task[r].job, config |-> task[r].config]
<1>0. PanelTyped BY DEF PanelInv
<1>1. /\ task[r].step \in {"loaded", "saving"} /\ toml' = Page!Empty
      /\ task' = [task EXCEPT ![r].step = s]
      /\ UNCHANGED <<onNow, secret, token, outbox, starts, asked, torn, adrift>>
  BY DEF Page!Truncate, Page!Step, Page!Memory, Page!History
<1>2. /\ Page!Running(r) /\ task[r].job \in Jobs /\ task[r].config \in Page!Config
      /\ [task[r] EXCEPT !.step = s] = t
  BY <1>0, <1>1, TaskForms DEF Holding
<1>3. t \in Tasks BY <1>2 DEF Tasks, Holding
<1>4. task' = [task EXCEPT ![r] = t] BY <1>0, <1>1, <1>2 DEF PanelTyped
<1>5. torn' \in BOOLEAN BY <1>0, <1>1 DEF PanelTyped
<1>6. onNow' \in Page!Choices /\ secret' \in Passwords BY <1>0, <1>1 DEF PanelTyped
<1>7. ~torn' => ~torn /\ secret' \in asked["password"] /\ Good(t.config)
  BY <1>1 DEF PanelInv, PanelGood, Holding
<1>8. ~torn' /\ ~adrift => Follows(t, toml', onNow')
  BY <1>1 DEF PanelInv, PanelFollows, Follows, Starting
<1> QED BY <1>1, <1>2, <1>3, <1>4, <1>5, <1>6, <1>7, <1>8, PanelMoves DEF Holding

(* A file that was empty when it was filled holds what was written.          *)
LEMMA PanelFills ==
  ASSUME PanelInv, NEW r \in Page!Request, Page!Fill(r), task[r].step \in {"rewriting", "writing"}
  PROVE  /\ torn' \in BOOLEAN
         /\ toml' \in Page!Config \cup {Page!Empty, Page!Garbled}
         /\ ~torn' => /\ ~torn /\ toml' = task[r].config /\ Good(toml') /\ toml' # Page!Empty
                      /\ task[r].config.password \in asked["password"]
<1>0. PanelTyped BY DEF PanelInv
<1>1. task[r].config \in Page!Config BY <1>0, TaskForms DEF Holding
<1>2. CASE toml = Page!Empty /\ toml' = task[r].config /\ UNCHANGED torn
  <2>1. torn' \in BOOLEAN BY <1>0, <1>2 DEF PanelTyped
  <2>2. ~torn' => Good(task[r].config) BY <1>2 DEF PanelInv, PanelGood, Holding
  <2>3. "password" \in Page!Field /\ "password" \notin Switch BY ServicesAssumption DEF Page!Field
  <2>4. Page!Of(task[r].config, "password") = task[r].config.password BY <2>3 DEF Page!Of
  <2>5. ~torn' => task[r].config.password \in asked["password"] BY <2>2, <2>3, <2>4 DEF Good
  <2> QED BY <1>1, <1>2, <2>1, <2>2, <2>5, FileKinds
<1>3. CASE toml' \in {task[r].config, Page!Garbled} /\ torn' = TRUE
  <2>1. torn' \in BOOLEAN /\ torn' BY <1>3
  <2> QED BY <1>1, <1>3, <2>1
<1> QED BY <1>2, <1>3 DEF Page!Fill

LEMMA PanelRewrites == ASSUME PanelInv, NEW r \in Page!Request, Page!Rewrite(r) PROVE PanelInv'
<1>0. PanelTyped BY DEF PanelInv
<1>1. /\ task[r].step = "rewriting" /\ Page!Fill(r)
      /\ UNCHANGED <<onNow, secret, token, outbox, starts, asked, adrift>>
  BY DEF Page!Rewrite, Page!Memory
<1>2. /\ Page!Running(r) /\ task[r].job \in Jobs /\ task[r].config \in Page!Config
      /\ [task[r] EXCEPT !.step = "held"]
         = [step |-> "held", job |-> task[r].job, config |-> task[r].config]
  BY <1>0, <1>1, TaskForms DEF Holding
<1>3. onNow' \in Page!Choices /\ secret' \in Passwords BY <1>0, <1>1 DEF PanelTyped
<1>4. ~torn' => ~torn /\ secret' \in asked["password"] /\ toml' = task[r].config /\ Good(toml')
                /\ toml' # Page!Empty
  BY <1>1, PanelFills DEF PanelInv, PanelGood
<1>5. ~torn' /\ ~adrift => onNow' = After(task[r].job, toml'.on)
  BY <1>1, <1>4 DEF PanelInv, PanelFollows, Follows, Starting
<1>6. CASE task[r].job.kind = "get" /\ Page!End(r)
  <2>1. [step |-> "done"] \in Tasks BY DEF Tasks
  <2>2. ~torn' /\ ~adrift => toml'.on = onNow' BY <1>5, <1>6 DEF After
  <2> QED BY <1>1, <1>2, <1>3, <1>4, <1>6, <2>1, <2>2, PanelFills, PanelMoves DEF Page!End, Holding
<1>7. CASE Page!Step(r, "held")
  <2> DEFINE t == [step |-> "held", job |-> task[r].job, config |-> task[r].config]
  <2>1. t \in Tasks BY <1>2 DEF Tasks, Holding
  <2>2. task' = [task EXCEPT ![r] = t] BY <1>0, <1>2, <1>7 DEF Page!Step, PanelTyped
  <2>3. ~torn' /\ ~adrift => Follows(t, toml', onNow') BY <1>4, <1>5 DEF Follows, Starting
  <2> QED BY <1>1, <1>2, <1>3, <1>4, <2>1, <2>2, <2>3, PanelFills, PanelMoves DEF Holding
<1> QED BY <1>6, <1>7 DEF Page!Rewrite

(* A setting that was asked for, put into what a task holds.                 *)
LEMMA SetGood ==
  ASSUME NEW c, Good(c), NEW f \in Page!Field, NEW v \in Page!Value(f), v \in asked[f]
  PROVE  Good(Page!Set(c, f, v))
<1>1. c \in Page!Config /\ c.sessions = "signedIn" /\ \A g \in Page!Field : Page!Of(c, g) \in asked[g]
  BY DEF Good
<1>2. Page!Set(c, f, v) \in Page!Config /\ Page!Set(c, f, v).sessions = c.sessions
  BY <1>1, SetField
<1>3. ASSUME NEW g \in Page!Field PROVE Page!Of(Page!Set(c, f, v), g) \in asked[g]
  <2>1. Page!Of(Page!Set(c, f, v), g) = IF g = f THEN v ELSE Page!Of(c, g) BY <1>1, SetReads
  <2> QED BY <1>1, <2>1
<1> QED BY <1>1, <1>2, <1>3 DEF Good

LEMMA PanelChanges == ASSUME PanelInv, NEW r \in Page!Request, Page!Change(r) PROVE PanelInv'
<1> DEFINE c == task[r].config
           f == task[r].job.field
           v == task[r].job.value
           t == [step |-> "saving", job |-> task[r].job, config |-> Page!Set(c, f, v)]
<1>0. PanelTyped BY DEF PanelInv
<1>1. /\ task[r].step = "held" /\ task[r].job.kind \in {"toggle", "link"}
      /\ Page!Take(r, "saving", Page!Set(c, f, v))
      /\ UNCHANGED <<toml, onNow, secret, token, outbox, starts, asked, torn, adrift>>
  BY DEF Page!Change, Page!Memory, Page!History
<1>2. Page!Running(r) /\ task[r].job \in Jobs /\ c \in Page!Config
  BY <1>0, <1>1, TaskForms DEF Holding
<1>3. /\ task[r].job.kind = "toggle" => f \in Switch /\ v \in BOOLEAN
      /\ task[r].job.kind = "link" => f = "owner" /\ v = TRUE
  BY <1>1, <1>2 DEF Jobs
<1>4. "owner" \notin Switch /\ "password" \notin Switch BY ServicesAssumption
<1>5. f \in Page!Field BY <1>1, <1>3 DEF Page!Field
<1>6. v \in BOOLEAN
  <2>1. CASE task[r].job.kind = "toggle" BY <1>3, <2>1
  <2>2. CASE task[r].job.kind = "link"
    <3>1. v = TRUE BY <1>3, <2>2
    <3> QED BY <3>1
  <2> QED BY <1>1, <2>1, <2>2
<1>7. v \in Page!Value(f) /\ f # "password"
  <2>1. f # "password" BY <1>1, <1>3, <1>4
  <2> QED BY <1>6, <2>1 DEF Page!Value
<1>8. Page!Set(c, f, v) \in Page!Config /\ (~torn => Good(Page!Set(c, f, v)))
  <2>1. v \in asked[f] BY <1>1, <1>2 DEF PanelInv, PanelGood, Wanted
  <2>2. ~torn => Good(c) BY <1>1 DEF PanelInv, PanelGood, Holding
  <2> QED BY <1>2, <1>5, <1>7, <2>1, <2>2, SetField, SetGood
<1>9. t \in Tasks BY <1>2, <1>8 DEF Tasks, Holding
<1>10. task' = [task EXCEPT ![r] = t] BY <1>0, <1>1 DEF Page!Take, PanelTyped
<1>11. torn' \in BOOLEAN BY <1>0, <1>1 DEF PanelTyped
<1>12. /\ toml' \in Page!Config \cup {Page!Empty, Page!Garbled} /\ onNow' \in Page!Choices
       /\ secret' \in Passwords
  BY <1>0, <1>1 DEF PanelTyped
<1>13. ~torn' => /\ ~torn /\ secret' \in asked["password"]
                 /\ toml' # Page!Empty => Good(toml')
  BY <1>1 DEF PanelInv, PanelGood
<1>14. Page!Set(c, f, v).on = After(task[r].job, c.on)
  <2>1. /\ f \in Switch => Page!Set(c, f, v).on = [c.on EXCEPT ![f] = v]
        /\ f \notin Switch => Page!Set(c, f, v).on = c.on
    BY <1>2, <1>5, <1>7, SetField
  <2> QED BY <1>1, <1>3, <1>4, <2>1 DEF After
<1>15. ~torn' /\ ~adrift => Follows(t, toml', onNow')
  BY <1>1, <1>14 DEF PanelInv, PanelFollows, Follows, Starting
<1> QED BY <1>1, <1>2, <1>8, <1>9, <1>10, <1>11, <1>12, <1>13, <1>15, PanelMoves DEF Holding

LEMMA PanelChangesToml ==
  ASSUME PanelInv, NEW r \in Page!Request, Page!ChangeToml(r) PROVE PanelInv'
<1> DEFINE c == Page!Restored(task[r].job.config, task[r].config)
           t == [step |-> "saving", job |-> task[r].job, config |-> c]
<1>0. PanelTyped BY DEF PanelInv
<1>1. /\ task[r].step = "held" /\ task[r].job.kind = "toml" /\ onNow' = c.on
      /\ Page!Take(r, "saving", c)
      /\ UNCHANGED <<toml, secret, token, outbox, starts, asked, torn, adrift>>
  BY DEF Page!ChangeToml, Page!History
<1>2. Page!Running(r) /\ task[r].job \in Jobs /\ task[r].config \in Page!Config
  BY <1>0, <1>1, TaskForms DEF Holding
<1>3. task[r].job.config \in Page!Config BY <1>1, <1>2 DEF Jobs
<1>4. c = [on |-> task[r].job.config.on, owner |-> task[r].job.config.owner,
           password |-> task[r].job.config.password, sessions |-> task[r].config.sessions]
  BY <1>3 DEF Page!Restored, Page!Config
<1>5. c \in Page!Config /\ c.on \in Page!Choices BY <1>2, <1>3, <1>4 DEF Page!Config
<1>6. \A f \in Page!Field : Page!Of(c, f) = Page!Of(task[r].job.config, f)
  BY <1>4 DEF Page!Of, Page!Field
<1>7. ~torn => Good(c)
  <2>1. \A f \in Page!Field : Page!Of(task[r].job.config, f) \in asked[f]
    BY <1>1, <1>2 DEF PanelInv, PanelGood, Wanted
  <2>2. ~torn => task[r].config.sessions = "signedIn"
    BY <1>1 DEF PanelInv, PanelGood, Good, Holding
  <2> QED BY <1>4, <1>5, <1>6, <2>1, <2>2 DEF Good
<1>8. t \in Tasks BY <1>2, <1>5 DEF Tasks, Holding
<1>9. task' = [task EXCEPT ![r] = t] BY <1>0, <1>1 DEF Page!Take, PanelTyped
<1>10. torn' \in BOOLEAN BY <1>0, <1>1 DEF PanelTyped
<1>11. toml' \in Page!Config \cup {Page!Empty, Page!Garbled} /\ secret' \in Passwords
  BY <1>0, <1>1 DEF PanelTyped
<1>12. ~torn' => /\ ~torn /\ secret' \in asked["password"]
                 /\ toml' # Page!Empty => Good(toml')
  BY <1>1 DEF PanelInv, PanelGood
<1>13. Follows(t, toml', onNow') BY <1>1 DEF Follows, Starting
<1> QED BY <1>1, <1>2, <1>5, <1>7, <1>8, <1>9, <1>10, <1>11, <1>12, <1>13, PanelMoves DEF Holding

LEMMA PanelChangesJson ==
  ASSUME PanelInv, NEW r \in Page!Request, Page!ChangeJson(r) PROVE PanelInv'
<1> DEFINE c == task[r].config
           f == task[r].job.field
           v == task[r].job.value
           new == Page!Set(c, f, v)
           t == [step |-> "saving", job |-> task[r].job, config |-> new]
<1>0. PanelTyped BY DEF PanelInv
<1>1. /\ task[r].step = "held" /\ task[r].job.kind = "json"
      /\ IF new.password = Page!Blank THEN Page!End(r) /\ UNCHANGED onNow
         ELSE onNow' = new.on /\ Page!Take(r, "saving", new)
      /\ UNCHANGED <<toml, secret, token, outbox, starts, asked, torn, adrift>>
  BY DEF Page!ChangeJson, Page!History
<1>2. Page!Running(r) /\ task[r].job \in Jobs /\ c \in Page!Config
  BY <1>0, <1>1, TaskForms DEF Holding
<1>3. torn' \in BOOLEAN BY <1>0, <1>1 DEF PanelTyped
<1>4. toml' \in Page!Config \cup {Page!Empty, Page!Garbled} /\ secret' \in Passwords
  BY <1>0, <1>1 DEF PanelTyped
<1>5. ~torn' => /\ ~torn /\ secret' \in asked["password"]
                /\ toml' # Page!Empty => Good(toml')
  BY <1>1 DEF PanelInv, PanelGood
<1>6. CASE new.password = Page!Blank
  <2>1. [step |-> "done"] \in Tasks BY DEF Tasks
  <2>2. onNow' \in Page!Choices BY <1>0, <1>1, <1>6 DEF PanelTyped
  <2>3. ~torn' /\ ~adrift => toml'.on = onNow'
    BY <1>1, <1>6 DEF PanelInv, PanelFollows, Follows, Starting, After
  <2> QED BY <1>1, <1>2, <1>3, <1>4, <1>5, <1>6, <2>1, <2>2, <2>3, PanelMoves DEF Page!End, Holding
<1>7. CASE new.password # Page!Blank
  <2>1. \/ f \in Switch /\ v \in BOOLEAN
        \/ f = "password" /\ v \in Password \cup {Page!Blank}
    BY <1>1, <1>2 DEF Jobs
  <2>2. "owner" \notin Switch /\ "password" \notin Switch BY ServicesAssumption
  <2>3. f \in Page!Field BY <2>1 DEF Page!Field
  <2>4. v \in Page!Value(f) /\ (f = "password" => v # Page!Blank)
    <3>1. CASE f \in Switch /\ v \in BOOLEAN BY <2>2, <3>1 DEF Page!Value
    <3>2. CASE f = "password" /\ v \in Password \cup {Page!Blank}
      <4>1. new = [c EXCEPT !.password = v] BY <2>2, <3>2 DEF Page!Set
      <4>2. new.password = v BY <1>2, <4>1 DEF Page!Config
      <4> QED BY <1>7, <3>2, <4>2 DEF Page!Value
    <3> QED BY <2>1, <3>1, <3>2
  <2>5. new \in Page!Config /\ (~torn => Good(new))
    <3>1. v \in asked[f] BY <1>1, <1>2, <2>4 DEF PanelInv, PanelGood, Wanted
    <3>2. ~torn => Good(c) BY <1>1 DEF PanelInv, PanelGood, Holding
    <3> QED BY <1>2, <2>3, <2>4, <3>1, <3>2, SetField, SetGood
  <2>6. new.on \in Page!Choices BY <2>5 DEF Page!Config
  <2>7. t \in Tasks BY <1>2, <2>5 DEF Tasks, Holding
  <2>8. task' = [task EXCEPT ![r] = t] BY <1>0, <1>1, <1>7 DEF Page!Take, PanelTyped
  <2>9. Follows(t, toml', onNow') BY <1>1, <1>7 DEF Follows, Starting
  <2> QED BY <1>1, <1>2, <1>3, <1>4, <1>5, <1>7, <2>5, <2>6, <2>7, <2>8, <2>9, PanelMoves DEF Holding
<1> QED BY <1>6, <1>7

LEMMA PanelSaves == ASSUME PanelInv, NEW r \in Page!Request, Page!Save(r) PROVE PanelInv'
<1>0. PanelTyped BY DEF PanelInv
<1>1. /\ task[r].step = "writing" /\ Page!Fill(r) /\ task' = [task EXCEPT ![r] = [step |-> "done"]]
      /\ secret' \in {secret, task[r].config.password}
      /\ UNCHANGED <<onNow, token, outbox, starts, asked, adrift>>
  BY DEF Page!Save, Page!End, Page!SetPanelPassword
<1>2. /\ Page!Running(r) /\ task[r].config \in Page!Config
  BY <1>0, <1>1, TaskForms DEF Holding
<1>3. onNow' \in Page!Choices BY <1>0, <1>1 DEF PanelTyped
<1>4. secret' \in Passwords BY <1>0, <1>1, <1>2 DEF PanelTyped, Passwords, Page!Config
<1>5. /\ torn' \in BOOLEAN /\ toml' \in Page!Config \cup {Page!Empty, Page!Garbled}
      /\ ~torn' => /\ ~torn /\ toml' = task[r].config /\ Good(toml') /\ toml' # Page!Empty
                   /\ task[r].config.password \in asked["password"]
  BY <1>1, PanelFills
<1>6. ~torn' => secret' \in asked["password"] BY <1>1, <1>5 DEF PanelInv, PanelGood
<1>7. ~torn' /\ ~adrift => toml'.on = onNow'
  BY <1>1, <1>5 DEF PanelInv, PanelFollows, Follows, Starting
<1>8. [step |-> "done"] \in Tasks BY DEF Tasks
<1> QED BY <1>1, <1>2, <1>3, <1>4, <1>5, <1>6, <1>7, <1>8, PanelMoves DEF Holding

LEMMA PanelRestarts == ASSUME PanelInv, Page!Restart PROVE PanelInv'
<1> DEFINE loaded == IF toml = Page!Empty THEN Page!Defaults ELSE toml
           config == IF loaded.sessions = "none" THEN [loaded EXCEPT !.sessions = "fresh"]
                     ELSE loaded
<1>0. PanelTyped BY DEF PanelInv
<1>1. /\ toml # Page!Garbled /\ starts < MaxRestarts /\ starts' = starts + 1
      /\ toml' = config /\ onNow' = config.on /\ secret' = config.password
      /\ task' = [r \in Page!Request |-> IF Page!Running(r) THEN [step |-> "done"] ELSE task[r]]
      /\ outbox' = "nowhere" /\ torn' = (torn \/ toml = Page!Empty)
      /\ UNCHANGED <<token, asked, adrift>>
  BY DEF Page!Restart
<1>2. loaded \in Page!Config BY <1>0, <1>1, DefaultsType DEF PanelTyped
<1>3. /\ config = [on |-> loaded.on, owner |-> loaded.owner, password |-> loaded.password,
                   sessions |-> config.sessions]
      /\ config.sessions \in Page!Sessions
      /\ loaded.sessions = "signedIn" => config = loaded
  BY <1>2 DEF Page!Config, Page!Sessions
<1>4. config \in Page!Config /\ config.on \in Page!Choices /\ config.password \in Passwords
  BY <1>2, <1>3 DEF Page!Config, Passwords
<1>5. \A r \in Page!Request : task'[r] \in Tasks /\ ~Page!Running(r)'
                              /\ task'[r].step \in {"idle", "done"}
  <2> SUFFICES ASSUME NEW r \in Page!Request
               PROVE  task'[r] \in Tasks /\ task'[r].step \in {"idle", "done"}
    BY DEF Page!Running
  <2>1. [step |-> "done"] \in Tasks BY DEF Tasks
  <2> QED BY <1>0, <1>1, <2>1 DEF PanelTyped, Page!Running
<1>6. PanelTyped'
  <2>1. torn' \in BOOLEAN BY <1>1
  <2>2. adrift' \in BOOLEAN BY <1>0, <1>1 DEF PanelTyped
  <2>3. starts' \in 0..MaxRestarts BY <1>0, <1>1, ServicesAssumption DEF PanelTyped
  <2>4. task' \in [Page!Request -> Tasks] BY <1>1, <1>5
  <2>5. /\ asked' = [f \in Page!Field |-> asked'[f]]
        /\ \A f \in Page!Field : asked'[f] \subseteq Page!Value(f)
    BY <1>0, <1>1 DEF PanelTyped
  <2>6. token' \in Passwords \cup {Page!Blank} BY <1>0, <1>1 DEF PanelTyped
  <2> HIDE DEF config
  <2> QED BY <1>1, <1>4, <2>1, <2>2, <2>3, <2>4, <2>5, <2>6 DEF PanelTyped
<1>7. PanelGood'
  <2>1. CASE ~torn'
    <3>1. Good(toml) /\ toml # Page!Empty BY <1>1, <2>1 DEF PanelInv, PanelGood
    <3>2. toml' = toml BY <1>1, <1>3, <3>1 DEF Good
    <3>3. Good(toml)' BY <1>1, <3>1, <3>2 DEF Good
    <3>4. secret' \in asked'["password"]
      <4>1. "password" \in Page!Field /\ "password" \notin Switch BY ServicesAssumption DEF Page!Field
      <4>2. Page!Of(toml, "password") = toml.password BY <4>1 DEF Page!Of
      <4> QED BY <1>1, <1>3, <3>1, <4>1, <4>2 DEF Good
    <3> QED BY <1>5, <2>1, <3>1, <3>2, <3>3, <3>4 DEF PanelGood, Holding
  <2>2. CASE torn' BY <1>5, <2>2 DEF PanelGood
  <2> QED BY <2>1, <2>2
<1>8. PanelFollows'
  <2>1. \A r \in Page!Request : Follows(task'[r], toml', onNow') BY <1>5 DEF Follows, Starting
  <2>2. toml'.on = onNow' BY <1>1
  <2> QED BY <1>5, <2>1, <2>2 DEF PanelFollows
<1> QED BY <1>6, <1>7, <1>8 DEF PanelInv

(* Nothing of the file or of the tasks moves.                                *)
LEMMA PanelRests ==
  ASSUME PanelInv, UNCHANGED <<toml, secret, task, starts, asked, torn>>,
         \/ UNCHANGED <<onNow, adrift>>
         \/ onNow' \in Page!Choices /\ adrift' = TRUE,
         token' \in {token, secret}, outbox' \in {outbox, "socket", "queue"}
  PROVE  PanelInv'
<1>0. PanelTyped BY DEF PanelInv
<1>1. adrift' \in BOOLEAN
  <2>1. CASE UNCHANGED <<onNow, adrift>> BY <1>0, <2>1 DEF PanelTyped
  <2>2. CASE adrift' = TRUE BY <2>2
  <2> QED BY <2>1, <2>2
<1>2. torn' \in BOOLEAN BY <1>0 DEF PanelTyped
<1>3. PanelTyped' BY <1>0, <1>1, <1>2 DEF PanelTyped
<1>4. /\ \A r \in Page!Request : Page!Running(r)' <=> Page!Running(r)
      /\ \A r \in Page!Request : Page!Writing(r)' <=> Page!Writing(r)
  BY DEF Page!Running, Page!Writing
<1>5. PanelGood'
  <2>1. PanelGood BY DEF PanelInv
  <2> QED BY <1>4, <2>1 DEF PanelGood, Good, Wanted
<1>6. PanelFollows'
  <2>1. PanelFollows BY DEF PanelInv
  <2>2. CASE adrift' = TRUE BY <2>2 DEF PanelFollows
  <2>3. CASE UNCHANGED <<onNow, adrift>> BY <1>4, <2>1, <2>3 DEF PanelFollows
  <2> QED BY <2>2, <2>3
<1> QED BY <1>3, <1>5, <1>6 DEF PanelInv

(* A request asks for one value of one setting, ...                          *)
LEMMA PanelAsks ==
  ASSUME PanelInv, NEW r \in Page!Request, NEW f \in Page!Field, NEW v \in Page!Value(f),
         NEW job \in Jobs, NEW begun \in Starting, Page!Begin(r, begun, job), Page!Ask(f, v),
         job.kind \in {"toggle", "link", "json"}, job.field = f /\ job.value = v,
         onNow' \in Page!Choices, onNow' = After(job, onNow)
  PROVE  PanelInv'
<1> DEFINE more == [g \in Page!Field |-> IF g = f THEN {v} ELSE {}]
<1>0. PanelTyped BY DEF PanelInv
<1>1. asked = [g \in Page!Field |-> asked[g]] BY <1>0 DEF PanelTyped
<1>2. asked' = [g \in Page!Field |-> asked[g] \cup more[g]] BY <1>1 DEF Page!Ask
<1>3. /\ more \in [Page!Field -> SUBSET UNION {Page!Value(g) : g \in Page!Field}]
      /\ \A g \in Page!Field : more[g] \subseteq Page!Value(g)
  OBVIOUS
<1>4. v \in asked'[f] BY <1>2
<1>5. Wanted(job)' BY <1>4 DEF Wanted
<1> HIDE DEF more
<1> QED BY <1>2, <1>3, <1>5, PanelSpawns

(* ... or for none.                                                          *)
LEMMA PanelAsksNothing ==
  ASSUME PanelInv, NEW r \in Page!Request, NEW job \in Jobs, Page!Begin(r, "loading", job),
         UNCHANGED <<onNow, asked>>, job.kind # "toggle", Wanted(job)
  PROVE  PanelInv'
<1> DEFINE more == [g \in Page!Field |-> {}]
<1>0. PanelTyped BY DEF PanelInv
<1>1. asked = [g \in Page!Field |-> asked[g]] /\ onNow' \in Page!Choices BY <1>0 DEF PanelTyped
<1>2. asked' = [g \in Page!Field |-> asked[g] \cup more[g]] BY <1>1
<1>3. /\ more \in [Page!Field -> SUBSET UNION {Page!Value(g) : g \in Page!Field}]
      /\ \A g \in Page!Field : more[g] \subseteq Page!Value(g)
  OBVIOUS
<1>4. Wanted(job)' BY DEF Wanted
<1>5. onNow' = After(job, onNow) /\ "loading" \in Starting BY DEF After, Starting
<1> HIDE DEF more
<1> QED BY <1>1, <1>2, <1>3, <1>4, <1>5, PanelSpawns

LEMMA PanelToggles ==
  ASSUME PanelInv, NEW r \in Page!Request, NEW s \in Switch, NEW v \in BOOLEAN,
         Page!Toggle(r, s, v)
  PROVE  PanelInv'
<1> DEFINE job == [kind |-> "toggle", field |-> s, value |-> v]
<1>0. onNow \in [Switch -> BOOLEAN] /\ "password" \notin Switch
  BY ServicesAssumption DEF PanelInv, PanelTyped, Page!Choices
<1>1. Page!Begin(r, "stored", job) /\ Page!Ask(s, v) /\ onNow' = [onNow EXCEPT ![s] = v]
  BY DEF Page!Toggle
<1>2. job \in Jobs BY DEF Jobs
<1>3. s \in Page!Field /\ v \in Page!Value(s) BY <1>0 DEF Page!Field, Page!Value
<1>4. onNow' \in Page!Choices /\ onNow' = After(job, onNow)
  BY <1>0, <1>1 DEF Page!Choices, After
<1>5. job.kind \in {"toggle", "link", "json"} /\ job.field = s OBVIOUS
<1>6. job.value = v OBVIOUS
<1>7. "stored" \in Starting BY DEF Starting
<1> HIDE DEF job
<1> QED BY <1>1, <1>2, <1>3, <1>4, <1>5, <1>6, <1>7, PanelAsks

(* The text of a page: no owner, and no sessions.                            *)
LEMMA TomlForm ==
  ASSUME NEW on, NEW p
  PROVE  /\ [Page!Defaults EXCEPT !.on = on, !.password = p]
            = [on |-> on, owner |-> FALSE, password |-> p, sessions |-> "none"]
         /\ [[Page!Defaults EXCEPT !.on = on, !.password = p] EXCEPT !.sessions = "none"]
            = [on |-> on, owner |-> FALSE, password |-> p, sessions |-> "none"]
<1>1. [Page!Defaults EXCEPT !.on = on, !.password = p]
      = [on |-> on, owner |-> FALSE, password |-> p, sessions |-> "none"]
  <2>1. ASSUME NEW c, c = [Page!Defaults EXCEPT !.on = on, !.password = p]
        PROVE  c = [on |-> on, owner |-> FALSE, password |-> p, sessions |-> "none"]
    <3>1. /\ DOMAIN c = {"on", "owner", "password", "sessions"}
          /\ c = [x \in DOMAIN c |-> c[x]]
      BY <2>1 DEF Page!Defaults
    <3>2. c.on = on /\ c.password = p /\ c.sessions = "none" BY <2>1 DEF Page!Defaults
    <3>3. c.owner = FALSE BY <2>1 DEF Page!Defaults
    <3> QED BY <3>1, <3>2, <3>3
  <2> QED BY <2>1
<1>2. [[Page!Defaults EXCEPT !.on = on, !.password = p] EXCEPT !.sessions = "none"]
      = [on |-> on, owner |-> FALSE, password |-> p, sessions |-> "none"]
  BY <1>1
<1> QED BY <1>1, <1>2

LEMMA PanelSavesToml ==
  ASSUME PanelInv, NEW r \in Page!Request, NEW on \in Page!Choices, NEW p \in Password,
         Page!SaveToml(r, [Page!Defaults EXCEPT !.on = on, !.password = p])
  PROVE  PanelInv'
<1> DEFINE c == [Page!Defaults EXCEPT !.on = on, !.password = p]
           new == [c EXCEPT !.sessions = "none"]
           job == [kind |-> "toml", config |-> new]
           more == [f \in Page!Field |-> {Page!Of(c, f)}]
<1>0. "password" \notin Switch /\ "owner" \notin Switch BY ServicesAssumption
<1>1. /\ Page!Begin(r, "loading", job) /\ UNCHANGED onNow
      /\ asked' = [f \in Page!Field |-> asked[f] \cup {Page!Of(c, f)}]
  BY DEF Page!SaveToml, Page!Spawn
<1>2. c = [on |-> on, owner |-> FALSE, password |-> p, sessions |-> "none"] /\ new = c
  BY TomlForm
<1>3. c \in Page!Config BY <1>2 DEF Page!Config, Page!Sessions
<1>4. job \in Jobs BY <1>2, <1>3 DEF Jobs
<1>5. \A f \in Page!Field : Page!Of(c, f) \in Page!Value(f)
  BY <1>0, <1>2 DEF Page!Of, Page!Field, Page!Value, Page!Choices
<1>6. asked' = [f \in Page!Field |-> asked[f] \cup more[f]] BY <1>1
<1>7. /\ more \in [Page!Field -> SUBSET UNION {Page!Value(f) : f \in Page!Field}]
      /\ \A f \in Page!Field : more[f] \subseteq Page!Value(f)
  BY <1>5
<1>8. Wanted(job)' BY <1>1, <1>2 DEF Wanted
<1>9. onNow' \in Page!Choices /\ onNow' = After(job, onNow)
  BY <1>1 DEF PanelInv, PanelTyped, After
<1>10. "loading" \in Starting BY DEF Starting
<1> HIDE DEF more, job
<1> QED BY <1>1, <1>4, <1>6, <1>7, <1>8, <1>9, <1>10, PanelSpawns

LEMMA PanelSavesJson ==
  ASSUME PanelInv, NEW r \in Page!Request, NEW f, NEW v, Page!SaveJson(r, f, v),
         \/ f \in Switch /\ v \in BOOLEAN
         \/ f = "password" /\ v \in Password \cup {Page!Blank}
  PROVE  PanelInv'
<1> DEFINE job == [kind |-> "json", field |-> f, value |-> v]
<1>0. "password" \notin Switch /\ "owner" \notin Switch BY ServicesAssumption
<1>1. /\ Page!Begin(r, "loading", job) /\ UNCHANGED onNow
      /\ IF f = "password" /\ v = Page!Blank THEN UNCHANGED asked ELSE Page!Ask(f, v)
  BY DEF Page!SaveJson, Page!Spawn
<1>2. job \in Jobs
  <2>1. CASE f \in Switch /\ v \in BOOLEAN BY <2>1 DEF Jobs
  <2>2. CASE f = "password" /\ v \in Password \cup {Page!Blank} BY <2>2 DEF Jobs
  <2> QED BY <2>1, <2>2
<1>3. CASE f = "password" /\ v = Page!Blank
  <2>1. Wanted(job) /\ job.kind # "toggle" BY <1>3 DEF Wanted
  <2> HIDE DEF job
  <2> QED BY <1>1, <1>2, <1>3, <2>1, PanelAsksNothing
<1>4. CASE ~(f = "password" /\ v = Page!Blank)
  <2>1. f \in Page!Field /\ v \in Page!Value(f)
    <3>1. CASE f \in Switch /\ v \in BOOLEAN BY <1>0, <3>1 DEF Page!Field, Page!Value
    <3>2. CASE f = "password" /\ v \in Password \cup {Page!Blank}
      BY <1>4, <3>2 DEF Page!Field, Page!Value
    <3> QED BY <3>1, <3>2
  <2>2. onNow' \in Page!Choices /\ onNow' = After(job, onNow)
    BY <1>1 DEF PanelInv, PanelTyped, After
  <2>3. job.kind \in {"toggle", "link", "json"} /\ job.field = f OBVIOUS
  <2>4. job.value = v /\ "loading" \in Starting BY DEF Starting
  <2> HIDE DEF job
  <2> QED BY <1>1, <1>2, <1>4, <2>1, <2>2, <2>3, <2>4, PanelAsks
<1> QED BY <1>3, <1>4

LEMMA PanelLinks == ASSUME PanelInv, NEW r \in Page!Request, Page!Link(r) PROVE PanelInv'
<1> DEFINE job == [kind |-> "link", field |-> "owner", value |-> TRUE]
<1>1. Page!Begin(r, "loading", job) /\ UNCHANGED onNow /\ Page!Ask("owner", TRUE)
  BY DEF Page!Link, Page!Spawn
<1>2. job \in Jobs BY DEF Jobs
<1>3. "owner" \in Page!Field /\ TRUE \in Page!Value("owner") BY DEF Page!Field, Page!Value
<1>4. onNow' \in Page!Choices /\ onNow' = After(job, onNow)
  BY <1>1 DEF PanelInv, PanelTyped, After
<1>5. job.kind \in {"toggle", "link", "json"} /\ job.field = "owner" OBVIOUS
<1>6. job.value = TRUE /\ "loading" \in Starting BY DEF Starting
<1> HIDE DEF job
<1> QED BY <1>1, <1>2, <1>3, <1>4, <1>5, <1>6, PanelAsks

LEMMA PanelKeeps == PanelInv /\ [Page!Next]_(Page!vars) => PanelInv'
<1> SUFFICES ASSUME PanelInv, [Page!Next]_(Page!vars) PROVE PanelInv' OBVIOUS
<1>0. onNow \in [Switch -> BOOLEAN] BY DEF PanelInv, PanelTyped, Page!Choices
<1>1. CASE Page!Login
  BY <1>1, PanelRests DEF Page!Login, Page!Signed, Page!History
<1>2. ASSUME NEW r \in Page!Request, NEW s \in Switch, NEW v \in BOOLEAN, Page!Toggle(r, s, v)
      PROVE  PanelInv'
  BY <1>2, PanelToggles
<1>3. ASSUME NEW r \in Page!Request, Page!Get(r) PROVE PanelInv'
  <2> DEFINE job == [kind |-> "get"]
  <2>1. job \in Jobs /\ job.kind # "toggle" BY DEF Jobs
  <2>2. Wanted(job) BY DEF Wanted
  <2>3. Page!Begin(r, "loading", job) /\ UNCHANGED <<onNow, asked>> BY <1>3 DEF Page!Get, Page!Spawn
  <2> HIDE DEF job
  <2> QED BY <2>1, <2>2, <2>3, PanelAsksNothing
<1>4. ASSUME NEW r \in Page!Request, NEW on \in Page!Choices, NEW p \in Password,
             Page!SaveToml(r, [Page!Defaults EXCEPT !.on = on, !.password = p])
      PROVE  PanelInv'
  BY <1>4, PanelSavesToml
<1>5. ASSUME NEW r \in Page!Request, NEW s \in Switch, NEW v \in BOOLEAN, Page!SaveJson(r, s, v)
      PROVE  PanelInv'
  BY <1>5, PanelSavesJson
<1>6. ASSUME NEW r \in Page!Request, NEW p \in Password \cup {Page!Blank},
             Page!SaveJson(r, "password", p)
      PROVE  PanelInv'
  BY <1>6, PanelSavesJson
<1>7. ASSUME NEW r \in Page!Request,
             \/ Page!Link(r) \/ Page!Persist(r) \/ Page!Load(r) \/ Page!Rewrite(r) \/ Page!Change(r)
             \/ Page!ChangeToml(r) \/ Page!ChangeJson(r) \/ Page!Save(r)
             \/ Page!Truncate(r, "loaded", "rewriting") \/ Page!Truncate(r, "saving", "writing")
      PROVE  PanelInv'
  BY <1>7, PanelLinks, PanelPersists, PanelLoads, PanelRewrites, PanelChanges, PanelChangesToml,
     PanelChangesJson, PanelSaves, PanelTruncates
<1>8. ASSUME NEW to \in {"socket", "queue"}, Page!Send(to) PROVE PanelInv'
  BY <1>8, PanelRests DEF Page!Send, Page!Memory, Page!History
<1>9. CASE UNCHANGED Page!vars BY <1>9, PanelRests DEF Page!vars
<1>10. CASE \E line \in Page!Line : Page!SendChat(line)
  BY <1>8, <1>9, <1>10 DEF Page!SendChat, Page!ProcessChatInput
<1>11. CASE \/ Page!CancelAuction \/ \E bid \in 0..1 : Page!ListItem(bid)
            \/ Page!ClaimPurchases \/ Page!CollectBzOrders \/ Page!ClaimBzOrders
            \/ Page!BackendOrder
  BY <1>8, <1>11 DEF Page!CancelAuction, Page!ListItem, Page!ClaimPurchases,
     Page!CollectBzOrders, Page!ClaimBzOrders, Page!BackendOrder
<1>12. CASE Page!SwitchAccount \/ Page!KillSession \/ Page!Shutdown
  BY <1>12, PanelRestarts DEF Page!SwitchAccount, Page!KillSession, Page!Shutdown
<1>13. ASSUME NEW s \in Switch, Page!BackendToggle(s) PROVE PanelInv'
  <2>1. onNow' \in [Switch -> BOOLEAN] BY <1>0, <1>13 DEF Page!BackendToggle
  <2> QED BY <1>13, <2>1, PanelRests DEF Page!BackendToggle, Page!Choices
<1> QED BY <1>1, <1>2, <1>3, <1>4, <1>5, <1>6, <1>7, <1>9, <1>10, <1>11, <1>12, <1>13
        DEF Page!Next

LEMMA PanelShows == PanelInv => Page!KeepsTheConfig
<1> SUFFICES ASSUME PanelInv PROVE Page!KeepsTheConfig OBVIOUS
<1>0. PanelTyped BY DEF PanelInv
<1>1. Page!NothingInvented
  BY FileKinds DEF PanelInv, PanelGood, Good, Page!NothingInvented
<1>2. Page!FileFollowsMemory BY DEF PanelInv, PanelFollows, Page!FileFollowsMemory
<1>3. Page!StaysLocked
  <2>1. Page!Blank \notin Passwords
    BY ServicesAssumption DEF Passwords, Page!Blank, Page!Generated
  <2> QED BY <1>0, <2>1 DEF PanelTyped, Passwords, Page!StaysLocked, Page!Config
<1> QED BY <1>1, <1>2, <1>3 DEF Page!KeepsTheConfig

LEMMA PanelTypes == PanelInv => Page!TypeOK
<1> SUFFICES ASSUME PanelInv PROVE Page!TypeOK OBVIOUS
<1>0. PanelTyped BY DEF PanelInv
<1>1. \A r \in Page!Request : task[r].step \in {"idle", "stored", "loading", "loaded", "rewriting",
                                                "held", "saving", "writing", "done"}
  BY <1>0, TaskForms DEF Holding, Starting
<1>2. {torn, adrift} \subseteq BOOLEAN BY <1>0 DEF PanelTyped
<1> QED BY <1>0, <1>1, <1>2 DEF PanelTyped, Passwords, Page!TypeOK

-----------------------------------------------------------------------------
(* CoflSession. *)

\* The switches that were asked for, done or not, are counted.
Counted == Len(switches) + signals <= MaxSwitches

\* A switch that has not yet reset the sign-in.
Unreset == \E i \in DOMAIN switches : switches[i].at \in {"store", "login"}

\* The main loop trusts the session, or an event that makes it do so is on its way.
Vouched == trusted \/ \E i \in DOMAIN pending : pending[i].kind = "authenticated"

\* There is no extra socket, and nobody reads one.
Lone == ~sockets["extra"].up /\ reader["extra"].at = "read"

\* A flip that came in calm is read in calm; whoever finds the session signed in,
\* with no switch still to reset that, has been told so or is about to be.
Held ==
    LET flip == reader["primary"].flip
        at   == reader["primary"].at
    IN  /\ at \in {"read", "dial", "confirm"} => ~flip.calm
        /\ flip.calm => Cofl!Calm
        /\ (loggedIn /\ ~Unreset /\ at \notin {"confirm", "tell"}) => Vouched
        /\ (at = "push" /\ flip.open /\ flip.calm) => Vouched

\* No order to connect elsewhere comes before a flip that came in calm.
InLine ==
    \A i \in DOMAIN pending :
       (pending[i].kind = "flip" /\ pending[i].flip.calm)
          => \A j \in 1..(i - 1) : pending[j].kind # "connect"

Confirmed == ~multi => Lone /\ Held /\ InLine /\ Cofl!ThisVeryFlip

\* A connection that no unanswered signal concerns is the one of the url, unless
\* a switch has stored another one and will signal it.
Answered ==
    /\ reader["primary"].at # "dial" => sockets["primary"].up
    /\ (sockets["primary"].up /\ seen = signals
         /\ \A i \in DOMAIN switches : switches[i].at = "store")
           => sockets["primary"].host = host

\* After the queue was cleared, what the main loop had already let through is all
\* that gets into it.
Cleared ==
    /\ panel # "none" => paused
    /\ IF panel = "cleared" THEN slipped = 0 \/ (slipped = 1 /\ ~taken)
       ELSE slipped = 0

CoflInv == Cofl!TypeOK /\ Counted /\ Confirmed /\ Answered /\ Cleared

Readers == [at : Cofl!Reading \cup {"dial"}, flip : Cofl!Flips]
Switching == [host : Host, at : {"store", "login", "link", "signal"}]

CoflFlags ==
    /\ multi \in BOOLEAN /\ loggedIn \in BOOLEAN /\ linkShown \in BOOLEAN
    /\ trusted \in BOOLEAN /\ taken \in BOOLEAN /\ paused \in BOOLEAN

CoflData ==
    /\ sockets \in [Cofl!Sockets -> Cofl!Conns \cup {Cofl!NoConn}]
    /\ messages \in 0..MaxMessages /\ dials \in 0..MaxDials
    /\ reader \in [Cofl!Sockets -> Readers]
    /\ host \in Host /\ signals \in 0..MaxSwitches /\ seen \in 0..signals
    /\ pending \in Seq(Cofl!Events) /\ switches \in Seq(Switching)
    /\ queued \in Nat /\ slipped \in 0..queued
    /\ panel \in {"none", "paused", "cleared"}

LEMMA CoflTypes == Cofl!TypeOK <=> CoflFlags /\ CoflData
BY DEF Cofl!TypeOK, CoflFlags, CoflData, Readers, Switching

(* The records of a connection, of a flip and of a reader.                   *)
LEMMA CoflRecords ==
  /\ \A h \in Host \cup {"extra"}, known \in BOOLEAN :
        Cofl!Fresh(h, known) \in Cofl!Conns /\ Cofl!Fresh(h, known).up /\ Cofl!Fresh(h, known).host = h
  /\ Cofl!NoConn.up = FALSE
  /\ Cofl!NoFlip \in Cofl!Flips /\ ~Cofl!NoFlip.calm /\ ~Cofl!NoFlip.open
<1>1. ASSUME NEW h \in Host \cup {"extra"}, NEW known \in BOOLEAN
      PROVE  Cofl!Fresh(h, known) \in Cofl!Conns /\ Cofl!Fresh(h, known).up /\ Cofl!Fresh(h, known).host = h
  BY DEF Cofl!Fresh, Cofl!Conns
<1>2. Cofl!NoConn.up = FALSE BY DEF Cofl!NoConn
<1>3. Cofl!NoFlip \in Cofl!Flips /\ ~Cofl!NoFlip.calm /\ ~Cofl!NoFlip.open
  BY DEF Cofl!NoFlip, Cofl!Flips
<1> QED BY <1>1, <1>2, <1>3

(* A reader goes on to something else.                                       *)
LEMMA CoflGoes ==
  ASSUME CoflData, NEW s \in Cofl!Sockets, NEW at \in Cofl!Reading \cup {"dial"}, Cofl!Go(s, at)
  PROVE  /\ reader' \in [Cofl!Sockets -> Readers]
         /\ reader'[s].at = at /\ reader'[s].flip = reader[s].flip
         /\ \A t \in Cofl!Sockets \ {s} : reader'[t] = reader[t]
<1>1. reader[s] = [at |-> reader[s].at, flip |-> reader[s].flip] /\ reader[s].flip \in Cofl!Flips
  BY DEF CoflData, Readers
<1>2. [reader[s] EXCEPT !.at = at] = [at |-> at, flip |-> reader[s].flip] BY <1>1
<1>3. reader' = [reader EXCEPT ![s] = [at |-> at, flip |-> reader[s].flip]]
  BY <1>2 DEF Cofl!Go, CoflData
<1>4. [at |-> at, flip |-> reader[s].flip] \in Readers BY <1>1 DEF Readers
<1> QED BY <1>3, <1>4 DEF CoflData

(* What is told goes to the end of the channel.                              *)
LEMMA CoflTells ==
  ASSUME CoflData, NEW s \in Cofl!Sockets, NEW e \in Cofl!Events, Cofl!Tell(s, e)
  PROVE  /\ pending' \in Seq(Cofl!Events)
         /\ \/ pending' = pending /\ s # "primary"
            \/ /\ Len(pending') = Len(pending) + 1 /\ pending'[Len(pending) + 1] = e
               /\ \A i \in 1..Len(pending) : pending'[i] = pending[i]
<1>1. pending \in Seq(Cofl!Events) BY DEF CoflData
<1>2. CASE pending' = pending /\ s # "primary" BY <1>1, <1>2
<1>3. CASE pending' = Append(pending, e) BY <1>1, <1>3
<1> QED BY <1>2, <1>3 DEF Cofl!Tell

(* The main loop takes the first event.                                      *)
LEMMA CoflTakes ==
  ASSUME CoflData, NEW kind, Cofl!Takes(kind)
  PROVE  /\ pending' \in Seq(Cofl!Events) /\ ~taken
         /\ Len(pending) \in Nat \ {0} /\ Len(pending') = Len(pending) - 1
         /\ pending[1] = Head(pending) /\ pending[1].kind = kind /\ pending[1] \in Cofl!Events
         /\ \A i \in 1..Len(pending') : pending'[i] = pending[i + 1]
<1>1. pending \in Seq(Cofl!Events) /\ pending # <<>> BY DEF CoflData, Cofl!Takes
<1>2. pending' = Tail(pending) /\ Head(pending).kind = kind /\ ~taken BY DEF Cofl!Takes
<1>3. Head(pending) = pending[1] /\ pending[1] \in Cofl!Events /\ Len(pending) \in Nat \ {0}
  BY <1>1
<1> QED BY <1>1, <1>2, <1>3

(* A switch takes its next step, and the last one takes it away.             *)
LEMMA SwitchingKeeps ==
  ASSUME CoflData, NEW i \in DOMAIN switches, NEW at \in {"login", "link", "signal"},
         Cofl!Step(i, at)
  PROVE  /\ switches' \in Seq(Switching) /\ Len(switches') = Len(switches)
         /\ switches'[i].at = at
         /\ \A j \in DOMAIN switches : j # i => switches'[j] = switches[j]
<1>1. switches \in Seq(Switching) BY DEF CoflData
<1>2. switches[i] \in Switching BY <1>1
<1>3. [switches[i] EXCEPT !.at = at] \in Switching /\ [switches[i] EXCEPT !.at = at].at = at
  BY <1>2 DEF Switching
<1>4. switches' = [switches EXCEPT ![i] = [switches[i] EXCEPT !.at = at]]
  BY <1>1 DEF Cofl!Step
<1>5. ASSUME NEW w \in Switching, switches' = [switches EXCEPT ![i] = w]
      PROVE  /\ switches' \in Seq(Switching) /\ Len(switches') = Len(switches)
             /\ switches'[i] = w
             /\ \A j \in DOMAIN switches : j # i => switches'[j] = switches[j]
  BY <1>1, <1>5
<1> QED BY <1>3, <1>4, <1>5

LEMMA SwitchingEnds ==
  ASSUME CoflData, NEW i \in DOMAIN switches, switches' = Cofl!RemoveAt(switches, i)
  PROVE  /\ switches' \in Seq(Switching) /\ Len(switches') = Len(switches) - 1
         /\ \A j \in DOMAIN switches' : \E k \in DOMAIN switches \ {i} : switches'[j] = switches[k]
         /\ \A k \in DOMAIN switches \ {i} : \E j \in DOMAIN switches' : switches'[j] = switches[k]
<1>1. switches \in Seq(Switching) /\ i \in 1..Len(switches) BY DEF CoflData
<1>2. switches' = RemoveAt(switches, i) BY DEF Cofl!RemoveAt, RemoveAt
<1>3. /\ switches' \in Seq(Switching) /\ Len(switches') = Len(switches) - 1
      /\ \A j \in 1..Len(switches) - 1 :
            switches'[j] = IF j < i THEN switches[j] ELSE switches[j + 1]
  BY <1>1, <1>2, RemoveAtProps
<1>4. ASSUME NEW j \in DOMAIN switches'
      PROVE  \E k \in DOMAIN switches \ {i} : switches'[j] = switches[k]
  <2>1. j \in 1..Len(switches) - 1 BY <1>3
  <2>2. CASE j < i BY <1>1, <1>3, <2>1, <2>2
  <2>3. CASE ~(j < i)
    <3>1. j + 1 \in DOMAIN switches \ {i} /\ switches'[j] = switches[j + 1] BY <1>1, <1>3, <2>1, <2>3
    <3> QED BY <3>1
  <2> QED BY <2>2, <2>3
<1>5. ASSUME NEW k \in DOMAIN switches \ {i}
      PROVE  \E j \in DOMAIN switches' : switches'[j] = switches[k]
  <2>1. k \in 1..Len(switches) /\ k # i BY <1>1
  <2>2. CASE k < i
    <3>1. k \in DOMAIN switches' /\ switches'[k] = switches[k] BY <1>1, <1>3, <2>1, <2>2
    <3> QED BY <3>1
  <2>3. CASE k > i
    <3>1. k - 1 \in DOMAIN switches' /\ switches'[k - 1] = switches[k]
      BY <1>1, <1>3, <2>1, <2>3
    <3> QED BY <3>1
  <2> QED BY <1>1, <2>1, <2>2, <2>3
<1> QED BY <1>3, <1>4, <1>5

LEMMA CoflFlagsKeep == CoflFlags /\ [Cofl!Next]_(Cofl!vars) => CoflFlags'
<1> SUFFICES ASSUME CoflFlags, [Cofl!Next]_(Cofl!vars) PROVE CoflFlags' OBVIOUS
<1>1. multi' = multi
  BY DEF Cofl!Next, Cofl!vars, Cofl!socket, Cofl!SignIn, Cofl!Flip, Cofl!LoggedIn, Cofl!Confirm,
     Cofl!AuthPrompt, Cofl!Greeting, Cofl!Note, Cofl!Swap, Cofl!TellResumed, Cofl!Push,
     Cofl!ConnectElsewhere, Cofl!Drop, Cofl!Switched, Cofl!Dial, Cofl!Dialled, Cofl!Switching,
     Cofl!Authenticated, Cofl!FlipDropped, Cofl!FlipPasses, Cofl!Enqueue, Cofl!Connect,
     Cofl!Disconnect
<1>2. loggedIn' \in BOOLEAN
  <2>1. loggedIn' = loggedIn \/ loggedIn' = TRUE \/ loggedIn' = FALSE
    BY DEF Cofl!Next, Cofl!vars, Cofl!flags, Cofl!SignIn, Cofl!Flip, Cofl!LoggedIn, Cofl!Confirm,
       Cofl!AuthPrompt, Cofl!Greeting, Cofl!Note, Cofl!Swap, Cofl!TellResumed, Cofl!Push,
       Cofl!ConnectElsewhere, Cofl!Drop, Cofl!Switched, Cofl!Dial, Cofl!Dialled, Cofl!Switching,
       Cofl!SwitchRegion, Cofl!Authenticated, Cofl!FlipDropped, Cofl!FlipPasses, Cofl!Enqueue,
       Cofl!Connect, Cofl!Disconnect
  <2> QED BY <2>1 DEF CoflFlags
<1>3. linkShown' \in BOOLEAN
  <2>1. linkShown' = linkShown \/ linkShown' = TRUE \/ linkShown' = FALSE
    BY DEF Cofl!Next, Cofl!vars, Cofl!flags, Cofl!SignIn, Cofl!Flip, Cofl!LoggedIn, Cofl!Confirm,
       Cofl!AuthPrompt, Cofl!Greeting, Cofl!Note, Cofl!Swap, Cofl!TellResumed, Cofl!Push,
       Cofl!ConnectElsewhere, Cofl!Drop, Cofl!Switched, Cofl!Dial, Cofl!Dialled, Cofl!Switching,
       Cofl!SwitchRegion, Cofl!Authenticated, Cofl!FlipDropped, Cofl!FlipPasses, Cofl!Enqueue,
       Cofl!Connect, Cofl!Disconnect
  <2> QED BY <2>1 DEF CoflFlags
<1>4. trusted' \in BOOLEAN
  <2>1. trusted' = trusted \/ trusted' = TRUE \/ trusted' = FALSE
    BY DEF Cofl!Next, Cofl!vars, Cofl!intake, Cofl!SignIn, Cofl!Flip, Cofl!LoggedIn, Cofl!Confirm,
       Cofl!AuthPrompt, Cofl!Greeting, Cofl!Note, Cofl!Swap, Cofl!TellResumed, Cofl!Push,
       Cofl!ConnectElsewhere, Cofl!Drop, Cofl!Switched, Cofl!Dial, Cofl!Dialled, Cofl!Switching,
       Cofl!Authenticated, Cofl!FlipDropped, Cofl!FlipPasses, Cofl!Enqueue,
       Cofl!Connect, Cofl!Disconnect
  <2> QED BY <2>1 DEF CoflFlags
<1>5. taken' \in BOOLEAN
  <2>1. taken' = taken \/ taken' = TRUE \/ taken' = FALSE
    BY DEF Cofl!Next, Cofl!vars, Cofl!intake, Cofl!SignIn, Cofl!Flip, Cofl!LoggedIn, Cofl!Confirm,
       Cofl!AuthPrompt, Cofl!Greeting, Cofl!Note, Cofl!Swap, Cofl!TellResumed, Cofl!Push,
       Cofl!ConnectElsewhere, Cofl!Drop, Cofl!Switched, Cofl!Dial, Cofl!Dialled, Cofl!Switching,
       Cofl!Authenticated, Cofl!FlipDropped, Cofl!FlipPasses, Cofl!Enqueue,
       Cofl!Connect, Cofl!Disconnect
  <2> QED BY <2>1 DEF CoflFlags
<1>6. paused' \in BOOLEAN
  <2>1. paused' = paused \/ paused' = TRUE
    BY DEF Cofl!Next, Cofl!vars, Cofl!web, Cofl!SignIn, Cofl!Flip, Cofl!LoggedIn, Cofl!Confirm,
       Cofl!AuthPrompt, Cofl!Greeting, Cofl!Note, Cofl!Swap, Cofl!TellResumed, Cofl!Push,
       Cofl!ConnectElsewhere, Cofl!Drop, Cofl!Switched, Cofl!Dial, Cofl!Dialled, Cofl!Switching,
       Cofl!Authenticated, Cofl!FlipDropped, Cofl!FlipPasses, Cofl!Enqueue,
       Cofl!Connect, Cofl!Disconnect
  <2> QED BY <2>1 DEF CoflFlags
<1> QED BY <1>1, <1>2, <1>3, <1>4, <1>5, <1>6 DEF CoflFlags

(* What the reader holds once it has looked at the flag.                     *)
LEMMA NoteMakes ==
  ASSUME reader \in [Cofl!Sockets -> Readers], NEW s \in Cofl!Sockets, Cofl!Note(s)
  PROVE  \E w \in Readers : /\ reader' = [reader EXCEPT ![s] = w]
                            /\ w.at = IF linkShown THEN "push" ELSE "swap"
                            /\ w.flip.calm = reader[s].flip.calm /\ w.flip.open = ~linkShown
<1> DEFINE f == [reader[s].flip EXCEPT !.open = ~linkShown]
           w == [at |-> IF linkShown THEN "push" ELSE "swap", flip |-> f]
<1>1. reader[s] = [at |-> reader[s].at, flip |-> reader[s].flip] /\ reader[s].flip \in Cofl!Flips
  BY DEF Readers
<1>2. f \in Cofl!Flips /\ f.calm = reader[s].flip.calm
  BY <1>1 DEF Cofl!Flips
<1>3. f.open = ~linkShown BY <1>1 DEF Cofl!Flips
<1>4. w \in Readers BY <1>2 DEF Readers, Cofl!Reading
<1>5. reader' = [reader EXCEPT ![s] = w]
  BY DEF Cofl!Note
<1>6. w.at = IF linkShown THEN "push" ELSE "swap" OBVIOUS
<1>7. w.flip = f OBVIOUS
<1> HIDE DEF w, f
<1> QED BY <1>2, <1>3, <1>4, <1>5, <1>6, <1>7

(* The sockets' part of the data, and the main loop's.                       *)
CoflSide ==
    /\ sockets \in [Cofl!Sockets -> Cofl!Conns \cup {Cofl!NoConn}]
    /\ messages \in 0..MaxMessages /\ dials \in 0..MaxDials
    /\ reader \in [Cofl!Sockets -> Readers]
LoopSide ==
    /\ host \in Host /\ signals \in 0..MaxSwitches /\ seen \in 0..signals
    /\ pending \in Seq(Cofl!Events) /\ switches \in Seq(Switching)
    /\ queued \in Nat /\ slipped \in 0..queued
    /\ panel \in {"none", "paused", "cleared"}

LEMMA Sides == CoflData <=> CoflSide /\ LoopSide
BY DEF CoflData, CoflSide, LoopSide

(* Steps that leave the switches, the counts and the panel alone.            *)
LEMMA LoopRests ==
  ASSUME LoopSide, Counted, UNCHANGED <<host, signals, switches, queued, slipped, panel>>,
         pending' \in Seq(Cofl!Events), seen' \in 0..signals
  PROVE  LoopSide' /\ Counted'
BY DEF LoopSide, Counted

LEMMA CoflSideRests ==
  ASSUME CoflSide, UNCHANGED <<sockets, messages, dials, reader>> PROVE CoflSide'
BY DEF CoflSide

LEMMA CoflMessages ==
  ASSUME CoflData, Counted, NEW s \in Cofl!Sockets,
         \/ Cofl!Flip(s) \/ Cofl!LoggedIn(s) \/ Cofl!AuthPrompt(s) \/ Cofl!Greeting(s)
         \/ Cofl!ConnectElsewhere(s)
  PROVE  CoflData' /\ Counted'
<1>0. CoflSide /\ LoopSide BY Sides
<1>1. messages' = messages + 1 /\ messages' \in 0..MaxMessages /\ dials' = dials
  BY <1>0, ServicesAssumption DEF CoflSide, Cofl!Flip, Cofl!LoggedIn, Cofl!AuthPrompt, Cofl!Greeting,
     Cofl!ConnectElsewhere, Cofl!Message
<1>2. UNCHANGED <<host, signals, switches, queued, slipped, panel, seen>>
  BY DEF Cofl!Flip, Cofl!LoggedIn, Cofl!AuthPrompt, Cofl!Greeting, Cofl!ConnectElsewhere,
     Cofl!url, Cofl!intake, Cofl!web
<1>3. pending' \in Seq(Cofl!Events)
  <2>1. CASE Cofl!Flip(s) \/ Cofl!LoggedIn(s) \/ Cofl!AuthPrompt(s)
    BY <1>0, <2>1 DEF LoopSide, Cofl!Flip, Cofl!LoggedIn, Cofl!AuthPrompt
  <2>2. CASE Cofl!Greeting(s)
    <3>1. [kind |-> "authenticated"] \in Cofl!Events BY DEF Cofl!Events
    <3> QED BY <2>2, <3>1, CoflTells DEF Cofl!Greeting
  <2>3. CASE Cofl!ConnectElsewhere(s)
    <3>1. PICK h \in Host : Cofl!Tell(s, [kind |-> "connect", host |-> h])
      BY <2>3 DEF Cofl!ConnectElsewhere
    <3>2. [kind |-> "connect", host |-> h] \in Cofl!Events BY DEF Cofl!Events
    <3> QED BY <3>1, <3>2, CoflTells
  <2> QED BY <2>1, <2>2, <2>3
<1>4. reader' \in [Cofl!Sockets -> Readers]
  <2>1. CASE Cofl!Flip(s)
    <3>1. PICK f : /\ reader' = [reader EXCEPT ![s] = [at |-> "check", flip |-> f]]
                   /\ f = [unasked |-> \A t \in Cofl!Sockets : ~sockets[t].up \/ ~sockets[t].asked,
                           open |-> FALSE, calm |-> Cofl!Calm]
      BY <2>1 DEF Cofl!Flip
    <3>2. f \in Cofl!Flips
      <4>1. (\A t \in Cofl!Sockets : ~sockets[t].up \/ ~sockets[t].asked) \in BOOLEAN OBVIOUS
      <4>2. Cofl!Calm \in BOOLEAN BY DEF Cofl!Calm
      <4> QED BY <3>1, <4>1, <4>2 DEF Cofl!Flips
    <3>3. [at |-> "check", flip |-> f] \in Readers BY <3>2 DEF Readers, Cofl!Reading
    <3> QED BY <1>0, <3>1, <3>3 DEF CoflSide
  <2>2. CASE Cofl!LoggedIn(s) BY <2>2, CoflGoes DEF Cofl!LoggedIn, Cofl!Reading
  <2>3. CASE Cofl!AuthPrompt(s) \/ Cofl!Greeting(s) \/ Cofl!ConnectElsewhere(s)
    BY <1>0, <2>3 DEF CoflSide, Cofl!AuthPrompt, Cofl!Greeting, Cofl!ConnectElsewhere
  <2> QED BY <2>1, <2>2, <2>3
<1>5. sockets' \in [Cofl!Sockets -> Cofl!Conns \cup {Cofl!NoConn}]
  <2>1. CASE Cofl!AuthPrompt(s)
    <3>1. sockets[s].up /\ sockets' = [sockets EXCEPT ![s] = [sockets[s] EXCEPT !.asked = TRUE]]
      BY <2>1 DEF Cofl!AuthPrompt, Cofl!Message
    <3>2. sockets[s] \in Cofl!Conns BY <1>0, <3>1, CoflRecords DEF CoflSide
    <3>3. [sockets[s] EXCEPT !.asked = TRUE] \in Cofl!Conns BY <3>2 DEF Cofl!Conns
    <3> QED BY <1>0, <3>1, <3>3 DEF CoflSide
  <2>2. CASE Cofl!Flip(s) \/ Cofl!LoggedIn(s) \/ Cofl!Greeting(s) \/ Cofl!ConnectElsewhere(s)
    BY <1>0, <2>2 DEF CoflSide, Cofl!Flip, Cofl!LoggedIn, Cofl!Greeting, Cofl!ConnectElsewhere
  <2> QED BY <2>1, <2>2
<1>6. CoflSide' BY <1>0, <1>1, <1>4, <1>5 DEF CoflSide
<1>7. seen' \in 0..signals BY <1>0, <1>2 DEF LoopSide
<1> QED BY <1>0, <1>2, <1>3, <1>6, <1>7, LoopRests DEF CoflData, CoflSide, LoopSide

LEMMA CoflReads ==
  ASSUME CoflData, Counted, NEW s \in Cofl!Sockets,
         \/ Cofl!Confirm(s) \/ Cofl!Note(s) \/ Cofl!Swap(s) \/ Cofl!TellResumed(s) \/ Cofl!Push(s)
  PROVE  CoflData' /\ Counted'
<1>0. CoflSide /\ LoopSide BY Sides
<1>1. UNCHANGED <<sockets, messages, dials, host, signals, switches, queued, slipped, panel, seen>>
  BY DEF Cofl!Confirm, Cofl!Note, Cofl!Swap, Cofl!TellResumed, Cofl!Push, Cofl!url, Cofl!intake,
     Cofl!web
<1>2. reader[s] \in Readers /\ reader[s].flip \in Cofl!Flips /\ reader[s].at \in Cofl!Reading \cup {"dial"}
  BY <1>0 DEF CoflSide, Readers
<1>3. pending' \in Seq(Cofl!Events)
  <2>1. CASE Cofl!Note(s) \/ Cofl!Swap(s)
    BY <1>0, <2>1 DEF LoopSide, Cofl!Note, Cofl!Swap
  <2>2. CASE Cofl!Confirm(s) \/ Cofl!TellResumed(s)
    <3>1. [kind |-> "authenticated"] \in Cofl!Events BY DEF Cofl!Events
    <3> QED BY <2>2, <3>1, CoflTells DEF Cofl!Confirm, Cofl!TellResumed
  <2>3. CASE Cofl!Push(s)
    <3>1. [kind |-> "flip", flip |-> reader[s].flip] \in Cofl!Events BY <1>2 DEF Cofl!Events
    <3> QED BY <2>3, <3>1, CoflTells DEF Cofl!Push
  <2> QED BY <2>1, <2>2, <2>3
<1>4. reader' \in [Cofl!Sockets -> Readers]
  <2>1. CASE Cofl!Confirm(s) \/ Cofl!TellResumed(s)
    BY <2>1, CoflGoes DEF Cofl!Confirm, Cofl!TellResumed, Cofl!Reading
  <2>2. CASE Cofl!Swap(s)
    BY <2>2, CoflGoes DEF Cofl!Swap, Cofl!Reading
  <2>3. CASE Cofl!Note(s)
    <3>1. PICK w \in Readers : reader' = [reader EXCEPT ![s] = w]
      BY <1>0, <2>3, NoteMakes DEF CoflSide
    <3> QED BY <1>0, <3>1 DEF CoflSide
  <2>4. CASE Cofl!Push(s)
    <3>1. [at |-> "read", flip |-> Cofl!NoFlip] \in Readers
      BY CoflRecords DEF Readers, Cofl!Reading
    <3> QED BY <1>0, <2>4, <3>1 DEF CoflSide, Cofl!Push
  <2> QED BY <2>1, <2>2, <2>3, <2>4
<1>5. CoflSide' BY <1>0, <1>1, <1>4 DEF CoflSide
<1>6. seen' \in 0..signals BY <1>0, <1>1 DEF LoopSide
<1> QED BY <1>0, <1>1, <1>3, <1>5, <1>6, LoopRests DEF CoflData, CoflSide, LoopSide

LEMMA CoflConnects ==
  ASSUME CoflData, Counted, NEW s \in Cofl!Sockets,
         Cofl!SignIn \/ Cofl!Drop(s) \/ Cofl!Switched \/ Cofl!Dial(s) \/ Cofl!Dialled(s)
  PROVE  CoflData' /\ Counted'
<1>0. CoflSide /\ LoopSide BY Sides
<1>1. UNCHANGED <<messages, host, signals, switches, queued, slipped, panel, pending>>
  BY DEF Cofl!SignIn, Cofl!Drop, Cofl!Switched, Cofl!Dial, Cofl!Dialled, Cofl!url, Cofl!intake,
     Cofl!web
<1>2. dials' \in 0..MaxDials
  BY <1>0, ServicesAssumption
     DEF CoflSide, Cofl!SignIn, Cofl!Drop, Cofl!Switched, Cofl!Dial, Cofl!Dialled
<1>3. seen' \in 0..signals
  BY <1>0 DEF LoopSide, Cofl!SignIn, Cofl!Drop, Cofl!Switched, Cofl!Dial, Cofl!Dialled
<1>4. "primary" \in Cofl!Sockets BY DEF Cofl!Sockets
<1>5. reader' \in [Cofl!Sockets -> Readers]
  <2>1. CASE Cofl!SignIn \/ Cofl!Dial(s) BY <1>0, <2>1 DEF CoflSide, Cofl!SignIn, Cofl!Dial
  <2>2. CASE Cofl!Switched BY <1>4, <2>2, CoflGoes DEF Cofl!Switched
  <2>3. CASE Cofl!Drop(s) \/ Cofl!Dialled(s)
    BY <2>3, CoflGoes DEF Cofl!Drop, Cofl!Dialled, Cofl!Reading
  <2> QED BY <2>1, <2>2, <2>3
<1>6. sockets' \in [Cofl!Sockets -> Cofl!Conns \cup {Cofl!NoConn}]
  <2>1. CASE Cofl!SignIn
    <3>1. ASSUME NEW x \in Cofl!Sockets, sockets[x].up
          PROVE  [sockets[x] EXCEPT !.known = TRUE] \in Cofl!Conns
      <4>1. sockets[x] \in Cofl!Conns BY <1>0, <3>1, CoflRecords DEF CoflSide
      <4> QED BY <4>1 DEF Cofl!Conns
    <3>2. sockets' = [x \in Cofl!Sockets |-> IF sockets[x].up THEN [sockets[x] EXCEPT !.known = TRUE]
                                             ELSE sockets[x]]
      BY <2>1 DEF Cofl!SignIn
    <3>3. \A x \in Cofl!Sockets : sockets'[x] \in Cofl!Conns \cup {Cofl!NoConn}
      BY <1>0, <3>1, <3>2 DEF CoflSide
    <3> QED BY <3>2, <3>3
  <2>2. CASE Cofl!Drop(s) \/ Cofl!Switched
    BY <1>0, <2>2 DEF CoflSide, Cofl!Drop, Cofl!Switched
  <2>3. CASE Cofl!Dial(s)
    <3>1. PICK known \in BOOLEAN : sockets' = [sockets EXCEPT ![s] = Cofl!Fresh(Cofl!Url(s), known)]
      BY <2>3 DEF Cofl!Dial
    <3>2. Cofl!Url(s) \in Host \cup {"extra"} BY <1>0 DEF LoopSide, Cofl!Url
    <3>3. Cofl!Fresh(Cofl!Url(s), known) \in Cofl!Conns BY <3>2, CoflRecords
    <3> QED BY <1>0, <3>1, <3>3 DEF CoflSide
  <2>4. CASE Cofl!Dialled(s) BY <1>0, <2>4 DEF CoflSide, Cofl!Dialled
  <2> QED BY <2>1, <2>2, <2>3, <2>4
<1>7. CoflSide' BY <1>0, <1>1, <1>2, <1>5, <1>6 DEF CoflSide
<1>8. pending' \in Seq(Cofl!Events) BY <1>0, <1>1 DEF LoopSide
<1> QED BY <1>0, <1>1, <1>3, <1>7, <1>8, LoopRests DEF CoflData, CoflSide, LoopSide

LEMMA CoflLoops ==
  ASSUME CoflData, Counted, Cleared,
         \/ Cofl!Switching \/ Cofl!Authenticated \/ Cofl!FlipDropped \/ Cofl!FlipPasses
         \/ Cofl!Enqueue \/ Cofl!Connect \/ Cofl!Disconnect
  PROVE  CoflData' /\ Counted'
<1>0. CoflSide /\ LoopSide BY Sides
<1>1. UNCHANGED <<sockets, messages, dials, reader, seen>>
  BY DEF Cofl!Switching, Cofl!Authenticated, Cofl!FlipDropped, Cofl!FlipPasses, Cofl!Enqueue,
     Cofl!Connect, Cofl!Disconnect, Cofl!socket
<1>2. CoflSide' BY <1>0, <1>1, CoflSideRests
<1>3. seen' \in 0..signals BY <1>0, <1>1 DEF LoopSide
<1>4. CASE Cofl!Authenticated \/ Cofl!FlipDropped \/ Cofl!FlipPasses
  <2>1. pending' \in Seq(Cofl!Events)
    BY <1>4, CoflTakes DEF Cofl!Authenticated, Cofl!FlipDropped, Cofl!FlipPasses
  <2>2. UNCHANGED <<host, signals, switches, queued, slipped, panel>>
    BY <1>4 DEF Cofl!Authenticated, Cofl!FlipDropped, Cofl!FlipPasses, Cofl!url, Cofl!intake,
       Cofl!web
  <2> QED BY <1>0, <1>2, <1>3, <2>1, <2>2, LoopRests DEF CoflData, CoflSide, LoopSide
<1>5. CASE Cofl!Enqueue
  <2>1. /\ queued' = queued + 1 /\ slipped' \in {slipped, slipped + 1}
        /\ UNCHANGED <<host, signals, pending, switches, panel>>
    BY <1>0, <1>5 DEF LoopSide, Cofl!Enqueue, Cofl!url, Cofl!web
  <2>2. queued' \in Nat /\ slipped' \in 0..queued' BY <1>0, <2>1 DEF LoopSide
  <2>3. LoopSide' BY <1>0, <1>1, <2>1, <2>2 DEF LoopSide
  <2> QED BY <1>2, <2>1, <2>3 DEF CoflData, CoflSide, LoopSide, Counted
<1>6. CASE Cofl!Connect
  <2>1. /\ pending' \in Seq(Cofl!Events) /\ Head(pending) \in Cofl!Events
        /\ Head(pending).kind = "connect"
    BY <1>6, CoflTakes DEF Cofl!Connect
  <2>2. Head(pending).host \in Host BY <2>1 DEF Cofl!Events
  <2>3. /\ switches' = Append(switches, [host |-> Head(pending).host, at |-> "store"])
        /\ Len(switches) + signals < MaxSwitches
        /\ UNCHANGED <<host, signals, queued, slipped, panel>>
    BY <1>6 DEF Cofl!Connect, Cofl!url, Cofl!web
  <2>4. [host |-> Head(pending).host, at |-> "store"] \in Switching BY <2>2 DEF Switching
  <2>5. switches' \in Seq(Switching) /\ Len(switches') = Len(switches) + 1
    BY <1>0, <2>3, <2>4 DEF LoopSide
  <2>6. LoopSide' BY <1>0, <1>1, <2>1, <2>3, <2>5 DEF LoopSide
  <2>7. Len(switches) \in Nat /\ signals \in Nat BY <1>0 DEF LoopSide
  <2>8. Counted'
    <3>1. MaxSwitches \in Nat BY ServicesAssumption
    <3>2. signals' = signals /\ Len(switches) + signals < MaxSwitches BY <2>3
    <3> QED BY <2>5, <2>7, <3>1, <3>2 DEF Counted
  <2> QED BY <1>2, <2>6, <2>8 DEF CoflData, CoflSide, LoopSide
<1>7. CASE Cofl!Disconnect
  <2>1. /\ queued' = queued \/ (queued' = 0 /\ panel = "paused")
        /\ panel' \in {"paused", "cleared"} /\ slipped' = slipped
        /\ UNCHANGED <<host, signals, pending, switches>>
    BY <1>7 DEF Cofl!Disconnect, Cofl!url, Cofl!intake
  <2>2. panel = "paused" => slipped = 0 BY DEF Cleared
  <2>3. queued' \in Nat /\ slipped' \in 0..queued' BY <1>0, <2>1, <2>2 DEF LoopSide
  <2>4. LoopSide' BY <1>0, <1>1, <2>1, <2>3 DEF LoopSide
  <2> QED BY <1>2, <2>1, <2>4 DEF CoflData, CoflSide, LoopSide, Counted
<1>8. CASE Cofl!Switching
  <2>1. PICK i \in DOMAIN switches : Cofl!SwitchRegion(i) BY <1>8 DEF Cofl!Switching
  <2>2. UNCHANGED <<pending, queued, slipped, panel>> BY <1>8 DEF Cofl!Switching, Cofl!intake, Cofl!web
  <2>3. Len(switches) \in Nat /\ switches[i] \in Switching BY <1>0 DEF LoopSide
  <2>4. CASE switches' = Cofl!RemoveAt(switches, i) /\ signals' = signals + 1 /\ host' = host
    <3>1. switches' \in Seq(Switching) /\ Len(switches') = Len(switches) - 1
      BY <2>4, SwitchingEnds
    <3>2. signals' \in 0..MaxSwitches /\ Counted'
      <4>1. signals \in Nat /\ MaxSwitches \in Nat BY <1>0, ServicesAssumption DEF LoopSide
      <4>2. Len(switches) >= 1 BY <1>0, <2>1 DEF LoopSide
      <4> QED BY <2>3, <2>4, <3>1, <4>1, <4>2 DEF Counted
    <3>3. seen' \in 0..signals' BY <1>0, <1>1, <2>4 DEF LoopSide
    <3>4. LoopSide' BY <1>0, <2>2, <2>4, <3>1, <3>2, <3>3 DEF LoopSide
    <3> QED BY <1>2, <3>2, <3>4 DEF CoflData, CoflSide, LoopSide
  <2>5. ASSUME NEW at \in {"login", "link", "signal"}, Cofl!Step(i, at), signals' = signals,
               host' \in {host, switches[i].host}
        PROVE  CoflData' /\ Counted'
    <3>1. switches' \in Seq(Switching) /\ Len(switches') = Len(switches)
      BY <2>5, SwitchingKeeps
    <3>2. host' \in Host BY <1>0, <2>3, <2>5 DEF LoopSide, Switching
    <3>3. LoopSide' BY <1>0, <1>1, <2>2, <2>5, <3>1, <3>2 DEF LoopSide
    <3> QED BY <1>2, <2>5, <3>1, <3>3 DEF CoflData, CoflSide, LoopSide, Counted
  <2> QED BY <2>1, <2>4, <2>5 DEF Cofl!SwitchRegion, Cofl!url
<1> QED BY <1>4, <1>5, <1>6, <1>7, <1>8

LEMMA ClearedKeeps == Cleared /\ [Cofl!Next]_(Cofl!vars) => Cleared'
<1> SUFFICES ASSUME Cleared, [Cofl!Next]_(Cofl!vars) PROVE Cleared' OBVIOUS
<1>1. CASE UNCHANGED <<panel, paused, slipped, taken>> BY <1>1 DEF Cleared
<1>2. CASE Cofl!FlipPasses
  <2>1. ~paused /\ taken' = TRUE /\ UNCHANGED <<panel, paused, slipped>>
    BY <1>2 DEF Cofl!FlipPasses, Cofl!web
  <2> QED BY <2>1 DEF Cleared
<1>3. CASE Cofl!Enqueue
  <2>1. /\ taken /\ taken' = FALSE /\ UNCHANGED <<panel, paused>>
        /\ slipped' = slipped + (IF panel = "cleared" THEN 1 ELSE 0)
    BY <1>3 DEF Cofl!Enqueue, Cofl!web
  <2>2. CASE panel = "cleared"
    <3>1. slipped = 0 /\ slipped' = 1 BY <2>1, <2>2 DEF Cleared
    <3> QED BY <2>1, <2>2, <3>1 DEF Cleared
  <2>3. CASE panel # "cleared"
    <3>1. slipped = 0 /\ slipped' = 0 BY <2>1, <2>3 DEF Cleared
    <3> QED BY <2>1, <2>3, <3>1 DEF Cleared
  <2> QED BY <2>2, <2>3
<1>4. CASE Cofl!Disconnect
  BY <1>4 DEF Cleared, Cofl!Disconnect, Cofl!intake
<1>5. CASE UNCHANGED Cofl!vars BY <1>1, <1>5 DEF Cofl!vars, Cofl!web, Cofl!intake
<1>6. CASE \/ Cofl!SignIn
           \/ \E s \in Cofl!Sockets : \/ Cofl!Flip(s) \/ Cofl!LoggedIn(s) \/ Cofl!Confirm(s)
                                      \/ Cofl!AuthPrompt(s) \/ Cofl!Greeting(s) \/ Cofl!Note(s)
                                      \/ Cofl!Swap(s) \/ Cofl!TellResumed(s) \/ Cofl!Push(s)
           \/ Cofl!ConnectElsewhere("primary")
  BY <1>1, <1>6 DEF Cofl!SignIn, Cofl!Flip, Cofl!LoggedIn, Cofl!Confirm, Cofl!AuthPrompt,
     Cofl!Greeting, Cofl!Note, Cofl!Swap, Cofl!TellResumed, Cofl!Push, Cofl!ConnectElsewhere,
     Cofl!web, Cofl!intake
<1>7. CASE \/ \E s \in Cofl!Sockets : Cofl!Drop(s) \/ Cofl!Dial(s) \/ Cofl!Dialled(s)
           \/ Cofl!Switched \/ Cofl!Switching
           \/ Cofl!Authenticated \/ Cofl!FlipDropped \/ Cofl!Connect
  BY <1>1, <1>7 DEF Cofl!Drop, Cofl!Switched, Cofl!Dial, Cofl!Dialled, Cofl!Switching,
     Cofl!Authenticated, Cofl!FlipDropped, Cofl!Connect, Cofl!web, Cofl!intake
<1> QED BY <1>2, <1>3, <1>4, <1>5, <1>6, <1>7 DEF Cofl!Next

LEMMA AnsweredStays ==
  ASSUME Answered, UNCHANGED <<host, signals, seen, switches>>,
         sockets'["primary"].up = sockets["primary"].up,
         sockets'["primary"].host = sockets["primary"].host,
         reader["primary"].at = "dial" => reader'["primary"].at = "dial"
  PROVE  Answered'
BY DEF Answered

(* What a reader does with what came leaves the connection as it is.         *)
LEMMA ReaderAnswers ==
  ASSUME CoflData, Answered, NEW s \in Cofl!Sockets,
         \/ Cofl!Flip(s) \/ Cofl!LoggedIn(s) \/ Cofl!Confirm(s) \/ Cofl!AuthPrompt(s)
         \/ Cofl!Greeting(s) \/ Cofl!Note(s) \/ Cofl!Swap(s) \/ Cofl!TellResumed(s)
         \/ Cofl!Push(s) \/ Cofl!ConnectElsewhere(s)
  PROVE  Answered'
<1>0. "primary" \in Cofl!Sockets BY DEF Cofl!Sockets
<1>1. UNCHANGED <<host, signals, seen, switches>>
  BY DEF Cofl!Flip, Cofl!LoggedIn, Cofl!Confirm, Cofl!AuthPrompt, Cofl!Greeting, Cofl!Note,
     Cofl!Swap, Cofl!TellResumed, Cofl!Push, Cofl!ConnectElsewhere, Cofl!url
<1>2. /\ sockets'["primary"].up = sockets["primary"].up
      /\ sockets'["primary"].host = sockets["primary"].host
  <2>1. CASE Cofl!AuthPrompt(s)
    <3>1. sockets' = [sockets EXCEPT ![s] = [sockets[s] EXCEPT !.asked = TRUE]] /\ sockets[s].up
      BY <2>1 DEF Cofl!AuthPrompt, Cofl!Message
    <3>2. sockets[s] \in Cofl!Conns BY <3>1, CoflRecords DEF CoflData
    <3>3. /\ [sockets[s] EXCEPT !.asked = TRUE].up = sockets[s].up
          /\ [sockets[s] EXCEPT !.asked = TRUE].host = sockets[s].host
      BY <3>2 DEF Cofl!Conns
    <3> QED BY <1>0, <3>1, <3>3 DEF CoflData
  <2>2. CASE sockets' = sockets BY <2>2
  <2> QED BY <2>1, <2>2 DEF Cofl!Flip, Cofl!LoggedIn, Cofl!Confirm, Cofl!Greeting, Cofl!Note,
             Cofl!Swap, Cofl!TellResumed, Cofl!Push, Cofl!ConnectElsewhere
<1>3. reader["primary"].at = "dial" => reader'["primary"].at = "dial"
  <2>1. CASE reader[s].at # "dial"
    <3>1. \A t \in Cofl!Sockets \ {s} : reader'[t] = reader[t]
      BY CoflGoes DEF CoflData, Cofl!Reading, Cofl!Flip, Cofl!LoggedIn, Cofl!Confirm,
         Cofl!AuthPrompt, Cofl!Greeting, Cofl!Note, Cofl!Swap, Cofl!TellResumed, Cofl!Push,
         Cofl!ConnectElsewhere
    <3> QED BY <1>0, <2>1, <3>1
  <2> QED BY <2>1 DEF Cofl!Flip, Cofl!LoggedIn, Cofl!Confirm, Cofl!AuthPrompt, Cofl!Greeting,
             Cofl!Note, Cofl!Swap, Cofl!TellResumed, Cofl!Push, Cofl!ConnectElsewhere, Cofl!Message
<1> QED BY <1>1, <1>2, <1>3, AnsweredStays

LEMMA AnsweredKeeps == CoflData /\ Answered /\ [Cofl!Next]_(Cofl!vars) => Answered'
<1> SUFFICES ASSUME CoflData, Answered, [Cofl!Next]_(Cofl!vars) PROVE Answered' OBVIOUS
<1>0. "primary" \in Cofl!Sockets /\ "extra" \in Cofl!Sockets BY DEF Cofl!Sockets
<1>1. CASE Cofl!SignIn
  <2>1. /\ sockets' = [s \in Cofl!Sockets |-> IF sockets[s].up
                                              THEN [sockets[s] EXCEPT !.known = TRUE] ELSE sockets[s]]
        /\ UNCHANGED <<host, signals, seen, switches, reader>>
    BY <1>1 DEF Cofl!SignIn, Cofl!url
  <2>2. CASE sockets["primary"].up
    <3>1. sockets["primary"] \in Cofl!Conns BY <1>0, <2>2, CoflRecords DEF CoflData
    <3>2. /\ [sockets["primary"] EXCEPT !.known = TRUE].up = sockets["primary"].up
          /\ [sockets["primary"] EXCEPT !.known = TRUE].host = sockets["primary"].host
      BY <3>1 DEF Cofl!Conns
    <3> QED BY <1>0, <2>1, <2>2, <3>2, AnsweredStays
  <2>3. CASE ~sockets["primary"].up BY <1>0, <2>1, <2>3, AnsweredStays
  <2> QED BY <2>2, <2>3
<1>2. ASSUME NEW s \in Cofl!Sockets,
             \/ Cofl!Flip(s) \/ Cofl!LoggedIn(s) \/ Cofl!Confirm(s) \/ Cofl!AuthPrompt(s)
             \/ Cofl!Greeting(s) \/ Cofl!Note(s) \/ Cofl!Swap(s) \/ Cofl!TellResumed(s)
             \/ Cofl!Push(s) \/ Cofl!ConnectElsewhere(s)
      PROVE  Answered'
  BY <1>2, ReaderAnswers
<1>3. CASE Cofl!Switched
  <2>1. /\ sockets' = [sockets EXCEPT !["primary"] = Cofl!NoConn] /\ Cofl!Go("primary", "dial")
    BY <1>3 DEF Cofl!Switched
  <2>2. sockets'["primary"].up = FALSE BY <1>0, <2>1, CoflRecords DEF CoflData
  <2>3. reader'["primary"].at = "dial" BY <1>0, <2>1, CoflGoes
  <2> QED BY <2>2, <2>3 DEF Answered
<1>4. ASSUME Cofl!Drop("primary") \/ Cofl!Dial("primary") \/ Cofl!Dialled("primary")
      PROVE  Answered'
  <2>1. CASE Cofl!Drop("primary")
    <3>1. /\ sockets' = [sockets EXCEPT !["primary"] = Cofl!NoConn] /\ Cofl!Go("primary", "dial")
      BY <2>1 DEF Cofl!Drop
    <3>2. sockets'["primary"].up = FALSE BY <1>0, <3>1, CoflRecords DEF CoflData
    <3>3. reader'["primary"].at = "dial" BY <1>0, <3>1, CoflGoes
    <3> QED BY <3>2, <3>3 DEF Answered
  <2>2. CASE Cofl!Dial("primary")
    <3>1. PICK known \in BOOLEAN :
             sockets' = [sockets EXCEPT !["primary"] = Cofl!Fresh(host, known)]
      BY <2>2 DEF Cofl!Dial, Cofl!Url
    <3>2. sockets'["primary"].up /\ sockets'["primary"].host = host
      BY <1>0, <3>1, CoflRecords DEF CoflData
    <3>3. UNCHANGED <<reader, host>> BY <2>2 DEF Cofl!Dial, Cofl!url
    <3> QED BY <3>2, <3>3 DEF Answered
  <2>3. CASE Cofl!Dialled("primary")
    BY <2>3 DEF Cofl!Dialled, Cofl!url, Answered
  <2> QED BY <1>4, <2>1, <2>2, <2>3
<1>5. ASSUME Cofl!Drop("extra") \/ Cofl!Dial("extra") \/ Cofl!Dialled("extra")
      PROVE  Answered'
  <2>1. UNCHANGED <<host, signals, seen, switches>>
    BY <1>5 DEF Cofl!Drop, Cofl!Dial, Cofl!Dialled, Cofl!url
  <2>2. sockets'["primary"] = sockets["primary"]
    BY <1>0, <1>5 DEF CoflData, Cofl!Drop, Cofl!Dial, Cofl!Dialled
  <2>3. reader'["primary"] = reader["primary"]
    BY <1>0, <1>5, CoflGoes DEF Cofl!Drop, Cofl!Dial, Cofl!Dialled, Cofl!Reading
  <2> QED BY <2>1, <2>2, <2>3, AnsweredStays
<1>6. CASE Cofl!Switching
  <2>1. PICK i \in DOMAIN switches : Cofl!SwitchRegion(i) BY <1>6 DEF Cofl!Switching
  <2>2. UNCHANGED <<reader, sockets, seen>> BY <1>6 DEF Cofl!Switching, Cofl!socket
  <2>3. CASE switches' = Cofl!RemoveAt(switches, i) /\ signals' = signals + 1
    <3>1. signals' # seen BY <2>3 DEF CoflData
    <3> QED BY <2>2, <3>1 DEF Answered
  <2>4. ASSUME NEW at \in {"login", "link", "signal"}, Cofl!Step(i, at) PROVE Answered'
    <3>1. switches'[i].at # "store" /\ i \in DOMAIN switches'
      BY <2>4, SwitchingKeeps DEF CoflData
    <3> QED BY <2>2, <3>1 DEF Answered
  <2> QED BY <2>1, <2>3, <2>4 DEF Cofl!SwitchRegion
<1>7. CASE Cofl!Connect
  <2>1. /\ switches' = Append(switches, [host |-> Head(pending).host, at |-> "store"])
        /\ UNCHANGED <<reader, sockets, seen, signals, host>>
    BY <1>7 DEF Cofl!Connect, Cofl!socket, Cofl!url
  <2>2. \A i \in DOMAIN switches : i \in DOMAIN switches' /\ switches'[i] = switches[i]
    BY <2>1 DEF CoflData
  <2> QED BY <2>1, <2>2 DEF Answered
<1>8. CASE \/ Cofl!Authenticated \/ Cofl!FlipDropped \/ Cofl!FlipPasses \/ Cofl!Enqueue
           \/ Cofl!Disconnect \/ UNCHANGED Cofl!vars
  <2>1. UNCHANGED <<reader, sockets, seen, signals, host, switches>>
    BY <1>8 DEF Cofl!Authenticated, Cofl!FlipDropped, Cofl!FlipPasses, Cofl!Enqueue,
       Cofl!Disconnect, Cofl!vars, Cofl!socket, Cofl!url
  <2> QED BY <2>1, AnsweredStays
<1> QED BY <1>0, <1>1, <1>2, <1>3, <1>4, <1>5, <1>6, <1>7, <1>8 DEF Cofl!Next, Cofl!Sockets

LEMMA LoneKeeps == CoflData /\ ~multi /\ Lone /\ [Cofl!Next]_(Cofl!vars) => Lone'
<1> SUFFICES ASSUME CoflData, Lone, [Cofl!Next]_(Cofl!vars) PROVE Lone' OBVIOUS
<1>0. /\ "primary" \in Cofl!Sockets /\ "extra" \in Cofl!Sockets
      /\ \A s \in Cofl!Sockets : s = "primary" \/ s = "extra"
  BY DEF Cofl!Sockets
<1>1. CASE Cofl!SignIn
  <2>1. sockets'["extra"] = sockets["extra"] /\ reader' = reader
    BY <1>0, <1>1 DEF Cofl!SignIn, Lone
  <2> QED BY <2>1 DEF Lone
<1>2. ASSUME NEW s \in Cofl!Sockets,
             \/ Cofl!Flip(s) \/ Cofl!LoggedIn(s) \/ Cofl!Confirm(s) \/ Cofl!AuthPrompt(s)
             \/ Cofl!Greeting(s) \/ Cofl!Note(s) \/ Cofl!Swap(s) \/ Cofl!TellResumed(s)
             \/ Cofl!Push(s) \/ Cofl!ConnectElsewhere(s)
      PROVE  Lone' /\ s = "primary"
  <2>1. s = "primary"
    BY <1>0, <1>2 DEF Lone, Cofl!Flip, Cofl!LoggedIn, Cofl!Confirm, Cofl!AuthPrompt,
       Cofl!Greeting, Cofl!Note, Cofl!Swap, Cofl!TellResumed, Cofl!Push, Cofl!ConnectElsewhere,
       Cofl!Message
  <2>2. reader'["extra"] = reader["extra"]
    BY <1>0, <1>2, <2>1, CoflGoes DEF CoflData, Cofl!Reading, Cofl!Flip, Cofl!LoggedIn,
       Cofl!Confirm, Cofl!AuthPrompt, Cofl!Greeting, Cofl!Note, Cofl!Swap, Cofl!TellResumed,
       Cofl!Push, Cofl!ConnectElsewhere
  <2>3. sockets'["extra"] = sockets["extra"]
    BY <1>0, <1>2, <2>1 DEF CoflData, Cofl!Flip, Cofl!LoggedIn,
       Cofl!Confirm, Cofl!AuthPrompt, Cofl!Greeting, Cofl!Note, Cofl!Swap, Cofl!TellResumed,
       Cofl!Push, Cofl!ConnectElsewhere
  <2> QED BY <2>1, <2>2, <2>3 DEF Lone
<1>3. ASSUME NEW s \in Cofl!Sockets,
             Cofl!Drop(s) \/ Cofl!Switched \/ Cofl!Dial(s) \/ Cofl!Dialled(s)
      PROVE  Lone'
  <2>1. Cofl!Switched \/ s = "primary"
    BY <1>0, <1>3 DEF Lone, Cofl!Drop, Cofl!Dial, Cofl!Dialled
  <2>2. sockets'["extra"] = sockets["extra"]
    BY <1>0, <1>3, <2>1 DEF CoflData, Cofl!Drop, Cofl!Switched, Cofl!Dial, Cofl!Dialled
  <2>3. reader'["extra"] = reader["extra"]
    BY <1>0, <1>3, <2>1, CoflGoes
       DEF CoflData, Cofl!Reading, Cofl!Drop, Cofl!Switched, Cofl!Dial, Cofl!Dialled
  <2> QED BY <2>2, <2>3 DEF Lone
<1>4. CASE \/ Cofl!Switching \/ Cofl!Authenticated \/ Cofl!FlipDropped \/ Cofl!FlipPasses
           \/ Cofl!Enqueue \/ Cofl!Connect \/ Cofl!Disconnect \/ UNCHANGED Cofl!vars
  BY <1>4 DEF Lone, Cofl!Switching, Cofl!Authenticated, Cofl!FlipDropped, Cofl!FlipPasses,
     Cofl!Enqueue, Cofl!Connect, Cofl!Disconnect, Cofl!vars, Cofl!socket
<1> QED BY <1>0, <1>1, <1>2, <1>3, <1>4 DEF Cofl!Next

(* An event comes to the end of the channel.                                 *)
LEMMA ToldInLine ==
  ASSUME CoflData, ~multi, UNCHANGED <<multi, trusted>>, InLine, Cofl!ThisVeryFlip,
         NEW e \in Cofl!Events, Cofl!Tell("primary", e),
         e.kind = "flip" => /\ e.flip.calm => \A i \in DOMAIN pending : pending[i].kind # "connect"
                            /\ (e.flip.open /\ e.flip.calm) => Vouched
  PROVE  /\ InLine' /\ Cofl!ThisVeryFlip'
         /\ Vouched => Vouched'
         /\ e.kind = "authenticated" => Vouched'
<1>1. /\ pending' \in Seq(Cofl!Events)
      /\ Len(pending') = Len(pending) + 1 /\ pending'[Len(pending) + 1] = e
      /\ \A i \in 1..Len(pending) : pending'[i] = pending[i]
  BY CoflTells DEF Cofl!Sockets
<1>2. /\ DOMAIN pending = 1..Len(pending) /\ DOMAIN pending' = 1..(Len(pending) + 1)
      /\ Len(pending) \in Nat
  BY <1>1 DEF CoflData
<1>3. InLine'
  <2> SUFFICES ASSUME NEW i \in 1..(Len(pending) + 1), pending'[i].kind = "flip",
                      pending'[i].flip.calm, NEW j \in 1..(i - 1)
               PROVE  pending'[j].kind # "connect"
    BY <1>2 DEF InLine
  <2>1. j \in 1..Len(pending) /\ pending'[j] = pending[j] BY <1>1, <1>2
  <2>2. CASE i = Len(pending) + 1 BY <1>1, <1>2, <2>1, <2>2
  <2>3. CASE i \in 1..Len(pending) BY <1>1, <1>2, <2>1, <2>3 DEF InLine
  <2> QED BY <1>2, <2>2, <2>3
<1>4. Cofl!ThisVeryFlip'
  <2> SUFFICES ASSUME NEW i \in 1..(Len(pending) + 1), pending'[i].kind = "flip",
                      pending'[i].flip.open, pending'[i].flip.calm
               PROVE  trusted \/ \E j \in 1..(i - 1) : pending'[j].kind = "authenticated"
    BY <1>2 DEF Cofl!ThisVeryFlip, Cofl!Opened
  <2>2. CASE i = Len(pending) + 1 BY <1>1, <1>2, <2>2 DEF Vouched
  <2>3. CASE i \in 1..Len(pending)
    <3>1. trusted \/ \E j \in 1..(i - 1) : pending[j].kind = "authenticated"
      BY <1>1, <1>2, <2>3 DEF Cofl!ThisVeryFlip, Cofl!Opened
    <3>2. \A j \in 1..(i - 1) : pending'[j] = pending[j] BY <1>1, <1>2, <2>3
    <3> QED BY <3>1, <3>2
  <2> QED BY <1>2, <2>2, <2>3
<1>5. Vouched => Vouched'
  <2>1. \A i \in DOMAIN pending : i \in DOMAIN pending' /\ pending'[i] = pending[i] BY <1>1, <1>2
  <2> QED BY <2>1 DEF Vouched
<1>6. e.kind = "authenticated" => Vouched'
  <2>1. Len(pending) + 1 \in DOMAIN pending' BY <1>2
  <2> QED BY <1>1, <2>1 DEF Vouched
<1> QED BY <1>3, <1>4, <1>5, <1>6

(* The first event leaves the channel.                                       *)
LEMMA TakenInLine ==
  ASSUME CoflData, ~multi, UNCHANGED multi, InLine, Cofl!ThisVeryFlip,
         NEW kind, Cofl!Takes(kind),
         kind = "authenticated" => trusted' = TRUE,
         kind \notin {"authenticated", "connect"} => trusted' = trusted
  PROVE  /\ InLine' /\ Cofl!ThisVeryFlip'
         /\ kind # "connect" /\ Vouched => Vouched'
<1>1. /\ pending' \in Seq(Cofl!Events)
      /\ Len(pending) \in Nat \ {0} /\ Len(pending') = Len(pending) - 1
      /\ pending[1].kind = kind
      /\ \A i \in 1..Len(pending') : pending'[i] = pending[i + 1]
  BY CoflTakes
<1>2. DOMAIN pending = 1..Len(pending) /\ DOMAIN pending' = 1..(Len(pending) - 1)
  BY <1>1 DEF CoflData
<1>3. InLine'
  <2> SUFFICES ASSUME NEW i \in 1..(Len(pending) - 1), pending'[i].kind = "flip",
                      pending'[i].flip.calm, NEW j \in 1..(i - 1)
               PROVE  pending'[j].kind # "connect"
    BY <1>2 DEF InLine
  <2>1. /\ pending'[i] = pending[i + 1] /\ pending'[j] = pending[j + 1]
        /\ i + 1 \in 1..Len(pending) /\ j + 1 \in 1..((i + 1) - 1)
    BY <1>1
  <2> QED BY <1>2, <2>1 DEF InLine
<1>4. Cofl!ThisVeryFlip'
  <2> SUFFICES ASSUME NEW i \in 1..(Len(pending) - 1), pending'[i].kind = "flip",
                      pending'[i].flip.open, pending'[i].flip.calm
               PROVE  trusted' \/ \E j \in 1..(i - 1) : pending'[j].kind = "authenticated"
    BY <1>2 DEF Cofl!ThisVeryFlip, Cofl!Opened
  <2>1. pending'[i] = pending[i + 1] /\ i + 1 \in 1..Len(pending) /\ 1 \in 1..((i + 1) - 1)
    BY <1>1
  <2>2. trusted \/ \E j \in 1..((i + 1) - 1) : pending[j].kind = "authenticated"
    BY <1>2, <2>1 DEF Cofl!ThisVeryFlip, Cofl!Opened
  <2>3. kind # "connect" BY <1>1, <1>2, <2>1 DEF InLine
  <2>4. CASE trusted BY <2>3, <2>4
  <2>5. ASSUME NEW j \in 1..((i + 1) - 1), pending[j].kind = "authenticated"
        PROVE  trusted' \/ \E k \in 1..(i - 1) : pending'[k].kind = "authenticated"
    <3>1. CASE j = 1 BY <1>1, <2>5, <3>1
    <3>2. CASE j # 1
      <4>1. j \in Nat /\ i \in Nat /\ j - 1 \in 1..(i - 1) /\ (j - 1) + 1 = j BY <3>2
      <4>2. j - 1 \in 1..Len(pending') BY <1>1, <4>1
      <4>3. pending'[j - 1] = pending[j] BY <1>1, <4>1, <4>2
      <4> QED BY <2>5, <4>1, <4>3
    <3> QED BY <3>1, <3>2
  <2> QED BY <2>2, <2>4, <2>5
<1>5. ASSUME kind # "connect", Vouched PROVE Vouched'
  <2>1. CASE trusted BY <1>5, <2>1 DEF Vouched
  <2>2. ASSUME NEW j \in 1..Len(pending), pending[j].kind = "authenticated" PROVE Vouched'
    <3>1. CASE j = 1 BY <1>1, <2>2, <3>1 DEF Vouched
    <3>2. CASE j # 1
      <4>1. j - 1 \in 1..(Len(pending) - 1) /\ pending'[j - 1] = pending[j] BY <1>1, <3>2
      <4> QED BY <1>2, <2>2, <4>1 DEF Vouched
    <3> QED BY <3>1, <3>2
  <2> QED BY <1>2, <1>5, <2>1, <2>2 DEF Vouched
<1> QED BY <1>3, <1>4, <1>5

(* A flip that came in calm keeps the main loop from starting a switch.      *)
LEMMA HeldStays ==
  ASSUME Held, UNCHANGED <<reader, loggedIn, switches>>,
         reader["primary"].flip.calm =>
            \A i \in DOMAIN pending' : pending'[i].kind # "connect",
         Vouched => Vouched'
  PROVE  Held'
<1>1. Unreset' <=> Unreset BY DEF Unreset
<1>2. reader["primary"].flip.calm => Cofl!Calm' BY DEF Held, Cofl!Calm
<1> QED BY <1>1, <1>2 DEF Held

LEMMA ConfirmedReads ==
  ASSUME CoflData, ~multi, Confirmed, UNCHANGED multi,
         \/ Cofl!Flip("primary") \/ Cofl!Note("primary") \/ Cofl!Swap("primary")
         \/ Cofl!LoggedIn("primary")
  PROVE  Held' /\ InLine' /\ Cofl!ThisVeryFlip'
<1> USE DEF Confirmed
<1>0. "primary" \in Cofl!Sockets /\ reader["primary"] \in Readers BY DEF Cofl!Sockets, CoflData
<1>1. UNCHANGED <<pending, trusted, switches>>
  BY DEF Cofl!Flip, Cofl!Note, Cofl!Swap, Cofl!LoggedIn, Cofl!intake
<1>2. InLine' /\ Cofl!ThisVeryFlip'
  BY <1>1 DEF InLine, Cofl!ThisVeryFlip, Cofl!Opened
<1>3. (Vouched' <=> Vouched) /\ (Unreset' <=> Unreset) /\ (Cofl!Calm' <=> Cofl!Calm)
  BY <1>1 DEF Vouched, Unreset, Cofl!Calm
<1>4. CASE Cofl!Flip("primary")
  <2>1. reader["primary"].at = "read" /\ loggedIn' = loggedIn
    BY <1>4 DEF Cofl!Flip, Cofl!Message, Cofl!flags
  <2>2. reader'["primary"].at = "check" /\ reader'["primary"].flip.calm = Cofl!Calm
    BY <1>0, <1>4 DEF CoflData, Cofl!Flip
  <2> QED BY <1>2, <1>3, <2>1, <2>2 DEF Held
<1>5. CASE Cofl!Note("primary")
  <2>1. PICK w \in Readers : /\ reader' = [reader EXCEPT !["primary"] = w]
                             /\ w.at = IF linkShown THEN "push" ELSE "swap"
                             /\ w.flip.calm = reader["primary"].flip.calm
                             /\ w.flip.open = ~linkShown
    BY <1>0, <1>5, NoteMakes DEF CoflData
  <2>2. reader'["primary"] = w BY <1>0, <2>1 DEF CoflData
  <2>3. reader["primary"].at = "check" /\ loggedIn' = loggedIn
    BY <1>5 DEF Cofl!Note, Cofl!flags
  <2>4. CASE linkShown
    <3>1. w.at = "push" /\ ~w.flip.open BY <2>1, <2>4
    <3> QED BY <1>2, <1>3, <2>1, <2>2, <2>3, <3>1 DEF Held
  <2>5. CASE ~linkShown
    <3>1. w.at = "swap" BY <2>1, <2>5
    <3> QED BY <1>2, <1>3, <2>1, <2>2, <2>3, <3>1 DEF Held
  <2> QED BY <2>4, <2>5
<1>6. CASE Cofl!Swap("primary")
  <2>1. /\ reader["primary"].at = "swap"
        /\ Cofl!Go("primary", IF loggedIn THEN "push" ELSE "tell")
    BY <1>6 DEF Cofl!Swap
  <2>2. /\ reader'["primary"].at = IF loggedIn THEN "push" ELSE "tell"
        /\ reader'["primary"].flip = reader["primary"].flip
    BY <1>0, <2>1, CoflGoes DEF Cofl!Reading
  <2>3. CASE loggedIn
    <3>1. reader["primary"].flip.calm => ~Unreset BY DEF Held, Cofl!Calm, Unreset
    <3>2. ~Unreset => Vouched BY <2>1, <2>3 DEF Held
    <3> QED BY <1>2, <1>3, <2>1, <2>2, <2>3, <3>1, <3>2 DEF Held
  <2>4. CASE ~loggedIn BY <1>2, <1>3, <2>1, <2>2, <2>4 DEF Held
  <2> QED BY <2>3, <2>4
<1>7. CASE Cofl!LoggedIn("primary")
  <2>1. reader["primary"].at = "read" /\ Cofl!Go("primary", "confirm")
    BY <1>7 DEF Cofl!LoggedIn, Cofl!Message
  <2>2. reader'["primary"].at = "confirm" /\ reader'["primary"].flip = reader["primary"].flip
    BY <1>0, <2>1, CoflGoes DEF Cofl!Reading
  <2> QED BY <1>2, <1>3, <2>1, <2>2 DEF Held
<1> QED BY <1>4, <1>5, <1>6, <1>7

LEMMA ConfirmedTells ==
  ASSUME CoflData, ~multi, Confirmed, UNCHANGED multi,
         \/ Cofl!Confirm("primary") \/ Cofl!Greeting("primary") \/ Cofl!TellResumed("primary")
         \/ Cofl!Push("primary") \/ Cofl!ConnectElsewhere("primary")
  PROVE  Held' /\ InLine' /\ Cofl!ThisVeryFlip'
<1> USE DEF Confirmed
<1>0. "primary" \in Cofl!Sockets /\ reader["primary"] \in Readers BY DEF Cofl!Sockets, CoflData
<1>1. UNCHANGED <<trusted, switches, loggedIn>>
  BY DEF Cofl!Confirm, Cofl!Greeting, Cofl!TellResumed, Cofl!Push, Cofl!ConnectElsewhere,
     Cofl!intake, Cofl!flags
<1>2. Unreset' <=> Unreset BY <1>1 DEF Unreset
<1>3. [kind |-> "authenticated"] \in Cofl!Events BY DEF Cofl!Events
<1>4. ASSUME Cofl!Tell("primary", [kind |-> "authenticated"])
      PROVE  /\ InLine' /\ Cofl!ThisVeryFlip' /\ Vouched'
             /\ (\A i \in DOMAIN pending : pending[i].kind # "connect")
                  => \A i \in DOMAIN pending' : pending'[i].kind # "connect"
  <2>1. InLine' /\ Cofl!ThisVeryFlip' /\ Vouched' BY <1>1, <1>3, <1>4, ToldInLine
  <2>2. pending' = Append(pending, [kind |-> "authenticated"]) BY <1>4 DEF Cofl!Tell
  <2>3. \A i \in DOMAIN pending' : \/ i \in DOMAIN pending /\ pending'[i] = pending[i]
                                   \/ pending'[i] = [kind |-> "authenticated"]
    BY <2>2 DEF CoflData
  <2> QED BY <2>1, <2>3
<1>5. CASE Cofl!Greeting("primary")
  <2>1. Cofl!Tell("primary", [kind |-> "authenticated"]) /\ reader' = reader
    BY <1>5 DEF Cofl!Greeting
  <2>2. reader["primary"].flip.calm => Cofl!Calm BY DEF Held
  <2> QED BY <1>1, <1>4, <2>1, <2>2, HeldStays DEF Cofl!Calm
<1>6. CASE Cofl!Confirm("primary") \/ Cofl!TellResumed("primary")
  <2>1. /\ Cofl!Tell("primary", [kind |-> "authenticated"])
        /\ \/ reader["primary"].at = "confirm" /\ Cofl!Go("primary", "read")
           \/ reader["primary"].at = "tell" /\ Cofl!Go("primary", "push")
    BY <1>6 DEF Cofl!Confirm, Cofl!TellResumed
  <2>2. /\ reader'["primary"].flip = reader["primary"].flip
        /\ \/ reader["primary"].at = "confirm" /\ reader'["primary"].at = "read"
           \/ reader["primary"].at = "tell" /\ reader'["primary"].at = "push"
    BY <1>0, <2>1, CoflGoes DEF Cofl!Reading
  <2>3. reader["primary"].flip.calm => Cofl!Calm' BY <1>1, <1>4, <2>1 DEF Held, Cofl!Calm
  <2>4. reader'["primary"].at = "read" => ~reader["primary"].flip.calm BY <2>2 DEF Held
  <2> QED BY <1>4, <2>1, <2>2, <2>3, <2>4 DEF Held
<1>7. CASE Cofl!Push("primary")
  <2> DEFINE e == [kind |-> "flip", flip |-> reader["primary"].flip]
  <2>1. reader["primary"].at = "push" /\ Cofl!Tell("primary", e)
        /\ reader' = [reader EXCEPT !["primary"] = [at |-> "read", flip |-> Cofl!NoFlip]]
    BY <1>7 DEF Cofl!Push
  <2>2. e \in Cofl!Events /\ e.flip = reader["primary"].flip BY <1>0 DEF Readers, Cofl!Events
  <2>3. /\ e.flip.calm => \A i \in DOMAIN pending : pending[i].kind # "connect"
        /\ (e.flip.open /\ e.flip.calm) => Vouched
    BY <2>1, <2>2 DEF Held, Cofl!Calm
  <2>4. InLine' /\ Cofl!ThisVeryFlip' /\ (Vouched => Vouched')
    <3> HIDE DEF e
    <3> QED BY <1>1, <2>1, <2>2, <2>3, ToldInLine
  <2>5. reader'["primary"].at = "read" /\ reader'["primary"].flip = Cofl!NoFlip
    BY <1>0, <2>1 DEF CoflData
  <2> QED BY <1>1, <1>2, <2>1, <2>4, <2>5, CoflRecords DEF Held
<1>8. CASE Cofl!ConnectElsewhere("primary")
  <2>1. PICK h \in Host : Cofl!Tell("primary", [kind |-> "connect", host |-> h])
    BY <1>8 DEF Cofl!ConnectElsewhere
  <2>2. reader["primary"].at = "read" /\ reader' = reader
    BY <1>8 DEF Cofl!ConnectElsewhere, Cofl!Message
  <2> DEFINE e == [kind |-> "connect", host |-> h]
  <2>3. e \in Cofl!Events /\ e.kind = "connect" BY DEF Cofl!Events
  <2>4. InLine' /\ Cofl!ThisVeryFlip' /\ (Vouched => Vouched')
    <3>1. Cofl!Tell("primary", e) BY <2>1
    <3> HIDE DEF e
    <3> QED BY <1>1, <2>3, <3>1, ToldInLine
  <2>5. ~reader["primary"].flip.calm BY <2>2 DEF Held
  <2> QED BY <1>1, <2>2, <2>4, <2>5, HeldStays
<1> QED BY <1>5, <1>6, <1>7, <1>8

LEMMA ConfirmedLoops ==
  ASSUME CoflData, ~multi, Confirmed, UNCHANGED multi,
         \/ Cofl!Authenticated \/ Cofl!FlipDropped \/ Cofl!FlipPasses \/ Cofl!Connect
         \/ Cofl!Switching
  PROVE  Held' /\ InLine' /\ Cofl!ThisVeryFlip'
<1> USE DEF Confirmed
<1>1. reader' = reader
  BY DEF Cofl!Authenticated, Cofl!FlipDropped, Cofl!FlipPasses, Cofl!Connect, Cofl!Switching,
     Cofl!socket
<1>2. reader["primary"].flip.calm => Cofl!Calm BY DEF Held
<1>3. ASSUME NEW kind, Cofl!Takes(kind)
      PROVE  (\A i \in DOMAIN pending : pending[i].kind # "connect")
                => \A i \in DOMAIN pending' : pending'[i].kind # "connect"
  <2>1. /\ pending' \in Seq(Cofl!Events) /\ Len(pending') = Len(pending) - 1
        /\ Len(pending) \in Nat /\ \A i \in 1..Len(pending') : pending'[i] = pending[i + 1]
    BY <1>3, CoflTakes
  <2>2. DOMAIN pending = 1..Len(pending) /\ DOMAIN pending' = 1..Len(pending')
    BY <2>1 DEF CoflData
  <2>3. \A i \in 1..Len(pending') : i + 1 \in 1..Len(pending) BY <2>1
  <2> QED BY <2>1, <2>2, <2>3
<1>4. CASE Cofl!Authenticated
  <2>1. /\ Cofl!Takes("authenticated") /\ trusted' = TRUE /\ UNCHANGED <<loggedIn, switches>>
    BY <1>4 DEF Cofl!Authenticated, Cofl!flags
  <2>2. InLine' /\ Cofl!ThisVeryFlip' BY <2>1, TakenInLine
  <2>3. Vouched' BY <2>1 DEF Vouched
  <2> QED BY <1>1, <1>2, <1>3, <2>1, <2>2, <2>3, HeldStays DEF Cofl!Calm
<1>5. CASE Cofl!FlipDropped \/ Cofl!FlipPasses
  <2>1. /\ Cofl!Takes("flip") /\ trusted' = trusted /\ UNCHANGED <<loggedIn, switches>>
    BY <1>5 DEF Cofl!FlipDropped, Cofl!FlipPasses, Cofl!flags, Cofl!intake
  <2>2. InLine' /\ Cofl!ThisVeryFlip' /\ (Vouched => Vouched')
    <3> DEFINE kind == "flip"
    <3>1. /\ Cofl!Takes(kind) /\ kind # "authenticated" /\ kind # "connect"
          /\ trusted' = trusted
      BY <2>1
    <3> HIDE DEF kind
    <3> QED BY <3>1, TakenInLine
  <2> QED BY <1>1, <1>2, <1>3, <2>1, <2>2, HeldStays DEF Cofl!Calm
<1>6. CASE Cofl!Connect
  <2>1. /\ Cofl!Takes("connect") /\ UNCHANGED loggedIn
        /\ switches' = Append(switches, [host |-> Head(pending).host, at |-> "store"])
    BY <1>6 DEF Cofl!Connect, Cofl!flags
  <2>2. InLine' /\ Cofl!ThisVeryFlip' BY <2>1, TakenInLine
  <2>3. Unreset'
    <3>1. /\ Len(switches) + 1 \in DOMAIN switches'
          /\ switches'[Len(switches) + 1] = [host |-> Head(pending).host, at |-> "store"]
      BY <2>1 DEF CoflData
    <3>2. switches'[Len(switches) + 1].at = "store" BY <3>1
    <3> QED BY <3>1, <3>2 DEF Unreset
  <2>4. 1 \in DOMAIN pending /\ pending[1].kind = "connect" BY <2>1, CoflTakes DEF CoflData
  <2>5. ~reader["primary"].flip.calm BY <1>2, <2>4 DEF Cofl!Calm
  <2> QED BY <1>1, <2>2, <2>3, <2>5 DEF Held
<1>7. CASE Cofl!Switching
  <2>1. PICK i \in DOMAIN switches : Cofl!SwitchRegion(i) BY <1>7 DEF Cofl!Switching
  <2>2. UNCHANGED <<pending, trusted>> BY <1>7 DEF Cofl!Switching, Cofl!intake
  <2>3. InLine' /\ Cofl!ThisVeryFlip' /\ (Vouched' <=> Vouched)
    BY <2>2 DEF InLine, Cofl!ThisVeryFlip, Cofl!Opened, Vouched
  <2>4. ~reader["primary"].flip.calm
    <3>1. switches # <<>> BY <2>1 DEF CoflData
    <3> QED BY <1>2, <3>1 DEF Cofl!Calm
  <2>5. (loggedIn' /\ ~Unreset') => loggedIn /\ ~Unreset
    <3>1. CASE switches[i].at = "store" /\ Cofl!Step(i, "login")
      <4>1. switches'[i].at = "login" /\ i \in DOMAIN switches'
        BY <3>1, SwitchingKeeps DEF CoflData
      <4> QED BY <4>1 DEF Unreset
    <3>2. CASE switches[i].at = "login" /\ loggedIn' = FALSE BY <3>2
    <3>3. CASE switches[i].at = "link" /\ Cofl!Step(i, "signal") /\ loggedIn' = loggedIn
      <4>1. \A j \in DOMAIN switches : j # i => j \in DOMAIN switches' /\ switches'[j] = switches[j]
        BY <3>3, SwitchingKeeps DEF CoflData
      <4> QED BY <3>3, <4>1 DEF Unreset
    <3>4. CASE switches[i].at = "signal" /\ switches' = Cofl!RemoveAt(switches, i) /\ loggedIn' = loggedIn
      <4>1. \A k \in DOMAIN switches \ {i} : \E j \in DOMAIN switches' : switches'[j] = switches[k]
        BY <3>4, SwitchingEnds
      <4> QED BY <3>4, <4>1 DEF Unreset
    <3> QED BY <2>1, <3>1, <3>2, <3>3, <3>4 DEF Cofl!SwitchRegion, Cofl!flags
  <2> QED BY <1>1, <2>3, <2>4, <2>5 DEF Held
<1> QED BY <1>4, <1>5, <1>6, <1>7

LEMMA ConfirmedKeeps ==
  CoflFlags /\ CoflData /\ Confirmed /\ [Cofl!Next]_(Cofl!vars) => Confirmed'
<1> SUFFICES ASSUME CoflData, Confirmed, [Cofl!Next]_(Cofl!vars), ~multi' PROVE Confirmed'
  BY DEF Confirmed
<1>0. "primary" \in Cofl!Sockets BY DEF Cofl!Sockets
<1>1. multi' = multi
  BY DEF Cofl!Next, Cofl!vars, Cofl!socket, Cofl!SignIn, Cofl!Flip, Cofl!LoggedIn, Cofl!Confirm,
     Cofl!AuthPrompt, Cofl!Greeting, Cofl!Note, Cofl!Swap, Cofl!TellResumed, Cofl!Push,
     Cofl!ConnectElsewhere, Cofl!Drop, Cofl!Switched, Cofl!Dial, Cofl!Dialled, Cofl!Switching,
     Cofl!Authenticated, Cofl!FlipDropped, Cofl!FlipPasses, Cofl!Enqueue, Cofl!Connect,
     Cofl!Disconnect
<1>2. ~multi /\ Lone /\ Held /\ InLine /\ Cofl!ThisVeryFlip BY <1>1 DEF Confirmed
<1>3. Lone' BY <1>2, LoneKeeps
<1>4. SUFFICES Held' /\ InLine' /\ Cofl!ThisVeryFlip' BY <1>3 DEF Confirmed
<1>5. ASSUME UNCHANGED <<pending, trusted, switches, loggedIn>>,
             \/ reader' = reader
             \/ /\ reader["primary"].at \in {"read", "dial"} /\ reader'["primary"].at \in {"read", "dial"}
                /\ reader'["primary"].flip = reader["primary"].flip
      PROVE  Held' /\ InLine' /\ Cofl!ThisVeryFlip'
  <2>1. InLine' /\ Cofl!ThisVeryFlip'
    BY <1>1, <1>2, <1>5 DEF InLine, Cofl!ThisVeryFlip, Cofl!Opened
  <2>2. (Vouched' <=> Vouched) /\ (Unreset' <=> Unreset) /\ (Cofl!Calm' <=> Cofl!Calm)
    BY <1>5 DEF Vouched, Unreset, Cofl!Calm
  <2> QED BY <1>2, <1>5, <2>1, <2>2 DEF Held
<1>6. ASSUME NEW s \in Cofl!Sockets,
             \/ Cofl!Flip(s) \/ Cofl!LoggedIn(s) \/ Cofl!Confirm(s) \/ Cofl!AuthPrompt(s)
             \/ Cofl!Greeting(s) \/ Cofl!Note(s) \/ Cofl!Swap(s) \/ Cofl!TellResumed(s)
             \/ Cofl!Push(s) \/ Cofl!ConnectElsewhere(s)
      PROVE  Held' /\ InLine' /\ Cofl!ThisVeryFlip'
  <2>1. s = "primary"
    BY <1>2, <1>6 DEF Lone, Cofl!Sockets, Cofl!Flip, Cofl!LoggedIn, Cofl!Confirm, Cofl!AuthPrompt,
       Cofl!Greeting, Cofl!Note, Cofl!Swap, Cofl!TellResumed, Cofl!Push, Cofl!ConnectElsewhere,
       Cofl!Message
  <2>2. CASE Cofl!AuthPrompt(s)
    BY <1>5, <2>2 DEF Cofl!AuthPrompt, Cofl!intake
  <2> QED BY <1>1, <1>2, <1>6, <2>1, <2>2, ConfirmedReads, ConfirmedTells
<1>7. ASSUME NEW s \in Cofl!Sockets, Cofl!Drop(s) \/ Cofl!Switched \/ Cofl!Dialled(s)
      PROVE  Held' /\ InLine' /\ Cofl!ThisVeryFlip'
  <2>0. Cofl!Switched \/ s = "primary"
    BY <1>2, <1>7 DEF Lone, Cofl!Sockets, Cofl!Drop, Cofl!Dialled
  <2>1. UNCHANGED <<pending, trusted, switches, loggedIn>>
    BY <1>7 DEF Cofl!Drop, Cofl!Switched, Cofl!Dialled, Cofl!intake, Cofl!flags
  <2>2. reader["primary"].at \in {"read", "dial"}
    BY <1>7, <2>0 DEF Cofl!Drop, Cofl!Switched, Cofl!Dialled
  <2>3. reader'["primary"].at \in {"read", "dial"} /\ reader'["primary"].flip = reader["primary"].flip
    BY <1>0, <1>7, <2>0, CoflGoes DEF Cofl!Drop, Cofl!Switched, Cofl!Dialled, Cofl!Reading
  <2> QED BY <1>5, <2>1, <2>2, <2>3
<1>8. CASE \/ Cofl!SignIn \/ \E s \in Cofl!Sockets : Cofl!Dial(s)
           \/ Cofl!Enqueue \/ Cofl!Disconnect \/ UNCHANGED Cofl!vars
  <2>1. UNCHANGED <<pending, trusted, switches, loggedIn, reader>>
    BY <1>8 DEF Cofl!SignIn, Cofl!Dial, Cofl!Enqueue, Cofl!Disconnect, Cofl!vars, Cofl!socket,
       Cofl!intake, Cofl!flags
  <2> QED BY <1>5, <2>1
<1>9. CASE \/ Cofl!Switching \/ Cofl!Authenticated \/ Cofl!FlipDropped \/ Cofl!FlipPasses
           \/ Cofl!Connect
  BY <1>1, <1>2, <1>9, ConfirmedLoops
<1> QED BY <1>0, <1>6, <1>7, <1>8, <1>9 DEF Cofl!Next

LEMMA CoflBegins == Cofl!Init /\ host = FirstHost => CoflInv
<1> SUFFICES ASSUME Cofl!Init PROVE CoflInv OBVIOUS
<1>1. {MaxMessages, MaxDials, MaxSwitches} \subseteq Nat BY ServicesAssumption
<1>2. PICK known \in [Cofl!Sockets -> BOOLEAN] :
         sockets = [s \in Cofl!Sockets |->
                      IF s = "primary" \/ multi THEN Cofl!Fresh(Cofl!Url(s), known[s]) ELSE Cofl!NoConn]
  BY DEF Cofl!Init
<1>3. host \in Host /\ pending = <<>> /\ switches = <<>> BY DEF Cofl!Init
<1>4. ASSUME NEW s \in Cofl!Sockets
      PROVE  /\ sockets[s] \in Cofl!Conns \cup {Cofl!NoConn}
             /\ s = "primary" => sockets[s].up /\ sockets[s].host = host
             /\ (s = "extra" /\ ~multi) => ~sockets[s].up
  <2>1. known[s] \in BOOLEAN OBVIOUS
  <2>2. Cofl!Url(s) \in Host \cup {"extra"} /\ (s = "primary" => Cofl!Url(s) = host)
    BY <1>3 DEF Cofl!Url
  <2> QED BY <1>2, <2>1, <2>2, CoflRecords
<1>5. reader = [s \in Cofl!Sockets |-> [at |-> "read", flip |-> Cofl!NoFlip]] BY DEF Cofl!Init
<1>6. \A s \in Cofl!Sockets : reader[s].at = "read" /\ reader[s].flip = Cofl!NoFlip BY <1>5
<1>7. [at |-> "read", flip |-> Cofl!NoFlip] \in Readers BY CoflRecords DEF Readers, Cofl!Reading
<1>8. CoflFlags BY DEF Cofl!Init, CoflFlags
<1>9. CoflData
  <2>1. sockets \in [Cofl!Sockets -> Cofl!Conns \cup {Cofl!NoConn}] BY <1>2, <1>4
  <2>2. reader \in [Cofl!Sockets -> Readers] BY <1>5, <1>7
  <2>3. pending \in Seq(Cofl!Events) /\ switches \in Seq(Switching) BY <1>3
  <2>4. /\ messages \in 0..MaxMessages /\ dials \in 0..MaxDials
        /\ signals \in 0..MaxSwitches /\ seen \in 0..signals
        /\ queued \in Nat /\ slipped \in 0..queued /\ panel \in {"none", "paused", "cleared"}
    BY <1>1 DEF Cofl!Init
  <2> QED BY <1>3, <2>1, <2>2, <2>3, <2>4 DEF CoflData
<1>10. Counted BY <1>1 DEF Counted, Cofl!Init
<1>11. Answered BY <1>4 DEF Answered, Cofl!Sockets
<1>12. Cleared BY DEF Cleared, Cofl!Init
<1>13. Confirmed
  <2> SUFFICES ASSUME ~multi PROVE Lone /\ Held /\ InLine /\ Cofl!ThisVeryFlip BY DEF Confirmed
  <2>1. Lone BY <1>4, <1>6 DEF Lone, Cofl!Sockets
  <2>2. loggedIn = FALSE BY DEF Cofl!Init
  <2>3. Held BY <1>6, <2>2, CoflRecords DEF Held, Cofl!Sockets
  <2>4. InLine /\ Cofl!ThisVeryFlip BY <1>3 DEF InLine, Cofl!ThisVeryFlip
  <2> QED BY <2>1, <2>3, <2>4
<1> QED BY <1>8, <1>9, <1>10, <1>11, <1>12, <1>13, CoflTypes DEF CoflInv

LEMMA CoflKeeps == CoflInv /\ [Cofl!Next]_(Cofl!vars) => CoflInv'
<1> SUFFICES ASSUME CoflInv, [Cofl!Next]_(Cofl!vars) PROVE CoflInv' OBVIOUS
<1>1. CoflFlags /\ CoflData /\ Counted /\ Confirmed /\ Answered /\ Cleared
  BY CoflTypes DEF CoflInv
<1>2. CoflData' /\ Counted'
  <2>1. CASE UNCHANGED Cofl!vars
    BY <1>1, <2>1 DEF CoflData, Counted, Cofl!vars, Cofl!socket, Cofl!url, Cofl!intake, Cofl!web
  <2>2. CASE Cofl!Next
    <3>0. "primary" \in Cofl!Sockets BY DEF Cofl!Sockets
    <3>1. CASE \E s \in Cofl!Sockets :
                  \/ Cofl!Flip(s) \/ Cofl!LoggedIn(s) \/ Cofl!AuthPrompt(s) \/ Cofl!Greeting(s)
      BY <1>1, <3>1, CoflMessages
    <3>2. CASE Cofl!ConnectElsewhere("primary") BY <1>1, <3>0, <3>2, CoflMessages
    <3>3. CASE \E s \in Cofl!Sockets :
                  \/ Cofl!Confirm(s) \/ Cofl!Note(s) \/ Cofl!Swap(s) \/ Cofl!TellResumed(s)
                  \/ Cofl!Push(s)
      BY <1>1, <3>3, CoflReads
    <3>4. CASE \/ Cofl!SignIn \/ Cofl!Switched
               \/ \E s \in Cofl!Sockets : Cofl!Drop(s) \/ Cofl!Dial(s) \/ Cofl!Dialled(s)
      BY <1>1, <3>0, <3>4, CoflConnects
    <3>5. CASE \/ Cofl!Switching \/ Cofl!Authenticated \/ Cofl!FlipDropped \/ Cofl!FlipPasses
               \/ Cofl!Enqueue \/ Cofl!Connect \/ Cofl!Disconnect
      BY <1>1, <3>5, CoflLoops
    <3> QED BY <2>2, <3>1, <3>2, <3>3, <3>4, <3>5 DEF Cofl!Next
  <2> QED BY <2>1, <2>2
<1>3. CoflFlags' BY <1>1, CoflFlagsKeep
<1>4. Cofl!TypeOK'
  BY <1>2, <1>3 DEF Cofl!TypeOK, CoflFlags, CoflData, Readers, Switching
<1>5. Confirmed' BY <1>1, ConfirmedKeeps
<1>6. Answered' /\ Cleared' BY <1>1, AnsweredKeeps, ClearedKeeps
<1> QED BY <1>2, <1>4, <1>5, <1>6 DEF CoflInv

LEMMA CoflShows == CoflInv => Cofl!ThisVeryFlip /\ Cofl!FollowsTheSwitch /\ Cofl!OneSlips
<1> SUFFICES ASSUME CoflInv PROVE Cofl!ThisVeryFlip /\ Cofl!FollowsTheSwitch /\ Cofl!OneSlips
  OBVIOUS
<1>1. Cofl!ThisVeryFlip BY DEF CoflInv, Confirmed, Cofl!ThisVeryFlip
<1>2. Cofl!FollowsTheSwitch BY DEF CoflInv, Answered, Cofl!FollowsTheSwitch
<1>3. Cofl!OneSlips BY DEF CoflInv, Cleared, Cofl!OneSlips
<1> QED BY <1>1, <1>2, <1>3

-----------------------------------------------------------------------------
(* All of them: a behaviour is one of the part that was chosen at its start. *)

ServicesInv ==
    /\ part = "rentals" => RentalsInv
    /\ part = "upgrade" => UpgradeInv
    /\ part = "guards" => GuardsInv
    /\ part = "book" => BookInv
    /\ part = "relist" => RelistInv
    /\ part = "panel" => PanelInv
    /\ part = "cofl" => CoflInv

LEMMA ServicesBegin == ServicesInit => ServicesInv
BY RentalsBegin, UpgradeBegins, GuardsBegin, BookBegins, RelistBegins, PanelBegins, CoflBegins
   DEF ServicesInit, ServicesInv

(* A step of the whole is a step of the part that was chosen.                *)
LEMMA PartSteps ==
  ASSUME [ServicesNext]_all
  PROVE  /\ part' = part
         /\ part = "rentals" => [Rental!Next]_(Rental!vars)
         /\ part = "upgrade" => [Update!Next]_(Update!vars)
         /\ part = "guards" => [Guard!Next]_(Guard!vars)
         /\ part = "book" => [Book!Next]_(Book!vars)
         /\ part = "relist" => [List!Next]_(List!vars)
         /\ part = "panel" => [Page!Next]_(Page!vars)
         /\ part = "cofl" => [Cofl!Next]_(Cofl!vars)
<1>1. CASE ServicesNext BY <1>1 DEF ServicesNext, Still
<1>2. CASE UNCHANGED all
  <2>1. UNCHANGED Rental!vars BY <1>2 DEF all, ofRentals, Rental!vars
  <2>2. UNCHANGED Update!vars BY <1>2 DEF all, ofUpgrade, Update!vars, Update!files
  <2>3. UNCHANGED Guard!vars
    BY <1>2 DEF all, ofGuards, Guard!vars, Guard!watch, Guard!away, Guard!home, Guard!seen
  <2>4. UNCHANGED Book!vars
    BY <1>2 DEF all, ofBook, Book!vars, Book!files, Book!start, Book!book, Book!tasks
  <2>5. UNCHANGED List!vars
    BY <1>2 DEF all, ofRelist, List!vars, List!stock, List!cofl, List!lister, List!force, List!count
  <2>6. UNCHANGED Page!vars BY <1>2 DEF all, ofPanel, Page!vars
  <2>7. UNCHANGED Cofl!vars
    BY <1>2 DEF all, ofCofl, Cofl!vars, Cofl!socket, Cofl!url, Cofl!flags, Cofl!intake, Cofl!web
  <2>8. part' = part BY <1>2 DEF all
  <2> QED BY <2>1, <2>2, <2>3, <2>4, <2>5, <2>6, <2>7, <2>8
<1> QED BY <1>1, <1>2

LEMMA ServicesKeep == ServicesInv /\ [ServicesNext]_all => ServicesInv'
<1> SUFFICES ASSUME ServicesInv, [ServicesNext]_all PROVE ServicesInv' OBVIOUS
<1>1. part' = part BY PartSteps
<1>2. part = "rentals" => RentalsInv' BY PartSteps, RentalsKeep DEF ServicesInv
<1>3. part = "upgrade" => UpgradeInv' BY PartSteps, UpgradeKeeps DEF ServicesInv
<1>4. part = "guards" => GuardsInv' BY PartSteps, GuardsKeep DEF ServicesInv
<1>5. part = "book" => BookInv' BY PartSteps, BookKeeps DEF ServicesInv
<1>6. part = "relist" => RelistInv' BY PartSteps, RelistKeeps DEF ServicesInv
<1>7. part = "panel" => PanelInv' BY PartSteps, PanelKeeps DEF ServicesInv
<1>8. part = "cofl" => CoflInv' BY PartSteps, CoflKeeps DEF ServicesInv
<1> QED BY <1>1, <1>2, <1>3, <1>4, <1>5, <1>6, <1>7, <1>8 DEF ServicesInv

LEMMA ServicesInvariant == ServicesSpec => []ServicesInv
BY ServicesBegin, ServicesKeep, PTL DEF ServicesSpec

\* The variables keep their types, in every part.
THEOREM ServicesTyped == ServicesSpec => []ServicesTypeOK
<1>1. ASSUME ServicesInv PROVE ServicesTypeOK
  <2>1. part = "panel" => Page!TypeOK BY <1>1, PanelTypes DEF ServicesInv
  <2>2. part = "cofl" => Cofl!TypeOK BY <1>1 DEF ServicesInv, CoflInv
  <2>3. /\ part = "rentals" => Rental!TypeOK
        /\ part = "upgrade" => Update!TypeOK
        /\ part = "guards" => Guard!TypeOK
        /\ part = "book" => Book!TypeOK
        /\ part = "relist" => List!TypeOK
    BY <1>1 DEF ServicesInv, RentalsInv, UpgradeInv, GuardsInv, BookInv, RelistInv
  <2> QED BY <2>1, <2>2, <2>3 DEF ServicesTypeOK
<1> QED BY <1>1, ServicesInvariant, PTL

\* CoflSession: a flip of a session that no link was shown for clears the gate
\* itself, unless a region switch is under way when it comes
\* (websocket/client.rs:355-378, main.rs:3184-3280).
THEOREM OpenFlipsPass == ServicesSpec => []ThisVeryFlip
<1>1. ServicesInv => ThisVeryFlip BY CoflShows DEF ServicesInv, ThisVeryFlip
<1> QED BY <1>1, ServicesInvariant, PTL

\* CoflSession: no region switch is lost to a reconnection that overlaps it, and
\* one flip at most gets into the queue after Disconnect cleared it
\* (websocket/client.rs:192-198, 285-304, server.rs:1507-1544).
THEOREM PanelIsAlwaysObeyed == ServicesSpec => []PanelIsObeyed
<1>1. ServicesInv => PanelIsObeyed BY CoflShows DEF ServicesInv, PanelIsObeyed
<1> QED BY <1>1, ServicesInvariant, PTL

\* SessionBook: what a rest break put away is there again when the bot runs,
\* however long the break was and however often the process died during it
\* (main.rs:923-947, 1132-1185).
THEOREM BreakAlwaysKeepsSession == ServicesSpec => []BreakKeepsSession
<1>1. ServicesInv => BreakKeepsSession BY BookShows DEF ServicesInv, BreakKeepsSession
<1> QED BY <1>1, ServicesInvariant, PTL

\* Guards: however long the bot stays offline, neither guard begins a sequence
\* (main.rs:5280-5288, 5436-5441).
THEOREM OfflineStaysAlone == ServicesSpec => []OfflineIsLeftAlone
<1>1. ServicesInv => OfflineIsLeftAlone BY GuardsShow DEF ServicesInv, OfflineIsLeftAlone
<1> QED BY <1>1, ServicesInvariant, PTL

\* Guards: the heartbeat restarts the process only when nothing has happened
\* since the first stall it has counted (main.rs:5451-5455, 5477-5488).
THEOREM RestartsAreSilent == ServicesSpec => RestartsOnlyWhenSilent
<1>1. ASSUME ServicesInv, [ServicesNext]_all
      PROVE  [part = "guards" => Guard!RestartsAfterSilence]_all
  <2>1. part = "guards" => GuardsInv /\ [Guard!Next]_(Guard!vars)
    BY <1>1, PartSteps DEF ServicesInv
  <2> QED BY <2>1, SilentRestart
<1> QED BY <1>1, ServicesInvariant, PTL DEF ServicesSpec, RestartsOnlyWhenSilent

\* Relist: the auto-lister orders an item once in five minutes, and once more for
\* each upload that was forced (main.rs:5820-5822, 5890, 5919, 5939).
THEOREM InstructsNoMore == ServicesSpec => []InstructsOnce
<1>1. ServicesInv => InstructsOnce BY RelistShows DEF ServicesInv, InstructsOnce
<1> QED BY <1>1, ServicesInvariant, PTL

\* Rentals: whatever updates, lists and connections come, an instance that is
\* tracked as running runs, and outlives what was paid for by the grace and one
\* look at most (vps/socket.rs:335-357).
THEOREM PaidTimeAlwaysEnds == ServicesSpec => []PaidTimeEnds
<1>1. ServicesInv => PaidTimeEnds BY RentalsShow DEF ServicesInv, PaidTimeEnds
<1> QED BY <1>1, ServicesInvariant, PTL

\* Panel: whatever saves overlap, the file keeps the COFL sessions and invents no
\* setting, saves that do not overlap leave it with the switches of the memory,
\* and the panel stays locked (server.rs:1949-1957, 2062-2068, loader.rs:190-199).
THEOREM ConfigIsAlwaysKept == ServicesSpec => []KeepsTheConfig
<1>1. ServicesInv => KeepsTheConfig BY PanelShows DEF ServicesInv, KeepsTheConfig
<1> QED BY <1>1, ServicesInvariant, PTL

\* Upgrade: wherever an update or the machine stops, the binary is all of a
\* release, and on Unix none older than .version says (loader.rs:189-204,
\* updater.rs:140-162).
THEOREM NeverLeftHalfUpdated == ServicesSpec => []NeverHalfUpdated
<1>1. ServicesInv => NeverHalfUpdated BY UpgradeShows DEF ServicesInv, NeverHalfUpdated
<1> QED BY <1>1, ServicesInvariant, PTL
=============================================================================
