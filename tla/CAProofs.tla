------------------------------ MODULE CAProofs ------------------------------
(***************************************************************************)
(* Proofs about the sending half of CABasicService, for any intervals and  *)
(* any width of int that satisfy IntervalsAssumption, any motions and any  *)
(* sequence of API calls, and about the conversions of ValueConverter, by  *)
(* which the service's setters fill the CAM.                               *)
(***************************************************************************)
EXTENDS CABasicService, ValueConverter, TLAPS

(* An unsigned long long that is assigned to an int ends up in an int.      *)
LEMMA ToIntRange ==
  ASSUME NEW d \in Int
  PROVE  ToInt(d) \in (-HalfInt)..(HalfInt - 1)
<1>1. HalfInt \in Nat /\ HalfInt > 0
  BY IntervalsAssumption
<1>2. DEFINE n == 2 * HalfInt
<1>3. n \in Nat /\ n > 0
  BY <1>1
<1>4. (d + HalfInt) % n \in 0..(n - 1)
  <2> HIDE DEF n
  <2> QED BY <1>1, <1>3
<1> QED BY <1>1, <1>4 DEF ToInt

Busy == {"prepare", "send", "notify"}

\* A CAM whose containers fit its station type; only one with a high frequency
\* container can be encoded.
Fits(c) ==
  /\ c.type = "car" => c.hfc = "vehicle"
  /\ c.type = "rsu" => c.hfc = "rsu"
  /\ c.type = "unknown" => c.hfc = "nothing"
  /\ c.lfc => c.type = "car"
  /\ c.hfc # "vehicle" => c.kin = 0
Sendable(c) == Fits(c) /\ c.type # "unknown"

\* Whatever the thread does with its copy, the CAM fits; what it sends has a
\* high frequency container.
Fitting ==
  /\ Fits(cam) /\ (cam.lfc <=> cam.type = "car")
  /\ pc \in Busy /\ ~fault => Sendable(genCAM)
  /\ started.any => Sendable(sent.cam)

\* The manager's ages are not above those of the last CAM, but for the moment
\* between a send and its notification; the thread sends only when the minimal
\* interval is over, since ages only grow meanwhile.
Spaced ==
  /\ pc # "notify" => fm.age <= sent.age /\ fm.lfcAge <= sent.lfcAge
  /\ pc = "notify" => /\ ~genCAM.lfc => fm.lfcAge <= sent.lfcAge
  /\ pc \in {"prepare", "send"} => fm.age >= TGenCAMMin

\* When the low frequency container goes with a CAM, it is due; when it is not
\* due, one was sent.
LFCDue ==
  /\ fm.lfcAge < TGenCAMLFC => started.lfc
  /\ pc = "prepare" /\ ~fault => (genCAM.lfc <=> genCAM.type = "car")
  /\ pc = "send" /\ genCAM.lfc => fm.lfcAge >= TGenCAMLFC
  /\ pc = "send" /\ ~fault /\ genCAM.type = "car" /\ ~genCAM.lfc => started.lfc
  /\ pc = "notify" /\ genCAM.lfc => started.lfc

CAInv == TypeOK /\ Fitting /\ Spaced /\ LFCDue

(* The constants are of the kinds that arithmetic needs.                    *)
LEMMA Constants ==
  /\ TGenCAMMin \in Nat /\ TGenCAMMax \in Nat /\ TGenCAMLFC \in Nat
  /\ NGenCAMMax \in Nat \ {0} /\ Threshold \in Nat /\ TCheckGenCAM \in Nat
  /\ HalfInt \in Nat /\ ClockStart \in Nat /\ MaxAge \in Nat
  /\ 0 < TGenCAMMin /\ TGenCAMMin <= TGenCAMMax /\ TGenCAMMax < HalfInt
  /\ TGenCAMMax < MaxAge /\ TGenCAMLFC <= MaxAge /\ ClockStart <= MaxAge
  /\ TGenCAMLFC <= ClockStart /\ 0 \in Motions /\ Motions \subseteq Int
BY IntervalsAssumption, ClockAssumption, ServiceAssumption

(* generateCAM changes the interval and the counter, within their ranges.   *)
LEMMA UpdateKeeps ==
  ASSUME fm \in Managers, NEW kin \in Motions
  PROVE  /\ generateCAMUpdate(fm, kin) \in Managers
         /\ generateCAMUpdate(fm, kin).age = fm.age
         /\ generateCAMUpdate(fm, kin).lfcAge = fm.lfcAge
<1>1. ToInt(fm.age) \in (-HalfInt)..(HalfInt - 1)
  BY ToIntRange, Constants DEF Managers
<1>2. TGenCAMMax \in (-HalfInt)..(HalfInt - 1)
  BY Constants
<1>3. CASE condition1(fm, kin)
  <2>1. generateCAMUpdate(fm, kin) = [fm EXCEPT !.nGenCAM = 1, !.tGenCAM = ToInt(fm.age)]
    BY <1>3 DEF generateCAMUpdate
  <2>2. 1 \in 0..NGenCAMMax
    BY Constants
  <2> QED BY <1>1, <2>1, <2>2 DEF Managers
<1>4. CASE ~condition1(fm, kin) /\ condition2(fm, kin)
  <2> DEFINE n == IF fm.nGenCAM < NGenCAMMax THEN fm.nGenCAM + 1 ELSE fm.nGenCAM
             i == IF fm.nGenCAM + 1 >= NGenCAMMax THEN TGenCAMMax ELSE fm.tGenCAM
  <2>1. generateCAMUpdate(fm, kin) = [fm EXCEPT !.nGenCAM = n, !.tGenCAM = i]
    BY <1>4 DEF generateCAMUpdate
  <2>2. n \in 0..NGenCAMMax /\ i \in (-HalfInt)..(HalfInt - 1)
    BY <1>2, Constants DEF Managers
  <2> HIDE DEF n, i
  <2> QED BY <2>1, <2>2 DEF Managers
<1>5. CASE ~condition1(fm, kin) /\ ~condition2(fm, kin)
  BY <1>5 DEF generateCAMUpdate
<1> QED BY <1>3, <1>4, <1>5

(* A CAM is generated only when the last one is T_GenCamMin old.            *)
LEMMA GeneratedLate ==
  ASSUME NEW kin, generateCAM(fm, kin)
  PROVE  fm.age >= TGenCAMMin
BY DEF generateCAM, condition1, condition2, AtLeast

(* The service starts in the invariant.                                     *)
LEMMA CAInit == Init => CAInv
<1> SUFFICES ASSUME Init PROVE CAInv
  OBVIOUS
<1>1. FMInit \in Managers
  BY Constants DEF FMInit, Managers
<1>2. cam \in CAMs
  BY Constants DEF Init, FirstCAM, CAMs
<1>3. cam.type = "car" /\ cam.hfc = "vehicle" /\ cam.lfc = TRUE
  BY DEF Init, FirstCAM
<1>4. TypeOK
  <2>1. sent \in [cam : CAMs, age : 0..MaxAge, lfcAge : 0..MaxAge]
    BY <1>2, Constants DEF Init
  <2>2. started \in [any : BOOLEAN, lfc : BOOLEAN]
    BY DEF Init
  <2>3. 0 \in 0..TCheckGenCAM
    BY Constants
  <2> QED BY <1>1, <1>2, <2>1, <2>2, <2>3 DEF Init, TypeOK
<1>5. Fitting
  <2>1. Fits(cam)
    BY <1>3 DEF Fits
  <2>2. (cam.lfc <=> cam.type = "car")
    BY <1>3
  <2> QED BY <2>1, <2>2 DEF Init, Fitting, Busy
<1>6. fm.age = ClockStart /\ fm.lfcAge = ClockStart
  BY DEF Init, FMInit
<1>7. Spaced /\ LFCDue
  BY <1>6, Constants DEF Init, Spaced, LFCDue
<1> QED BY <1>4, <1>5, <1>7 DEF CAInv

(* Time keeps ages in their ranges, in their order and above what they have *)
(* reached.                                                                 *)
LEMMA TickKeeps ==
  ASSUME TypeOK, Tick
  PROVE  /\ fm' \in Managers
         /\ sent' \in [cam : CAMs, age : 0..MaxAge, lfcAge : 0..MaxAge]
         /\ sent'.cam = sent.cam
         /\ fm'.age >= fm.age /\ fm'.lfcAge >= fm.lfcAge
         /\ fm.age <= sent.age => fm'.age <= sent'.age
         /\ fm.lfcAge <= sent.lfcAge => fm'.lfcAge <= sent'.lfcAge
<1> DEFINE fa == IF fm.age + 1 > MaxAge THEN MaxAge ELSE fm.age + 1
           fl == IF fm.lfcAge + 1 > MaxAge THEN MaxAge ELSE fm.lfcAge + 1
           sa == IF sent.age = MaxAge THEN sent.age ELSE sent.age + 1
           sl == IF sent.lfcAge = MaxAge THEN sent.lfcAge ELSE sent.lfcAge + 1
<1>1. fm' = [fm EXCEPT !.age = fa, !.lfcAge = fl]
  BY DEF Tick, Later
<1>2. sent' = [sent EXCEPT !.age = sa, !.lfcAge = sl]
  BY DEF Tick
<1>3. /\ fm.age \in 0..MaxAge /\ fm.lfcAge \in 0..MaxAge
      /\ sent.age \in 0..MaxAge /\ sent.lfcAge \in 0..MaxAge
  BY DEF TypeOK, Managers
<1>4. /\ fa \in 0..MaxAge /\ fl \in 0..MaxAge /\ sa \in 0..MaxAge /\ sl \in 0..MaxAge
      /\ fa >= fm.age /\ fl >= fm.lfcAge
      /\ fm.age <= sent.age => fa <= sa
      /\ fm.lfcAge <= sent.lfcAge => fl <= sl
  BY <1>3, Constants
<1> HIDE DEF fa, fl, sa, sl
<1>5. fm' \in Managers /\ fm'.age = fa /\ fm'.lfcAge = fl
  BY <1>1, <1>4 DEF TypeOK, Managers
<1>6. /\ sent' \in [cam : CAMs, age : 0..MaxAge, lfcAge : 0..MaxAge]
      /\ sent'.cam = sent.cam /\ sent'.age = sa /\ sent'.lfcAge = sl
  BY <1>2, <1>4 DEF TypeOK
<1> QED BY <1>4, <1>5, <1>6

(* Every step preserves the invariant.                                      *)
LEMMA CAStep == CAInv /\ [Next]_vars => CAInv'
<1> SUFFICES ASSUME CAInv, [Next]_vars PROVE CAInv'
  OBVIOUS
<1> USE DEF CAInv
<1>1. ASSUME NEW type \in StationTypes, configure(type)
      PROVE  CAInv'
  <2>1. type \in {"car", "rsu", "unknown"}
    BY ServiceAssumption
  <2>2. cam' \in CAMs /\ Fits(cam') /\ (cam'.lfc <=> cam'.type = "car")
    BY <1>1, <2>1, Constants DEF configure, configured, CAMs, Fits, Fitting, TypeOK
  <2> QED BY <1>1, <2>2 DEF configure, TypeOK, Fitting, Spaced, LFCDue
<1>2. ASSUME NEW kin \in Motions, setMotion(kin)
      PROVE  CAInv'
  <2>1. cam' \in CAMs /\ Fits(cam') /\ (cam'.lfc <=> cam'.type = "car")
    BY <1>2 DEF setMotion, CAMs, Fits, Fitting, TypeOK
  <2> QED BY <1>2, <2>1 DEF setMotion, TypeOK, Fitting, Spaced, LFCDue
<1>3. CASE Stop
  <2>1. active' = FALSE /\ UNCHANGED <<cam, fm, pc, genCAM, sleep, joined, fault, sent, started>>
    BY <1>3 DEF Stop
  <2>2. TypeOK'
    BY <2>1 DEF TypeOK
  <2>3. Fitting'
    BY <2>1 DEF Fitting
  <2>4. Spaced' /\ LFCDue'
    BY <2>1 DEF Spaced, LFCDue
  <2> QED BY <2>2, <2>3, <2>4
<1>4. CASE Join
  <2>1. joined' = TRUE /\ UNCHANGED <<cam, fm, pc, genCAM, sleep, active, fault, sent, started>>
    BY <1>4 DEF Join
  <2>2. TypeOK'
    BY <2>1 DEF TypeOK
  <2>3. Fitting'
    BY <2>1 DEF Fitting
  <2>4. Spaced' /\ LFCDue'
    BY <2>1 DEF Spaced, LFCDue
  <2> QED BY <2>2, <2>3, <2>4
<1>5. CASE Loop
  BY <1>5, Constants DEF Loop, TypeOK, Fitting, Spaced, LFCDue, Busy
<1>6. CASE Sleep
  BY <1>6 DEF Sleep, TypeOK, Fitting, Spaced, LFCDue, Busy
<1>7. CASE Check
  <2>1. /\ fm' \in Managers /\ fm'.age = fm.age /\ fm'.lfcAge = fm.lfcAge
        /\ UNCHANGED <<cam, sleep, active, joined, sent, started>>
        /\ pc = "check" /\ ~fault
    BY <1>7, UpdateKeeps DEF Check, TypeOK, CAMs, Running
  <2>2. CASE generateCAM(fm, cam.kin)
    <3>1. genCAM' = cam /\ fault' = (cam.hfc = "nothing") /\ pc' = "prepare"
      BY <1>7, <2>2 DEF Check
    <3>2. fm.age >= TGenCAMMin
      BY <2>2, GeneratedLate
    <3>3. TypeOK'
      BY <2>1, <3>1 DEF TypeOK
    <3>4. Fitting'
      BY <2>1, <3>1 DEF Fitting, Sendable, Fits
    <3> QED BY <2>1, <3>1, <3>2, <3>3, <3>4 DEF Spaced, LFCDue, Fitting
  <2>3. CASE ~generateCAM(fm, cam.kin)
    BY <1>7, <2>1, <2>3 DEF Check, TypeOK, Fitting, Spaced, LFCDue, Busy
  <2> QED BY <2>2, <2>3
<1>8. CASE Prepare
  <2>1. /\ pc = "prepare" /\ pc' = "send" /\ ~fault
        /\ UNCHANGED <<cam, fm, sleep, active, joined, fault, sent, started>>
    BY <1>8 DEF Prepare, Running
  <2>2. genCAM' = IF includeLFC(fm) THEN genCAM ELSE [genCAM EXCEPT !.lfc = FALSE]
    BY <1>8 DEF Prepare
  <2>3. includeLFC(fm) <=> fm.lfcAge >= TGenCAMLFC
    BY Constants DEF includeLFC, AtLeast
  <2>4. genCAM' \in CAMs /\ Sendable(genCAM')
    BY <2>1, <2>2 DEF TypeOK, CAMs, Fitting, Sendable, Fits, Busy
  <2>5. /\ genCAM'.type = genCAM.type
        /\ genCAM'.lfc => includeLFC(fm)
        /\ (genCAM'.lfc <=> genCAM.lfc) \/ ~includeLFC(fm)
    BY <2>2 DEF TypeOK, CAMs
  <2>6. fm.lfcAge \in Int /\ TGenCAMLFC \in Int
    BY Constants DEF TypeOK, Managers
  <2>7. TypeOK'
    BY <2>1, <2>4 DEF TypeOK
  <2>10. Fitting'
    BY <2>1, <2>4 DEF Fitting
  <2>8. Spaced'
    BY <2>1 DEF Spaced
  <2>9. /\ genCAM'.lfc => fm.lfcAge >= TGenCAMLFC
        /\ genCAM'.type = "car" /\ ~genCAM'.lfc => started.lfc
    BY <2>1, <2>3, <2>5, <2>6 DEF LFCDue
  <2>11. LFCDue'
    BY <2>1, <2>9 DEF LFCDue
  <2> QED BY <2>7, <2>10, <2>8, <2>11
<1>9. CASE Send
  <2>1. PICK ok \in SendOutcomes :
          /\ fault' = ~ok /\ pc' = IF ok THEN "notify" ELSE "send"
          /\ sent' = IF ok THEN [cam    |-> genCAM, age |-> 0,
                                 lfcAge |-> IF genCAM.lfc THEN 0 ELSE sent.lfcAge]
                           ELSE sent
          /\ started' = IF ok THEN [any |-> TRUE, lfc |-> started.lfc \/ genCAM.lfc]
                              ELSE started
    BY <1>9 DEF Send
  <2>2. /\ pc = "send" /\ ~fault
        /\ UNCHANGED <<cam, fm, genCAM, sleep, active, joined>>
    BY <1>9 DEF Send, Running
  <2>3. ok \in BOOLEAN
    BY ServiceAssumption
  <2>4. CASE ok
    <3>1. TypeOK'
      BY <2>1, <2>2, <2>4, Constants DEF TypeOK, CAMs
    <3> QED BY <2>1, <2>2, <2>4, <3>1 DEF TypeOK, Fitting, Spaced, LFCDue, Busy, CAMs
  <2>5. CASE ~ok
    BY <2>1, <2>2, <2>5 DEF TypeOK, Fitting, Spaced, LFCDue, Busy
  <2> QED BY <2>3, <2>4, <2>5
<1>10. CASE Notify
  <2>1. /\ pc = "notify" /\ pc' = "loop"
        /\ UNCHANGED <<cam, genCAM, sleep, active, joined, fault, sent, started>>
    BY <1>10 DEF Notify
  <2>2. /\ fm' \in Managers /\ fm'.age = 0
        /\ fm'.lfcAge = IF genCAM.lfc THEN 0 ELSE fm.lfcAge
    <3> DEFINE lfcAge == IF genCAM.lfc THEN 0 ELSE fm.lfcAge
    <3>1. fm' = [fm EXCEPT !.age = 0, !.kin = genCAM.kin, !.lfcAge = lfcAge]
      BY <1>10 DEF Notify, notifyCAMGeneration
    <3>2. lfcAge \in 0..MaxAge /\ 0 \in 0..MaxAge /\ genCAM.kin \in Motions
      BY Constants DEF TypeOK, Managers, CAMs
    <3> HIDE DEF lfcAge
    <3>3. fm' \in Managers /\ fm'.age = 0 /\ fm'.lfcAge = lfcAge
      BY <3>1, <3>2 DEF TypeOK, Managers
    <3> QED BY <3>3 DEF lfcAge
  <2>3. sent.age >= 0 /\ sent.lfcAge >= 0
    BY DEF TypeOK
  <2> QED BY <2>1, <2>2, <2>3 DEF TypeOK, Fitting, Spaced, LFCDue, Busy
<1>11. CASE Tick
  <2>1. /\ UNCHANGED <<cam, pc, genCAM, active, joined, fault, started>>
        /\ sleep' \in 0..TCheckGenCAM
    BY <1>11, Constants DEF Tick, TypeOK
  <2>2. /\ fm' \in Managers
        /\ sent' \in [cam : CAMs, age : 0..MaxAge, lfcAge : 0..MaxAge]
        /\ sent'.cam = sent.cam
        /\ fm'.age >= fm.age /\ fm'.lfcAge >= fm.lfcAge
        /\ fm.age <= sent.age => fm'.age <= sent'.age
        /\ fm.lfcAge <= sent.lfcAge => fm'.lfcAge <= sent'.lfcAge
    BY <1>11, TickKeeps
  <2>3. /\ {fm.age, fm.lfcAge, fm'.age, fm'.lfcAge} \subseteq Int
        /\ TGenCAMMin \in Int /\ TGenCAMLFC \in Int
    BY <2>2, Constants DEF TypeOK, Managers
  <2>4. TypeOK' /\ Fitting'
    BY <2>1, <2>2 DEF TypeOK, Fitting
  <2>5. Spaced' /\ LFCDue'
    BY <2>1, <2>2, <2>3 DEF Spaced, LFCDue
  <2> QED BY <2>4, <2>5
<1>12. CASE UNCHANGED vars
  BY <1>12 DEF vars, TypeOK, Fitting, Spaced, LFCDue
<1> QED BY <1>1, <1>2, <1>3, <1>4, <1>5, <1>6, <1>7, <1>8, <1>9, <1>10, <1>11, <1>12
        DEF Next, Task, Ended

(* The invariant holds throughout.                                          *)
LEMMA CAInvariant == Spec => []CAInv
BY CAInit, CAStep, PTL DEF Spec

(* The manager's interval, an int, and every age and counter stay in their  *)
(* ranges, whatever the clock shows when the first CAM is generated.        *)
THEOREM CATypeCorrect == Spec => []TypeOK
<1>1. CAInv => TypeOK
  BY DEF CAInv
<1> QED BY <1>1, CAInvariant, PTL

(* Whatever the application configures while CAMs are prepared and sent,    *)
(* the containers of each CAM fit its station type.                         *)
THEOREM CASentCoherent == Spec => []SentCoherent
<1>1. CAInv => SentCoherent
  BY DEF CAInv, TypeOK, CAMs, Fitting, Sendable, Fits, SentCoherent
<1> QED BY <1>1, CAInvariant, PTL

(* Two CAMs are sent at least T_GenCamMin apart: the age is checked before  *)
(* the copy is made and taken again after the send, and both err towards a  *)
(* longer interval.                                                         *)
THEOREM CARateLimited == Spec => RateLimited
<1>1. ASSUME CAInv, [Next]_vars
      PROVE  [pc = "send" /\ pc' = "notify" /\ started.any => sent.age >= TGenCAMMin]_vars
  <2>1. ASSUME pc = "send"
        PROVE  sent.age >= TGenCAMMin
    <3>1. fm.age >= TGenCAMMin /\ fm.age <= sent.age
      BY <1>1, <2>1 DEF CAInv, Spaced
    <3>2. fm.age \in Int /\ sent.age \in Int /\ TGenCAMMin \in Int
      BY <1>1, Constants DEF CAInv, TypeOK, Managers
    <3> QED BY <3>1, <3>2
  <2> QED BY <2>1
<1> QED BY <1>1, CAInvariant, PTL DEF Spec, RateLimited

(* The low frequency container goes out at most every T_GenCamLFC, and a    *)
(* car that leaves it out has sent it before.                               *)
THEOREM CALFCSpaced == Spec => LFCSpaced
<1>1. ASSUME CAInv, [Next]_vars
      PROVE  [pc = "send" /\ pc' = "notify" =>
                /\ genCAM.lfc /\ started.lfc => sent.lfcAge >= TGenCAMLFC
                /\ genCAM.type = "car" /\ ~genCAM.lfc => started.lfc]_vars
  <2>1. ASSUME pc = "send", genCAM.lfc
        PROVE  sent.lfcAge >= TGenCAMLFC
    <3>1. fm.lfcAge >= TGenCAMLFC /\ fm.lfcAge <= sent.lfcAge
      BY <1>1, <2>1 DEF CAInv, Spaced, LFCDue
    <3>2. fm.lfcAge \in Int /\ sent.lfcAge \in Int /\ TGenCAMLFC \in Int
      BY <1>1, Constants DEF CAInv, TypeOK, Managers
    <3> QED BY <3>1, <3>2
  <2>2. ASSUME pc = "send", pc' = "notify", genCAM.type = "car", ~genCAM.lfc, vars # vars'
        PROVE  started.lfc
    <3>1. ~fault
      BY <1>1, <2>2 DEF Next, configure, setMotion, Stop, Join, Task, Loop, Sleep, Check,
                        Prepare, Send, Notify, Tick, Ended, Running
    <3> QED BY <1>1, <2>2, <3>1 DEF CAInv, LFCDue
  <2> QED BY <2>1, <2>2
<1> QED BY <1>1, CAInvariant, PTL DEF Spec, LFCSpaced

\* The manager knows the motion in the last CAM, but for the moment between a
\* send and its notification, when the thread still has that CAM.
Told ==
  /\ pc # "notify" => fm.kin = sent.cam.kin
  /\ pc = "notify" => sent.cam = genCAM

(* Only Send and Notify touch what Told compares, one after the other.      *)
LEMMA ToldStep == CAInv /\ Told /\ [Next]_vars => Told'
<1> SUFFICES ASSUME CAInv, Told, [Next]_vars PROVE Told'
  OBVIOUS
<1>1. CASE Check
  <2>1. pc = "check" /\ pc' # "notify" /\ UNCHANGED sent
    BY <1>1 DEF Check
  <2>2. fm'.kin = fm.kin
    BY <1>1 DEF Check, generateCAMUpdate, CAInv, TypeOK, Managers
  <2> QED BY <2>1, <2>2 DEF Told
<1>2. CASE Send
  BY <1>2 DEF Send, Told
<1>3. CASE Notify
  <2>1. fm'.kin = genCAM.kin
    BY <1>3 DEF Notify, notifyCAMGeneration, CAInv, TypeOK, Managers
  <2> QED BY <1>3, <2>1 DEF Notify, Told
<1>4. CASE Tick
  <2>1. /\ fm'.kin = fm.kin /\ sent'.cam = sent.cam /\ UNCHANGED <<pc, genCAM>>
    BY <1>4 DEF Tick, Later, CAInv, TypeOK, Managers
  <2> QED BY <2>1 DEF Told
<1>5. CASE Prepare \/ Loop \/ Sleep
  BY <1>5 DEF Prepare, Loop, Sleep, Told
<1>6. CASE \/ \E type \in StationTypes : configure(type)
           \/ \E kin \in Motions : setMotion(kin)
           \/ Stop \/ Join \/ Ended \/ UNCHANGED vars
  BY <1>6 DEF configure, setMotion, Stop, Join, Ended, vars, Told
<1> QED BY <1>1, <1>2, <1>3, <1>4, <1>5, <1>6 DEF Next, Task

(* For every choice of the intervals and the threshold, and wherever        *)
(* setMotion and configure come between the copy of a CAM, its send and its *)
(* notification: a check without a CAM means that the minimal interval is   *)
(* not over or that the last CAM tells the present motion up to the         *)
(* threshold.                                                               *)
THEOREM CANothingUnreported == Spec => NothingUnreported
<1>1. ASSUME CAInv, Told, [Next]_vars
      PROVE  [pc = "check" /\ pc' = "loop" =>
                \/ fm.age < TGenCAMMin
                \/ /\ cam.kin - sent.cam.kin < Threshold
                   /\ sent.cam.kin - cam.kin < Threshold]_vars
  <2>1. ASSUME pc = "check", pc' = "loop", fm.age >= TGenCAMMin
        PROVE  cam.kin - sent.cam.kin < Threshold /\ sent.cam.kin - cam.kin < Threshold
    <3>1. Check
      BY <1>1, <2>1 DEF Next, configure, setMotion, Stop, Join, Task, Loop, Sleep,
                        Prepare, Send, Notify, Tick, Ended, vars
    <3>2. ~condition1(fm, cam.kin)
      BY <2>1, <3>1 DEF Check, generateCAM
    <3>3. AtLeast(fm.age, TGenCAMMin)
      BY <2>1, Constants DEF AtLeast
    <3>4. ~(cam.kin - fm.kin >= Threshold) /\ ~(fm.kin - cam.kin >= Threshold)
      BY <3>2, <3>3 DEF condition1
    <3>5. fm.kin = sent.cam.kin
      BY <1>1, <2>1 DEF Told
    <3>6. cam.kin \in Int /\ fm.kin \in Int /\ Threshold \in Int
      <4>1. cam.kin \in Motions /\ fm.kin \in Motions
        BY <1>1 DEF CAInv, TypeOK, CAMs, Managers
      <4>2. Motions \subseteq Int /\ Threshold \in Int
        BY Constants
      <4> QED BY <4>1, <4>2
    <3> QED BY <3>4, <3>5, <3>6
  <2>2. fm.age \in Int /\ TGenCAMMin \in Int
    BY <1>1, Constants DEF CAInv, TypeOK, Managers
  <2> QED BY <2>1, <2>2
<1>2. Init => Told
  BY DEF Init, FMInit, FirstCAM, Told
<1>3. Spec => []Told
  BY <1>2, ToldStep, CAInvariant, PTL DEF Spec
<1> QED BY <1>1, <1>3, CAInvariant, PTL DEF Spec, NothingUnreported
-----------------------------------------------------------------------------
(* The refinement *)

(* Whatever is configured, the station is in one of its states, complete if *)
(* it has a high frequency container.                                       *)
LEMMA StationState ==
  ASSUME CAInv
  PROVE  cam \in States /\ (cam.hfc # "nothing" => cam \in Complete)
<1>1. /\ cam \in CAMs /\ cam.type \in {"car", "rsu", "unknown"}
      /\ Fits(cam) /\ (cam.lfc <=> cam.type = "car")
  BY DEF CAInv, TypeOK, CAMs, Fitting
<1> QED BY <1>1 DEF States, Complete, Fits

(* The service starts where the generation does.                            *)
LEMMA GenerationInit == Init => Generation!Init
BY DEF Init, Drafts, Generation!Init

(* A check takes a draft of the station's present state, if the minimal     *)
(* interval is over and the copy can be made.                               *)
LEMMA CheckSimulates ==
  ASSUME CAInv, Check
  PROVE  [Generation!Next]_Generation!generationVars
<1>1. pc = "check" /\ ~fault /\ UNCHANGED <<cam, sent>>
  BY DEF Check, Running
<1>2. Drafts = {}
  BY <1>1 DEF Drafts
<1>3. CASE generateCAM(fm, cam.kin) /\ cam.hfc # "nothing"
  <2>1. genCAM' = cam /\ ~fault' /\ pc' = "prepare"
    BY <1>3 DEF Check
  <2>2. Drafts' = {cam}
    BY <2>1 DEF Drafts
  <2>3. sent.age >= TGenCAMMin
    <3>1. fm.age >= TGenCAMMin /\ fm.age <= sent.age
      BY <1>1, <1>3, GeneratedLate DEF CAInv, Spaced
    <3>2. fm.age \in Int /\ sent.age \in Int /\ TGenCAMMin \in Int
      BY Constants DEF CAInv, TypeOK, Managers
    <3> QED BY <3>1, <3>2
  <2>4. Generation!Draft
    BY <1>1, <1>2, <1>3, <2>2, <2>3, StationState DEF Generation!Draft
  <2> QED BY <2>4 DEF Generation!Next
<1>4. CASE ~(generateCAM(fm, cam.kin) /\ cam.hfc # "nothing")
  <2>1. pc' = "loop" \/ fault'
    BY <1>4 DEF Check
  <2>2. Drafts' = {}
    BY <2>1 DEF Drafts
  <2> QED BY <1>1, <1>2, <2>2 DEF Generation!generationVars
<1> QED BY <1>3, <1>4

(* What is sent is the draft, with its container only when that is due.     *)
LEMMA SendSimulates ==
  ASSUME CAInv, Send
  PROVE  [Generation!Next]_Generation!generationVars
<1>1. pc = "send" /\ ~fault /\ UNCHANGED <<cam, fm, genCAM>>
  BY DEF Send, Running
<1>2. PICK ok \in SendOutcomes :
        /\ fault' = ~ok /\ pc' = IF ok THEN "notify" ELSE "send"
        /\ sent' = IF ok THEN [cam    |-> genCAM, age |-> 0,
                               lfcAge |-> IF genCAM.lfc THEN 0 ELSE sent.lfcAge]
                         ELSE sent
  BY DEF Send
<1>3. Drafts = {genCAM} /\ ok \in BOOLEAN
  BY <1>1, ServiceAssumption DEF Drafts
<1>4. CASE ok
  <2>1. Drafts' = {}
    BY <1>2, <1>4 DEF Drafts
  <2>2. ASSUME genCAM.lfc PROVE sent.lfcAge >= TGenCAMLFC
    <3>1. fm.lfcAge >= TGenCAMLFC /\ fm.lfcAge <= sent.lfcAge
      BY <1>1, <2>2 DEF CAInv, Spaced, LFCDue
    <3>2. fm.lfcAge \in Int /\ sent.lfcAge \in Int /\ TGenCAMLFC \in Int
      BY Constants DEF CAInv, TypeOK, Managers
    <3> QED BY <3>1, <3>2
  <2>3. /\ sent'.cam = genCAM /\ sent'.age = 0
        /\ sent'.lfcAge = IF genCAM.lfc THEN 0 ELSE sent.lfcAge
    BY <1>2, <1>4
  <2>4. Generation!Emit
    BY <1>1, <1>3, <2>1, <2>2, <2>3 DEF Generation!Emit
  <2> QED BY <2>4 DEF Generation!Next
<1>5. CASE ~ok
  <2>1. sent' = sent /\ Drafts' = {}
    BY <1>2, <1>5 DEF Drafts
  <2> QED BY <1>1, <2>1 DEF Generation!GiveUp, Generation!Next
<1> QED BY <1>3, <1>4, <1>5

(* Each step of the service is one of the generation, or none it knows.     *)
LEMMA GenerationStep ==
  ASSUME CAInv, cam' \in States, [Next]_vars
  PROVE  [Generation!Next]_Generation!generationVars
<1>1. ASSUME UNCHANGED <<pc, genCAM, fault, sent>>, cam' \in States
      PROVE  Generation!Change(cam')
  BY <1>1 DEF Drafts, Generation!Change
<1>2. CASE (\E type \in StationTypes : configure(type)) \/ (\E kin \in Motions : setMotion(kin))
  <2>1. UNCHANGED <<pc, genCAM, fault, sent>>
    BY <1>2 DEF configure, setMotion
  <2> QED BY <1>1, <2>1 DEF Generation!Next
<1>3. CASE Stop \/ Join \/ Ended \/ UNCHANGED vars
  <2>1. UNCHANGED <<cam, pc, genCAM, fault, sent>>
    BY <1>3 DEF Stop, Join, Ended, vars
  <2> QED BY <2>1 DEF Drafts, Generation!generationVars
<1>4. CASE Loop \/ Sleep \/ Notify
  <2>1. /\ UNCHANGED <<cam, sent>>
        /\ pc \notin {"prepare", "send"} /\ pc' \notin {"prepare", "send"}
    BY <1>4 DEF Loop, Sleep, Notify
  <2> QED BY <2>1 DEF Drafts, Generation!generationVars
<1>5. CASE Check
  BY <1>5, CheckSimulates
<1>6. CASE Prepare
  <2>1. /\ UNCHANGED <<cam, sent>> /\ Drafts = {genCAM} /\ Drafts' = {genCAM'}
    BY <1>6 DEF Prepare, Running, Drafts
  <2>2. genCAM' = genCAM \/ genCAM' = [genCAM EXCEPT !.lfc = FALSE]
    BY <1>6 DEF Prepare
  <2>3. CASE genCAM' = genCAM
    BY <2>1, <2>3 DEF Generation!generationVars
  <2>4. CASE genCAM' = [genCAM EXCEPT !.lfc = FALSE]
    BY <2>1, <2>4 DEF Generation!Trim, Generation!Next
  <2> QED BY <2>2, <2>3, <2>4
<1>7. CASE Send
  BY <1>7, SendSimulates
<1>8. CASE Tick
  <2>1. UNCHANGED <<cam, pc, genCAM, fault>>
    BY <1>8 DEF Tick
  <2>2. /\ sent'.cam = sent.cam
        /\ sent'.age = IF sent.age = MaxAge THEN sent.age ELSE sent.age + 1
        /\ sent'.lfcAge = IF sent.lfcAge = MaxAge THEN sent.lfcAge ELSE sent.lfcAge + 1
    BY <1>8 DEF Tick, CAInv, TypeOK
  <2> QED BY <2>1, <2>2 DEF Drafts, Generation!Pass, Generation!Next
<1> QED BY <1>2, <1>3, <1>4, <1>5, <1>6, <1>7, <1>8 DEF Next, Task

(* For every choice of the intervals, with sends that fail and a thread     *)
(* that is late: the service implements the generation of CAMs.  A CAM is a *)
(* snapshot of the station that is younger than the last CAM, although      *)
(* configure and the setters run while it is prepared and sent.             *)
THEOREM CAImplementsGeneration == Spec => ImplementsGeneration
<1>1. CAInv => cam \in States
  BY StationState
<1>2. CAInv /\ (cam \in States)' /\ [Next]_vars
        => [Generation!Next]_Generation!generationVars
  BY GenerationStep
<1> QED
  BY <1>1, <1>2, GenerationInit, CAInvariant, PTL DEF Spec, ImplementsGeneration, Generation!Spec
-----------------------------------------------------------------------------
(* The conversions of ValueConverter, for every value they take.           *)

(* Values are cut off at the bounds.                                        *)
LEMMA ClampedTyped ==
  ASSUME NEW low \in Int, NEW value \in Int, NEW high \in Int, low <= high
  PROVE  Clamped(low, value, high) \in Between(low, high)
BY SMT DEF Clamped, Between

(* How far (int)(x + 0.5) is from x, in tenths.                             *)
LEMMA RoundedTenths ==
  ASSUME NEW x \in Int
  PROVE  /\ ROUND(x, 10) \in Int
         /\ x - 5 < ROUND(x, 10) * 10 /\ ROUND(x, 10) * 10 < x + 15
         /\ x >= 0 => ROUND(x, 10) * 10 <= x + 5
BY SMT DEF ROUND, Truncated

(* What the setters of CABasicService write into the message satisfies the  *)
(* constraints of its type, whatever the application passes: the encoder    *)
(* would send a value outside of them without a word.                       *)
THEOREM ConversionsInRange ==
  /\ \A x \in Int : /\ siToITSHeading(x) \in HeadingValue
                    /\ siToITSSpeed(x) \in SpeedValue
                    /\ siToITSLongitudinalAcceleration(x) \in LongitudinalAccelerationValue
                    /\ siToITSCurvature(x) \in CurvatureValue
                    /\ siToITSYawRate(x) \in YawRateValue
  /\ \A t \in Nat : timestampToDeltaTime(t) \in GenerationDeltaTime
  /\ \A x \in SILongitudes : siToITSLongitude(x) \in Longitude
  /\ \A x \in SILatitudes : siToITSLatitude(x) \in Latitude
<1>1. ASSUME NEW x \in Int
      PROVE  siToITSHeading(x) \in HeadingValue
  <2>1. \A n \in Int : n % 3600 \in Between(0, 3599)
    BY SMT DEF Between
  <2>2. \A a \in Int : Truncated(a, 100) \in Int
    BY SMT DEF Truncated
  <2>3. \A a \in Int : ROUND(a, 100) \in Int
    BY <2>2, SMT DEF ROUND
  <2>4. x + ((-x) \div 360000 + 1) * 360000 \in Int
    BY SMT
  <2> DEFINE p == IF x < 0 THEN x + ((-x) \div 360000 + 1) * 360000 ELSE x
  <2>5. siToITSHeading(x) = ROUND(p, 100) % 3600
    BY SMT DEF siToITSHeading
  <2>6. p \in Int
    BY <2>4, SMT
  <2> HIDE DEF p
  <2>7. siToITSHeading(x) \in Between(0, 3599)
    BY <2>1, <2>3, <2>5, <2>6, SMT
  <2> QED BY <2>7, SMT DEF HeadingValue, Between
<1>2. ASSUME NEW x \in Int
      PROVE  /\ siToITSSpeed(x) \in SpeedValue
             /\ siToITSLongitudinalAcceleration(x) \in LongitudinalAccelerationValue
             /\ siToITSYawRate(x) \in YawRateValue
  <2>1. ROUND(x, 10) \in Int /\ Truncated(x, 100) \in Int /\ Truncated(x, 10) \in Int
    BY SMT DEF ROUND, Truncated
  <2>2. siToITSSpeed(x) \in Between(0, 16382)
    BY <2>1, ClampedTyped, SMT DEF siToITSSpeed
  <2>3. siToITSLongitudinalAcceleration(x) \in Between(-160, 160)
    BY <2>1, ClampedTyped, SMT DEF siToITSLongitudinalAcceleration
  <2>4. siToITSYawRate(x) \in Between(-32766, 32766)
    BY <2>1, ClampedTyped, SMT DEF siToITSYawRate
  <2> QED
    BY <2>2, <2>3, <2>4, SMT
    DEF SpeedValue, LongitudinalAccelerationValue, YawRateValue, Between
<1>3. ASSUME NEW x \in Int
      PROVE  siToITSCurvature(x) \in CurvatureValue
  <2>1. ASSUME NEW r \in Int, r > 0
        PROVE  10000000 \div r \in Int
    BY <2>1, SMT
  <2>2. x > 0 => 10000000 \div x \in Int
    BY <2>1, SMT
  <2>3. x < 0 => 10000000 \div (-x) \in Int
    BY <2>1, SMT
  <2> QED BY <2>2, <2>3, SMT DEF siToITSCurvature, CurvatureValue, Clamped, Between
<1>4. ASSUME NEW t \in Nat
      PROVE  timestampToDeltaTime(t) \in GenerationDeltaTime
  BY SMT DEF timestampToDeltaTime, GenerationDeltaTime, Between
<1>5. ASSUME NEW x \in SILongitudes
      PROVE  siToITSLongitude(x) \in Longitude
  <2>1. x \in Int /\ -18000000000 <= x /\ x <= 18000000000
    BY SMT DEF SILongitudes, Between
  <2> DEFINE y == ROUND(x, 10)
  <2>2. y \in Int /\ x - 5 < y * 10 /\ y * 10 < x + 15 /\ (x >= 0 => y * 10 <= x + 5)
    BY <2>1, RoundedTenths, SMT
  <2> HIDE DEF y
  <2>3. -1800000000 <= y
    BY <2>1, <2>2, SMT
  <2>4. y <= 1800000001
    BY <2>1, <2>2, SMT
  <2>5. ROUND(x, 10) \in Int /\ -1800000000 <= ROUND(x, 10) /\ ROUND(x, 10) <= 1800000001
    BY <2>2, <2>3, <2>4, SMT DEF y
  <2> QED BY <2>5, SMT DEF siToITSLongitude, Longitude, Between
<1>6. ASSUME NEW x \in SILatitudes
      PROVE  siToITSLatitude(x) \in Latitude
  <2>1. x \in Int /\ -9000000000 <= x /\ x <= 9000000000
    BY SMT DEF SILatitudes, Between
  <2> DEFINE y == ROUND(x, 10)
  <2>2. y \in Int /\ x - 5 < y * 10 /\ y * 10 < x + 15 /\ (x >= 0 => y * 10 <= x + 5)
    BY <2>1, RoundedTenths, SMT
  <2> HIDE DEF y
  <2>3. -900000000 <= y
    BY <2>1, <2>2, SMT
  <2>4. y <= 900000001
    BY <2>1, <2>2, SMT
  <2>5. ROUND(x, 10) \in Int /\ -900000000 <= ROUND(x, 10) /\ ROUND(x, 10) <= 900000001
    BY <2>2, <2>3, <2>4, SMT DEF y
  <2> QED BY <2>5, SMT DEF siToITSLatitude, Latitude, Between
<1> QED BY <1>1, <1>2, <1>3, <1>4, <1>5, <1>6, SMT

(* The heading that is sent is the heading that was set, rounded to a tenth *)
(* of a degree, on the circle: also for negative headings, whole turns and  *)
(* headings that round up to 360 degrees.                                   *)
THEOREM HeadingOnCircle ==
  ASSUME NEW x \in Int
  PROVE  \E turns \in Int :
           LET d == x - (siToITSHeading(x) * 100 + turns * 360000)
           IN  -50 <= d /\ d < 50
<1> DEFINE t == (-x) \div 360000 + 1
           p == IF x < 0 THEN x + t * 360000 ELSE x
           r == ROUND(p, 100)
<1>1. t \in Int /\ (x < 0 => x + t * 360000 > 0)
  BY SMT
<1>2. p \in Nat
  BY <1>1, SMT
<1>3. r \in Nat /\ r * 100 - 50 <= p /\ p < r * 100 + 50
  BY <1>2, SMT DEF ROUND, Truncated
<1>4. PICK k \in Int : r = k * 3600 + (r % 3600)
  <2>1. r = (r \div 3600) * 3600 + (r % 3600) /\ r \div 3600 \in Int
    BY <1>3, SMT
  <2> QED BY <2>1, SMT
<1>5. siToITSHeading(x) = r % 3600
  BY SMT DEF siToITSHeading
<1>6. r % 3600 \in Int
  BY <1>3, SMT
<1>7. CASE x >= 0
  <2>1. p = x
    BY <1>7, SMT
  <2>2. -50 <= x - (siToITSHeading(x) * 100 + k * 360000)
        /\ x - (siToITSHeading(x) * 100 + k * 360000) < 50
    BY <1>3, <1>4, <1>5, <1>6, <2>1, SMT
  <2> QED BY <2>2, SMT
<1>8. CASE x < 0
  <2>1. p = x + t * 360000
    BY <1>8, SMT
  <2> HIDE DEF t, p, r
  <2>2. -50 <= x - (siToITSHeading(x) * 100 + (k - t) * 360000)
        /\ x - (siToITSHeading(x) * 100 + (k - t) * 360000) < 50
    BY <1>1, <1>3, <1>4, <1>5, <1>6, <2>1, SMT
  <2>3. k - t \in Int
    BY <1>1, <1>4, SMT
  <2> QED BY <2>2, <2>3, SMT
<1> QED BY <1>7, <1>8, SMT
=============================================================================
