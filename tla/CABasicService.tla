--------------------------- MODULE CABasicService ---------------------------
(***************************************************************************)
(* The sending half of CABasicService: the dissemination thread, the API   *)
(* calls that configure the service and set the vehicle's motion, and the  *)
(* destructor.  What happens under _camMutex is one step; between these    *)
(* steps the thread works on its own copy of the CAM, and time passes.     *)
(***************************************************************************)
EXTENDS VehicleFrequencyManager

CONSTANTS StationTypes,  \* station types applications configure
          Motions,       \* values of the motion data
          TCheckGenCAM,  \* sleep between two checks
          SendOutcomes   \* {TRUE}, or with FALSE: sends may fail

ASSUME ServiceAssumption ==
  /\ StationTypes \subseteq {"car", "rsu", "unknown"}
  /\ Motions \subseteq Int /\ 0 \in Motions
  /\ TCheckGenCAM \in Nat \ {0} /\ TCheckGenCAM <= TGenCAMMin
  /\ SendOutcomes \subseteq BOOLEAN

VARIABLES
  cam,     \* _cam: station type, high frequency container, LFC present, motion
  fm,      \* the frequency manager
  pc,      \* where the dissemination thread is
  genCAM,  \* its copy of the CAM
  sleep,   \* time left to sleep
  active,  \* _disseminationActive
  joined,  \* the destructor's join() has returned
  fault,   \* the process was terminated
  sent,    \* history: the last CAM handed to the network, ages of the last
           \* CAM and of the last one with a low frequency container
  started  \* history: this is not the first CAM (with, without LFC)

vars == <<cam, fm, pc, genCAM, sleep, active, joined, fault, sent, started>>

CAMs == [type : {"car", "rsu", "unknown"}, hfc : {"vehicle", "rsu", "nothing"},
         lfc : BOOLEAN, kin : Motions]

Managers == [tGenCAM : (-HalfInt)..(HalfInt - 1), nGenCAM : 0..NGenCAMMax,
             kin : Motions, age : 0..MaxAge, lfcAge : 0..MaxAge]

TypeOK ==
  /\ cam \in CAMs /\ genCAM \in CAMs
  /\ fm \in Managers
  /\ pc \in {"loop", "sleep", "check", "prepare", "send", "notify", "done"}
  /\ sleep \in 0..TCheckGenCAM
  /\ active \in BOOLEAN /\ joined \in BOOLEAN /\ fault \in BOOLEAN
  /\ sent \in [cam : CAMs, age : 0..MaxAge, lfcAge : 0..MaxAge]
  /\ started \in [any : BOOLEAN, lfc : BOOLEAN]

\* Mutant: the low frequency container of a car stays.
configuredKeepsLFC(c, type) ==
  [type |-> type,
   hfc  |-> CASE type = "rsu" -> "rsu" [] type = "unknown" -> "nothing" [] OTHER -> "vehicle",
   lfc  |-> c.lfc \/ type = "car",
   kin  |-> 0]

\* configure: setHFC clears the container when its type changes; setLFC and
\* clearLFC.
configured(c, type) ==
  LET hfc == CASE type = "rsu"     -> "rsu"
               [] type = "unknown" -> "nothing"
               [] OTHER            -> "vehicle"
  IN [type |-> type,
      hfc  |-> hfc,
      lfc  |-> hfc = "vehicle",
      kin  |-> IF c.hfc = hfc THEN c.kin ELSE 0]

FirstCAM == [type |-> "car", hfc |-> "vehicle", lfc |-> TRUE, kin |-> 0]

\* The constructor configures a passenger car and starts the thread.
Init ==
  /\ cam = FirstCAM
  /\ fm = FMInit
  /\ pc = "loop"
  /\ genCAM = cam
  /\ sleep = 0
  /\ active = TRUE /\ joined = FALSE /\ fault = FALSE
  /\ sent = [cam |-> cam, age |-> ClockStart, lfcAge |-> ClockStart]
  /\ started = [any |-> FALSE, lfc |-> FALSE]

Running == ~fault /\ ~joined

-----------------------------------------------------------------------------
(* API calls *)

configure(type) ==
  /\ Running /\ active
  /\ cam' = configured(cam, type)
  /\ UNCHANGED <<fm, pc, genCAM, sleep, active, joined, fault, sent, started>>

\* setHeading, setSpeed and the other setters.
setMotion(kin) ==
  /\ Running /\ active
  /\ cam' = IF cam.hfc = "vehicle" THEN [cam EXCEPT !.kin = kin] ELSE cam
  /\ UNCHANGED <<fm, pc, genCAM, sleep, active, joined, fault, sent, started>>

\* ~CABasicService: the flag, then join().
Stop ==
  /\ Running /\ active
  /\ active' = FALSE
  /\ UNCHANGED <<cam, fm, pc, genCAM, sleep, joined, fault, sent, started>>

Join ==
  /\ Running /\ ~active /\ pc = "done"
  /\ joined' = TRUE
  /\ UNCHANGED <<cam, fm, pc, genCAM, sleep, active, fault, sent, started>>

-----------------------------------------------------------------------------
(* disseminationTask *)

\* Mutant: the flag is not looked at.
LoopForever ==
  /\ Running /\ pc = "loop"
  /\ pc' = "sleep"
  /\ sleep' = TCheckGenCAM
  /\ UNCHANGED <<cam, fm, genCAM, active, joined, fault, sent, started>>

\* The loop's head: go to sleep, or leave when the service stops.
Loop ==
  /\ Running /\ pc = "loop"
  /\ pc' = IF active THEN "sleep" ELSE "done"
  /\ sleep' = IF active THEN TCheckGenCAM ELSE 0
  /\ UNCHANGED <<cam, fm, genCAM, active, joined, fault, sent, started>>

Sleep ==
  /\ Running /\ pc = "sleep"
  /\ sleep = 0
  /\ pc' = "check"
  /\ UNCHANGED <<cam, fm, genCAM, sleep, active, joined, fault, sent, started>>

\* Mutant: the copy of the last CAM is sent again.
CheckOldCopy ==
  /\ Running /\ pc = "check"
  /\ fm' = generateCAMUpdate(fm, cam.kin)
  /\ pc' = IF generateCAM(fm, cam.kin) THEN "prepare" ELSE "loop"
  /\ UNCHANGED <<cam, genCAM, fault, sleep, active, joined, sent, started>>

\* generateCAM and the copy, under the mutex.  A CAM without a high frequency
\* container cannot be encoded: its copy throws, nothing catches it.
Check ==
  /\ Running /\ pc = "check"
  /\ fm' = generateCAMUpdate(fm, cam.kin)
  /\ IF generateCAM(fm, cam.kin)
     THEN genCAM' = cam /\ fault' = (cam.hfc = "nothing") /\ pc' = "prepare"
     ELSE pc' = "loop" /\ UNCHANGED <<genCAM, fault>>
  /\ UNCHANGED <<cam, sleep, active, joined, sent, started>>

\* generationDeltaTime, and the low frequency container when it is not due.
Prepare ==
  /\ Running /\ pc = "prepare"
  /\ genCAM' = IF includeLFC(fm) THEN genCAM ELSE [genCAM EXCEPT !.lfc = FALSE]
  /\ pc' = "send"
  /\ UNCHANGED <<cam, fm, sleep, active, joined, fault, sent, started>>

\* send throws a NetworkException when the system call fails.
Send ==
  /\ Running /\ pc = "send"
  /\ \E ok \in SendOutcomes :
       /\ fault' = ~ok
       /\ pc' = IF ok THEN "notify" ELSE "send"
       /\ sent' = IF ok THEN [cam    |-> genCAM, age |-> 0,
                              lfcAge |-> IF genCAM.lfc THEN 0 ELSE sent.lfcAge]
                        ELSE sent
       /\ started' = IF ok THEN [any |-> TRUE, lfc |-> started.lfc \/ genCAM.lfc]
                           ELSE started
  /\ UNCHANGED <<cam, fm, genCAM, sleep, active, joined>>

\* Mutant: the manager is told the present motion, not the one sent.
NotifyPresent ==
  /\ Running /\ pc = "notify"
  /\ fm' = notifyCAMGeneration(fm, cam.kin, genCAM.lfc)
  /\ pc' = "loop"
  /\ UNCHANGED <<cam, genCAM, sleep, active, joined, fault, sent, started>>

Notify ==
  /\ Running /\ pc = "notify"
  /\ fm' = notifyCAMGeneration(fm, genCAM.kin, genCAM.lfc)
  /\ pc' = "loop"
  /\ UNCHANGED <<cam, genCAM, sleep, active, joined, fault, sent, started>>

-----------------------------------------------------------------------------
\* A unit of time passes; the thread may be late.
Tick ==
  /\ Running
  /\ fm' = Later(fm, 1)
  /\ sleep' = IF sleep = 0 THEN 0 ELSE sleep - 1
  /\ sent' = [sent EXCEPT !.age = IF @ = MaxAge THEN @ ELSE @ + 1,
                          !.lfcAge = IF @ = MaxAge THEN @ ELSE @ + 1]
  /\ UNCHANGED <<cam, pc, genCAM, active, joined, fault, started>>

\* The destructor has returned, or the process was terminated.
Ended == ~Running /\ UNCHANGED vars

Task == Loop \/ Sleep \/ Check \/ Prepare \/ Send \/ Notify

Next ==
  \/ \E type \in StationTypes : configure(type)
  \/ \E kin \in Motions : setMotion(kin)
  \/ Stop \/ Join
  \/ Task \/ Tick \/ Ended

\* Time passes, the dissemination thread is scheduled and join() returns.
Spec == Init /\ [][Next]_vars /\ WF_vars(Task) /\ WF_vars(Tick) /\ WF_vars(Join)

-----------------------------------------------------------------------------
(* The mapping to CAMGeneration: a copy is a draft while it is prepared and *)
(* sent, unless the exception of its copy or of the send ends the process.  *)

States ==
  {c \in CAMs :
     /\ c.hfc = CASE c.type = "rsu"     -> "rsu"
                  [] c.type = "unknown" -> "nothing"
                  [] OTHER              -> "vehicle"
     /\ c.lfc <=> c.type = "car"
     /\ c.hfc # "vehicle" => c.kin = 0}
Complete == {c \in States : c.hfc # "nothing"}
Drafts   == IF pc \in {"prepare", "send"} /\ ~fault THEN {genCAM} ELSE {}

Generation == INSTANCE CAMGeneration WITH
  First <- FirstCAM, station <- cam, draft <- Drafts, last <- sent.cam,
  age <- sent.age, lfcAge <- sent.lfcAge

(* The dissemination thread, the mutex and the manager's timestamps         *)
(* implement the generation of CAMs: whatever is configured meanwhile, what *)
(* is sent is one complete state that the station has had since the last    *)
(* CAM was sent, T_GenCamMin or more after it.                              *)
ImplementsGeneration == Generation!Spec

(* Two CAMs are never sent less than T_GenCamMin apart, although the age is *)
(* checked before the copy is prepared and sent and the timestamp is taken  *)
(* after the send.                                                          *)
RateLimited ==
  [][pc = "send" /\ pc' = "notify" /\ started.any => sent.age >= TGenCAMMin]_vars

(* The low frequency container is sent at most every T_GenCamLFC, and a car *)
(* that sends a CAM without it has sent it before.                          *)
LFCSpaced ==
  [][pc = "send" /\ pc' = "notify" =>
       /\ genCAM.lfc /\ started.lfc => sent.lfcAge >= TGenCAMLFC
       /\ genCAM.type = "car" /\ ~genCAM.lfc => started.lfc]_vars

(* A CAM that is sent comes from one configuration: its containers fit its  *)
(* station type, whatever sequence of configure calls came before it.       *)
SentCoherent ==
  started.any =>
    /\ sent.cam.hfc = (IF sent.cam.type = "rsu" THEN "rsu" ELSE "vehicle")
    /\ sent.cam.lfc => sent.cam.type = "car"
    /\ sent.cam.hfc # "vehicle" => sent.cam.kin = 0

(* A check that generates no CAM leaves no change unreported: the minimal   *)
(* interval is not over, or the motion is within the threshold of the one   *)
(* in the last CAM that was sent.  The manager does not see that CAM; it is *)
(* told of the motion in it after the send, when the motion may be another. *)
NothingUnreported ==
  [][pc = "check" /\ pc' = "loop" =>
       \/ fm.age < TGenCAMMin
       \/ /\ cam.kin - sent.cam.kin < Threshold
          /\ sent.cam.kin - cam.kin < Threshold]_vars

(* The destructor returns: the dissemination thread sees the flag wherever  *)
(* it is in its round.                                                      *)
StopReturns == ~active ~> (joined \/ fault)

(* A change of motion is reported: the service does not stay silent about a *)
(* motion that differs from the last CAM's by the threshold or more, even   *)
(* when it was set while that CAM was on its way.                           *)
MotionReported ==
  (sent.cam.kin = 0 /\ cam.kin >= Threshold)
    ~> (sent.cam.kin # 0 \/ cam.kin < Threshold \/ ~active \/ fault)

(* The interval between CAMs is at most T_GenCamMax: a station that stands  *)
(* still sends CAMs again and again.  It does not: the time since the last  *)
(* CAM, the first of all included, is cut to an int, and no age reaches a   *)
(* negative interval.                                                       *)
CAMsGoOn == []<>(pc = "notify" \/ ~active \/ fault)

(* No exception leaves the dissemination thread: an application may         *)
(* configure every station type.                                            *)
TaskSurvives == ~fault
=============================================================================
