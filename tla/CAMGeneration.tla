---------------------------- MODULE CAMGeneration ----------------------------
(***************************************************************************)
(* What ICABasicService and IFrequencyManager promise about the CAMs of a  *)
(* station, without thread, lock, manager or sleep: each CAM is a state in *)
(* which the station has been since the last CAM was sent, taken when the  *)
(* minimal interval was over, and has its low frequency container only     *)
(* when the interval of that one is over.                                  *)
(***************************************************************************)
EXTENDS Integers

CONSTANTS States,      \* what the station can be
          Complete,    \* the states with which a CAM can be made
          TGenCAMMin,  \* the least interval between two CAMs
          TGenCAMLFC,  \* the same for CAMs with a low frequency container
          MaxAge,      \* bound: an age of MaxAge stands for all larger ones
          First,       \* the station at the start
          ClockStart   \* the ages at the start

VARIABLES station,     \* its present state
          draft,       \* the CAM to be sent, a set of one, or {}
          last,        \* the last CAM
          age, lfcAge  \* since the last CAM, with low frequency container

generationVars == <<station, draft, last, age, lfcAge>>

Init ==
  /\ station = First /\ draft = {}
  /\ last = First /\ age = ClockStart /\ lfcAge = ClockStart

\* The station moves or is configured.
Change(s) ==
  /\ station' = s
  /\ UNCHANGED <<draft, last, age, lfcAge>>

Draft ==
  /\ draft = {} /\ age >= TGenCAMMin /\ station \in Complete
  /\ draft' = {station}
  /\ UNCHANGED <<station, last, age, lfcAge>>

\* The low frequency container is left out.
Trim ==
  /\ \E c \in draft : draft' = {[c EXCEPT !.lfc = FALSE]}
  /\ UNCHANGED <<station, last, age, lfcAge>>

Emit ==
  /\ \E c \in draft :
       /\ c.lfc => lfcAge >= TGenCAMLFC
       /\ last' = c
       /\ lfcAge' = IF c.lfc THEN 0 ELSE lfcAge
  /\ draft' = {} /\ age' = 0
  /\ UNCHANGED station

\* The send fails.
GiveUp ==
  /\ draft' = {}
  /\ UNCHANGED <<station, last, age, lfcAge>>

Pass ==
  /\ age' = IF age = MaxAge THEN age ELSE age + 1
  /\ lfcAge' = IF lfcAge = MaxAge THEN lfcAge ELSE lfcAge + 1
  /\ UNCHANGED <<station, draft, last>>

Next ==
  \/ \E s \in States : Change(s)
  \/ Draft \/ Trim \/ Emit \/ GiveUp \/ Pass

Spec == Init /\ [][Next]_generationVars
=============================================================================
