----------------------- MODULE VehicleFrequencyManager -----------------------
(***************************************************************************)
(* When a CAM is generated: VehicleFrequencyManager.  Its state is a record *)
(*   tGenCAM, nGenCAM  the fields of these names                           *)
(*   kin               the heading, speed and position of the last CAM     *)
(*   age, lfcAge       now() - _lastTimestamp, now() - _lastLFCTimestamp   *)
(* Times are in units of the checks' granularity.  The timestamps start at *)
(* 0 and now() at the time since the ITS epoch, so that the first ages are *)
(* as large as the clock.                                                  *)
(***************************************************************************)
EXTENDS Integers

CONSTANTS TGenCAMMin, TGenCAMMax, TGenCAMLFC,  \* the intervals
          NGenCAMMax,   \* CAMs sent at the rate of condition 1
          Threshold,    \* the change that condition 1 asks for
          HalfInt,      \* an int ranges over -HalfInt..HalfInt-1
          ClockStart,   \* now() at start, counted from timestamp 0
          MaxAge        \* bound: an age of MaxAge stands for all larger ones

ASSUME IntervalsAssumption ==
  /\ TGenCAMMin \in Nat /\ TGenCAMMax \in Nat /\ TGenCAMLFC \in Nat
  /\ 0 < TGenCAMMin /\ TGenCAMMin <= TGenCAMMax /\ TGenCAMMax < HalfInt
  /\ NGenCAMMax \in Nat \ {0} /\ Threshold \in Nat /\ HalfInt \in Nat
  /\ ClockStart \in Nat /\ MaxAge \in Nat
  /\ TGenCAMMax < MaxAge /\ TGenCAMLFC <= MaxAge /\ ClockStart <= MaxAge

\* now() counts from 2004 and the timestamps start at 0, so that the low
\* frequency container is due at the start.
ASSUME ClockAssumption == TGenCAMLFC <= ClockStart

\* Mutant: the interval is kept in a wide integer.
ToIntWide(d) == d

\* unsigned long long to int.
ToInt(d) == ((d + HalfInt) % (2 * HalfInt)) - HalfInt

\* d >= (unsigned long long)n for an int n: a negative n is larger than any d.
AtLeast(d, n) == n >= 0 /\ d >= n

FMInit == [tGenCAM |-> TGenCAMMax, nGenCAM |-> 0, kin |-> 0,
           age |-> ClockStart, lfcAge |-> ClockStart]

\* Mutant: condition 1 ignores the minimal interval.
condition1AtOnce(fm, kin) ==
  kin - fm.kin >= Threshold \/ fm.kin - kin >= Threshold

\* Heading, speed or position changed by the threshold or more.
condition1(fm, kin) ==
  /\ AtLeast(fm.age, TGenCAMMin)
  /\ kin - fm.kin >= Threshold \/ fm.kin - kin >= Threshold

condition2(fm, kin) ==
  /\ AtLeast(fm.age, TGenCAMMin)
  /\ ~condition1(fm, kin)
  /\ AtLeast(fm.age, fm.tGenCAM)

generateCAM(fm, kin) == condition1(fm, kin) \/ condition2(fm, kin)

\* The manager's fields after generateCAM.  Counting stops at NGenCAMMax, the
\* only value the counter is compared with.
generateCAMUpdate(fm, kin) ==
  IF condition1(fm, kin)
  THEN [fm EXCEPT !.nGenCAM = 1, !.tGenCAM = ToInt(fm.age)]
  ELSE IF condition2(fm, kin)
  THEN [fm EXCEPT !.nGenCAM = IF @ < NGenCAMMax THEN @ + 1 ELSE @,
                  !.tGenCAM = IF fm.nGenCAM + 1 >= NGenCAMMax THEN TGenCAMMax ELSE @]
  ELSE fm

\* Mutant: off by one.
includeLFCTooEarly(fm) == AtLeast(fm.lfcAge + 1, TGenCAMLFC)

includeLFC(fm) == AtLeast(fm.lfcAge, TGenCAMLFC)

notifyCAMGeneration(fm, kin, lfc) ==
  [fm EXCEPT !.age = 0, !.kin = kin, !.lfcAge = IF lfc THEN 0 ELSE @]

\* d units of time pass.
Later(fm, d) ==
  [fm EXCEPT !.age = IF @ + d > MaxAge THEN MaxAge ELSE @ + d,
             !.lfcAge = IF @ + d > MaxAge THEN MaxAge ELSE @ + d]
=============================================================================
