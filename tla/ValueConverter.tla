--------------------------- MODULE ValueConverter ---------------------------
(***************************************************************************)
(* ValueConverter: SI units, which are floats, to the integers of the      *)
(* messages.  A float stands for its exact value, an integer number of     *)
(* thousandths (heading, speed, acceleration, yaw rate, radius) or of      *)
(* 10^-8 degrees (longitude, latitude), small enough that the conversion   *)
(* to int is defined.  The way back yields floats and is not modelled.     *)
(***************************************************************************)
EXTENDS Integers

\* (int): towards zero.  b > 0.
Truncated(a, b) == IF a >= 0 THEN a \div b ELSE -((-a) \div b)

\* (int)(a / b + 0.5), for an even b.
ROUND(a, b) == Truncated(a + (b \div 2), b)

Between(low, high) == {n \in Int : low <= n /\ n <= high}

Clamped(low, value, high) ==
  IF value < low THEN low ELSE IF value > high THEN high ELSE value

siToITSHeading(heading) ==
  LET positive == IF heading < 0
                  THEN heading + ((-heading) \div 360000 + 1) * 360000
                  ELSE heading
  IN  ROUND(positive, 100) % 3600

siToITSSpeed(speed) == Clamped(0, ROUND(speed, 10), 16382)

siToITSLongitudinalAcceleration(acceleration) ==
  Clamped(-160, Truncated(acceleration, 100), 160)

siToITSCurvature(radius) ==
  IF radius = 0 THEN 0
  ELSE Clamped(-1023, IF radius > 0 THEN 10000000 \div radius
                      ELSE -(10000000 \div (-radius)), 1022)

siToITSYawRate(yawRate) == Clamped(-32766, Truncated(yawRate, 10), 32766)

timestampToDeltaTime(timestamp) == timestamp % 65536

\* Outside of these the code throws.
SILongitudes == Between(-18000000000, 18000000000)
SILatitudes  == Between(-9000000000, 9000000000)

siToITSLongitude(longitude) == ROUND(longitude, 10)
siToITSLatitude(latitude) == ROUND(latitude, 10)

\* The constraints of the messages' types, which the DER encoder does not check.
HeadingValue == Between(0, 3601)
SpeedValue == Between(0, 16383)
LongitudinalAccelerationValue == Between(-160, 161)
CurvatureValue == Between(-1023, 1023)
YawRateValue == Between(-32766, 32767)
GenerationDeltaTime == Between(0, 65535)
Longitude == Between(-1800000000, 1800000001)
Latitude == Between(-900000000, 900000001)
=============================================================================
