------------------------------- MODULE AsnTypes -------------------------------
(***************************************************************************)
(* The ASN.1 types of the CAM and the DENM (src/src/msg): the descriptors  *)
(* asn_DEF_* that asn1c generated, one definition for each generated file. *)
(* A descriptor carries what the BER/DER runtime reads of it:              *)
(*   kind      the ber_decoder/der_encoder pair the type inherits;         *)
(*   tags      the type's own tags (none for a CHOICE, else one);          *)
(*   elements  the members, with the tag and the tag mode they are sent    *)
(*             under and the number of consecutive optional members from   *)
(*             this one on (asn_TYPE_member_t.optional);                   *)
(*   ext       whether the type is extensible: ext_after is then           *)
(*             count - 1 and ext_before count + 1, else both are -1.       *)
(* lo and hi are the bounds of the generated constraint functions, on the  *)
(* value or on the size.  The library never calls these functions, so the  *)
(* codec does not read lo and hi; they say what a value may be.  The SIZE  *)
(* constraints of the lists are left out.                                  *)
(***************************************************************************)
EXTENDS Integers, Sequences

\* ber_tlv_tag_t: the tag number above two bits for the class.
UNIVERSAL(n) == 4 * n
CONTEXT(n) == 4 * n + 2

NativeInteger(lo, hi) == [kind |-> "NativeInteger", tags |-> <<UNIVERSAL(2)>>,
                          field_unsigned |-> FALSE, lo |-> lo, hi |-> hi]

\* An INTEGER that is held in an unsigned long; its constraint accepts all.
NativeUnsigned == [kind |-> "NativeInteger", tags |-> <<UNIVERSAL(2)>>,
                   field_unsigned |-> TRUE]

NativeEnumerated(hi) == [kind |-> "NativeInteger", tags |-> <<UNIVERSAL(10)>>,
                         field_unsigned |-> FALSE, lo |-> 0, hi |-> hi]

\* An INTEGER of any size, held as its octets; so are its bounds.
INTEGER(lo, hi) == [kind |-> "INTEGER", tags |-> <<UNIVERSAL(2)>>,
                    lo |-> lo, hi |-> hi]

ASN_BOOLEAN == [kind |-> "BOOLEAN", tags |-> <<UNIVERSAL(1)>>]

String(n, variant, lo, hi) == [kind |-> "OCTET_STRING", variant |-> variant,
                               tags |-> <<UNIVERSAL(n)>>, lo |-> lo, hi |-> hi]
BIT_STRING(lo, hi) == String(3, "BIT", lo, hi)
OCTET_STRING(lo, hi) == String(4, "STR", lo, hi)
UTF8String(lo, hi) == String(12, "STR", lo, hi)
NumericString(lo, hi) == String(18, "STR", lo, hi)
IA5String(lo, hi) == String(22, "STR", lo, hi)

\* Members.  A member that is not OPTIONAL is inline, an OPTIONAL one a
\* pointer.  Tags are automatic: the k-th member is [k - 1], IMPLICIT
\* (tag mode -1) unless its type is a CHOICE, which has no tag to replace.
Req(name, type) == [name |-> name, type |-> type, opt |-> FALSE]
Opt(name, type) == [name |-> name, type |-> type, opt |-> TRUE]

Elements(ms) ==
  [k \in DOMAIN ms |->
     [name |-> ms[k].name, type |-> ms[k].type, tag |-> CONTEXT(k - 1),
      tag_mode |-> IF ms[k].type.tags = <<>> THEN 1 ELSE -1,
      optional |-> CHOOSE n \in 0 .. Len(ms) - k + 1 :
                     /\ \A j \in k .. k + n - 1 : ms[j].opt
                     /\ k + n <= Len(ms) => ~ms[k + n].opt]]

Structure(ms, ext) == [kind |-> "SEQUENCE", tags |-> <<UNIVERSAL(16)>>,
                       elements |-> Elements(ms), ext |-> ext]
SEQUENCE(ms) == Structure(ms, FALSE)
SEQUENCE_EXT(ms) == Structure(ms, TRUE)
SEQUENCE_OF(type) == [kind |-> "SEQUENCE_OF", tags |-> <<UNIVERSAL(16)>>,
                      element |-> type]
CHOICE(ms) == [kind |-> "CHOICE", tags |-> <<>>, elements |-> Elements(ms),
               ext |-> TRUE]
-----------------------------------------------------------------------------
(* Numbers, strings and enumerations *)
AccelerationConfidence == NativeInteger(0, 102)
AccelerationControl == BIT_STRING(7, 7)
AccidentSubCauseCode == NativeInteger(0, 255)
SequenceNumber == NativeInteger(0, 65535)
StationID == NativeUnsigned
AdverseWeatherCondition_AdhesionSubCauseCode == NativeInteger(0, 255)
AdverseWeatherCondition_ExtremeWeatherConditionSubCauseCode == NativeInteger(0, 255)
AdverseWeatherCondition_PrecipitationSubCauseCode == NativeInteger(0, 255)
AdverseWeatherCondition_VisibilitySubCauseCode == NativeInteger(0, 255)
HeightLonCarr == NativeInteger(1, 100)
PosCentMass == NativeInteger(1, 63)
PosFrontAx == NativeInteger(1, 20)
PosLonCarr == NativeInteger(1, 127)
PositionOfOccupants == BIT_STRING(20, 20)
PosPillar == NativeInteger(1, 30)
RequestResponseIndication == NativeEnumerated(1)
TurningRadius == NativeInteger(1, 255)
VehicleMass == NativeInteger(1, 1024)
WheelBaseVehicle == NativeInteger(1, 127)
LanePosition == NativeInteger(-1, 14)
PositioningSolutionType == NativeEnumerated(5)
CauseCodeType == NativeInteger(0, 255)
SubCauseCodeType == NativeInteger(0, 255)
DrivingLaneStatus == BIT_STRING(1, 13)
HardShoulderStatus == NativeEnumerated(2)
DeltaAltitude == NativeInteger(-12700, 12800)
DeltaLatitude == NativeInteger(-131071, 131072)
DeltaLongitude == NativeInteger(-131071, 131072)
AltitudeConfidence == NativeEnumerated(15)
AltitudeValue == NativeInteger(-100000, 800001)
Latitude == NativeInteger(-900000000, 900000001)
Longitude == NativeInteger(-1800000000, 1800000001)
HeadingValue == NativeInteger(0, 3601)
SemiAxisLength == NativeInteger(0, 4095)
LightBarSirenInUse == BIT_STRING(2, 2)
StationType == NativeInteger(0, 255)
SpeedLimit == NativeInteger(1, 255)
TrafficRule == NativeEnumerated(3)
DangerousGoodsBasic == NativeEnumerated(19)
PhoneNumber == NumericString(1, 16)
EnergyStorageType == BIT_STRING(7, 7)
NumberOfOccupants == NativeInteger(0, 127)
StationarySince == NativeEnumerated(3)
VDS == IA5String(6, 6)
WMInumber == IA5String(1, 3)
Temperature == NativeInteger(-60, 67)
ProtectedZoneID == NativeInteger(0, 134217727)
CenDsrcTollingZoneID == ProtectedZoneID
CurvatureConfidence == NativeEnumerated(7)
CurvatureValue == NativeInteger(-1023, 1023)
CurvatureCalculationMode == NativeEnumerated(2)
DriveDirection == NativeEnumerated(2)
HeadingConfidence == NativeInteger(1, 127)
LateralAccelerationValue == NativeInteger(-160, 161)
LongitudinalAccelerationValue == NativeInteger(-160, 161)
PerformanceClass == NativeInteger(0, 7)
SpeedConfidence == NativeInteger(1, 127)
SpeedValue == NativeInteger(0, 16383)
SteeringWheelAngleConfidence == NativeInteger(1, 127)
SteeringWheelAngleValue == NativeInteger(-511, 512)
VehicleLengthConfidenceIndication == NativeEnumerated(4)
VehicleLengthValue == NativeInteger(1, 1023)
VehicleWidth == NativeInteger(1, 62)
VerticalAccelerationValue == NativeInteger(-160, 161)
YawRateConfidence == NativeEnumerated(8)
YawRateValue == NativeInteger(-32766, 32767)
ExteriorLights == BIT_STRING(8, 8)
PathDeltaTime == NativeInteger(1, 65535)
VehicleRole == NativeEnumerated(15)
ProtectedZoneRadius == NativeInteger(1, 255)
ProtectedZoneType == NativeEnumerated(1)
TimestampIts == INTEGER(<<0>>, <<3, 255, 255, 255, 255, 255>>)
EmergencyPriority == BIT_STRING(2, 2)
EmbarkationStatus == ASN_BOOLEAN
PtActivationData == OCTET_STRING(1, 20)
PtActivationType == NativeInteger(0, 255)
RoadworksSubCauseCode == NativeInteger(0, 255)
SpecialTransportType == BIT_STRING(4, 4)
GenerationDeltaTime == NativeInteger(0, 65535)
CollisionRiskSubCauseCode == NativeInteger(0, 255)
RoadType == NativeEnumerated(3)
RelevanceDistance == NativeEnumerated(7)
RelevanceTrafficDirection == NativeEnumerated(3)
Termination == NativeEnumerated(1)
TransmissionInterval == NativeInteger(1, 10000)
ValidityDuration == NativeInteger(0, 86400)
InformationQuality == NativeInteger(0, 7)
DangerousEndOfQueueSubCauseCode == NativeInteger(0, 255)
DangerousSituationSubCauseCode == NativeInteger(0, 255)
EmergencyVehicleApproachingSubCauseCode == NativeInteger(0, 255)
HazardousLocation_AnimalOnTheRoadSubCauseCode == NativeInteger(0, 255)
HazardousLocation_DangerousCurveSubCauseCode == NativeInteger(0, 255)
HazardousLocation_ObstacleOnTheRoadSubCauseCode == NativeInteger(0, 255)
HazardousLocation_SurfaceConditionSubCauseCode == NativeInteger(0, 255)
HumanPresenceOnTheRoadSubCauseCode == NativeInteger(0, 255)
HumanProblemSubCauseCode == NativeInteger(0, 255)
OpeningDaysHours == UTF8String(0, 0)
PostCrashSubCauseCode == NativeInteger(0, 255)
RescueAndRecoveryWorkInProgressSubCauseCode == NativeInteger(0, 255)
SignalViolationSubCauseCode == NativeInteger(0, 255)
SlowVehicleSubCauseCode == NativeInteger(0, 255)
StationaryVehicleSubCauseCode == NativeInteger(0, 255)
TrafficConditionSubCauseCode == NativeInteger(0, 255)
VehicleBreakdownSubCauseCode == NativeInteger(0, 255)
WrongWayDrivingSubCauseCode == NativeInteger(0, 255)
-----------------------------------------------------------------------------
(* Containers and messages *)
ActionID == SEQUENCE(<<
  Req("originatingStationID", StationID),
  Req("sequenceNumber", SequenceNumber)>>)
PositionOfPillars == SEQUENCE_OF(PosPillar)
ImpactReductionContainer == SEQUENCE(<<
  Req("heightLonCarrLeft", HeightLonCarr),
  Req("heightLonCarrRight", HeightLonCarr),
  Req("posLonCarrLeft", PosLonCarr), Req("posLonCarrRight", PosLonCarr),
  Req("positionOfPillars", PositionOfPillars),
  Req("posCentMass", PosCentMass), Req("wheelBaseVehicle", WheelBaseVehicle),
  Req("turningRadius", TurningRadius), Req("posFrontAx", PosFrontAx),
  Req("positionOfOccupants", PositionOfOccupants),
  Req("vehicleMass", VehicleMass),
  Req("requestResponseIndication", RequestResponseIndication)>>)
CauseCode == SEQUENCE_EXT(<<
  Req("causeCode", CauseCodeType), Req("subCauseCode", SubCauseCodeType)>>)
ClosedLanes == SEQUENCE_EXT(<<
  Opt("innerhardShoulderStatus", HardShoulderStatus),
  Opt("outerhardShoulderStatus", HardShoulderStatus),
  Opt("drivingLaneStatus", DrivingLaneStatus)>>)
DeltaReferencePosition == SEQUENCE(<<
  Req("deltaLatitude", DeltaLatitude), Req("deltaLongitude", DeltaLongitude),
  Req("deltaAltitude", DeltaAltitude)>>)
Altitude == SEQUENCE(<<
  Req("altitudeValue", AltitudeValue),
  Req("altitudeConfidence", AltitudeConfidence)>>)
PosConfidenceEllipse == SEQUENCE(<<
  Req("semiMajorConfidence", SemiAxisLength),
  Req("semiMinorConfidence", SemiAxisLength),
  Req("semiMajorOrientation", HeadingValue)>>)
ReferencePosition == SEQUENCE(<<
  Req("latitude", Latitude), Req("longitude", Longitude),
  Req("positionConfidenceEllipse", PosConfidenceEllipse),
  Req("altitude", Altitude)>>)
ItineraryPath == SEQUENCE_OF(ReferencePosition)
ReferenceDenms == SEQUENCE_OF(ActionID)
RestrictedTypes == SEQUENCE_OF(StationType)
RoadWorksContainerExtended == SEQUENCE(<<
  Opt("lightBarSirenInUse", LightBarSirenInUse),
  Opt("closedLanes", ClosedLanes), Opt("restriction", RestrictedTypes),
  Opt("speedLimit", SpeedLimit), Opt("incidentIndication", CauseCode),
  Opt("recommendedPath", ItineraryPath),
  Opt("startingPointSpeedLimit", DeltaReferencePosition),
  Opt("trafficFlowRule", TrafficRule),
  Opt("referenceDenms", ReferenceDenms)>>)
DangerousGoodsExtended == SEQUENCE_EXT(<<
  Req("dangerousGoodsType", DangerousGoodsBasic),
  Req("unNumber", NativeInteger(0, 9999)),
  Req("elevatedTemperature", ASN_BOOLEAN),
  Req("tunnelsRestricted", ASN_BOOLEAN), Req("limitedQuantity", ASN_BOOLEAN),
  Opt("emergencyActionCode", IA5String(1, 24)),
  Opt("phoneNumber", PhoneNumber), Opt("companyName", UTF8String(1, 24))>>)
VehicleIdentification == SEQUENCE_EXT(<<
  Opt("wMInumber", WMInumber), Opt("vDS", VDS)>>)
StationaryVehicleContainer == SEQUENCE(<<
  Opt("stationarySince", StationarySince), Opt("stationaryCause", CauseCode),
  Opt("carryingDangerousGoods", DangerousGoodsExtended),
  Opt("numberOfOccupants", NumberOfOccupants),
  Opt("vehicleIdentification", VehicleIdentification),
  Opt("energyStorageType", EnergyStorageType)>>)
AlacarteContainer == SEQUENCE_EXT(<<
  Opt("lanePosition", LanePosition),
  Opt("impactReduction", ImpactReductionContainer),
  Opt("externalTemperature", Temperature),
  Opt("roadWorks", RoadWorksContainerExtended),
  Opt("positioningSolution", PositioningSolutionType),
  Opt("stationaryVehicle", StationaryVehicleContainer)>>)
BasicContainer == SEQUENCE_EXT(<<
  Req("stationType", StationType),
  Req("referencePosition", ReferencePosition)>>)
CenDsrcTollingZone == SEQUENCE_EXT(<<
  Req("protectedZoneLatitude", Latitude),
  Req("protectedZoneLongitude", Longitude),
  Opt("cenDsrcTollingZoneID", CenDsrcTollingZoneID)>>)
Curvature == SEQUENCE(<<
  Req("curvatureValue", CurvatureValue),
  Req("curvatureConfidence", CurvatureConfidence)>>)
Heading == SEQUENCE(<<
  Req("headingValue", HeadingValue),
  Req("headingConfidence", HeadingConfidence)>>)
LateralAcceleration == SEQUENCE(<<
  Req("lateralAccelerationValue", LateralAccelerationValue),
  Req("lateralAccelerationConfidence", AccelerationConfidence)>>)
LongitudinalAcceleration == SEQUENCE(<<
  Req("longitudinalAccelerationValue", LongitudinalAccelerationValue),
  Req("longitudinalAccelerationConfidence", AccelerationConfidence)>>)
Speed == SEQUENCE(<<
  Req("speedValue", SpeedValue), Req("speedConfidence", SpeedConfidence)>>)
SteeringWheelAngle == SEQUENCE(<<
  Req("steeringWheelAngleValue", SteeringWheelAngleValue),
  Req("steeringWheelAngleConfidence", SteeringWheelAngleConfidence)>>)
VehicleLength == SEQUENCE(<<
  Req("vehicleLengthValue", VehicleLengthValue),
  Req("vehicleLengthConfidenceIndication", VehicleLengthConfidenceIndication)>>)
VerticalAcceleration == SEQUENCE(<<
  Req("verticalAccelerationValue", VerticalAccelerationValue),
  Req("verticalAccelerationConfidence", AccelerationConfidence)>>)
YawRate == SEQUENCE(<<
  Req("yawRateValue", YawRateValue),
  Req("yawRateConfidence", YawRateConfidence)>>)
BasicVehicleContainerHighFrequency == SEQUENCE(<<
  Req("heading", Heading), Req("speed", Speed),
  Req("driveDirection", DriveDirection), Req("vehicleLength", VehicleLength),
  Req("vehicleWidth", VehicleWidth),
  Req("longitudinalAcceleration", LongitudinalAcceleration),
  Req("curvature", Curvature),
  Req("curvatureCalculationMode", CurvatureCalculationMode),
  Req("yawRate", YawRate), Opt("accelerationControl", AccelerationControl),
  Opt("lanePosition", LanePosition),
  Opt("steeringWheelAngle", SteeringWheelAngle),
  Opt("lateralAcceleration", LateralAcceleration),
  Opt("verticalAcceleration", VerticalAcceleration),
  Opt("performanceClass", PerformanceClass),
  Opt("cenDsrcTollingZone", CenDsrcTollingZone)>>)
PathPoint == SEQUENCE(<<
  Req("pathPosition", DeltaReferencePosition),
  Opt("pathDeltaTime", PathDeltaTime)>>)
PathHistory == SEQUENCE_OF(PathPoint)
BasicVehicleContainerLowFrequency == SEQUENCE(<<
  Req("vehicleRole", VehicleRole), Req("exteriorLights", ExteriorLights),
  Req("pathHistory", PathHistory)>>)
ProtectedCommunicationZone == SEQUENCE_EXT(<<
  Req("protectedZoneType", ProtectedZoneType),
  Opt("expiryTime", TimestampIts), Req("protectedZoneLatitude", Latitude),
  Req("protectedZoneLongitude", Longitude),
  Opt("protectedZoneRadius", ProtectedZoneRadius),
  Opt("protectedZoneID", ProtectedZoneID)>>)
ProtectedCommunicationZonesRSU == SEQUENCE_OF(ProtectedCommunicationZone)
RSUContainerHighFrequency == SEQUENCE_EXT(<<
  Opt("protectedCommunicationZonesRSU", ProtectedCommunicationZonesRSU)>>)
HighFrequencyContainer == CHOICE(<<
  Req("basicVehicleContainerHighFrequency", BasicVehicleContainerHighFrequency),
  Req("rsuContainerHighFrequency", RSUContainerHighFrequency)>>)
LowFrequencyContainer == CHOICE(<<
  Req("basicVehicleContainerLowFrequency", BasicVehicleContainerLowFrequency)>>)
DangerousGoodsContainer == SEQUENCE(<<
  Req("dangerousGoodsBasic", DangerousGoodsBasic)>>)
EmergencyContainer == SEQUENCE(<<
  Req("lightBarSirenInUse", LightBarSirenInUse),
  Opt("incidentIndication", CauseCode),
  Opt("emergencyPriority", EmergencyPriority)>>)
PtActivation == SEQUENCE(<<
  Req("ptActivationType", PtActivationType),
  Req("ptActivationData", PtActivationData)>>)
PublicTransportContainer == SEQUENCE(<<
  Req("embarkationStatus", EmbarkationStatus),
  Opt("ptActivation", PtActivation)>>)
RescueContainer == SEQUENCE(<<Req("lightBarSirenInUse", LightBarSirenInUse)>>)
RoadWorksContainerBasic == SEQUENCE(<<
  Opt("roadworksSubCauseCode", RoadworksSubCauseCode),
  Req("lightBarSirenInUse", LightBarSirenInUse),
  Opt("closedLanes", ClosedLanes)>>)
SafetyCarContainer == SEQUENCE(<<
  Req("lightBarSirenInUse", LightBarSirenInUse),
  Opt("incidentIndication", CauseCode), Opt("trafficRule", TrafficRule),
  Opt("speedLimit", SpeedLimit)>>)
SpecialTransportContainer == SEQUENCE(<<
  Req("specialTransportType", SpecialTransportType),
  Req("lightBarSirenInUse", LightBarSirenInUse)>>)
SpecialVehicleContainer == CHOICE(<<
  Req("publicTransportContainer", PublicTransportContainer),
  Req("specialTransportContainer", SpecialTransportContainer),
  Req("dangerousGoodsContainer", DangerousGoodsContainer),
  Req("roadWorksContainerBasic", RoadWorksContainerBasic),
  Req("rescueContainer", RescueContainer),
  Req("emergencyContainer", EmergencyContainer),
  Req("safetyCarContainer", SafetyCarContainer)>>)
CamParameters == SEQUENCE_EXT(<<
  Req("basicContainer", BasicContainer),
  Req("highFrequencyContainer", HighFrequencyContainer),
  Opt("lowFrequencyContainer", LowFrequencyContainer),
  Opt("specialVehicleContainer", SpecialVehicleContainer)>>)
CoopAwareness == SEQUENCE(<<
  Req("generationDeltaTime", GenerationDeltaTime),
  Req("camParameters", CamParameters)>>)
ItsPduHeader == SEQUENCE(<<
  Req("protocolVersion", NativeInteger(0, 255)),
  Req("messageID", NativeInteger(0, 255)), Req("stationID", StationID)>>)
CAM == SEQUENCE(<<Req("header", ItsPduHeader), Req("cam", CoopAwareness)>>)
Traces == SEQUENCE_OF(PathHistory)
LocationContainer == SEQUENCE_EXT(<<
  Opt("eventSpeed", Speed), Opt("eventPositionHeading", Heading),
  Req("traces", Traces), Opt("roadType", RoadType)>>)
ManagementContainer == SEQUENCE_EXT(<<
  Req("actionID", ActionID), Req("detectionTime", TimestampIts),
  Req("referenceTime", TimestampIts), Opt("termination", Termination),
  Req("eventPosition", ReferencePosition),
  Opt("relevanceDistance", RelevanceDistance),
  Opt("relevanceTrafficDirection", RelevanceTrafficDirection),
  Opt("validityDuration", ValidityDuration),
  Opt("transmissionInterval", TransmissionInterval),
  Req("stationType", StationType)>>)
EventPoint == SEQUENCE(<<
  Req("eventPosition", DeltaReferencePosition),
  Opt("eventDeltaTime", PathDeltaTime),
  Req("informationQuality", InformationQuality)>>)
EventHistory == SEQUENCE_OF(EventPoint)
SituationContainer == SEQUENCE_EXT(<<
  Req("informationQuality", InformationQuality), Req("eventType", CauseCode),
  Opt("linkedCause", CauseCode), Opt("eventHistory", EventHistory)>>)
DecentralizedEnvironmentalNotificationMessage == SEQUENCE(<<
  Req("management", ManagementContainer),
  Opt("situation", SituationContainer), Opt("location", LocationContainer),
  Opt("alacarte", AlacarteContainer)>>)
DENM == SEQUENCE(<<
  Req("header", ItsPduHeader),
  Req("denm", DecentralizedEnvironmentalNotificationMessage)>>)
DigitalMap == SEQUENCE_OF(ReferencePosition)
-----------------------------------------------------------------------------
(* Every type above. *)
AllTypes == <<AccelerationConfidence, AccelerationControl,
              AccidentSubCauseCode, SequenceNumber, StationID, ActionID,
              AdverseWeatherCondition_AdhesionSubCauseCode,
              AdverseWeatherCondition_ExtremeWeatherConditionSubCauseCode,
              AdverseWeatherCondition_PrecipitationSubCauseCode,
              AdverseWeatherCondition_VisibilitySubCauseCode, HeightLonCarr,
              PosCentMass, PosFrontAx, PosLonCarr, PositionOfOccupants,
              PosPillar, PositionOfPillars, RequestResponseIndication,
              TurningRadius, VehicleMass, WheelBaseVehicle,
              ImpactReductionContainer, LanePosition,
              PositioningSolutionType, CauseCodeType, SubCauseCodeType,
              CauseCode, DrivingLaneStatus, HardShoulderStatus, ClosedLanes,
              DeltaAltitude, DeltaLatitude, DeltaLongitude,
              DeltaReferencePosition, AltitudeConfidence, AltitudeValue,
              Altitude, Latitude, Longitude, HeadingValue, SemiAxisLength,
              PosConfidenceEllipse, ReferencePosition, ItineraryPath,
              LightBarSirenInUse, ReferenceDenms, StationType,
              RestrictedTypes, SpeedLimit, TrafficRule,
              RoadWorksContainerExtended, DangerousGoodsBasic, PhoneNumber,
              DangerousGoodsExtended, EnergyStorageType, NumberOfOccupants,
              StationarySince, VDS, WMInumber, VehicleIdentification,
              StationaryVehicleContainer, Temperature, AlacarteContainer,
              BasicContainer, ProtectedZoneID, CenDsrcTollingZoneID,
              CenDsrcTollingZone, CurvatureConfidence, CurvatureValue,
              Curvature, CurvatureCalculationMode, DriveDirection,
              HeadingConfidence, Heading, LateralAccelerationValue,
              LateralAcceleration, LongitudinalAccelerationValue,
              LongitudinalAcceleration, PerformanceClass, SpeedConfidence,
              SpeedValue, Speed, SteeringWheelAngleConfidence,
              SteeringWheelAngleValue, SteeringWheelAngle,
              VehicleLengthConfidenceIndication, VehicleLengthValue,
              VehicleLength, VehicleWidth, VerticalAccelerationValue,
              VerticalAcceleration, YawRateConfidence, YawRateValue, YawRate,
              BasicVehicleContainerHighFrequency, ExteriorLights,
              PathDeltaTime, PathPoint, PathHistory, VehicleRole,
              BasicVehicleContainerLowFrequency, ProtectedZoneRadius,
              ProtectedZoneType, TimestampIts, ProtectedCommunicationZone,
              ProtectedCommunicationZonesRSU, RSUContainerHighFrequency,
              HighFrequencyContainer, LowFrequencyContainer,
              DangerousGoodsContainer, EmergencyPriority, EmergencyContainer,
              EmbarkationStatus, PtActivationData, PtActivationType,
              PtActivation, PublicTransportContainer, RescueContainer,
              RoadworksSubCauseCode, RoadWorksContainerBasic,
              SafetyCarContainer, SpecialTransportType,
              SpecialTransportContainer, SpecialVehicleContainer,
              CamParameters, GenerationDeltaTime, CoopAwareness,
              ItsPduHeader, CAM, CollisionRiskSubCauseCode, RoadType, Traces,
              LocationContainer, RelevanceDistance,
              RelevanceTrafficDirection, Termination, TransmissionInterval,
              ValidityDuration, ManagementContainer, InformationQuality,
              EventPoint, EventHistory, SituationContainer,
              DecentralizedEnvironmentalNotificationMessage, DENM,
              DangerousEndOfQueueSubCauseCode,
              DangerousSituationSubCauseCode, DigitalMap,
              EmergencyVehicleApproachingSubCauseCode,
              HazardousLocation_AnimalOnTheRoadSubCauseCode,
              HazardousLocation_DangerousCurveSubCauseCode,
              HazardousLocation_ObstacleOnTheRoadSubCauseCode,
              HazardousLocation_SurfaceConditionSubCauseCode,
              HumanPresenceOnTheRoadSubCauseCode, HumanProblemSubCauseCode,
              OpeningDaysHours, PostCrashSubCauseCode,
              RescueAndRecoveryWorkInProgressSubCauseCode,
              SignalViolationSubCauseCode, SlowVehicleSubCauseCode,
              StationaryVehicleSubCauseCode, TrafficConditionSubCauseCode,
              VehicleBreakdownSubCauseCode, WrongWayDrivingSubCauseCode>>
===============================================================================
