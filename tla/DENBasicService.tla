--------------------------- MODULE DENBasicService ---------------------------
(***************************************************************************)
(* DENBasicService (src/src/denm/DENBasicService.cpp): application threads *)
(* call createDENM and configure.  What _lock protects is one step; the    *)
(* rest of createDENM works on a message of its own, sends it and stores a *)
(* copy, and the other threads come in between.                            *)
(*                                                                         *)
(* A station id is the sequence of the octets of an unsigned int.  In the  *)
(* message it is the octets of an unsigned long.  tryGetDENM and           *)
(* getConfiguration only read; updateDENM and terminateDENM are empty.     *)
(***************************************************************************)
EXTENDS AsnPrimitives

CONSTANTS Threads,
          StationIDs,   \* the station ids that configurations have
          EventTypes,   \* event types, NoEvent among them (a null pointer)
          NoEvent,
          Garbage,      \* what the four octets after an EventType may hold
          MaxCalls      \* bounds the number of calls of createDENM

VARIABLES stationID,       \* _config.stationID
          nextSequenceNr,
          pc, actionId, denm,   \* of each thread inside createDENM
          sent,            \* the messages given to the network, in order
          stored,          \* the messages in the database
          returned         \* the action ids that calls have returned

vars == <<stationID, nextSequenceNr, pc, actionId, denm, sent, stored,
          returned>>

\* An unsigned int as an unsigned long, by way of an int: the sign is extended.
Widen(id) == [i \in 1 .. 4 |-> IF id[1] >= 128 THEN 255 ELSE 0] \o id

\* The unsigned long with the same value.
Plain(id) == <<0, 0, 0, 0>> \o id

\* What an unsigned long is after it was encoded and decoded, under the tag of
\* actionID.originatingStationID.
Longs == UNION {{Widen(id), Plain(id)} : id \in StationIDs}
Copy == [long \in Longs |->
  NativeInteger_decode_ber(
    StationID, NativeInteger_encode_der(StationID, long, -1, CONTEXT(0)), -1).value]

\* Below 0xFF800000: the copy of a greater id is another (README, "Station
\* ids").
ASSUME StationIDsAssumption ==
  \A id \in StationIDs : /\ id \in [1 .. 4 -> 0 .. 255]
                         /\ ~(id[1] = 255 /\ id[2] >= 128)

ActionIds == [stationID : StationIDs, sequenceNumber : Nat]
NoId == [stationID |-> <<>>, sequenceNumber |-> 0]

NoDENM == [stationID |-> <<>>, sequenceNumber |-> 0, cause |-> <<>>]

\* DENMWrapper(actionId) and SAFE_ASSIGN, which reads a CauseCodeType_t where
\* an EventType lies: the upper half is whatever follows there.
Messages(id, eventType) ==
  {[stationID |-> Widen(id.stationID), sequenceNumber |-> id.sequenceNumber,
    cause |-> c] :
     c \in IF eventType = NoEvent THEN {<<>>}
           ELSE {<<[low |-> eventType, high |-> g]>> : g \in Garbage}}

\* Mutant: the message is shared, not encoded and decoded.
CopiedShallow(m) == m

\* The copy constructor: encode and decode.
Copied(m) == [m EXCEPT !.stationID = Copy[@]]

Init ==
  /\ stationID \in StationIDs
  /\ nextSequenceNr = 1
  /\ pc = [t \in Threads |-> "idle"]
  /\ actionId = [t \in Threads |-> NoId]
  /\ denm = [t \in Threads |-> NoDENM]
  /\ sent = <<>> /\ stored = {} /\ returned = {}

configure(id) ==
  /\ stationID' = id
  /\ UNCHANGED <<nextSequenceNr, pc, actionId, denm, sent, stored, returned>>
-----------------------------------------------------------------------------
(* createDENM *)

createDENM(t) ==
  /\ pc[t] = "idle" /\ nextSequenceNr <= MaxCalls
  /\ pc' = [pc EXCEPT ![t] = "assign"]
  /\ UNCHANGED <<stationID, nextSequenceNr, actionId, denm, sent, stored, returned>>

\* Mutant: the number of the next action is not counted up.
AssignKeepsNumber(t) ==
  /\ pc[t] = "assign"
  /\ actionId' = [actionId EXCEPT ![t] =
                    [stationID |-> stationID, sequenceNumber |-> nextSequenceNr]]
  /\ pc' = [pc EXCEPT ![t] = "build"]
  /\ UNCHANGED <<stationID, nextSequenceNr, denm, sent, stored, returned>>

\* "Assign unused action id", under the lock.
Assign(t) ==
  /\ pc[t] = "assign"
  /\ actionId' = [actionId EXCEPT ![t] =
                    [stationID |-> stationID, sequenceNumber |-> nextSequenceNr]]
  /\ nextSequenceNr' = nextSequenceNr + 1
  /\ pc' = [pc EXCEPT ![t] = "build"]
  /\ UNCHANGED <<stationID, denm, sent, stored, returned>>

\* Mutant: the message takes the station id of the present configuration.
BuildPresentStation(t, eventType) ==
  /\ pc[t] = "build"
  /\ denm' \in {[denm EXCEPT ![t] = m] :
                  m \in Messages([actionId[t] EXCEPT !.stationID = stationID],
                                 eventType)}
  /\ pc' = [pc EXCEPT ![t] = "send"]
  /\ UNCHANGED <<stationID, nextSequenceNr, actionId, sent, stored, returned>>

Build(t, eventType) ==
  /\ pc[t] = "build"
  /\ denm' \in {[denm EXCEPT ![t] = m] : m \in Messages(actionId[t], eventType)}
  /\ pc' = [pc EXCEPT ![t] = "send"]
  /\ UNCHANGED <<stationID, nextSequenceNr, actionId, sent, stored, returned>>

\* The call is over and its local variables are gone.
Leave(t) ==
  /\ pc' = [pc EXCEPT ![t] = "idle"]
  /\ actionId' = [actionId EXCEPT ![t] = NoId]
  /\ denm' = [denm EXCEPT ![t] = NoDENM]

Send(t) ==
  /\ pc[t] = "send"
  /\ sent' = Append(sent, denm[t])
  /\ pc' = [pc EXCEPT ![t] = "insert"]
  /\ UNCHANGED <<stationID, nextSequenceNr, actionId, denm, stored, returned>>

\* Mutant: the message is stored although it could not be sent.
SendFailsInserts(t) ==
  /\ pc[t] = "send"
  /\ pc' = [pc EXCEPT ![t] = "insert"]
  /\ UNCHANGED <<stationID, nextSequenceNr, actionId, denm, sent, stored, returned>>

\* A NetworkException goes to the caller; the number is used up.
SendFails(t) ==
  /\ pc[t] = "send"
  /\ Leave(t)
  /\ UNCHANGED <<stationID, nextSequenceNr, sent, stored, returned>>

\* insert takes its argument by value and stores a copy of that copy.
Insert(t) ==
  /\ pc[t] = "insert"
  /\ stored' = stored \cup {Copied(Copied(denm[t]))}
  /\ returned' = returned \cup {actionId[t]}
  /\ Leave(t)
  /\ UNCHANGED <<stationID, nextSequenceNr, sent>>
-----------------------------------------------------------------------------
Step(t) ==
  \/ Assign(t) \/ Send(t) \/ SendFails(t) \/ Insert(t)
  \/ \E e \in EventTypes : Build(t, e)

Next ==
  \/ \E id \in StationIDs : configure(id)
  \/ \E t \in Threads : createDENM(t) \/ Step(t)

Spec == Init /\ [][Next]_vars
-----------------------------------------------------------------------------
TypeOK ==
  /\ stationID \in StationIDs
  /\ nextSequenceNr \in Nat
  /\ pc \in [Threads -> {"idle", "assign", "build", "send", "insert"}]
  /\ actionId \in [Threads -> ActionIds \cup {NoId}]
  /\ returned \subseteq ActionIds
  /\ \A m \in stored : m.stationID \in {Plain(id) : id \in StationIDs}

(* "Assign unused action id": no two messages that leave the station have   *)
(* the same sequence number, whichever threads create them, whatever is     *)
(* configured in between and whichever sends fail.                          *)
IdsUnique ==
  \A i, j \in DOMAIN sent :
    sent[i].sequenceNumber = sent[j].sequenceNumber => i = j

(* Every action id that createDENM returns names a message that was sent    *)
(* and is stored, although the wrapper takes the station id as an int and   *)
(* the database stores a copy of a copy.                                    *)
ReturnedIsStored ==
  \A id \in returned : \E m \in stored :
    /\ m.stationID = Plain(id.stationID)
    /\ m.sequenceNumber = id.sequenceNumber

(* Nothing is stored that was not sent before, with the same station, number *)
(* and event as its receivers decode it.                                    *)
StoredWasSent ==
  \A m \in stored : \E i \in DOMAIN sent : m = Copied(sent[i])
=============================================================================
