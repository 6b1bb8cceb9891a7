--------------------------- MODULE DatabaseProofs ---------------------------
(***************************************************************************)
(* Proofs about queries by index, for every width of an unsigned int, and  *)
(* about the message database, for any number of threads, stations and     *)
(* calls.                                                                  *)
(***************************************************************************)
EXTENDS DatabaseProps, FiniteSetTheorems, WellFoundedInduction, TLAPS

-----------------------------------------------------------------------------
(* Queries by index. *)

(* Whatever constructors and setters are used, and whatever they are given: *)
(* a query that comes out of them has its ends in order and in range, so    *)
(* that IDXIndex's loop and length() do not wrap.                           *)
THEOREM QueriesOrdered ==
  /\ NewQuery \in Queries
  /\ \A q \in Queries, i \in UInts : setFirstIndex(q, i) \cup setLastIndex(q, i) \subseteq Queries
  /\ \A i \in UInts : setIndex(i) \subseteq Queries
  /\ \A i, j \in UInts : setRange(i, j) \subseteq Queries
  /\ \A i \in UInts, n \in Lengths : setLength(i, n) \subseteq Queries
<1> USE UIntAssumption DEF Queries, UInts
<1>1. NewQuery \in Queries
  BY DEF NewQuery
<1>2. ASSUME NEW q \in Queries, NEW i \in UInts
      PROVE  setFirstIndex(q, i) \cup setLastIndex(q, i) \subseteq Queries
  BY DEF setFirstIndex, setLastIndex
<1>3. ASSUME NEW i \in UInts
      PROVE  setIndex(i) \subseteq Queries
  BY DEF setIndex
<1>4. ASSUME NEW i \in UInts, NEW j \in UInts
      PROVE  setRange(i, j) \subseteq Queries
  BY DEF setRange
<1>5. ASSUME NEW i \in UInts, NEW n \in Lengths
      PROVE  setLength(i, n) \subseteq Queries
  <2> DEFINE low == IF n < 0 THEN Succ(i) ELSE i
  <2>2. low \in UInts
    BY DEF Succ
  <2> HIDE DEF low
  <2>3. \A q \in setLength(i, n) :
          \/ q = [first |-> low, last |-> low + n] /\ 0 <= low /\ low <= low + n /\ low + n <= UINT32_MAX
          \/ q = [first |-> low + n, last |-> low] /\ 0 <= low + n /\ low + n <= low /\ low <= UINT32_MAX
    BY <2>2 DEF setLength, low, Lengths
  <2>4. low + n \in Int
    BY <2>2 DEF Lengths
  <2> QED BY <2>2, <2>3, <2>4
<1> QED BY <1>1, <1>2, <1>3, <1>4, <1>5

(* setRange with a length, forwards or backwards, yields exactly the        *)
(* indices its comment describes, or throws; it throws only when one of     *)
(* them is no unsigned int below the largest, the backward ranges from the  *)
(* largest index among them, where startIndex + 1 wraps to 0.               *)
THEOREM LengthExact ==
  ASSUME NEW i \in UInts, NEW n \in Lengths
  PROVE  /\ \A q \in setLength(i, n) : IndexGetIndexList(q) = Meant(i, n)
         /\ setLength(i, n) = {} <=>
              \E k \in Meant(i, n) : k < 0 \/ k >= UINT32_MAX
<1> USE UIntAssumption DEF UInts, Lengths
<1>1. CASE n >= 0
  <2>1. setLength(i, n) = IF i + n > UINT32_MAX THEN {} ELSE {[first |-> i, last |-> i + n]}
    BY <1>1 DEF setLength
  <2>2. Meant(i, n) = i .. (i + n - 1)
    BY <1>1 DEF Meant
  <2>3. i + n > UINT32_MAX <=> \E k \in i .. (i + n - 1) : k >= UINT32_MAX
    <3>1. i + n > UINT32_MAX /\ n > 0 => i + n - 1 \in i .. (i + n - 1) /\ i + n - 1 >= UINT32_MAX
      BY <1>1
    <3>2. i + n > UINT32_MAX => n > 0
      BY <1>1
    <3> QED BY <1>1, <3>1, <3>2
  <2>4. \A q \in setLength(i, n) : IndexGetIndexList(q) = i .. (i + n - 1)
    BY <2>1 DEF IndexGetIndexList
  <2>5. setLength(i, n) = {} <=> i + n > UINT32_MAX
    BY <2>1
  <2>6. \A k \in i .. (i + n - 1) : ~(k < 0)
    OBVIOUS
  <2> QED BY <2>2, <2>3, <2>4, <2>5, <2>6
<1>2. CASE n < 0 /\ i < UINT32_MAX
  <2>1. Succ(i) = i + 1
    BY <1>2 DEF Succ
  <2>2. setLength(i, n) = IF i + 1 + n < 0 THEN {} ELSE {[first |-> i + 1 + n, last |-> i + 1]}
    BY <1>2, <2>1 DEF setLength
  <2>3. Meant(i, n) = (i + n + 1) .. i
    BY <1>2 DEF Meant
  <2>4. i + 1 + n < 0 <=> \E k \in (i + n + 1) .. i : k < 0 \/ k >= UINT32_MAX
    <3>1. i + n + 1 \in (i + n + 1) .. i
      BY <1>2
    <3> QED BY <1>2, <3>1
  <2>5. \A q \in setLength(i, n) : q.first = i + n + 1 /\ q.last - 1 = i
    BY <2>2
  <2>6. \A q \in setLength(i, n) : IndexGetIndexList(q) = (i + n + 1) .. i
    BY <2>5 DEF IndexGetIndexList
  <2>7. setLength(i, n) = {} <=> i + 1 + n < 0
    BY <2>2
  <2> QED BY <2>3, <2>4, <2>6, <2>7
<1>3. CASE n < 0 /\ i = UINT32_MAX
  <2>1. Succ(i) = 0
    BY <1>3 DEF Succ
  <2>2. setLength(i, n) = {}
    BY <1>3, <2>1 DEF setLength
  <2>3. i \in Meant(i, n)
    BY <1>3 DEF Meant
  <2> QED BY <1>3, <2>2, <2>3
<1> QED BY <1>1, <1>2, <1>3

-----------------------------------------------------------------------------
(* The operators of the indexers stay within their types. *)

(* IDXParameter starts empty and its methods map well-formed maps to        *)
(* well-formed maps.                                                        *)
LEMMA ParamTyped ==
  /\ ParamInit \in ParamState
  /\ \A p \in ParamState, s \in Stations, i \in Index :
       /\ ParamAddData(p, s, i) \in ParamState
       /\ ParamUpdateData(p, s, i) \in ParamState
       /\ ParamRemoveData(p, s, i) \in ParamState
<1>1. ParamInit \in ParamState
  BY DEF ParamInit, ParamState
<1>2. ASSUME NEW p \in ParamState, NEW s \in Stations, NEW i \in Index
      PROVE  ParamAddData(p, s, i) \in ParamState
  BY <1>2 DEF ParamAddData, ParamState
<1>3. ASSUME NEW p \in ParamState, NEW s \in Stations, NEW i \in Index
      PROVE  ParamUpdateData(p, s, i) \in ParamState
  BY <1>3 DEF ParamUpdateData, ParamState
<1>4. ASSUME NEW p \in ParamState, NEW s \in Stations, NEW i \in Index
      PROVE  ParamRemoveData(p, s, i) \in ParamState
  BY <1>4 DEF ParamRemoveData, ParamState
<1> QED BY <1>1, <1>2, <1>3, <1>4

(* The same for IDXCAMLatest.                                               *)
LEMMA LatestTyped ==
  /\ LatestInit \in LatestState
  /\ \A l \in LatestState, s \in Stations, i \in Index :
       /\ LatestAddData(l, s, i) \in LatestState
       /\ LatestUpdateData(l, s, i) \in LatestState
       /\ LatestRemoveData(l, i) \in LatestState
<1>1. LatestInit \in LatestState
  BY DEF LatestInit, LatestState
<1>2. ASSUME NEW l \in LatestState, NEW s \in Stations, NEW i \in Index
      PROVE  LatestAddData(l, s, i) \in LatestState
  BY <1>2 DEF LatestAddData, LatestState
<1>3. ASSUME NEW l \in LatestState, NEW s \in Stations, NEW i \in Index
      PROVE  LatestUpdateData(l, s, i) \in LatestState
  BY <1>2, <1>3 DEF LatestUpdateData, LatestState
<1>4. ASSUME NEW l \in LatestState, NEW s \in Stations, NEW i \in Index
      PROVE  LatestRemoveData(l, i) \in LatestState
  BY <1>4 DEF LatestRemoveData, LatestState
<1> QED BY <1>1, <1>2, <1>3, <1>4

-----------------------------------------------------------------------------
(* Type correctness.  It is not inductive alone: getFreeElement hands out   *)
(* index _size, which is an element only because every insert uses up a     *)
(* call, and the steps of a call index the maps with its current element.   *)

SizeBound == size + ops <= MaxOps

Working == PCs \ {"idle", "get", "use"}

CurSet == \A t \in Threads : pc[t] \in Working => cur[t] \in Index

TypeInv == TypeOK /\ SizeBound /\ CurSet

(* The record of an idle thread has the type of a call's record.            *)
LEMMA NoOpTyped ==
  NoOp \in OpRecord
BY DEF NoOp, OpRecord

(* The update of the indexers in DBElement::unlock keeps their types.       *)
LEMMA UpdateTyped ==
  ASSUME TypeOK, NEW i \in Index, UpdateIndexers(i)
  PROVE  param' \in ParamState /\ latest' \in LatestState
<1>1. hasData(i) => data[i].station \in Stations
  BY DEF TypeOK, hasData, Message
<1> QED BY <1>1, ParamTyped, LatestTyped DEF TypeOK, UpdateIndexers, UpdateCalled

(* The initial state satisfies the strengthened type invariant.             *)
LEMMA TypeInit == Init => TypeInv
<1> SUFFICES ASSUME Init PROVE TypeInv
  OBVIOUS
<1>1. TypeOK
  BY MaxOpsAssumption, ParamTyped, LatestTyped DEF Init, TypeOK, PCs, NoOp, OpRecord
<1> QED BY <1>1, MaxOpsAssumption DEF Init, TypeInv, SizeBound, CurSet, Working, PCs

(* Every step of every thread preserves it.                                 *)
LEMMA TypeStep == TypeInv /\ [Next]_vars => TypeInv'
<1> SUFFICES ASSUME TypeInv, [Next]_vars PROVE TypeInv'
  OBVIOUS
<1> USE DEF TypeInv, TypeOK, SizeBound, CurSet, Working, PCs, At, Goto
<1>1. ASSUME NEW t \in Threads, NEW s \in Stations, NEW c \in Copyable, Insert(t, s, c)
      PROVE  TypeInv'
  <2> DEFINE i == IF free = <<>> THEN size ELSE free[Len(free)]
  <2>1. size' \in 0..MaxOps /\ ops' \in 0..MaxOps /\ size' + ops' <= MaxOps
    BY <1>1, MaxOpsAssumption DEF Insert, StartCall
  <2>2. i \in Index
    BY <1>1, MaxOpsAssumption, IndexAssumption DEF Insert, StartCall
  <2>3. free' \in Seq(Index)
    BY <1>1 DEF Insert
  <2>4. [seq |-> MaxOps - ops + 1, station |-> s, copyable |-> c] \in Message
    BY <1>1, MaxOpsAssumption DEF Insert, StartCall, Message
  <2>5. msg' \in [Threads -> Message \cup {None}]
    BY <1>1, <2>4 DEF Insert
  <2>6. op' \in [Threads -> OpRecord]
    BY <1>1 DEF Insert, StartCall, OpKinds, OpRecord
  <2>7. cur' = [cur EXCEPT ![t] = i]
    BY <1>1 DEF Insert
  <2> HIDE DEF i
  <2> QED BY <1>1, <2>1, <2>2, <2>3, <2>5, <2>6, <2>7 DEF Insert
<1>2. ASSUME NEW t \in Threads, InsertSetData(t)
      PROVE  TypeInv'
  BY <1>2 DEF InsertSetData
<1>3. ASSUME NEW t \in Threads, InsertSetCallbacks(t)
      PROVE  TypeInv'
  BY <1>3 DEF InsertSetCallbacks
<1>4. ASSUME NEW t \in Threads, InsertAddData(t)
      PROVE  TypeInv'
  <2>1. cur[t] \in Index /\ (hasData(cur[t]) => data[cur[t]].station \in Stations)
    BY <1>4 DEF InsertAddData, hasData, Message
  <2>2. param' \in ParamState /\ latest' \in LatestState
    BY <1>4, <2>1, ParamTyped, LatestTyped DEF InsertAddData
  <2> QED BY <1>4, <2>2 DEF InsertAddData
<1>5. ASSUME NEW t \in Threads, InsertLock(t)
      PROVE  TypeInv'
  <2>1. /\ pc[t] = "lockInserted" /\ pc' = [pc EXCEPT ![t] = "use"]
        /\ cur' = [cur EXCEPT ![t] = None] /\ msg' = [msg EXCEPT ![t] = None]
        /\ views' = [views EXCEPT ![t] = {cur[t]}] /\ holder' = [holder EXCEPT ![cur[t]] = t]
        /\ UNCHANGED <<size, data, hooked, free, param, latest, op, pend, seen, ops, fault>>
    BY <1>5 DEF InsertLock, LockElement
  <2>2. cur[t] \in Index
    BY <2>1
  <2>3. pc' \in [Threads -> PCs] /\ holder' \in [Index -> Threads \cup {None}]
    BY <2>1, <2>2
  <2>4. /\ cur' \in [Threads -> Index \cup {None}] /\ msg' \in [Threads -> Message \cup {None}]
        /\ views' \in [Threads -> SUBSET Index]
    BY <2>1, <2>2
  <2> QED BY <2>1, <2>3, <2>4
<1>6. ASSUME NEW t \in Threads, NEW kind \in {"latest", "station", "index"},
             NEW s \in Stations \cup {None}, NEW list \in SUBSET Nat,
             NEW matches \in SUBSET Index, Collect(t, kind, s, list, matches)
      PROVE  TypeInv'
  <2>0. \A i \in Nat : i < size => i \in Index
    BY MaxOpsAssumption, IndexAssumption
  <2>1. getIndexListUnlocked(kind, list) \in SUBSET Index
    BY <2>0 DEF getIndexListUnlocked
  <2> QED BY <1>6, <2>1, MaxOpsAssumption DEF Collect, StartCall, OpKinds, OpRecord, dbVars
<1>7. ASSUME NEW t \in Threads, GetLock(t)
      PROVE  TypeInv'
  BY <1>7 DEF GetLock, LockElement
<1>8. ASSUME NEW t \in Threads, GetValidate(t)
      PROVE  TypeInv'
  <2>1. cur[t] \in Index
    BY <1>8 DEF GetValidate
  <2>2. views[t] \cup {cur[t]} \in SUBSET Index
    BY <2>1
  <2>3. views' \in [Threads -> SUBSET Index]
    BY <1>8, <2>2 DEF GetValidate
  <2>4. /\ cur' \in [Threads -> Index \cup {None}]
        /\ pc' \in [Threads -> PCs]
        /\ \A u \in Threads : pc'[u] \in Working => cur'[u] \in Index
    BY <1>8, <2>1 DEF GetValidate
  <2> QED BY <1>8, <2>3, <2>4 DEF GetValidate, dbVars
<1>9. ASSUME NEW t \in Threads, GetDrop(t)
      PROVE  TypeInv'
  <2>1. cur[t] \in Index
    BY <1>9 DEF GetDrop
  <2>2. param' \in ParamState /\ latest' \in LatestState
    BY <1>9, <2>1, UpdateTyped DEF GetDrop
  <2> QED BY <1>9, <2>1, <2>2 DEF GetDrop
<1>10. ASSUME NEW t \in Threads, GetReturn(t)
       PROVE  TypeInv'
  <2>1. op' \in [Threads -> OpRecord]
    BY <1>10, NoOpTyped DEF GetReturn
  <2>2. /\ pc' \in [Threads -> PCs]
        /\ \A u \in Threads : pc'[u] \in Working => cur'[u] \in Index
    BY <1>10 DEF GetReturn
  <2> QED BY <1>10, <2>1, <2>2 DEF GetReturn, dbVars
<1>11. ASSUME NEW t \in Threads, NEW i \in Index, NEW s \in Stations, NEW c \in Copyable,
             Modify(t, i, s, c)
       PROVE  TypeInv'
  BY <1>11 DEF Modify, thrVars, hasData, Message
<1>12. ASSUME NEW t \in Threads, NEW i \in Index, Release(t, i)
       PROVE  TypeInv'
  <2>1. param' \in ParamState /\ latest' \in LatestState
    BY <1>12, UpdateTyped DEF Release
  <2>2. op' \in [Threads -> OpRecord]
    BY <1>12, NoOpTyped DEF Release
  <2>3. /\ pc' \in [Threads -> PCs]
        /\ \A u \in Threads : pc'[u] \in Working => cur'[u] \in Index
    BY <1>12 DEF Release
  <2>4. /\ holder' \in [Index -> Threads \cup {None}]
        /\ fault' \in {"none", "terminate", "undefined"}
    BY <1>12 DEF Release, CloseView
  <2>5. views[t] \ {i} \in SUBSET Index
    OBVIOUS
  <2>6. views' \in [Threads -> SUBSET Index]
    BY <1>12, <2>5 DEF Release, CloseView
  <2> QED BY <1>12, <2>1, <2>2, <2>3, <2>4, <2>6 DEF Release
<1>13. ASSUME NEW t \in Threads, NEW i \in Index, Remove(t, i)
       PROVE  TypeInv'
  <2>1. hasData(i) => data[i].station \in Stations
    BY DEF hasData, Message
  <2>2. param' \in ParamState /\ latest' \in LatestState
    BY <1>13, <2>1, ParamTyped, LatestTyped DEF Remove
  <2> QED BY <1>13, <2>2 DEF Remove
<1>14. ASSUME NEW t \in Threads, RemoveEraseData(t)
       PROVE  TypeInv'
  BY <1>14 DEF RemoveEraseData
<1>15. ASSUME NEW t \in Threads, RemovePushFree(t)
       PROVE  TypeInv'
  <2>1. cur[t] \in Index
    BY <1>15 DEF RemovePushFree
  <2>2. free' \in Seq(Index)
    BY <1>15, <2>1 DEF RemovePushFree
  <2> QED BY <1>15, <2>2 DEF RemovePushFree
<1>16. ASSUME NEW t \in Threads, RemoveClearData(t)
       PROVE  TypeInv'
  BY <1>16 DEF RemoveClearData
<1>17. ASSUME NEW t \in Threads, RemoveUnlock(t)
       PROVE  TypeInv'
  <2>1. cur[t] \in Index
    BY <1>17 DEF RemoveUnlock
  <2>2. param' \in ParamState /\ latest' \in LatestState
    BY <1>17, <2>1, UpdateTyped DEF RemoveUnlock
  <2>3. op' \in [Threads -> OpRecord]
    BY <1>17, NoOpTyped DEF RemoveUnlock
  <2>4. /\ pc' \in [Threads -> PCs]
        /\ cur' \in [Threads -> Index \cup {None}]
        /\ msg' \in [Threads -> Message \cup {None}]
        /\ \A u \in Threads : pc'[u] \in Working => cur'[u] \in Index
    BY <1>17 DEF RemoveUnlock
  <2>5. holder' \in [Index -> Threads \cup {None}]
    BY <1>17, <2>1 DEF RemoveUnlock, CloseView
  <2>6. views[t] \ {cur[t]} \in SUBSET Index
    OBVIOUS
  <2>7. views' \in [Threads -> SUBSET Index]
    BY <1>17, <2>6 DEF RemoveUnlock, CloseView
  <2> QED BY <1>17, <2>2, <2>3, <2>4, <2>5, <2>7 DEF RemoveUnlock
<1>18. ASSUME UNCHANGED vars
       PROVE  TypeInv'
  BY <1>18 DEF vars, dbVars, thrVars
<1>19. ASSUME NEW t \in Threads, NEW s \in Stations, GetLatest(t, s) \/ GetStation(t, s)
       PROVE  TypeInv'
  <2>1. LatestGetIndexList(latest, s) \in SUBSET Nat
    BY MaxOpsAssumption, IndexAssumption DEF LatestGetIndexList, LatestState
  <2>2. ParamGetIndexList(param, s) \in SUBSET Nat
    BY MaxOpsAssumption, IndexAssumption DEF ParamGetIndexList, ParamState
  <2>3. Committed(s) \in SUBSET Index
    BY DEF Committed, Settled
  <2> HIDE DEF TypeInv, TypeOK, SizeBound, CurSet, Working, PCs, At, Goto
  <2> QED BY <1>6, <1>19, <2>1, <2>2, <2>3 DEF GetLatest, GetStation
<1>20. ASSUME NEW t \in Threads, NEW q \in Queries, NEW meant, GetIndex(t, q, meant)
       PROVE  TypeInv'
  <2>1. IndexGetIndexList(q) \in SUBSET Nat
    BY UIntAssumption DEF IndexGetIndexList, Queries, UInts
  <2>2. Settled \cap meant \in SUBSET Index
    BY DEF Settled
  <2> HIDE DEF TypeInv, TypeOK, SizeBound, CurSet, Working, PCs, At, Goto
  <2> QED BY <1>6, <1>20, <2>1, <2>2 DEF GetIndex
<1>21. ASSUME NEW t \in Threads, byIndex(t) \/ byRange(t)
       PROVE  TypeInv'
  <2> HIDE DEF TypeInv, TypeOK, SizeBound, CurSet, Working, PCs, At, Goto
  <2> QED BY <1>20, <1>21, QueriesOrdered DEF byIndex, byRange
<1> QED
  BY <1>1, <1>2, <1>3, <1>4, <1>5, <1>7, <1>8, <1>9, <1>10, <1>11, <1>12, <1>13,
     <1>14, <1>15, <1>16, <1>17, <1>18, <1>19, <1>21
  DEF Next, Step, Call, NoMoreCalls, Ended

(* For every number of threads, stations and calls, and whatever the        *)
(* threads do, the database's state stays well formed: in particular        *)
(* getFreeElement never hands out an index beyond the array and no step of  *)
(* a call is taken without an element.                                      *)
THEOREM TypeCorrect == Spec => []TypeOK
<1>1. Spec => []TypeInv
  BY TypeInit, TypeStep, PTL DEF Spec
<1>2. TypeInv => TypeOK
  BY DEF TypeInv
<1> QED BY <1>1, <1>2, PTL

-----------------------------------------------------------------------------
(* Views and mutexes.  That a thread holds a mutex exactly as long as it has *)
(* a view needs to know where a call has no view yet, and that remove works  *)
(* on a view it has.                                                         *)

BeforeView == {"idle", "setData", "setCallbacks", "addData", "lockInserted"}
Removing == {"eraseData", "pushFree", "clearData", "unlock"}

ViewInv ==
  /\ ViewsOwnElements
  /\ \A t \in Threads :
       /\ pc[t] \in BeforeView => views[t] = {}
       /\ pc[t] \in {"validate", "drop"} => cur[t] \notin views[t]
       /\ pc[t] \in Removing => cur[t] \in views[t]

(* At the start no mutex is held and there is no view.                      *)
LEMMA ViewsInit == Init => ViewInv
BY NobodyAssumption DEF Init, ViewInv, ViewsOwnElements, LoopView, BeforeView, Removing

(* Every step of every thread keeps views and mutexes in step: locking,     *)
(* releasing, removing, and an exception that leaves unlock with the mutex  *)
(* held.                                                                    *)
LEMMA ViewsStep == TypeInv /\ ViewInv /\ [Next]_vars => ViewInv'
<1> SUFFICES ASSUME TypeInv, ViewInv, [Next]_vars PROVE ViewInv'
  OBVIOUS
<1>0. /\ holder \in [Index -> Threads \cup {None}]
      /\ pc \in [Threads -> PCs]
      /\ cur \in [Threads -> Index \cup {None}]
      /\ views \in [Threads -> SUBSET Index]
      /\ pend \in [Threads -> SUBSET Index]
      /\ \A t \in Threads : pc[t] \in Working => cur[t] \in Index
  BY DEF TypeInv, TypeOK, CurSet
<1> USE <1>0, NobodyAssumption
    DEF ViewInv, ViewsOwnElements, LoopView, BeforeView, Removing, Working, PCs, At, Goto
<1>1. ASSUME NEW t \in Threads, NEW s \in Stations, NEW c \in Copyable, Insert(t, s, c)
      PROVE  ViewInv'
  BY <1>1 DEF Insert, StartCall
<1>2. ASSUME NEW t \in Threads,
             InsertSetData(t) \/ InsertSetCallbacks(t) \/ InsertAddData(t)
      PROVE  ViewInv'
  BY <1>2 DEF InsertSetData, InsertSetCallbacks, InsertAddData
<1>3. ASSUME NEW t \in Threads, InsertLock(t)
      PROVE  ViewInv'
  BY <1>3 DEF InsertLock, LockElement
<1>4. ASSUME NEW t \in Threads, NEW kind, NEW s, NEW list, NEW matches,
             Collect(t, kind, s, list, matches)
      PROVE  ViewInv'
  BY <1>4 DEF Collect, StartCall, dbVars
<1>5. ASSUME NEW t \in Threads, GetLock(t)
      PROVE  ViewInv'
  BY <1>5 DEF GetLock, LockElement
<1>6. ASSUME NEW t \in Threads, GetValidate(t)
      PROVE  ViewInv'
  BY <1>6 DEF GetValidate, dbVars
<1>7. ASSUME NEW t \in Threads, GetDrop(t)
      PROVE  ViewInv'
  BY <1>7 DEF GetDrop
<1>8. ASSUME NEW t \in Threads, GetReturn(t)
      PROVE  ViewInv'
  BY <1>8 DEF GetReturn, dbVars
<1>9. ASSUME NEW t \in Threads, NEW i \in Index, NEW s \in Stations, NEW c \in Copyable,
             Modify(t, i, s, c)
      PROVE  ViewInv'
  BY <1>9 DEF Modify, thrVars
<1>10. ASSUME NEW t \in Threads, NEW i \in Index, Release(t, i)
       PROVE  ViewInv'
  BY <1>10 DEF Release, CloseView
<1>11. ASSUME NEW t \in Threads, NEW i \in Index, Remove(t, i)
       PROVE  ViewInv'
  BY <1>11 DEF Remove
<1>12. ASSUME NEW t \in Threads,
              RemoveEraseData(t) \/ RemovePushFree(t) \/ RemoveClearData(t)
       PROVE  ViewInv'
  BY <1>12 DEF RemoveEraseData, RemovePushFree, RemoveClearData
<1>13. ASSUME NEW t \in Threads, RemoveUnlock(t)
       PROVE  ViewInv'
  BY <1>13 DEF RemoveUnlock, CloseView
<1>14. ASSUME UNCHANGED vars
       PROVE  ViewInv'
  BY <1>14 DEF vars, dbVars, thrVars
<1> HIDE DEF ViewInv
<1> QED
  BY <1>1, <1>2, <1>3, <1>4, <1>5, <1>6, <1>7, <1>8, <1>9, <1>10, <1>11, <1>12, <1>13, <1>14
  DEF Next, Step, Call, NoMoreCalls, Ended, GetLatest, GetStation, GetIndex, byIndex, byRange

(* For every number of threads, stations and calls, and whatever the        *)
(* threads do, removals and exceptions included: the mutex of an element is *)
(* held by a thread exactly as long as this thread has a view of it, so     *)
(* that two threads never have views of one element (DBElement::lock,       *)
(* ~DBView, DBView::remove).                                                *)
THEOREM ViewsExclusive == Spec => []ViewsOwnElements
<1>1. Spec => [](TypeInv /\ ViewInv)
  BY TypeInit, TypeStep, ViewsInit, ViewsStep, PTL DEF Spec
<1>2. ViewInv => ViewsOwnElements
  BY DEF ViewInv
<1> QED BY <1>1, <1>2, PTL
-----------------------------------------------------------------------------
(* Waiting.  Threads wait for each other only through the mutexes of        *)
(* elements: get locks one after the other while it keeps the views it has  *)
(* made, insert locks its element last and holds nothing.                   *)

\* The elements whose mutexes thread t holds.
Held(t) == views[t] \cup LoopView(t)

\* The element that thread t locks next, if its next step is to lock one.
Wanted(t) ==
  CASE pc[t] = "get"          -> {i \in pend[t] : \A j \in pend[t] : i <= j}
    [] pc[t] = "lockInserted" -> {cur[t]}
    [] OTHER                  -> {}

\* Its mutex is taken.
Blocked(t) == \E i \in Wanted(t) : holder[i] # None

(* A thread that another one waits for wants, if anything, an element after *)
(* the one that is waited for: no threads wait for each other in a circle,  *)
(* and none for an element of its own.                                      *)
LocksAscend ==
  \A t, u \in Threads : \A i \in Wanted(t), j \in Wanted(u) : holder[i] = u => i < j

(* While a call is running, the thread of some call can go on.              *)
NoDeadlock ==
  (fault = "none" /\ \E t \in Threads : pc[t] # "idle") =>
    \E t \in Threads : pc[t] # "idle" /\ ~Blocked(t)

\* What get still has to lock comes after everything it has locked.
OrderInv ==
  \A t \in Threads :
    /\ \A i \in Held(t), j \in pend[t] : i < j
    /\ pc[t] \notin {"get", "validate", "drop"} => pend[t] = {}

(* At the start nothing is to be locked.                                    *)
LEMMA OrderStart == Init => OrderInv
BY DEF Init, OrderInv

(* Every step of every thread keeps the order of the locks.                 *)
LEMMA OrderStep == TypeInv /\ ViewInv /\ OrderInv /\ [Next]_vars => OrderInv'
<1> SUFFICES ASSUME TypeInv, ViewInv, OrderInv, [Next]_vars PROVE OrderInv'
  OBVIOUS
<1>0. /\ pc \in [Threads -> PCs]
      /\ cur \in [Threads -> Index \cup {None}]
      /\ views \in [Threads -> SUBSET Index]
      /\ pend \in [Threads -> SUBSET Index]
      /\ \A t \in Threads : pc[t] \in Working => cur[t] \in Index
      /\ \A t \in Threads : pc[t] \in BeforeView => views[t] = {}
      /\ \A t \in Threads : pc[t] \in Removing => cur[t] \in views[t]
  BY DEF TypeInv, TypeOK, CurSet, ViewInv
<1>i. Index \subseteq Int
  BY IndexAssumption, MaxOpsAssumption
<1> USE <1>0 DEF OrderInv, Held, LoopView, BeforeView, Removing, Working, PCs, At, Goto
<1>1. ASSUME NEW t \in Threads, NEW s \in Stations, NEW c \in Copyable, Insert(t, s, c)
      PROVE  OrderInv'
  BY <1>1 DEF Insert, StartCall
<1>2. ASSUME NEW t \in Threads,
             InsertSetData(t) \/ InsertSetCallbacks(t) \/ InsertAddData(t)
      PROVE  OrderInv'
  BY <1>2 DEF InsertSetData, InsertSetCallbacks, InsertAddData
<1>3. ASSUME NEW t \in Threads, InsertLock(t)
      PROVE  OrderInv'
  BY <1>3 DEF InsertLock
<1>4. ASSUME NEW t \in Threads, NEW kind, NEW s, NEW list, NEW matches,
             Collect(t, kind, s, list, matches)
      PROVE  OrderInv'
  BY <1>4 DEF Collect, StartCall
<1>5. ASSUME NEW t \in Threads, GetLock(t)
      PROVE  OrderInv'
  <2>1. PICK i \in pend[t] :
          /\ \A j \in pend[t] : i <= j
          /\ cur' = [cur EXCEPT ![t] = i]
          /\ pend' = [pend EXCEPT ![t] = @ \ {i}]
    BY <1>5 DEF GetLock
  <2>2. \A j \in pend[t] \ {i} : i < j
    BY <1>i, <2>1
  <2> QED BY <1>5, <2>1, <2>2 DEF GetLock
<1>6. ASSUME NEW t \in Threads, GetValidate(t)
      PROVE  OrderInv'
  BY <1>6 DEF GetValidate
<1>7. ASSUME NEW t \in Threads, GetDrop(t)
      PROVE  OrderInv'
  BY <1>7 DEF GetDrop
<1>8. ASSUME NEW t \in Threads, GetReturn(t)
      PROVE  OrderInv'
  BY <1>8 DEF GetReturn
<1>9. ASSUME NEW t \in Threads, NEW i \in Index, NEW s \in Stations, NEW c \in Copyable,
             Modify(t, i, s, c)
      PROVE  OrderInv'
  BY <1>9 DEF Modify, thrVars
<1>10. ASSUME NEW t \in Threads, NEW i \in Index, Release(t, i)
       PROVE  OrderInv'
  BY <1>10 DEF Release, CloseView
<1>11. ASSUME NEW t \in Threads, NEW i \in Index, Remove(t, i)
       PROVE  OrderInv'
  BY <1>11 DEF Remove
<1>12. ASSUME NEW t \in Threads,
              RemoveEraseData(t) \/ RemovePushFree(t) \/ RemoveClearData(t)
       PROVE  OrderInv'
  BY <1>12 DEF RemoveEraseData, RemovePushFree, RemoveClearData
<1>13. ASSUME NEW t \in Threads, RemoveUnlock(t)
       PROVE  OrderInv'
  BY <1>13 DEF RemoveUnlock, CloseView
<1>14. ASSUME UNCHANGED vars
       PROVE  OrderInv'
  BY <1>14 DEF vars, thrVars
<1> HIDE DEF OrderInv
<1> QED
  BY <1>1, <1>2, <1>3, <1>4, <1>5, <1>6, <1>7, <1>8, <1>9, <1>10, <1>11, <1>12, <1>13, <1>14
  DEF Next, Step, Call, NoMoreCalls, Ended, GetLatest, GetStation, GetIndex, byIndex, byRange

\* All that is known of the threads' locks.
LockInv == TypeInv /\ ViewInv /\ OrderInv

(* It holds in every state.                                                 *)
LEMMA LockInvariant == Spec => []LockInv
BY TypeInit, TypeStep, ViewsInit, ViewsStep, OrderStart, OrderStep, PTL DEF Spec, LockInv

(* It makes the locks ascend.                                               *)
LEMMA Ascending == LockInv => LocksAscend
<1> SUFFICES ASSUME LockInv,
                    NEW t \in Threads, NEW u \in Threads,
                    NEW i \in Wanted(t), NEW j \in Wanted(u), holder[i] = u
             PROVE  i < j
  BY DEF LocksAscend
<1>1. i \in Index
  BY DEF LockInv, TypeInv, TypeOK, CurSet, Working, PCs, Wanted
<1>2. i \in Held(u)
  BY <1>1 DEF LockInv, ViewInv, ViewsOwnElements, Held
<1>3. pc[u] = "get" /\ j \in pend[u]
  <2>1. pc[u] # "lockInserted"
    BY <1>2 DEF LockInv, ViewInv, Held, LoopView, BeforeView
  <2> QED BY <2>1 DEF Wanted
<1> QED BY <1>2, <1>3 DEF LockInv, OrderInv

(* A set of numbers below a bound that is not empty has a greatest one.     *)
LEMMA Greatest ==
  ASSUME NEW n \in Nat, NEW W \in SUBSET (0..n), W # {}
  PROVE  \E i \in W : \A j \in W : j <= i
<1> DEFINE S == {n - i : i \in W}
<1>1. S \in SUBSET Nat /\ S # {}
  OBVIOUS
<1>2. PICK x \in S : \A y \in S : <<y, x>> \notin OpToRel(<, Nat)
  BY <1>1, WFMin, NatLessThanWellFounded
<1>3. \A y \in S : ~(y < x)
  BY <1>1, <1>2 DEF OpToRel
<1>4. PICK i \in W : x = n - i
  BY <1>2
<1>5. \A j \in W : ~(n - j < x)
  BY <1>3
<1> QED BY <1>4, <1>5

(* The thread that waits for the greatest of all wanted elements waits for  *)
(* one whose holder wants nothing.                                          *)
LEMMA SomeoneRuns == LockInv => NoDeadlock
<1> SUFFICES ASSUME LockInv, NEW t \in Threads, pc[t] # "idle",
                    \A u \in Threads : pc[u] # "idle" => Blocked(u)
             PROVE  FALSE
  BY DEF NoDeadlock
<1> DEFINE W == {i \in Index : \E u \in Threads : i \in Wanted(u) /\ holder[i] # None}
<1>1. \A u \in Threads : Wanted(u) \subseteq Index
  BY DEF LockInv, TypeInv, TypeOK, CurSet, Working, PCs, Wanted
<1>2. \A u \in Threads : pc[u] # "idle" => \E i \in W : i \in Wanted(u)
  BY <1>1 DEF Blocked
<1>3. W \in SUBSET (0..MaxOps) /\ W # {}
  BY <1>2, IndexAssumption, MaxOpsAssumption
<1>4. PICK i \in W : \A j \in W : j <= i
  BY <1>3, Greatest, MaxOpsAssumption
<1>5. PICK v \in Threads : i \in Wanted(v)
  BY <1>4
<1>6. PICK u \in Threads : holder[i] = u
  BY <1>4 DEF LockInv, TypeInv, TypeOK
<1>7. pc[u] # "idle"
  BY <1>4, <1>6 DEF LockInv, ViewInv, ViewsOwnElements, LoopView, BeforeView
<1>8. PICK j \in W : j \in Wanted(u)
  BY <1>2, <1>7
<1>9. i < j
  BY <1>5, <1>6, <1>8, Ascending DEF LocksAscend
<1> QED BY <1>3, <1>4, <1>8, <1>9

(* For every number of threads, stations and calls, and whatever the        *)
(* threads do: they never wait for each other in a circle, nor for          *)
(* themselves.  It is what getIndexListUnlocked sorts its list and takes    *)
(* out the doubles for, and it needs that insert locks its element without  *)
(* a view of another one.                                                   *)
THEOREM LocksOrdered == Spec => []LocksAscend
BY LockInvariant, Ascending, PTL

(* So while there are calls, and no error has ended the process, one of     *)
(* them can go on.                                                          *)
THEOREM DeadlockFree == Spec => []NoDeadlock
BY LockInvariant, SomeoneRuns, PTL
-----------------------------------------------------------------------------
(* Progress.  A call ends after a number of its thread's own steps that its *)
(* beginning fixes, whatever the other threads do meanwhile.                *)

\* The steps from a place in a call to the next choice of what to do.
StepsAhead(t) ==
  CASE pc[t] = "setData"                          -> 5
    [] pc[t] \in {"setCallbacks", "eraseData"}    -> 4
    [] pc[t] \in {"addData", "pushFree", "validate"} -> 3
    [] pc[t] \in {"lockInserted", "clearData", "drop"} -> 2
    [] pc[t] \in {"unlock", "get"}                -> 1
    [] OTHER                                      -> 0

\* For each element it still has to lock: lock, validate, drop; for each view:
\* release.
WorkLeft(t) == StepsAhead(t) + 3 * Cardinality(pend[t]) + Cardinality(views[t])

(* Each step of a call leaves less of it to do, and no call of another      *)
(* thread gets longer by it: no dropped element, no race lost to another    *)
(* thread and no exception makes a call begin again.                        *)
CallsShrink ==
  [][\A t \in Threads :
       /\ Step(t) /\ fault' = "none" => WorkLeft(t)' < WorkLeft(t)
       /\ Step(t) \/ Call(t) =>
            \A u \in Threads \ {t} : WorkLeft(u)' = WorkLeft(u)]_vars

(* There is something left to do exactly while a call is running.           *)
WorkMeasured ==
  \A t \in Threads : WorkLeft(t) \in Nat /\ (WorkLeft(t) = 0 <=> pc[t] = "idle")

\* A caller that may still use its views has one.
BusyInv == \A t \in Threads : pc[t] = "use" => views[t] # {}

(* Every step of every thread keeps it so.                                  *)
LEMMA BusyStep == TypeInv /\ ViewInv /\ BusyInv /\ [Next]_vars => BusyInv'
<1> SUFFICES ASSUME TypeInv, ViewInv, BusyInv, [Next]_vars PROVE BusyInv'
  OBVIOUS
<1>0. /\ pc \in [Threads -> PCs]
      /\ views \in [Threads -> SUBSET Index]
      /\ \A t \in Threads : pc[t] \in Removing => cur[t] \in views[t]
  BY DEF TypeInv, TypeOK, ViewInv
<1> USE <1>0 DEF BusyInv, Removing, PCs, At, Goto
<1>1. ASSUME NEW t \in Threads, NEW s \in Stations, NEW c \in Copyable, Insert(t, s, c)
      PROVE  BusyInv'
  BY <1>1 DEF Insert, StartCall
<1>2. ASSUME NEW t \in Threads,
             InsertSetData(t) \/ InsertSetCallbacks(t) \/ InsertAddData(t)
      PROVE  BusyInv'
  BY <1>2 DEF InsertSetData, InsertSetCallbacks, InsertAddData
<1>3. ASSUME NEW t \in Threads, InsertLock(t)
      PROVE  BusyInv'
  BY <1>3 DEF InsertLock
<1>4. ASSUME NEW t \in Threads, NEW kind, NEW s, NEW list, NEW matches,
             Collect(t, kind, s, list, matches)
      PROVE  BusyInv'
  BY <1>4 DEF Collect, StartCall
<1>5. ASSUME NEW t \in Threads, GetLock(t) \/ GetDrop(t)
      PROVE  BusyInv'
  BY <1>5 DEF GetLock, GetDrop
<1>6. ASSUME NEW t \in Threads, GetValidate(t)
      PROVE  BusyInv'
  BY <1>6 DEF GetValidate
<1>8. ASSUME NEW t \in Threads, GetReturn(t)
      PROVE  BusyInv'
  BY <1>8 DEF GetReturn
<1>9. ASSUME NEW t \in Threads, NEW i \in Index, NEW s \in Stations, NEW c \in Copyable,
             Modify(t, i, s, c)
      PROVE  BusyInv'
  BY <1>9 DEF Modify, thrVars
<1>10. ASSUME NEW t \in Threads, NEW i \in Index, Release(t, i)
       PROVE  BusyInv'
  BY <1>10 DEF Release, CloseView
<1>11. ASSUME NEW t \in Threads, NEW i \in Index, Remove(t, i)
       PROVE  BusyInv'
  BY <1>11 DEF Remove
<1>12. ASSUME NEW t \in Threads,
              RemoveEraseData(t) \/ RemovePushFree(t) \/ RemoveClearData(t)
       PROVE  BusyInv'
  BY <1>12 DEF RemoveEraseData, RemovePushFree, RemoveClearData
<1>13. ASSUME NEW t \in Threads, RemoveUnlock(t)
       PROVE  BusyInv'
  BY <1>13 DEF RemoveUnlock, CloseView
<1>14. ASSUME UNCHANGED vars
       PROVE  BusyInv'
  BY <1>14 DEF vars, thrVars
<1> HIDE DEF BusyInv
<1> QED
  BY <1>1, <1>2, <1>3, <1>4, <1>5, <1>6, <1>8, <1>9, <1>10, <1>11, <1>12, <1>13, <1>14
  DEF Next, Step, Call, NoMoreCalls, Ended, GetLatest, GetStation, GetIndex, byIndex, byRange

(* It holds in every state.                                                 *)
LEMMA BusyInvariant == Spec => [](LockInv /\ BusyInv)
<1>1. Init => BusyInv
  BY DEF Init, BusyInv
<1>2. LockInv /\ BusyInv /\ [Next]_vars => BusyInv'
  BY BusyStep DEF LockInv
<1> QED BY <1>1, <1>2, LockInvariant, PTL DEF Spec

(* The sets that are counted are finite.                                    *)
LEMMA Finite ==
  ASSUME NEW S \in SUBSET Index
  PROVE  IsFiniteSet(S) /\ Cardinality(S) \in Nat /\ (Cardinality(S) = 0 <=> S = {})
<1>1. IsFiniteSet(Index)
  BY IndexAssumption, MaxOpsAssumption, FS_Interval
<1>2. IsFiniteSet(S)
  BY <1>1, FS_Subset
<1> QED BY <1>2, FS_CardinalityType, FS_EmptySet

(* Taking one element away, or adding one.                                  *)
LEMMA OneLess ==
  ASSUME NEW S \in SUBSET Index, NEW i \in Index
  PROVE  /\ i \in S => Cardinality(S \ {i}) = Cardinality(S) - 1
         /\ i \notin S => Cardinality(S \cup {i}) = Cardinality(S) + 1
BY Finite, FS_RemoveElement, FS_AddElement

(* What is left to do is nothing when the thread is idle, and only then.    *)
LEMMA Measured == LockInv /\ BusyInv => WorkMeasured
<1> SUFFICES ASSUME LockInv, BusyInv, NEW t \in Threads
             PROVE  WorkLeft(t) \in Nat /\ (WorkLeft(t) = 0 <=> pc[t] = "idle")
  BY DEF WorkMeasured
<1>1. views[t] \in SUBSET Index /\ pend[t] \in SUBSET Index /\ pc[t] \in PCs
  BY DEF LockInv, TypeInv, TypeOK
<1>2. /\ Cardinality(views[t]) \in Nat /\ (Cardinality(views[t]) = 0 <=> views[t] = {})
      /\ Cardinality(pend[t]) \in Nat /\ (Cardinality(pend[t]) = 0 <=> pend[t] = {})
  BY <1>1, Finite
<1>3. StepsAhead(t) \in Nat /\ (StepsAhead(t) = 0 <=> pc[t] \in {"idle", "use"})
  BY <1>1 DEF StepsAhead, PCs
<1>4. pc[t] = "idle" => views[t] = {} /\ pend[t] = {}
  BY DEF LockInv, ViewInv, OrderInv, BeforeView
<1>5. pc[t] = "use" => views[t] # {}
  BY DEF BusyInv
<1>6. ASSUME NEW a \in Nat, NEW p \in Nat, NEW v \in Nat
      PROVE  a + 3 * p + v \in Nat /\ (a + 3 * p + v = 0 <=> a = 0 /\ p = 0 /\ v = 0)
  OBVIOUS
<1>7. /\ WorkLeft(t) \in Nat
      /\ WorkLeft(t) = 0 <=> pc[t] \in {"idle", "use"} /\ pend[t] = {} /\ views[t] = {}
  <2>1. PICK a \in Nat, p \in Nat, v \in Nat :
          a = StepsAhead(t) /\ p = Cardinality(pend[t]) /\ v = Cardinality(views[t])
    BY <1>2, <1>3
  <2>2. WorkLeft(t) = a + 3 * p + v
    BY <2>1 DEF WorkLeft
  <2>3. WorkLeft(t) \in Nat /\ (WorkLeft(t) = 0 <=> a = 0 /\ p = 0 /\ v = 0)
    BY <1>6, <2>2
  <2> QED BY <1>2, <1>3, <2>1, <2>3
<1> QED BY <1>4, <1>5, <1>7

(* Every step of a call leaves less to do.                                  *)
LEMMA StepShrinks ==
  ASSUME LockInv, NEW t \in Threads, Step(t), fault' = "none"
  PROVE  WorkLeft(t)' < WorkLeft(t)
<1>0. /\ pc \in [Threads -> PCs] /\ views \in [Threads -> SUBSET Index]
      /\ pend \in [Threads -> SUBSET Index] /\ cur \in [Threads -> Index \cup {None}]
      /\ pc[t] \in Working => cur[t] \in Index
  BY DEF LockInv, TypeInv, TypeOK, CurSet
<1>f. Cardinality(views[t]) \in Nat /\ Cardinality(pend[t]) \in Nat
  BY <1>0, Finite
<1> USE <1>0, <1>f DEF At, Goto, PCs, Working, WorkLeft, StepsAhead
<1>1. ASSUME InsertSetData(t) \/ InsertSetCallbacks(t) \/ InsertAddData(t)
      PROVE  WorkLeft(t)' < WorkLeft(t)
  BY <1>1 DEF InsertSetData, InsertSetCallbacks, InsertAddData
<1>2. ASSUME InsertLock(t)
      PROVE  WorkLeft(t)' < WorkLeft(t)
  <2>1. views[t] = {}
    BY <1>2 DEF InsertLock, LockInv, ViewInv, BeforeView
  <2>2. Cardinality(views[t]) = 0 /\ Cardinality({cur[t]}) = 1
    BY <2>1, FS_EmptySet, FS_Singleton
  <2>3. pc[t] = "lockInserted" /\ pc'[t] = "use" /\ views'[t] = {cur[t]} /\ pend'[t] = pend[t]
    BY <1>2 DEF InsertLock
  <2> QED BY <2>2, <2>3
<1>3. ASSUME GetLock(t)
      PROVE  WorkLeft(t)' < WorkLeft(t)
  <2>1. PICK i \in pend[t] : pend' = [pend EXCEPT ![t] = @ \ {i}]
    BY <1>3 DEF GetLock
  <2>2. Cardinality(pend[t] \ {i}) = Cardinality(pend[t]) - 1
    BY OneLess
  <2>3. pc[t] = "get" /\ pc'[t] = "validate" /\ views'[t] = views[t] /\ pend'[t] = pend[t] \ {i}
    BY <1>3, <2>1 DEF GetLock
  <2> QED BY <2>2, <2>3
<1>4. ASSUME GetValidate(t)
      PROVE  WorkLeft(t)' < WorkLeft(t)
  <2>1. cur[t] \in Index /\ cur[t] \notin views[t] /\ pc[t] = "validate" /\ pend'[t] = pend[t]
    BY <1>4 DEF GetValidate, LockInv, ViewInv
  <2>2. Cardinality(views[t] \cup {cur[t]}) = Cardinality(views[t]) + 1
    BY <2>1, OneLess
  <2>3. \/ pc'[t] = "get" /\ views'[t] = views[t] \cup {cur[t]}
        \/ pc'[t] = "drop" /\ views'[t] = views[t]
    BY <1>4 DEF GetValidate
  <2>4. CASE pc'[t] = "get" /\ views'[t] = views[t] \cup {cur[t]}
    BY <2>1, <2>2, <2>4
  <2>5. CASE pc'[t] = "drop" /\ views'[t] = views[t]
    BY <2>1, <2>5
  <2> QED BY <2>3, <2>4, <2>5
<1>5. ASSUME GetDrop(t)
      PROVE  WorkLeft(t)' < WorkLeft(t)
  BY <1>5 DEF GetDrop
<1>6. ASSUME GetReturn(t)
      PROVE  WorkLeft(t)' < WorkLeft(t)
  BY <1>6 DEF GetReturn
<1>7. ASSUME NEW i \in Index, Release(t, i)
      PROVE  WorkLeft(t)' < WorkLeft(t)
  <2>1. Cardinality(views[t] \ {i}) = Cardinality(views[t]) - 1
    BY <1>7, OneLess DEF Release
  <2>2. /\ pc[t] = "use" /\ pc'[t] \in {"use", "idle"}
        /\ views'[t] = views[t] \ {i} /\ pend'[t] = pend[t]
    BY <1>7 DEF Release, CloseView
  <2> QED BY <2>1, <2>2
<1>8. ASSUME RemoveEraseData(t) \/ RemovePushFree(t) \/ RemoveClearData(t)
      PROVE  WorkLeft(t)' < WorkLeft(t)
  BY <1>8 DEF RemoveEraseData, RemovePushFree, RemoveClearData
<1>9. ASSUME RemoveUnlock(t)
      PROVE  WorkLeft(t)' < WorkLeft(t)
  <2>1. cur[t] \in Index /\ cur[t] \in views[t] /\ pc[t] = "unlock" /\ pend'[t] = pend[t]
    BY <1>9 DEF RemoveUnlock, LockInv, ViewInv, Removing
  <2>2. Cardinality(views[t] \ {cur[t]}) = Cardinality(views[t]) - 1
    BY <2>1, OneLess
  <2>3. pc'[t] \in {"use", "idle"} /\ views'[t] \in {views[t], views[t] \ {cur[t]}}
    BY <1>9 DEF RemoveUnlock, CloseView
  <2>4. CASE views'[t] = views[t]
    BY <2>1, <2>3, <2>4
  <2>5. CASE views'[t] = views[t] \ {cur[t]}
    BY <2>1, <2>2, <2>3, <2>5
  <2> QED BY <2>3, <2>4, <2>5
<1> HIDE DEF WorkLeft
<1> QED BY <1>1, <1>2, <1>3, <1>4, <1>5, <1>6, <1>7, <1>8, <1>9 DEF Step

(* No step of a thread changes what another one has left to do.             *)
LEMMA OthersKeep ==
  ASSUME LockInv, NEW t \in Threads, Step(t) \/ Call(t), NEW u \in Threads \ {t}
  PROVE  WorkLeft(u)' = WorkLeft(u)
<1>0. /\ pc \in [Threads -> PCs] /\ views \in [Threads -> SUBSET Index]
      /\ pend \in [Threads -> SUBSET Index]
  BY DEF LockInv, TypeInv, TypeOK
<1> USE <1>0 DEF At, Goto
<1>1. pc'[u] = pc[u] /\ views'[u] = views[u] /\ pend'[u] = pend[u]
  <2>1. CASE Step(t)
    <3>1. CASE InsertSetData(t) \/ InsertSetCallbacks(t) \/ InsertAddData(t) \/ InsertLock(t)
      BY <3>1 DEF InsertSetData, InsertSetCallbacks, InsertAddData, InsertLock
    <3>2. CASE GetLock(t) \/ GetValidate(t) \/ GetDrop(t) \/ GetReturn(t)
      BY <3>2 DEF GetLock, GetValidate, GetDrop, GetReturn
    <3>3. CASE \E i \in Index : Release(t, i)
      BY <3>3 DEF Release, CloseView
    <3>4. CASE RemoveEraseData(t) \/ RemovePushFree(t) \/ RemoveClearData(t) \/ RemoveUnlock(t)
      BY <3>4 DEF RemoveEraseData, RemovePushFree, RemoveClearData, RemoveUnlock, CloseView
    <3> QED BY <2>1, <3>1, <3>2, <3>3, <3>4 DEF Step
  <2>2. ASSUME NEW kind, NEW s, NEW list, NEW matches, Collect(t, kind, s, list, matches)
        PROVE  pc'[u] = pc[u] /\ views'[u] = views[u] /\ pend'[u] = pend[u]
    BY <2>2 DEF Collect
  <2>3. ASSUME NEW s, NEW c, Insert(t, s, c)
        PROVE  pc'[u] = pc[u] /\ views'[u] = views[u] /\ pend'[u] = pend[u]
    BY <2>3 DEF Insert
  <2>4. ASSUME NEW i, Remove(t, i)
        PROVE  pc'[u] = pc[u] /\ views'[u] = views[u] /\ pend'[u] = pend[u]
    BY <2>4 DEF Remove
  <2>5. ASSUME NEW i, NEW s, NEW c, Modify(t, i, s, c)
        PROVE  pc'[u] = pc[u] /\ views'[u] = views[u] /\ pend'[u] = pend[u]
    BY <2>5 DEF Modify, thrVars
  <2> QED BY <2>1, <2>2, <2>3, <2>4, <2>5
          DEF Call, GetLatest, GetStation, GetIndex, byIndex, byRange
<1> QED BY <1>1 DEF WorkLeft, StepsAhead

(* For every number of threads, stations and calls, and whatever the        *)
(* threads do: each call ends after a number of steps that is known at each *)
(* of them.  With DeadlockFree it is what CallsReturn rests on, but for the *)
(* fairness of the scheduler.                                               *)
THEOREM CallsBounded == Spec => []WorkMeasured /\ CallsShrink
<1>1. Spec => []WorkMeasured
  BY BusyInvariant, Measured, PTL
<1>2. Spec => CallsShrink
  <2>1. LockInv /\ [Next]_vars =>
          [\A t \in Threads :
             /\ Step(t) /\ fault' = "none" => WorkLeft(t)' < WorkLeft(t)
             /\ Step(t) \/ Call(t) =>
                  \A u \in Threads \ {t} : WorkLeft(u)' = WorkLeft(u)]_vars
    BY StepShrinks, OthersKeep
  <2> QED BY <2>1, LockInvariant, PTL DEF Spec, CallsShrink
<1> QED BY <1>1, <1>2
-----------------------------------------------------------------------------
(* Queries that no registered indexer supports.                             *)

\* The kinds of queries without an indexer.
Unsupported == {"index", "latest", "station"} \ Registered

(* A call that makes such a query never has a view.                         *)
FindsNothing == \A t \in Threads : op[t].kind \in Unsupported => views[t] = {}

\* It collects nothing and returns.
UnsupportedInv ==
  \A t \in Threads : op[t].kind \in Unsupported =>
    pc[t] = "get" /\ pend[t] = {} /\ views[t] = {}

(* Every step of every thread keeps it so.                                  *)
LEMMA UnsupportedStep ==
  TypeInv /\ ViewInv /\ UnsupportedInv /\ [Next]_vars => UnsupportedInv'
<1> SUFFICES ASSUME TypeInv, ViewInv, UnsupportedInv, [Next]_vars PROVE UnsupportedInv'
  OBVIOUS
<1>0. /\ pc \in [Threads -> PCs] /\ op \in [Threads -> OpRecord]
      /\ views \in [Threads -> SUBSET Index] /\ pend \in [Threads -> SUBSET Index]
      /\ \A t \in Threads : pc[t] = "idle" => views[t] = {}
  BY DEF TypeInv, TypeOK, ViewInv, BeforeView
<1> USE <1>0 DEF UnsupportedInv, At, Goto
<1>1. ASSUME NEW t \in Threads, NEW s \in Stations, NEW c \in Copyable, Insert(t, s, c)
      PROVE  UnsupportedInv'
  BY <1>1 DEF Insert, StartCall, Unsupported
<1>2. ASSUME NEW t \in Threads,
             InsertSetData(t) \/ InsertSetCallbacks(t) \/ InsertAddData(t) \/ InsertLock(t)
      PROVE  UnsupportedInv'
  BY <1>2 DEF InsertSetData, InsertSetCallbacks, InsertAddData, InsertLock
<1>3. ASSUME NEW t \in Threads, NEW kind, NEW s, NEW list, NEW matches,
             Collect(t, kind, s, list, matches)
      PROVE  UnsupportedInv'
  <2>1. kind \in Unsupported => getIndexListUnlocked(kind, list) = {}
    BY DEF Unsupported, getIndexListUnlocked
  <2> QED BY <1>3, <2>1 DEF Collect, StartCall
<1>4. ASSUME NEW t \in Threads, GetLock(t) \/ GetValidate(t) \/ GetDrop(t)
      PROVE  UnsupportedInv'
  BY <1>4 DEF GetLock, GetValidate, GetDrop
<1>5. ASSUME NEW t \in Threads, GetReturn(t)
      PROVE  UnsupportedInv'
  BY <1>5 DEF GetReturn, NoOp, Unsupported
<1>6. ASSUME NEW t \in Threads, NEW i \in Index, NEW s \in Stations, NEW c \in Copyable,
             Modify(t, i, s, c)
      PROVE  UnsupportedInv'
  BY <1>6 DEF Modify, thrVars
<1>7. ASSUME NEW t \in Threads, NEW i \in Index, Release(t, i) \/ Remove(t, i)
      PROVE  UnsupportedInv'
  BY <1>7 DEF Release, CloseView, Remove, NoOp, Unsupported
<1>8. ASSUME NEW t \in Threads,
             \/ RemoveEraseData(t) \/ RemovePushFree(t)
             \/ RemoveClearData(t) \/ RemoveUnlock(t)
      PROVE  UnsupportedInv'
  BY <1>8 DEF RemoveEraseData, RemovePushFree, RemoveClearData, RemoveUnlock, CloseView,
              NoOp, Unsupported
<1>9. ASSUME UNCHANGED vars
      PROVE  UnsupportedInv'
  BY <1>9 DEF vars, thrVars
<1> HIDE DEF UnsupportedInv
<1> QED
  BY <1>1, <1>2, <1>3, <1>4, <1>5, <1>6, <1>7, <1>8, <1>9
  DEF Next, Step, Call, NoMoreCalls, Ended, GetLatest, GetStation, GetIndex, byIndex, byRange

(* Whatever is stored, a query of a kind that no registered indexer         *)
(* supports returns nothing: DENBasicService, which registers no            *)
(* IDXCAMLatest, never returns a message from tryGetDENM.                   *)
THEOREM UnsupportedFindsNothing == Spec => []FindsNothing
<1>1. Init => UnsupportedInv
  BY DEF Init, UnsupportedInv, NoOp, Unsupported
<1>2. LockInv /\ UnsupportedInv /\ [Next]_vars => UnsupportedInv'
  BY UnsupportedStep DEF LockInv
<1>3. UnsupportedInv => FindsNothing
  BY DEF UnsupportedInv, FindsNothing
<1> QED BY <1>1, <1>2, <1>3, LockInvariant, PTL DEF Spec

-----------------------------------------------------------------------------
(* What ends the process.                                                  *)

(* When unlock throws in a destructor, nothing changes but that the process *)
(* has ended.                                                               *)
LEMMA ThrowingUnlock ==
  ASSUME NEW t \in Threads
  PROVE  /\ GetDrop(t) /\ UnlockThrows(cur[t]) => UNCHANGED <<dbVars, thrVars>> /\ fault' = "terminate"
         /\ \A i \in Index : Release(t, i) /\ UnlockThrows(i) =>
              UNCHANGED <<dbVars, thrVars>> /\ fault' = "terminate" /\ i \in views[t]
BY DEF GetDrop, Release, dbVars, thrVars

(* If no step makes the station id indexer throw or erase at end(), only    *)
(* the copy in unlock ends the process.                                     *)
LEMMA OnlyCopiesKept ==
  ASSUME OnlyCopiesFault, [Next]_vars,
         \A t \in Threads : At(t, "drop") => ~UpdateThrows(cur[t]),
         \A t \in Threads : At(t, "use") => \A i \in views[t] : ~UpdateThrows(i),
         \A t \in Threads, i \in Index : Remove(t, i) => fault' = "none"
  PROVE  OnlyCopiesFault'
<1>1. CASE fault' = "none"
  BY <1>1 DEF OnlyCopiesFault
<1>2. CASE UNCHANGED vars
  BY <1>2 DEF vars, dbVars, thrVars, OnlyCopiesFault, LoopView, CopyThrows, hasData
<1>3. ASSUME NEW t \in Threads, GetDrop(t), UnlockThrows(cur[t])
      PROVE  OnlyCopiesFault'
  <2>1. /\ UNCHANGED <<data, pc, cur, views>> /\ fault' = "terminate"
        /\ pc[t] = "drop" /\ CopyThrows(cur[t])
    BY <1>3, ThrowingUnlock DEF dbVars, thrVars, GetDrop, At, UnlockThrows
  <2>2. cur[t] \in (views[t] \cup LoopView(t))' /\ CopyThrows(cur[t])'
    BY <2>1 DEF LoopView, CopyThrows, hasData
  <2> QED BY <2>1, <2>2 DEF OnlyCopiesFault
<1>4. ASSUME NEW t \in Threads, NEW i \in Index, Release(t, i), UnlockThrows(i)
      PROVE  OnlyCopiesFault'
  <2>1. /\ UNCHANGED <<data, views>> /\ fault' = "terminate"
        /\ i \in views[t] /\ CopyThrows(i)
    BY <1>4, ThrowingUnlock DEF dbVars, thrVars, Release, UnlockThrows
  <2>2. i \in (views[t] \cup LoopView(t))' /\ CopyThrows(i)'
    BY <2>1 DEF CopyThrows, hasData
  <2> QED BY <2>1, <2>2 DEF OnlyCopiesFault
<1>5. ASSUME NEW t \in Threads,
             \/ GetDrop(t) /\ ~UnlockThrows(cur[t])
             \/ \E i \in Index : Release(t, i) /\ ~UnlockThrows(i)
      PROVE  fault' = "none"
  BY <1>5 DEF GetDrop, Release, At
<1>6. ASSUME NEW t \in Threads, RemoveUnlock(t)
      PROVE  fault' = "none"
  BY <1>6 DEF RemoveUnlock, At
<1>7. ASSUME NEW t \in Threads,
             \/ InsertSetData(t) \/ InsertSetCallbacks(t) \/ InsertAddData(t) \/ InsertLock(t)
             \/ GetLock(t) \/ GetValidate(t) \/ GetReturn(t)
             \/ RemoveEraseData(t) \/ RemovePushFree(t) \/ RemoveClearData(t)
      PROVE  fault' = "none"
  BY <1>7 DEF InsertSetData, InsertSetCallbacks, InsertAddData, InsertLock, GetLock, GetValidate,
              GetReturn, RemoveEraseData, RemovePushFree, RemoveClearData, At
<1>8. ASSUME NEW t \in Threads,
             \/ \E s \in Stations, c \in Copyable : Insert(t, s, c)
             \/ \E i \in Index, s \in Stations, c \in Copyable : Modify(t, i, s, c)
      PROVE  fault' = "none"
  BY <1>8 DEF Insert, Modify, StartCall, At
<1>9. ASSUME NEW t \in Threads, NEW kind, NEW s, NEW list, NEW matches,
             Collect(t, kind, s, list, matches)
      PROVE  fault' = "none"
  BY <1>9 DEF Collect, StartCall, At
<1> QED
  BY <1>1, <1>2, <1>3, <1>4, <1>5, <1>6, <1>7, <1>8, <1>9
  DEF Next, Step, Call, NoMoreCalls, Ended, GetLatest, GetStation, GetIndex, byIndex, byRange
=============================================================================
