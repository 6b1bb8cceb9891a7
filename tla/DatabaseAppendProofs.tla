------------------------ MODULE DatabaseAppendProofs ------------------------
(***************************************************************************)
(* Proofs about a message database that nobody removes from, which is how  *)
(* CABasicService and DENBasicService use it, for any number of threads,   *)
(* stations and calls: the index by station id is right, searches are      *)
(* answered in full, and the whole implements the store of MessageStore.   *)
(***************************************************************************)
EXTENDS DatabaseProofs

-----------------------------------------------------------------------------
(* No indexer ends the process.  updateData throws for an element the       *)
(* station id indexer does not know.  The argument: a query finds only what *)
(* an indexer lists, an indexer lists an element only after the station id  *)
(* indexer has filed it, and nothing is unfiled without a removal.          *)

\* What the services, and applications that only search and edit, do.
AppendOnly == \A t \in Threads : Ops[t] \subseteq {"insert", "latest", "station", "modify"}

\* The station id indexer knows the element, if there is one.
Filed(i) == "station" \in Registered => param.reverse[i] # None

\* The steps of insert between the choice of the element and its lock.
Filling == {"setCallbacks", "addData", "lockInserted"}

\* No element is ever given back.
NoRemoval ==
  /\ free = <<>>
  /\ \A t \in Threads : pc[t] \notin Removing

\* Inserts work on elements of their own, which keep their entry.
InsertsApart ==
  \A t \in Threads : pc[t] \in Filling \cup {"setData"} =>
    /\ msg[t] # None /\ cur[t] < size
    /\ pc[t] \in Filling => hasData(cur[t]) /\ data[cur[t]].seq = msg[t].seq
    /\ \A u \in Threads : u # t /\ pc[u] \in Filling \cup {"setData"} => cur[t] # cur[u]

\* What a query can find, and what has a view, has been filed.
FiledFirst ==
  /\ \A t \in Threads :
       /\ \A i \in pend[t] \cup views[t] : Filed(i)
       /\ pc[t] \in {"lockInserted", "validate", "drop"} => Filed(cur[t])
  /\ \A s \in Stations, i \in Index : i \in param.map[s] \/ latest.ofStation[s] = i => Filed(i)

KeepInv == NoRemoval /\ InsertsApart /\ FiledFirst

(* The empty database satisfies the invariant.                              *)
LEMMA KeepInit == Init => KeepInv
BY NoneAssumption DEF Init, KeepInv, NoRemoval, InsertsApart, FiledFirst, Filling, Removing,
   ParamInit, LatestInit

(* The update of the indexers when a view is destroyed forgets no filed     *)
(* element and makes known only filed ones.                                 *)
LEMMA FiledByUpdate ==
  ASSUME TypeInv, FiledFirst, NEW i \in Index, Filed(i), UpdateIndexers(i)
  PROVE  /\ \A j \in Index : Filed(j) => Filed(j)'
         /\ \A s \in Stations, j \in Index :
              j \in param'.map[s] \/ latest'.ofStation[s] = j => Filed(j)'
<1>1. param \in ParamState /\ latest \in LatestState /\ (hasData(i) => data[i].station \in Stations)
  BY DEF TypeInv, TypeOK, hasData, Message
<1>2. \A j \in Index : Filed(j) => Filed(j)'
  BY <1>1, NoneAssumption DEF UpdateIndexers, UpdateCalled, ParamUpdateData, ParamState, Filed
<1>3. ASSUME NEW s \in Stations, NEW j \in Index, j \in param'.map[s]
      PROVE  Filed(j)'
  <2>1. j \in param.map[s] \/ j = i
    BY <1>1, <1>3 DEF UpdateIndexers, UpdateCalled, ParamUpdateData, ParamState
  <2> QED BY <2>1, <1>2 DEF FiledFirst
<1>4. ASSUME NEW s \in Stations, NEW j \in Index, latest'.ofStation[s] = j
      PROVE  Filed(j)'
  <2>1. latest.ofStation[s] = j \/ j = i
    BY <1>1, <1>4, NoneAssumption
    DEF UpdateIndexers, UpdateCalled, LatestUpdateData, LatestAddData, LatestState
  <2> QED BY <2>1, <1>2 DEF FiledFirst
<1> QED BY <1>2, <1>3, <1>4

(* Every step of threads that do not remove preserves it.                   *)
LEMMA KeepStep ==
  ASSUME AppendOnly, TypeInv, KeepInv, [Next]_vars
  PROVE  KeepInv'
<1>0. /\ size \in 0..MaxOps
      /\ data \in [Index -> Message \cup {None}]
      /\ param \in ParamState /\ latest \in LatestState
      /\ pc \in [Threads -> PCs]
      /\ msg \in [Threads -> Message \cup {None}]
      /\ cur \in [Threads -> Index \cup {None}]
      /\ views \in [Threads -> SUBSET Index]
      /\ pend \in [Threads -> SUBSET Index]
      /\ \A t \in Threads : pc[t] \in Working => cur[t] \in Index
      /\ Index \subseteq Nat /\ MaxOps \in Nat
  BY IndexAssumption, MaxOpsAssumption DEF TypeInv, TypeOK, CurSet
<1> USE <1>0, NobodyAssumption, NoneAssumption
    DEF KeepInv, NoRemoval, InsertsApart, Filling, Removing, Working, PCs, At, Goto
<1>1. ASSUME NEW t \in Threads, NEW s \in Stations, NEW c \in Copyable, Insert(t, s, c)
      PROVE  KeepInv'
  <2>1. [seq |-> MaxOps - ops + 1, station |-> s, copyable |-> c] \in Message
    BY <1>1, MaxOpsAssumption DEF TypeInv, TypeOK, Insert, StartCall, Message
  <2>2. /\ size' = size + 1 /\ free' = free
        /\ data' = data /\ pc[t] = "idle"
        /\ pc' = [pc EXCEPT ![t] = "setData"]
        /\ cur' = [cur EXCEPT ![t] = size]
        /\ msg'[t] # None /\ \A u \in Threads \ {t} : msg'[u] = msg[u]
    BY <1>1, <2>1 DEF Insert, StartCall
  <2>4. ASSUME NEW u \in Threads \ {t}, pc[u] \in Filling \cup {"setData"}
        PROVE  cur[u] < size' /\ cur[u] # size
    <3>0. pc[u] \in Working
      BY <2>4
    <3>1. cur[u] \in Index
      BY <3>0
    <3>2. cur[u] < size
      BY <2>4
    <3> QED BY <3>1, <3>2, <2>2, IndexAssumption, MaxOpsAssumption
  <2>5. InsertsApart'
    BY <2>2, <2>4 DEF hasData
  <2>3. FiledFirst'
    BY <1>1 DEF Insert, FiledFirst, Filed
  <2> QED BY <1>1, <2>2, <2>3, <2>5 DEF Insert
<1>2. ASSUME NEW t \in Threads, InsertSetData(t)
      PROVE  KeepInv'
  <2>1. InsertsApart'
    BY <1>2 DEF InsertSetData, hasData
  <2>2. FiledFirst'
    BY <1>2 DEF InsertSetData, FiledFirst, Filed
  <2> QED BY <1>2, <2>1, <2>2 DEF InsertSetData
<1>3. ASSUME NEW t \in Threads, InsertSetCallbacks(t)
      PROVE  KeepInv'
  <2>1. InsertsApart'
    BY <1>3 DEF InsertSetCallbacks, hasData
  <2>2. FiledFirst'
    BY <1>3 DEF InsertSetCallbacks, FiledFirst, Filed
  <2> QED BY <1>3, <2>1, <2>2 DEF InsertSetCallbacks
<1>4. ASSUME NEW t \in Threads, InsertAddData(t)
      PROVE  KeepInv'
  <2>1. InsertsApart'
    BY <1>4 DEF InsertAddData, hasData
  <2>2. cur[t] \in Index /\ hasData(cur[t]) /\ data[cur[t]].station \in Stations
    BY <1>4 DEF InsertAddData, hasData, Message
  <2>3. Filed(cur[t])' /\ \A j \in Index : Filed(j) => Filed(j)'
    BY <1>4, <2>2 DEF InsertAddData, Filed, ParamAddData, ParamState
  <2>4. ASSUME NEW s \in Stations, NEW j \in Index, (j \in param.map[s])'
        PROVE  Filed(j)'
    <3>1. j \in param.map[s] \/ j = cur[t]
      BY <1>4, <2>2, <2>4 DEF InsertAddData, ParamAddData, ParamState
    <3> QED BY <3>1, <2>3, <1>4 DEF FiledFirst, InsertAddData
  <2>5. ASSUME NEW s \in Stations, NEW j \in Index, (latest.ofStation[s] = j)'
        PROVE  Filed(j)'
    <3>1. latest.ofStation[s] = j \/ j = cur[t]
      BY <1>4, <2>2, <2>5 DEF InsertAddData, LatestAddData, LatestState
    <3> QED BY <3>1, <2>3, <1>4 DEF FiledFirst, InsertAddData
  <2>6. FiledFirst'
    BY <1>4, <2>2, <2>3, <2>4, <2>5 DEF FiledFirst, InsertAddData
  <2> QED BY <1>4, <2>1, <2>6 DEF InsertAddData
<1>5. ASSUME NEW t \in Threads, InsertLock(t)
      PROVE  KeepInv'
  <2>1. InsertsApart'
    BY <1>5 DEF InsertLock, hasData
  <2>2. FiledFirst'
    BY <1>5 DEF InsertLock, FiledFirst, Filed
  <2> QED BY <1>5, <2>1, <2>2 DEF InsertLock
<1>6. ASSUME NEW t \in Threads, NEW kind, NEW s, NEW list \in SUBSET Index, NEW matches,
             \A i \in list : Filed(i), Collect(t, kind, s, list, matches)
      PROVE  KeepInv'
  <2>1. InsertsApart'
    BY <1>6 DEF Collect, StartCall, hasData, dbVars
  <2>2. FiledFirst'
    BY <1>6 DEF Collect, FiledFirst, Filed, getIndexListUnlocked, dbVars
  <2> QED BY <1>6, <2>1, <2>2 DEF Collect, dbVars
<1>7. ASSUME NEW t \in Threads, GetLock(t)
      PROVE  KeepInv'
  <2>1. InsertsApart'
    BY <1>7 DEF GetLock, hasData
  <2>2. FiledFirst'
    BY <1>7 DEF GetLock, FiledFirst, Filed
  <2> QED BY <1>7, <2>1, <2>2 DEF GetLock
<1>8. ASSUME NEW t \in Threads, GetValidate(t)
      PROVE  KeepInv'
  <2>1. InsertsApart'
    BY <1>8 DEF GetValidate, hasData, dbVars
  <2>2. FiledFirst'
    BY <1>8 DEF GetValidate, FiledFirst, Filed, dbVars
  <2> QED BY <1>8, <2>1, <2>2 DEF GetValidate, dbVars
<1>9. ASSUME NEW t \in Threads, GetDrop(t), ~UnlockThrows(cur[t])
      PROVE  KeepInv'
  <2>1. cur[t] \in Index /\ Filed(cur[t])
    BY <1>9 DEF GetDrop, FiledFirst
  <2>2. ~UnlockThrows(cur[t])
    BY <1>9
  <2>3. UpdateIndexers(cur[t])
    BY <1>9, <2>2 DEF GetDrop
  <2>4. InsertsApart'
    BY <1>9, <2>2 DEF GetDrop, hasData
  <2>5. FiledFirst'
    BY <1>9, <2>1, <2>2, <2>3, FiledByUpdate DEF GetDrop, FiledFirst
  <2> QED BY <1>9, <2>2, <2>4, <2>5 DEF GetDrop
<1>10. ASSUME NEW t \in Threads, GetReturn(t)
       PROVE  KeepInv'
  <2>1. InsertsApart'
    BY <1>10 DEF GetReturn, hasData, dbVars
  <2>2. FiledFirst'
    BY <1>10 DEF GetReturn, FiledFirst, Filed, dbVars
  <2> QED BY <1>10, <2>1, <2>2 DEF GetReturn, dbVars
<1>11. ASSUME NEW t \in Threads, NEW i \in Index, NEW s \in Stations, NEW c \in Copyable,
             Modify(t, i, s, c)
       PROVE  KeepInv'
  <2>1. data'[i].seq = data[i].seq /\ data'[i] # None
    BY <1>11, MaxOpsAssumption DEF Modify, hasData, Message
  <2>2. InsertsApart'
    BY <1>11, <2>1 DEF Modify, hasData, thrVars
  <2>3. FiledFirst'
    BY <1>11 DEF Modify, FiledFirst, Filed, thrVars
  <2> QED BY <1>11, <2>2, <2>3 DEF Modify, thrVars
<1>12. ASSUME NEW t \in Threads, NEW i \in Index, Release(t, i), ~UnlockThrows(i)
       PROVE  KeepInv'
  <2>1. Filed(i)
    BY <1>12 DEF Release, FiledFirst
  <2>2. ~UnlockThrows(i)
    BY <1>12
  <2>3. UpdateIndexers(i)
    BY <1>12, <2>2 DEF Release
  <2>4. InsertsApart'
    BY <1>12, <2>2 DEF Release, hasData
  <2>5. /\ \A j \in Index : Filed(j) => Filed(j)'
        /\ \A r \in Stations, j \in Index :
             j \in param'.map[r] \/ latest'.ofStation[r] = j => Filed(j)'
    BY <2>1, <2>3, FiledByUpdate
  <2>6. \A u \in Threads : views'[u] \subseteq views[u]
    BY <1>12, <2>2 DEF Release, CloseView
  <2>7. \A u \in Threads : pc'[u] \in Working => pc'[u] = pc[u]
    BY <1>12, <2>2 DEF Release
  <2>8. cur' = cur /\ pend' = pend
    BY <1>12 DEF Release
  <2>9. FiledFirst'
    BY <2>5, <2>6, <2>7, <2>8 DEF FiledFirst
  <2> QED BY <1>12, <2>2, <2>4, <2>9 DEF Release
<1>13. ASSUME NEW t \in Threads,
              RemoveEraseData(t) \/ RemovePushFree(t) \/ RemoveClearData(t) \/ RemoveUnlock(t)
       PROVE  KeepInv'
  BY <1>13 DEF RemoveEraseData, RemovePushFree, RemoveClearData, RemoveUnlock
<1>14. ASSUME NEW t \in Threads, NEW i \in Index, Remove(t, i)
       PROVE  KeepInv'
  BY <1>14 DEF Remove, AppendOnly
<1>15. ASSUME UNCHANGED <<dbVars, thrVars>>
       PROVE  KeepInv'
  BY <1>15 DEF dbVars, thrVars, FiledFirst, Filed, hasData
<1>16. ASSUME NEW t \in Threads, NEW s \in Stations, GetLatest(t, s) \/ GetStation(t, s)
       PROVE  KeepInv'
  <2>1. LatestGetIndexList(latest, s) \in SUBSET Index /\ \A i \in LatestGetIndexList(latest, s) : Filed(i)
    <3>1. latest.ofStation[s] \in Index \cup {None}
      BY DEF LatestState
    <3>2. \A i \in Index : latest.ofStation[s] = i => Filed(i)
      BY DEF FiledFirst
    <3>3. LatestGetIndexList(latest, s) = {latest.ofStation[s]} \ {None}
      BY DEF LatestGetIndexList
    <3> HIDE DEF KeepInv
    <3> QED BY <3>1, <3>2, <3>3
  <2>2. ParamGetIndexList(param, s) \in SUBSET Index /\ \A i \in ParamGetIndexList(param, s) : Filed(i)
    BY DEF ParamGetIndexList, ParamState, FiledFirst
  <2> HIDE DEF KeepInv
  <2> QED BY <1>6, <1>16, <2>1, <2>2 DEF GetLatest, GetStation
<1>17. ASSUME NEW t \in Threads, NEW q, NEW meant, GetIndex(t, q, meant)
       PROVE  KeepInv'
  BY <1>17 DEF GetIndex, Collect, StartCall, AppendOnly
<1> HIDE DEF KeepInv
<1> QED
  BY <1>1, <1>2, <1>3, <1>4, <1>5, <1>7, <1>8, <1>9, <1>10, <1>11, <1>12, <1>13, <1>14,
     <1>15, <1>16, <1>17, ThrowingUnlock
  DEF Next, Step, Call, NoMoreCalls, Ended, byIndex, byRange, vars

(* A filed element does not make the station id indexer throw.              *)
LEMMA FaultStep ==
  ASSUME AppendOnly, TypeInv, KeepInv, OnlyCopiesFault, [Next]_vars
  PROVE  OnlyCopiesFault'
<1>1. \A i \in Index : Filed(i) => ~UpdateThrows(i)
  BY NoneAssumption DEF Filed, UpdateThrows, ParamUpdateThrows
<1>2. ASSUME NEW t \in Threads, At(t, "drop")
      PROVE  ~UpdateThrows(cur[t])
  <2>1. cur[t] \in Index /\ Filed(cur[t])
    BY <1>2 DEF At, TypeInv, CurSet, Working, PCs, KeepInv, FiledFirst
  <2> QED BY <1>1, <2>1
<1>3. ASSUME NEW t \in Threads, NEW i \in views[t]
      PROVE  ~UpdateThrows(i)
  <2>1. i \in Index /\ Filed(i)
    BY DEF TypeInv, TypeOK, KeepInv, FiledFirst
  <2> QED BY <1>1, <2>1
<1>4. \A t \in Threads, i \in Index : ~Remove(t, i)
  BY DEF Remove, AppendOnly
<1> QED BY <1>2, <1>3, <1>4, OnlyCopiesKept

(* For every number of threads, stations and calls: threads that insert,    *)
(* search by station or for the latest message and edit what they find      *)
(* never make an indexer throw out of a destructor                          *)
(* (IDXParameter::updateData), although insert publishes elements before it *)
(* locks them; only a message that cannot be copied ends the process.       *)
(* Queries by index are excluded: with them the claim is false, because     *)
(* they find an element that is filled and not yet filed.                   *)
THEOREM AppendOnlyOnlyCopies == AppendOnly => (Spec => []OnlyCopiesFault)
<1> SUFFICES ASSUME AppendOnly PROVE Spec => []OnlyCopiesFault
  OBVIOUS
<1> DEFINE Inv == TypeInv /\ KeepInv /\ OnlyCopiesFault
<1>1. Init => Inv
  BY TypeInit, KeepInit DEF Init, OnlyCopiesFault
<1>2. Inv /\ [Next]_vars => Inv'
  BY TypeStep, KeepStep, FaultStep
<1>3. Inv => OnlyCopiesFault
  OBVIOUS
<1> HIDE DEF Inv
<1> QED BY <1>1, <1>2, <1>3, PTL DEF Spec

(* For the same threads: the view that insert returns shows the entry it    *)
(* was called with, although other threads may lock and edit the element    *)
(* first.                                                                   *)
THEOREM AppendOnlyInsert == AppendOnly => (Spec => InsertViewShowsEntry)
<1> SUFFICES ASSUME AppendOnly PROVE Spec => InsertViewShowsEntry
  OBVIOUS
<1> DEFINE Shows == \A t \in Threads : InsertLock(t) =>
                      hasData(cur[t]) /\ data[cur[t]].seq = msg[t].seq
<1>1. TypeInv /\ KeepInv /\ [Next]_vars => KeepInv'
  BY KeepStep
<1>2. Spec => [](TypeInv /\ KeepInv)
  BY <1>1, TypeInit, TypeStep, KeepInit, PTL DEF Spec
<1>3. KeepInv => Shows
  BY DEF KeepInv, InsertsApart, Filling, InsertLock, At
<1>4. KeepInv => [Shows]_vars
  BY <1>3
<1> QED BY <1>2, <1>4, PTL DEF InsertViewShowsEntry

-----------------------------------------------------------------------------
(* The station id indexer agrees with the messages.                        *)

\* The maps are inverse to each other, know only complete elements, and agree
\* with the messages that no thread is working on.
StationInv ==
  \A i \in Index :
    /\ \A s \in Stations : i \in param.map[s] <=> param.reverse[i] = s
    /\ param.reverse[i] # None => hasData(i) /\ i \in hooked
    /\ Unindexed(i) => param.reverse[i] = None
    /\ i >= size => ~hasData(i)
    /\ hasData(i) /\ holder[i] = None /\ ~Unindexed(i) => param.reverse[i] = data[i].station

\* Callbacks are set before an element is filed.
HookedFirst == \A t \in Threads : pc[t] = "addData" => cur[t] \in hooked

(* The empty database satisfies the invariant.                              *)
LEMMA StationInit == Init => StationInv /\ HookedFirst
BY NoneAssumption, MaxOpsAssumption, IndexAssumption
DEF Init, StationInv, HookedFirst, Unindexed, hasData, ParamInit

(* Destroying a view files the element under the station it has now and     *)
(* leaves the other elements as they are.                                   *)
LEMMA StationUpdate ==
  ASSUME "station" \in Registered, TypeInv, StationInv, NEW i \in Index, Filed(i),
         UpdateIndexers(i), UNCHANGED <<size, data, hooked>>,
         \A j \in Index : Unindexed(j)' <=> Unindexed(j),
         \A j \in Index \ {i} : holder'[j] = holder[j]
  PROVE  StationInv'
<1>1. param \in ParamState /\ (hasData(i) => data[i].station \in Stations)
  BY DEF TypeInv, TypeOK, hasData, Message
<1>2. param.reverse[i] # None /\ UpdateCalled(i)
  BY DEF Filed, StationInv, UpdateCalled
<1>3. param' = ParamUpdateData(param, data[i].station, i) /\ hasData(i)
  BY <1>2 DEF UpdateIndexers, UpdateCalled
<1>4. /\ param'.reverse[i] = data[i].station
      /\ \A j \in Index \ {i} : param'.reverse[j] = param.reverse[j]
      /\ \A s \in Stations, j \in Index \ {i} : j \in param'.map[s] <=> j \in param.map[s]
      /\ \A s \in Stations : i \in param'.map[s] <=> s = data[i].station
  BY <1>1, <1>3, NoneAssumption DEF ParamUpdateData, ParamState, StationInv
<1>5. ~Unindexed(i)
  BY <1>2 DEF StationInv
<1> QED BY <1>1, <1>2, <1>3, <1>4, <1>5, NoneAssumption DEF StationInv, hasData, UpdateCalled

(* An element without data or before addData is under no key.               *)
LEMMA Unfiled ==
  ASSUME StationInv, NEW i \in Index, Unindexed(i) \/ ~hasData(i)
  PROVE  param.reverse[i] = None /\ \A s \in Stations : i \notin param.map[s]
BY NoneAssumption DEF StationInv

(* A step that only locks elements preserves it.                            *)
LEMMA StationStutter ==
  ASSUME StationInv, UNCHANGED <<size, data, hooked, param>>,
         \A j \in Index : Unindexed(j)' <=> Unindexed(j),
         \A j \in Index : holder'[j] = None => holder[j] = None
  PROVE  StationInv'
BY DEF StationInv, hasData

(* Every step of threads that do not remove preserves it.                   *)
LEMMA StationStep ==
  ASSUME AppendOnly, "station" \in Registered,
         TypeInv, ViewInv, KeepInv, StationInv, HookedFirst, [Next]_vars
  PROVE  StationInv' /\ HookedFirst'
<1>0. /\ size \in 0..MaxOps
      /\ data \in [Index -> Message \cup {None}]
      /\ holder \in [Index -> Threads \cup {None}]
      /\ param \in ParamState
      /\ pc \in [Threads -> PCs]
      /\ msg \in [Threads -> Message \cup {None}]
      /\ cur \in [Threads -> Index \cup {None}]
      /\ views \in [Threads -> SUBSET Index]
      /\ pend \in [Threads -> SUBSET Index]
      /\ \A t \in Threads : pc[t] \in Working => cur[t] \in Index
      /\ Index \subseteq Nat /\ MaxOps \in Nat
  BY IndexAssumption, MaxOpsAssumption DEF TypeInv, TypeOK, CurSet
<1> USE <1>0, NobodyAssumption, NoneAssumption DEF HookedFirst, Working, PCs, At, Goto
<1>1. ASSUME NEW t \in Threads, NEW s \in Stations, NEW c \in Copyable, Insert(t, s, c)
      PROVE  StationInv' /\ HookedFirst'
  <2>1. /\ size' = size + 1 /\ pc[t] = "idle"
        /\ pc' = [pc EXCEPT ![t] = "setData"]
        /\ cur' = [cur EXCEPT ![t] = size]
        /\ UNCHANGED <<data, hooked, holder, param>>
    BY <1>1 DEF Insert, StartCall, KeepInv, NoRemoval
  <2>2. \A j \in Index : Unindexed(j)' <=> Unindexed(j) \/ j = size
    BY <2>1 DEF Unindexed
  <2>3. \A j \in Index : j >= size' => j >= size
    BY <2>1
  <2>4. size \in Index => ~hasData(size)
    BY DEF StationInv
  <2>5. ASSUME NEW j \in Index, j = size
        PROVE  ~hasData(j)' /\ param'.reverse[j] = None /\ \A k \in Stations : j \notin param'.map[k]
    BY <2>1, <2>4, <2>5, Unfiled DEF hasData
  <2>6. StationInv'
    BY <2>1, <2>2, <2>3, <2>5 DEF StationInv, hasData
  <2> QED BY <2>1, <2>6
<1>2. ASSUME NEW t \in Threads, InsertSetData(t)
      PROVE  StationInv' /\ HookedFirst'
  <2>1. cur[t] \in Index /\ Unindexed(cur[t])
    BY <1>2 DEF InsertSetData, Unindexed
  <2>4. msg[t] # None /\ cur[t] < size
    BY <1>2 DEF InsertSetData, KeepInv, InsertsApart
  <2>5. ~(cur[t] >= size)
    BY <2>1, <2>4, IndexAssumption, MaxOpsAssumption
  <2>6. /\ data'[cur[t]] # None
        /\ \A j \in Index \ {cur[t]} : data'[j] = data[j]
        /\ UNCHANGED <<size, hooked, holder, param>>
    BY <1>2, <2>1, <2>4 DEF InsertSetData
  <2>2. \A j \in Index : Unindexed(j)' <=> Unindexed(j)
    BY <1>2 DEF InsertSetData, Unindexed
  <2>3. StationInv'
    <3>1. ASSUME NEW j \in Index, j = cur[t]
          PROVE  /\ param'.reverse[j] = None /\ Unindexed(j)' /\ ~(j >= size')
                 /\ \A k \in Stations : j \notin param'.map[k]
      BY <2>1, <2>2, <2>5, <2>6, <3>1, Unfiled
    <3> QED BY <2>2, <2>6, <3>1 DEF StationInv, hasData
  <2> QED BY <1>2, <2>3 DEF InsertSetData
<1>3. ASSUME NEW t \in Threads, InsertSetCallbacks(t)
      PROVE  StationInv' /\ HookedFirst'
  <2>1. \A j \in Index : Unindexed(j)' <=> Unindexed(j)
    BY <1>3 DEF InsertSetCallbacks, Unindexed
  <2>2. StationInv'
    BY <1>3, <2>1 DEF InsertSetCallbacks, StationInv, hasData
  <2> QED BY <1>3, <2>2 DEF InsertSetCallbacks
<1>4. ASSUME NEW t \in Threads, InsertAddData(t)
      PROVE  StationInv' /\ HookedFirst'
  <2>0. PICK i \in Index : i = cur[t]
    BY <1>4 DEF InsertAddData, KeepInv, InsertsApart, Filling
  <2>1. hasData(i) /\ data[i].station \in Stations /\ i \in hooked
    BY <1>4, <2>0 DEF InsertAddData, KeepInv, InsertsApart, Filling, hasData, Message
  <2>2. Unindexed(i) /\ param.reverse[i] = None /\ \A s \in Stations : i \notin param.map[s]
    BY <1>4, <2>0, <2>1, Unfiled DEF InsertAddData, Unindexed
  <2>3. \A j \in Index : Unindexed(j)' <=> Unindexed(j) /\ j # i
    <3>1. \A u \in Threads \ {t} : pc[u] \in {"setData", "setCallbacks", "addData"} => cur[u] # i
      BY <1>4, <2>0 DEF InsertAddData, KeepInv, InsertsApart, Filling
    <3> QED BY <1>4, <2>0, <3>1 DEF InsertAddData, Unindexed
  <2>4. /\ param'.reverse[i] = data[i].station
        /\ \A j \in Index \ {i} : param'.reverse[j] = param.reverse[j]
        /\ \A s \in Stations, j \in Index \ {i} : j \in param'.map[s] <=> j \in param.map[s]
        /\ \A s \in Stations : i \in param'.map[s] <=> s = data[i].station
    <3>1. /\ param'.map = [param.map EXCEPT ![data[i].station] = @ \cup {i}]
          /\ param'.reverse = [param.reverse EXCEPT ![i] = data[i].station]
      BY <1>4, <2>0, <2>1, <2>2 DEF InsertAddData, ParamAddData
    <3>2. param.map \in [Stations -> SUBSET Index] /\ param.reverse \in [Index -> Stations \cup {None}]
      BY DEF ParamState
    <3> QED BY <2>1, <2>2, <3>1, <3>2
  <2>5. UNCHANGED <<size, data, hooked, holder, cur>> /\ pc' = [pc EXCEPT ![t] = "lockInserted"]
    BY <1>4 DEF InsertAddData
  <2>6. StationInv'
    <3>1. ASSUME NEW j \in Index, j = i
          PROVE  /\ \A s \in Stations : j \in param'.map[s] <=> param'.reverse[j] = s
                 /\ hasData(j) /\ j \in hooked /\ ~Unindexed(j)' /\ ~(j >= size)
                 /\ param'.reverse[j] = data[j].station
      BY <2>1, <2>3, <2>4, <3>1 DEF StationInv
    <3>2. ASSUME NEW j \in Index, j # i
          PROVE  /\ \A s \in Stations : j \in param'.map[s] <=> param'.reverse[j] = s
                 /\ param'.reverse[j] = param.reverse[j]
                 /\ Unindexed(j)' <=> Unindexed(j)
      BY <2>3, <2>4, <3>2 DEF StationInv
    <3> QED BY <2>5, <3>1, <3>2 DEF StationInv, hasData
  <2> QED BY <2>5, <2>6
<1>5. ASSUME NEW t \in Threads, InsertLock(t)
      PROVE  StationInv' /\ HookedFirst'
  <2>1. \A j \in Index : Unindexed(j)' <=> Unindexed(j)
    BY <1>5 DEF InsertLock, Unindexed
  <2>2. StationInv'
    BY <1>5, <2>1, StationStutter DEF InsertLock, LockElement
  <2> QED BY <1>5, <2>2 DEF InsertLock
<1>6. ASSUME NEW t \in Threads, NEW kind, NEW s, NEW list, NEW matches,
             Collect(t, kind, s, list, matches)
      PROVE  StationInv' /\ HookedFirst'
  <2>1. \A j \in Index : Unindexed(j)' <=> Unindexed(j)
    BY <1>6 DEF Collect, StartCall, Unindexed
  <2>2. StationInv'
    BY <1>6, <2>1, StationStutter DEF Collect, dbVars
  <2> QED BY <1>6, <2>2 DEF Collect, dbVars
<1>7. ASSUME NEW t \in Threads, GetLock(t)
      PROVE  StationInv' /\ HookedFirst'
  <2>1. \A j \in Index : Unindexed(j)' <=> Unindexed(j)
    BY <1>7 DEF GetLock, Unindexed
  <2>2. StationInv'
    BY <1>7, <2>1, StationStutter DEF GetLock, LockElement
  <2> QED BY <1>7, <2>2 DEF GetLock
<1>8. ASSUME NEW t \in Threads, GetValidate(t)
      PROVE  StationInv' /\ HookedFirst'
  <2>1. \A j \in Index : Unindexed(j)' <=> Unindexed(j)
    BY <1>8 DEF GetValidate, Unindexed
  <2>2. StationInv'
    BY <1>8, <2>1, StationStutter DEF GetValidate, dbVars
  <2> QED BY <1>8, <2>2 DEF GetValidate, dbVars
<1>9. ASSUME NEW t \in Threads, GetDrop(t), ~UnlockThrows(cur[t])
      PROVE  StationInv' /\ HookedFirst'
  <2>1. cur[t] \in Index /\ Filed(cur[t])
    BY <1>9 DEF GetDrop, KeepInv, FiledFirst
  <2>2. ~UnlockThrows(cur[t])
    BY <1>9
  <2>3. \A j \in Index : Unindexed(j)' <=> Unindexed(j)
    BY <1>9, <2>2 DEF GetDrop, Unindexed
  <2>4. StationInv'
    BY <1>9, <2>1, <2>2, <2>3, StationUpdate DEF GetDrop
  <2> QED BY <1>9, <2>2, <2>4 DEF GetDrop
<1>10. ASSUME NEW t \in Threads, GetReturn(t)
       PROVE  StationInv' /\ HookedFirst'
  <2>1. \A j \in Index : Unindexed(j)' <=> Unindexed(j)
    BY <1>10 DEF GetReturn, Unindexed
  <2>2. StationInv'
    BY <1>10, <2>1, StationStutter DEF GetReturn, dbVars
  <2> QED BY <1>10, <2>2 DEF GetReturn, dbVars
<1>11. ASSUME NEW t \in Threads, NEW i \in Index, NEW s \in Stations, NEW c \in Copyable,
             Modify(t, i, s, c)
       PROVE  StationInv' /\ HookedFirst'
  <2>1. holder[i] # None
    BY <1>11 DEF Modify, ViewInv, ViewsOwnElements
  <2>2. \A j \in Index : Unindexed(j)' <=> Unindexed(j)
    BY <1>11 DEF Modify, Unindexed, thrVars
  <2>3. data'[i] # None
    BY <1>11, MaxOpsAssumption DEF Modify, hasData, Message
  <2>4. StationInv'
    BY <1>11, <2>1, <2>2, <2>3 DEF Modify, StationInv, hasData
  <2> QED BY <1>11, <2>4 DEF Modify, thrVars
<1>12. ASSUME NEW t \in Threads, NEW i \in Index, Release(t, i), ~UnlockThrows(i)
       PROVE  StationInv' /\ HookedFirst'
  <2>1. Filed(i)
    BY <1>12 DEF Release, KeepInv, FiledFirst
  <2>2. ~UnlockThrows(i)
    BY <1>12
  <2>3. \A j \in Index : Unindexed(j)' <=> Unindexed(j)
    BY <1>12, <2>2 DEF Release, Unindexed
  <2>4. StationInv'
    BY <1>12, <2>1, <2>2, <2>3, StationUpdate DEF Release, CloseView
  <2> QED BY <1>12, <2>2, <2>4 DEF Release
<1>13. ASSUME NEW t \in Threads,
              RemoveEraseData(t) \/ RemovePushFree(t) \/ RemoveClearData(t) \/ RemoveUnlock(t)
       PROVE  FALSE
  BY <1>13 DEF RemoveEraseData, RemovePushFree, RemoveClearData, RemoveUnlock, KeepInv, NoRemoval, Removing
<1>14. ASSUME NEW t \in Threads, NEW i \in Index, Remove(t, i)
       PROVE  FALSE
  BY <1>14 DEF Remove, AppendOnly
<1>15. ASSUME UNCHANGED <<dbVars, thrVars>>
       PROVE  StationInv' /\ HookedFirst'
  <2>1. \A j \in Index : Unindexed(j)' <=> Unindexed(j)
    BY <1>15 DEF thrVars, Unindexed
  <2> QED BY <1>15, <2>1, StationStutter DEF dbVars, thrVars
<1> QED
  BY <1>1, <1>2, <1>3, <1>4, <1>5, <1>6, <1>7, <1>8, <1>9, <1>10, <1>11, <1>12, <1>13,
     <1>14, <1>15, ThrowingUnlock
  DEF Next, Step, Call, NoMoreCalls, Ended, GetLatest, GetStation, GetIndex, byIndex, byRange, vars

(* For the same threads, and any edits of the station through a view:       *)
(* whenever no call works on an element, the station id indexer files it    *)
(* under the station of its message and under nothing else.                 *)
THEOREM AppendOnlyStationIndex ==
  AppendOnly /\ "station" \in Registered => (Spec => []StationIndexExact)
<1> SUFFICES ASSUME AppendOnly, "station" \in Registered PROVE Spec => []StationIndexExact
  OBVIOUS
<1> DEFINE Inv == TypeInv /\ ViewInv /\ KeepInv /\ StationInv /\ HookedFirst
<1>1. Init => Inv
  BY TypeInit, ViewsInit, KeepInit, StationInit
<1>2. Inv /\ [Next]_vars => Inv'
  BY TypeStep, ViewsStep, KeepStep, StationStep
<1>3. Inv => StationIndexExact
  BY NoneAssumption DEF StationInv, StationIndexExact, AtRest
<1> HIDE DEF Inv
<1> QED BY <1>1, <1>2, <1>3, PTL DEF Spec

-----------------------------------------------------------------------------
(* A query by station misses nothing.                                      *)

\* A search by station has a view of each committed match or has still to lock
\* it, and the element it looks at is filed under the station of its message.
Answer(t) ==
  op[t].kind = "station" /\ pc[t] \in {"get", "validate", "drop"} =>
    /\ pc[t] # "drop"
    /\ seen[t] \subseteq views[t] \cup pend[t] \cup LoopView(t)
    /\ pc[t] = "validate" =>
         hasData(cur[t]) /\ param.reverse[cur[t]] = data[cur[t]].station
AnswerInv == \A t \in Threads : Answer(t)

(* A step that neither touches a search nor the element it looks at keeps   *)
(* what is known of it.                                                     *)
LEMMA AnswerKept ==
  ASSUME NEW t \in Threads, Answer(t),
         op'[t] = op[t], pc'[t] = pc[t], seen'[t] = seen[t], views'[t] = views[t],
         pend'[t] = pend[t], cur'[t] = cur[t],
         pc[t] = "validate" => /\ data'[cur[t]] = data[cur[t]]
                               /\ param'.reverse[cur[t]] = param.reverse[cur[t]]
  PROVE  Answer(t)'
BY DEF Answer, LoopView, hasData

(* Destroying a view refiles no other element.                              *)
LEMMA UpdateRefilesOne ==
  ASSUME TypeInv, NEW i \in Index, UpdateIndexers(i), NEW j \in Index \ {i}
  PROVE  param'.reverse[j] = param.reverse[j]
BY DEF TypeInv, TypeOK, UpdateIndexers, UpdateCalled, ParamUpdateData, ParamState, hasData, Message

(* Every step of threads that do not remove keeps the searches complete.    *)
LEMMA AnswerStep ==
  ASSUME AppendOnly, "station" \in Registered,
         TypeInv, ViewInv, KeepInv, StationInv, AnswerInv, [Next]_vars
  PROVE  AnswerInv'
<1>0. /\ data \in [Index -> Message \cup {None}]
      /\ holder \in [Index -> Threads \cup {None}]
      /\ param \in ParamState
      /\ pc \in [Threads -> PCs]
      /\ op \in [Threads -> OpRecord]
      /\ cur \in [Threads -> Index \cup {None}]
      /\ views \in [Threads -> SUBSET Index]
      /\ pend \in [Threads -> SUBSET Index]
      /\ seen \in [Threads -> SUBSET Index]
      /\ msg \in [Threads -> Message \cup {None}]
      /\ \A t \in Threads : pc[t] \in Working => cur[t] \in Index
  BY DEF TypeInv, TypeOK, CurSet
<1> USE <1>0, NobodyAssumption, NoneAssumption DEF AnswerInv, Working, PCs, At, Goto
\* The element a search looks at is filed, held by the search alone, and none
\* that an insert works on.
<1>a. ASSUME NEW u \in Threads, pc[u] = "validate"
      PROVE  cur[u] \in Index /\ holder[cur[u]] = u /\ ~Unindexed(cur[u])
  <2>1. cur[u] \in Index /\ Filed(cur[u])
    BY <1>a DEF KeepInv, FiledFirst
  <2>2. holder[cur[u]] = u
    BY <1>a, <2>1 DEF ViewInv, ViewsOwnElements, LoopView
  <2>3. ~Unindexed(cur[u])
    BY <2>1 DEF StationInv, Filed
  <2> QED BY <2>1, <2>2, <2>3
<1>1. ASSUME NEW t \in Threads, NEW s \in Stations, NEW c \in Copyable, Insert(t, s, c)
      PROVE  AnswerInv'
  <2>1. Answer(t)'
    BY <1>1 DEF Insert, StartCall, Answer
  <2>2. ASSUME NEW u \in Threads \ {t} PROVE Answer(u)'
    BY <1>1, AnswerKept DEF Insert, StartCall
  <2> QED BY <2>1, <2>2
<1>2. ASSUME NEW t \in Threads, InsertSetData(t)
      PROVE  AnswerInv'
  <2>1. Answer(t)'
    BY <1>2 DEF InsertSetData, Answer
  <2>2. ASSUME NEW u \in Threads \ {t} PROVE Answer(u)'
    <3>1. pc[u] = "validate" => cur[u] # cur[t]
      BY <1>2, <1>a DEF InsertSetData, Unindexed
    <3>2. pc[u] = "validate" => data'[cur[u]] = data[cur[u]]
      BY <1>2, <1>a, <3>1 DEF InsertSetData
    <3> QED BY <1>2, <3>2, AnswerKept DEF InsertSetData
  <2> QED BY <2>1, <2>2
<1>3. ASSUME NEW t \in Threads, InsertSetCallbacks(t) \/ InsertLock(t)
      PROVE  AnswerInv'
  <2>1. Answer(t)'
    BY <1>3 DEF InsertSetCallbacks, InsertLock, Answer
  <2>2. ASSUME NEW u \in Threads \ {t} PROVE Answer(u)'
    BY <1>3, AnswerKept DEF InsertSetCallbacks, InsertLock
  <2> QED BY <2>1, <2>2
<1>4. ASSUME NEW t \in Threads, InsertAddData(t)
      PROVE  AnswerInv'
  <2>1. Answer(t)'
    BY <1>4 DEF InsertAddData, Answer
  <2>2. ASSUME NEW u \in Threads \ {t} PROVE Answer(u)'
    <3>1. pc[u] = "validate" => cur[u] # cur[t]
      BY <1>4, <1>a DEF InsertAddData, Unindexed
    <3>2. pc[u] = "validate" => param'.reverse[cur[u]] = param.reverse[cur[u]]
      BY <1>4, <1>a, <3>1 DEF InsertAddData, ParamAddData, ParamState, hasData, Message
    <3> QED BY <1>4, <3>2, AnswerKept DEF InsertAddData
  <2> QED BY <2>1, <2>2
<1>5. ASSUME NEW t \in Threads, NEW kind \in OpKinds, NEW s, NEW list, NEW matches,
             Collect(t, kind, s, list, matches),
             kind = "station" => matches \subseteq getIndexListUnlocked(kind, list)
      PROVE  AnswerInv'
  <2>1. Answer(t)'
    BY <1>5 DEF Collect, StartCall, Answer
  <2>2. ASSUME NEW u \in Threads \ {t} PROVE Answer(u)'
    BY <1>5, AnswerKept DEF Collect, StartCall, dbVars
  <2> QED BY <2>1, <2>2
<1>6. ASSUME NEW t \in Threads, NEW s \in Stations, GetLatest(t, s) \/ GetStation(t, s)
      PROVE  AnswerInv'
  <2>1. Committed(s) \subseteq getIndexListUnlocked("station", ParamGetIndexList(param, s))
    <3> SUFFICES ASSUME NEW i \in Committed(s)
                 PROVE  i \in getIndexListUnlocked("station", ParamGetIndexList(param, s))
      OBVIOUS
    <3>1. /\ i \in Index /\ hasData(i) /\ holder[i] = None /\ data[i].station = s
          /\ \A u \in Threads : cur[u] # i
      BY DEF Committed, Settled
    <3>2. ~Unindexed(i)
      BY <3>1 DEF Unindexed
    <3>3. param.reverse[i] = s /\ i \in param.map[s] /\ ~(i >= size)
      BY <3>1, <3>2 DEF StationInv
    <3>4. i < size
      BY <3>1, <3>3, IndexAssumption, MaxOpsAssumption DEF TypeInv, TypeOK
    <3> QED BY <3>1, <3>3, <3>4 DEF getIndexListUnlocked, ParamGetIndexList
  <2> HIDE DEF AnswerInv
  <2> QED BY <1>5, <1>6, <2>1 DEF GetLatest, GetStation, OpKinds
<1>7. ASSUME NEW t \in Threads, GetLock(t)
      PROVE  AnswerInv'
  <2>1. PICK i \in pend[t] : /\ holder[i] = None
                             /\ cur' = [cur EXCEPT ![t] = i]
                             /\ pend' = [pend EXCEPT ![t] = @ \ {i}]
    BY <1>7 DEF GetLock, LockElement
  <2>2. i \in Index /\ param.reverse[i] # None
    BY <2>1 DEF KeepInv, FiledFirst, Filed
  <2>3. hasData(i) /\ param.reverse[i] = data[i].station
    BY <2>1, <2>2 DEF StationInv
  <2>4. /\ pc[t] = "get" /\ pc' = [pc EXCEPT ![t] = "validate"]
        /\ UNCHANGED <<data, param, op, views, seen>>
    BY <1>7 DEF GetLock
  <2>5. Answer(t)'
    BY <2>1, <2>2, <2>3, <2>4 DEF Answer, LoopView, hasData
  <2>6. ASSUME NEW u \in Threads \ {t} PROVE Answer(u)'
    BY <2>1, <2>4, AnswerKept
  <2> QED BY <2>5, <2>6
<1>8. ASSUME NEW t \in Threads, GetValidate(t)
      PROVE  AnswerInv'
  <2>1. pc[t] = "validate" /\ UNCHANGED <<data, param, op, pend, seen>>
    BY <1>8 DEF GetValidate, dbVars
  <2>2. Answer(t)'
    <3> SUFFICES ASSUME op[t].kind = "station" PROVE Answer(t)'
      BY <2>1 DEF Answer
    <3>1. hasData(cur[t]) /\ validateElement(t, cur[t])
      BY <2>1 DEF Answer, validateElement, ParamIsValid
    <3>2. /\ views' = [views EXCEPT ![t] = @ \cup {cur[t]}]
          /\ pc' = [pc EXCEPT ![t] = "get"]
      BY <1>8, <3>1 DEF GetValidate
    <3> QED BY <2>1, <3>2 DEF Answer, LoopView
  <2>3. ASSUME NEW u \in Threads \ {t} PROVE Answer(u)'
    <3>1. cur'[u] = cur[u] /\ pc'[u] = pc[u] /\ views'[u] = views[u]
      BY <1>8 DEF GetValidate
    <3> QED BY <2>1, <3>1, AnswerKept
  <2> QED BY <2>2, <2>3
<1>9. ASSUME NEW t \in Threads, GetDrop(t), ~UnlockThrows(cur[t])
      PROVE  AnswerInv'
  <2>1. cur[t] \in Index /\ Filed(cur[t]) /\ pc[t] = "drop"
    BY <1>9 DEF GetDrop, KeepInv, FiledFirst
  <2>2. ~UnlockThrows(cur[t])
    BY <1>9
  <2>3. /\ UpdateIndexers(cur[t])
        /\ cur' = [cur EXCEPT ![t] = None] /\ pc' = [pc EXCEPT ![t] = "get"]
        /\ UNCHANGED <<data, op, views, pend, seen>>
    BY <1>9, <2>2 DEF GetDrop
  <2>4. Answer(t)'
    BY <2>1, <2>3 DEF Answer
  <2>5. ASSUME NEW u \in Threads \ {t} PROVE Answer(u)'
    <3>1. holder[cur[t]] = t
      BY <2>1 DEF ViewInv, ViewsOwnElements, LoopView
    <3>2. pc[u] = "validate" => param'.reverse[cur[u]] = param.reverse[cur[u]]
      BY <1>a, <2>1, <2>3, <3>1, UpdateRefilesOne
    <3> QED BY <2>3, <3>2, AnswerKept
  <2> QED BY <2>4, <2>5
<1>10. ASSUME NEW t \in Threads, GetReturn(t)
       PROVE  AnswerInv'
  <2>1. Answer(t)'
    BY <1>10 DEF GetReturn, Answer
  <2>2. ASSUME NEW u \in Threads \ {t} PROVE Answer(u)'
    <3>1. op'[u] = op[u] /\ pc'[u] = pc[u] /\ seen'[u] = seen[u]
      BY <1>10 DEF GetReturn
    <3> QED BY <1>10, <3>1, AnswerKept DEF GetReturn, dbVars
  <2> QED BY <2>1, <2>2
<1>11. ASSUME NEW t \in Threads, NEW i \in Index, NEW s \in Stations, NEW c \in Copyable,
             Modify(t, i, s, c)
       PROVE  AnswerInv'
  <2>1. holder[i] = t /\ pc[t] = "use"
    BY <1>11 DEF Modify, ViewInv, ViewsOwnElements
  <2>2. ASSUME NEW u \in Threads PROVE Answer(u)'
    <3>1. pc[u] = "validate" => data'[cur[u]] = data[cur[u]]
      BY <1>11, <1>a, <2>1 DEF Modify
    <3> QED BY <1>11, <3>1, AnswerKept DEF Modify, thrVars
  <2> QED BY <2>2
<1>12. ASSUME NEW t \in Threads, NEW i \in Index, Release(t, i), ~UnlockThrows(i)
       PROVE  AnswerInv'
  <2>1. Filed(i) /\ holder[i] = t /\ pc[t] = "use"
    BY <1>12 DEF Release, KeepInv, FiledFirst, ViewInv, ViewsOwnElements
  <2>2. ~UnlockThrows(i)
    BY <1>12
  <2>3. /\ UpdateIndexers(i)
        /\ views' = [views EXCEPT ![t] = @ \ {i}]
        /\ \A u \in Threads \ {t} : pc'[u] = pc[u] /\ op'[u] = op[u]
        /\ pc'[t] \in {"use", "idle"}
        /\ UNCHANGED <<data, cur, pend, seen>>
    BY <1>12, <2>1, <2>2 DEF Release, CloseView
  <2>4. Answer(t)'
    BY <2>3 DEF Answer
  <2>5. ASSUME NEW u \in Threads \ {t} PROVE Answer(u)'
    <3>1. pc[u] = "validate" => param'.reverse[cur[u]] = param.reverse[cur[u]]
      BY <1>a, <2>1, <2>3, UpdateRefilesOne
    <3> QED BY <2>3, <3>1, AnswerKept
  <2> QED BY <2>4, <2>5
<1>13. ASSUME NEW t \in Threads,
              RemoveEraseData(t) \/ RemovePushFree(t) \/ RemoveClearData(t) \/ RemoveUnlock(t)
       PROVE  FALSE
  BY <1>13 DEF RemoveEraseData, RemovePushFree, RemoveClearData, RemoveUnlock, KeepInv, NoRemoval, Removing
<1>14. ASSUME NEW t \in Threads, NEW i \in Index, Remove(t, i)
       PROVE  FALSE
  BY <1>14 DEF Remove, AppendOnly
<1>15. ASSUME NEW t \in Threads, NEW q, NEW meant, GetIndex(t, q, meant)
       PROVE  FALSE
  BY <1>15 DEF GetIndex, Collect, StartCall, AppendOnly
<1>16. ASSUME UNCHANGED <<dbVars, thrVars>>
       PROVE  AnswerInv'
  BY <1>16, AnswerKept DEF dbVars, thrVars
<1> HIDE DEF AnswerInv
<1> QED
  BY <1>1, <1>2, <1>3, <1>4, <1>6, <1>7, <1>8, <1>9, <1>10, <1>11, <1>12, <1>13,
     <1>14, <1>15, <1>16, ThrowingUnlock
  DEF Next, Step, Call, NoMoreCalls, Ended, byIndex, byRange, vars

(* For the same threads: a search by station returns a view of every        *)
(* message of the station that was committed when it began, although it     *)
(* locks the elements one by one after it has let go of the index, and      *)
(* others insert, edit and refile meanwhile.                                *)
THEOREM AppendOnlyStationAnswer ==
  AppendOnly /\ "station" \in Registered => (Spec => []StationAnswerComplete)
<1> SUFFICES ASSUME AppendOnly, "station" \in Registered PROVE Spec => []StationAnswerComplete
  OBVIOUS
<1> DEFINE Inv == TypeInv /\ ViewInv /\ KeepInv /\ StationInv /\ HookedFirst /\ AnswerInv
<1>1. Init => Inv
  <2>1. Init => AnswerInv
    BY DEF Init, AnswerInv, Answer
  <2> QED BY <2>1, TypeInit, ViewsInit, KeepInit, StationInit
<1>2. Inv /\ [Next]_vars => Inv'
  BY TypeStep, ViewsStep, KeepStep, StationStep, AnswerStep
<1>3. Inv => StationAnswerComplete
  BY DEF AnswerInv, Answer, StationAnswerComplete, Returning, At, LoopView
<1> HIDE DEF Inv
<1> QED BY <1>1, <1>2, <1>3, PTL DEF Spec
-----------------------------------------------------------------------------
(* The implementation of MessageStore.  When nobody edits either, the      *)
(* latest message indexer points at messages of the right station.         *)

\* Messages are told apart by the number of the call that inserts them, and an
\* insert fills an empty element.
NumbersApart ==
  /\ \A i \in Index : hasData(i) => i < size /\ data[i].seq <= MaxOps - ops
  /\ \A i, j \in Index : hasData(i) /\ hasData(j) /\ data[i].seq = data[j].seq => i = j
  /\ \A t \in Threads : pc[t] = "setData" =>
       /\ ~hasData(cur[t]) /\ msg[t].seq <= MaxOps - ops
       /\ \A i \in Index : hasData(i) => data[i].seq # msg[t].seq
       /\ \A u \in Threads \ {t} : pc[u] = "setData" => msg[u].seq # msg[t].seq

\* A step that fills no element and begins or ends no insert.
Quiet ==
  /\ data' = data /\ size' = size
  /\ ops' = ops \/ (ops > 0 /\ ops' = ops - 1)
  /\ \A t \in Threads :
       /\ pc'[t] = "setData" <=> pc[t] = "setData"
       /\ pc[t] = "setData" => cur'[t] = cur[t] /\ msg'[t] = msg[t]

(* The empty database satisfies the invariant.                              *)
LEMMA NumbersInit == Init => NumbersApart
BY DEF Init, NumbersApart, hasData

(* Only the first two steps of insert and writing through a view are not    *)
(* quiet when nobody removes.                                               *)
LEMMA QuietSteps ==
  ASSUME AppendOnly, TypeInv, KeepInv, [Next]_vars
  PROVE  \/ Quiet
         \/ \E t \in Threads, s \in Stations, c \in Copyable : Insert(t, s, c)
         \/ \E t \in Threads : InsertSetData(t)
         \/ \E t \in Threads, i \in Index, s \in Stations, c \in Copyable : Modify(t, i, s, c)
<1>0. /\ pc \in [Threads -> PCs]
      /\ msg \in [Threads -> Message \cup {None}]
      /\ cur \in [Threads -> Index \cup {None}]
  BY DEF TypeInv, TypeOK
<1> USE <1>0 DEF Quiet, At, Goto
<1>1. ASSUME NEW t \in Threads, InsertSetCallbacks(t) \/ InsertAddData(t) \/ InsertLock(t)
      PROVE  Quiet
  BY <1>1 DEF InsertSetCallbacks, InsertAddData, InsertLock
<1>2. ASSUME NEW t \in Threads, GetLock(t) \/ GetValidate(t) \/ GetReturn(t)
      PROVE  Quiet
  BY <1>2 DEF GetLock, GetValidate, GetReturn, dbVars
<1>3. ASSUME NEW t \in Threads, GetDrop(t)
      PROVE  Quiet
  BY <1>3 DEF GetDrop
<1>4. ASSUME NEW t \in Threads, NEW i \in Index, Release(t, i)
      PROVE  Quiet
  BY <1>4 DEF Release
<1>5. ASSUME NEW t \in Threads, NEW kind, NEW s, NEW list, NEW matches,
             Collect(t, kind, s, list, matches)
      PROVE  Quiet
  BY <1>5 DEF Collect, StartCall, dbVars
<1>6. ASSUME NEW t \in Threads,
             RemoveEraseData(t) \/ RemovePushFree(t) \/ RemoveClearData(t) \/ RemoveUnlock(t)
      PROVE  FALSE
  BY <1>6 DEF RemoveEraseData, RemovePushFree, RemoveClearData, RemoveUnlock, KeepInv, NoRemoval, Removing
<1>7. ASSUME NEW t \in Threads, NEW i \in Index, Remove(t, i)
      PROVE  FALSE
  BY <1>7 DEF Remove, AppendOnly
<1>8. ASSUME UNCHANGED vars
      PROVE  Quiet
  BY <1>8 DEF vars, dbVars, thrVars
<1> HIDE DEF Quiet
<1> QED
  BY <1>1, <1>2, <1>3, <1>4, <1>5, <1>6, <1>7, <1>8
  DEF Next, Step, Call, NoMoreCalls, Ended, GetLatest, GetStation, GetIndex, byIndex, byRange

(* The numbers are numbers.                                                 *)
LEMMA NumbersTyped ==
  ASSUME TypeInv, KeepInv
  PROVE  /\ ops \in Nat /\ size \in Nat /\ MaxOps \in Nat /\ Index \subseteq Nat
         /\ data \in [Index -> Message \cup {None}]
         /\ msg \in [Threads -> Message \cup {None}]
         /\ pc \in [Threads -> PCs]
         /\ cur \in [Threads -> Index \cup {None}]
         /\ \A i \in Index : hasData(i) => data[i] \in Message /\ data[i].seq \in Nat
         /\ \A t \in Threads : pc[t] = "setData" =>
              cur[t] \in Index /\ cur[t] < size /\ msg[t] \in Message /\ msg[t].seq \in Nat
<1>1. \A t \in Threads : pc[t] = "setData" => cur[t] \in Index /\ cur[t] < size /\ msg[t] # None
  BY DEF TypeInv, CurSet, Working, PCs, KeepInv, InsertsApart
<1>2. \A m \in Message : m.seq \in Nat
  BY MaxOpsAssumption DEF Message
<1> QED BY <1>1, <1>2, MaxOpsAssumption, IndexAssumption DEF TypeInv, TypeOK, hasData

(* Every step of threads that do not remove preserves the invariant.        *)
LEMMA NumbersStep ==
  ASSUME AppendOnly, TypeInv, KeepInv, NumbersApart, [Next]_vars
  PROVE  NumbersApart'
<1> USE NumbersTyped
<1>1. ASSUME Quiet
      PROVE  NumbersApart'
  <2>1. \A n \in Nat : n <= MaxOps - ops => n <= MaxOps - ops'
    BY <1>1 DEF Quiet
  <2> QED BY <1>1, <2>1 DEF NumbersApart, Quiet, hasData
<1>2. ASSUME NEW t \in Threads, NEW s \in Stations, NEW c \in Copyable, Insert(t, s, c)
      PROVE  NumbersApart'
  <2>1. /\ ops > 0 /\ ops' = ops - 1 /\ size' = size + 1 /\ data' = data
        /\ pc[t] = "idle" /\ pc' = [pc EXCEPT ![t] = "setData"]
        /\ cur' = [cur EXCEPT ![t] = size]
        /\ msg' = [msg EXCEPT ![t] = [seq |-> MaxOps - ops + 1, station |-> s, copyable |-> c]]
    BY <1>2 DEF Insert, StartCall, At, Goto, KeepInv, NoRemoval
  <2>2. msg'[t].seq = MaxOps - ops' /\ MaxOps - ops' = MaxOps - ops + 1
    BY <2>1
  <2>3. size \in Index
    BY <2>1, IndexAssumption DEF TypeInv, SizeBound
  <2>4. ~hasData(size)
    BY <2>3 DEF NumbersApart
  <2>5. \A i \in Index : hasData(i)' =>
          i < size' /\ data'[i].seq <= MaxOps - ops' /\ data'[i].seq # msg'[t].seq
    BY <2>1, <2>2 DEF NumbersApart, hasData
  <2>6. \A u \in Threads \ {t} : pc'[u] = "setData" =>
          /\ ~hasData(cur[u])' /\ msg'[u].seq <= MaxOps - ops' /\ msg'[u].seq # msg'[t].seq
          /\ msg'[u] = msg[u] /\ pc[u] = "setData"
    BY <2>1, <2>2 DEF NumbersApart, hasData
  <2>7. ~hasData(cur[t])' /\ msg'[t].seq <= MaxOps - ops'
    BY <2>1, <2>2, <2>4 DEF hasData
  <2> QED BY <2>1, <2>5, <2>6, <2>7 DEF NumbersApart, hasData
<1>3. ASSUME NEW t \in Threads, InsertSetData(t)
      PROVE  NumbersApart'
  <2>1. /\ ops' = ops /\ size' = size /\ msg' = msg /\ cur' = cur
        /\ pc[t] = "setData" /\ pc' = [pc EXCEPT ![t] = "setCallbacks"]
        /\ data' = [data EXCEPT ![cur[t]] = msg[t]]
    BY <1>3 DEF InsertSetData, At, Goto
  <2>2. \A u \in Threads \ {t} : pc[u] = "setData" => cur[u] # cur[t]
    BY <2>1 DEF KeepInv, InsertsApart, Filling
  <2>3. \A u \in Threads : pc'[u] = "setData" => u # t /\ pc[u] = "setData"
    BY <2>1
  <2>4. \A i \in Index : hasData(i)' => (i = cur[t] /\ data'[i] = msg[t]) \/ (i # cur[t] /\ hasData(i) /\ data'[i] = data[i])
    BY <2>1 DEF hasData
  <2>5. cur[t] \in Index /\ ~hasData(cur[t]) /\ cur[t] < size /\ msg[t].seq <= MaxOps - ops
    BY <2>1 DEF NumbersApart
  <2>6. \A i \in Index : hasData(i)' => i < size' /\ data'[i].seq <= MaxOps - ops'
    BY <2>1, <2>4, <2>5 DEF NumbersApart
  <2>7. \A i, j \in Index : hasData(i)' /\ hasData(j)' /\ data'[i].seq = data'[j].seq => i = j
    BY <2>1, <2>4 DEF NumbersApart
  <2>8. ASSUME NEW u \in Threads, pc'[u] = "setData"
        PROVE  /\ ~hasData(cur[u])' /\ msg'[u].seq <= MaxOps - ops'
               /\ \A i \in Index : hasData(i)' => data'[i].seq # msg'[u].seq
               /\ \A v \in Threads \ {u} : pc'[v] = "setData" => msg'[v].seq # msg'[u].seq
    <3>1. u # t /\ pc[u] = "setData" /\ cur[u] \in Index /\ cur[u] # cur[t]
      BY <2>2, <2>3, <2>8
    <3>2. ~hasData(cur[u])'
      BY <3>1, <2>1, <2>4 DEF NumbersApart
    <3>3. \A i \in Index : hasData(i)' => data'[i].seq # msg'[u].seq
      BY <3>1, <2>1, <2>4 DEF NumbersApart
    <3> QED BY <3>1, <3>2, <3>3, <2>1, <2>3 DEF NumbersApart
  <2> QED BY <2>6, <2>7, <2>8 DEF NumbersApart
<1>4. ASSUME NEW t \in Threads, NEW i \in Index, NEW s \in Stations, NEW c \in Copyable,
             Modify(t, i, s, c)
      PROVE  NumbersApart'
  <2>1. /\ data' = [data EXCEPT ![i] = [seq |-> data[i].seq, station |-> s, copyable |-> c]]
        /\ hasData(i)
        /\ UNCHANGED <<size, ops, pc, msg, cur>>
    BY <1>4 DEF Modify, thrVars
  <2>2. \A j \in Index : hasData(j)' => hasData(j) /\ data'[j].seq = data[j].seq
    BY <2>1 DEF hasData
  <2>3. ASSUME NEW u \in Threads, pc[u] = "setData"
        PROVE  ~hasData(cur[u])'
    BY <2>1, <2>2, <2>3 DEF NumbersApart
  <2> QED BY <2>1, <2>2, <2>3 DEF NumbersApart
<1> QED BY <1>1, <1>2, <1>3, <1>4, QuietSteps

-----------------------------------------------------------------------------
(* The empty database is the empty store.                                   *)
LEMMA StoreInit == Init => Store!Init
BY MaxOpsAssumption
DEF Init, Store!Init, Arriving, Stored, Condemned, CallsMade, hasData

(* Every step of threads that do not remove is a step of the store or       *)
(* leaves it as it is.                                                      *)
LEMMA StoreStep ==
  ASSUME AppendOnly, TypeInv, KeepInv, KeepInv', NumbersApart, [Next]_vars
  PROVE  [Store!Next]_(Store!storeVars)
<1> USE NumbersTyped
<1>0. Condemned = {} /\ Condemned' = {}
  BY DEF Condemned, KeepInv, NoRemoval, Removing
<1>1. ASSUME Quiet
      PROVE  [Store!Next]_(Store!storeVars)
  <2>1. Arriving' = Arriving /\ Stored' = Stored
    BY <1>1 DEF Quiet, Arriving, Stored, hasData
  <2>2. CallsMade' = CallsMade \/ CallsMade' = CallsMade + 1
    BY <1>1 DEF Quiet, CallsMade
  <2> QED BY <1>0, <2>1, <2>2 DEF Store!Next, Store!Query, Store!storeVars
<1>2. ASSUME NEW t \in Threads, NEW s \in Stations, NEW c \in Copyable, Insert(t, s, c)
      PROVE  Store!Next
  <2> DEFINE m == [seq |-> MaxOps - ops + 1, station |-> s, copyable |-> c]
  <2>1. /\ ops > 0 /\ ops' = ops - 1 /\ data' = data
        /\ pc[t] = "idle" /\ pc' = [pc EXCEPT ![t] = "setData"]
        /\ msg' = [msg EXCEPT ![t] = m]
    BY <1>2 DEF Insert, StartCall, At, Goto
  <2>2. m \in Message /\ m.seq = CallsMade + 1
    BY <2>1 DEF Message, CallsMade, TypeInv, TypeOK
  <2> HIDE DEF m
  <2>3. Arriving' = Arriving \cup {m}
    BY <2>1 DEF Arriving
  <2>4. Stored' = Stored /\ CallsMade' = CallsMade + 1
    BY <2>1 DEF Stored, CallsMade, hasData
  <2>5. Store!Arrive(m)
    BY <1>0, <2>2, <2>3, <2>4 DEF Store!Arrive
  <2> QED BY <2>2, <2>5 DEF Store!Next
<1>3. ASSUME NEW t \in Threads, InsertSetData(t)
      PROVE  Store!Next
  <2>1. /\ ops' = ops /\ msg' = msg
        /\ pc[t] = "setData" /\ pc' = [pc EXCEPT ![t] = "setCallbacks"]
        /\ data' = [data EXCEPT ![cur[t]] = msg[t]]
    BY <1>3 DEF InsertSetData, At, Goto
  <2>2. cur[t] \in Index /\ ~hasData(cur[t]) /\ msg[t] \in Message /\ msg[t] # None
    BY <2>1, NobodyAssumption DEF NumbersApart
  <2>3. msg[t] \in Arriving
    BY <2>1 DEF Arriving
  <2>4. Arriving' = Arriving \ {msg[t]}
    BY <2>1 DEF Arriving, NumbersApart
  <2>5. Stored' = Stored \cup {msg[t]}
    BY <2>1, <2>2 DEF Stored, hasData
  <2>6. Store!Add(msg[t])
    BY <1>0, <2>1, <2>3, <2>4, <2>5 DEF Store!Add, CallsMade
  <2> QED BY <2>2, <2>6 DEF Store!Next
<1>4. ASSUME NEW t \in Threads, NEW i \in Index, NEW s \in Stations, NEW c \in Copyable,
             Modify(t, i, s, c)
      PROVE  Store!Next
  <2> DEFINE m == [seq |-> data[i].seq, station |-> s, copyable |-> c]
  <2>1. /\ data' = [data EXCEPT ![i] = m]
        /\ hasData(i) /\ UNCHANGED <<ops, pc, msg>>
    BY <1>4 DEF Modify, thrVars
  <2>2. m # None
    BY <2>1, NobodyAssumption DEF Message, hasData
  <2> HIDE DEF m
  <2>3. data[i] \in Stored /\ data[i] \in Message
    BY <2>1 DEF Stored
  <2>4. \A j \in Index \ {i} : hasData(j) => data[j] # data[i]
    BY <2>1 DEF NumbersApart
  <2>5. Stored' = (Stored \ {data[i]}) \cup {m}
    BY <2>1, <2>2, <2>4 DEF Stored, hasData
  <2>6. Arriving' = Arriving /\ CallsMade' = CallsMade
    BY <2>1 DEF Arriving, CallsMade
  <2>7. m \in Message /\ m.seq = data[i].seq
    BY <2>3 DEF m, Message
  <2>8. Store!Edit(data[i], m)
    BY <1>0, <2>3, <2>5, <2>6, <2>7 DEF Store!Edit
  <2> QED BY <2>3, <2>7, <2>8 DEF Store!Next
<1> QED BY <1>1, <1>2, <1>3, <1>4, QuietSteps

(* For every number of threads, stations and calls: a database whose        *)
(* threads insert, search by station or for the latest message and edit     *)
(* what they find implements the plain store.  Every inserted message is    *)
(* stored once, in an element of its own, and none is lost or overwritten,  *)
(* although insert fills elements that it has not locked.                   *)
THEOREM AppendOnlyStore == AppendOnly => (Spec => ImplementsStore)
<1> SUFFICES ASSUME AppendOnly PROVE Spec => ImplementsStore
  OBVIOUS
<1> DEFINE Inv == TypeInv /\ KeepInv /\ NumbersApart
<1>1. Init => Inv
  BY TypeInit, KeepInit, NumbersInit
<1>2. Inv /\ [Next]_vars => Inv'
  BY TypeStep, KeepStep, NumbersStep
<1>3. Inv /\ Inv' /\ [Next]_vars => [Store!Next]_(Store!storeVars)
  BY StoreStep
<1> HIDE DEF Inv
<1> QED BY <1>1, <1>2, <1>3, StoreInit, PTL DEF Spec, ImplementsStore, Store!Spec

-----------------------------------------------------------------------------
(* The latest message indexer.                                             *)

\* What the services do: nobody removes or edits.
ReadOnly == \A t \in Threads : Ops[t] \subseteq {"insert", "latest", "station"}

\* A station that has a latest message keeps one.
KeepsLatest == \A s \in Stations : latest.ofStation[s] # None => latest'.ofStation[s] # None

(* Only insert and the destruction of a view tell the indexer anything.     *)
LEMMA LatestSteps ==
  ASSUME ReadOnly, TypeInv, KeepInv, [Next]_vars
  PROVE  \/ UNCHANGED <<data, latest>>
         \/ \E t \in Threads : InsertSetData(t)
         \/ \E t \in Threads : InsertAddData(t)
         \/ \E i \in Index : UNCHANGED data /\ UpdateIndexers(i)
<1>1. ASSUME NEW t \in Threads,
             \/ \E s \in Stations, c \in Copyable : Insert(t, s, c)
             \/ InsertSetCallbacks(t) \/ InsertLock(t)
             \/ GetLock(t) \/ GetValidate(t) \/ GetReturn(t)
      PROVE  UNCHANGED <<data, latest>>
  BY <1>1 DEF Insert, InsertSetCallbacks, InsertLock, GetLock, GetValidate, GetReturn, dbVars
<1>2. ASSUME NEW t \in Threads, GetDrop(t)
      PROVE  \/ UNCHANGED <<data, latest>>
             \/ \E i \in Index : UNCHANGED data /\ UpdateIndexers(i)
  <2>1. cur[t] \in Index
    BY <1>2 DEF GetDrop, At, TypeInv, CurSet, Working, PCs
  <2> QED BY <1>2, <2>1 DEF GetDrop
<1>3. ASSUME NEW t \in Threads, NEW i \in Index, Release(t, i)
      PROVE  UNCHANGED <<data, latest>> \/ (UNCHANGED data /\ UpdateIndexers(i))
  BY <1>3 DEF Release
<1>4. ASSUME NEW t \in Threads, NEW kind, NEW s, NEW list, NEW matches,
             Collect(t, kind, s, list, matches)
      PROVE  UNCHANGED <<data, latest>>
  BY <1>4 DEF Collect, dbVars
<1>5. ASSUME NEW t \in Threads,
             RemoveEraseData(t) \/ RemovePushFree(t) \/ RemoveClearData(t) \/ RemoveUnlock(t)
      PROVE  FALSE
  BY <1>5 DEF RemoveEraseData, RemovePushFree, RemoveClearData, RemoveUnlock, KeepInv, NoRemoval,
              Removing, At
<1>6. ASSUME NEW t \in Threads, NEW i \in Index,
             Remove(t, i) \/ \E s \in Stations, c \in Copyable : Modify(t, i, s, c)
      PROVE  FALSE
  BY <1>6 DEF Remove, Modify, ReadOnly
<1>7. ASSUME UNCHANGED vars
      PROVE  UNCHANGED <<data, latest>>
  BY <1>7 DEF vars, dbVars
<1> QED
  BY <1>1, <1>2, <1>3, <1>4, <1>5, <1>6, <1>7
  DEF Next, Step, Call, NoMoreCalls, Ended, GetLatest, GetStation, GetIndex, byIndex, byRange

(* addData replaces the latest message of a station, in both maps.          *)
LEMMA CoherentAdd ==
  ASSUME TypeInv, LatestCoherent, NEW i \in Index, hasData(i), UNCHANGED data,
         latest' = LatestAddData(latest, data[i].station, i)
  PROVE  LatestCoherent' /\ KeepsLatest
<1>1. latest \in LatestState /\ data[i].station \in Stations
  BY DEF TypeInv, TypeOK, hasData, Message
<1>2. CASE latest.ofIndex[i] # None
  BY <1>2 DEF LatestAddData, LatestCoherent, KeepsLatest, hasData
<1>3. CASE latest.ofIndex[i] = None
  <2> DEFINE r == data[i].station
  <2>1. /\ latest'.ofStation = [latest.ofStation EXCEPT ![r] = i]
        /\ latest'.ofIndex = [j \in Index |-> IF j = i THEN r
                                             ELSE IF j = latest.ofStation[r] THEN None
                                             ELSE latest.ofIndex[j]]
    BY <1>3 DEF LatestAddData
  <2>2. \A s \in Stations : latest.ofStation[s] # i
    BY <1>3, NoneAssumption DEF LatestCoherent
  <2>3. /\ latest.ofStation \in [Stations -> Index \cup {None}]
        /\ r \in Stations
    BY <1>1 DEF LatestState
  <2> HIDE DEF r
  <2>4. ASSUME NEW s \in Stations, NEW j \in Index
        PROVE  latest'.ofStation[s] = j <=> latest'.ofIndex[j] = s
    <3>1. CASE j = i
      BY <2>1, <2>2, <2>3, <3>1
    <3>2. CASE j # i /\ s = r
      BY <2>1, <2>3, <3>2, NoneAssumption DEF LatestCoherent
    <3>3. CASE j # i /\ s # r
      <4>1. latest'.ofStation[s] = latest.ofStation[s]
        BY <2>1, <2>3, <3>3
      <4>2. CASE j = latest.ofStation[r]
        BY <2>1, <2>3, <3>3, <4>1, <4>2, NoneAssumption DEF LatestCoherent
      <4>3. CASE j # latest.ofStation[r]
        BY <2>1, <3>3, <4>1, <4>3 DEF LatestCoherent
      <4> QED BY <4>2, <4>3
    <3> QED BY <3>1, <3>2, <3>3
  <2>5. ASSUME NEW s \in Stations, NEW j \in Index, latest'.ofStation[s] = j
        PROVE  hasData(j)' /\ data'[j].station = s
    <3>1. CASE s = r
      BY <2>1, <2>3, <2>5, <3>1 DEF hasData, r
    <3>2. CASE s # r
      BY <2>1, <2>3, <2>5, <3>2 DEF LatestCoherent, hasData
    <3> QED BY <3>1, <3>2
  <2>6. KeepsLatest
    BY <2>1, <2>3, NoneAssumption DEF KeepsLatest
  <2> QED BY <2>4, <2>5, <2>6 DEF LatestCoherent
<1> QED BY <1>2, <1>3

(* Destroying a view of an unedited message tells the indexer of a message  *)
(* it knows, or makes an older message the latest again.                    *)
LEMMA CoherentUpdate ==
  ASSUME TypeInv, LatestCoherent, NEW i \in Index, UNCHANGED data, UpdateIndexers(i)
  PROVE  LatestCoherent' /\ KeepsLatest
<1>1. CASE latest' = latest
  BY <1>1 DEF LatestCoherent, KeepsLatest, hasData
<1>2. CASE latest' # latest
  <2>1. hasData(i) /\ latest' = LatestUpdateData(latest, data[i].station, i)
    BY <1>2 DEF UpdateIndexers, UpdateCalled
  <2>2. latest \in LatestState /\ data[i].station \in Stations
    BY <2>1 DEF TypeInv, TypeOK, hasData, Message
  <2>3. CASE latest.ofIndex[i] = None
    BY <2>1, <2>3, CoherentAdd DEF LatestUpdateData
  <2>4. CASE latest.ofIndex[i] # None
    <3>1. latest.ofIndex[i] = data[i].station /\ latest.ofStation[data[i].station] = i
      BY <2>2, <2>4 DEF LatestCoherent, LatestState
    <3>2. /\ latest'.ofIndex = latest.ofIndex
          /\ \A s \in Stations : latest'.ofStation[s] = latest.ofStation[s]
      BY <2>1, <2>4, <3>1 DEF LatestUpdateData
    <3> QED BY <3>2 DEF LatestCoherent, KeepsLatest, hasData
  <2> QED BY <2>3, <2>4
<1> QED BY <1>1, <1>2

(* Every step keeps the two maps coherent and each station its latest       *)
(* message.                                                                 *)
LEMMA LatestStep ==
  ASSUME ReadOnly, TypeInv, KeepInv, NumbersApart, LatestCoherent, [Next]_vars
  PROVE  LatestCoherent' /\ KeepsLatest
<1>1. CASE UNCHANGED <<data, latest>>
  BY <1>1 DEF LatestCoherent, KeepsLatest, hasData
<1>2. ASSUME NEW t \in Threads, InsertSetData(t)
      PROVE  LatestCoherent' /\ KeepsLatest
  <2>1. /\ latest' = latest /\ pc[t] = "setData"
        /\ data' = [data EXCEPT ![cur[t]] = msg[t]]
    BY <1>2 DEF InsertSetData, At
  <2>2. ~hasData(cur[t]) /\ cur[t] \in Index
    BY <2>1, NumbersTyped DEF NumbersApart
  <2>3. \A i \in Index : hasData(i) => data'[i] = data[i]
    BY <2>1, <2>2, NumbersTyped DEF hasData
  <2> QED BY <2>1, <2>3 DEF LatestCoherent, KeepsLatest, hasData
<1>3. ASSUME NEW t \in Threads, InsertAddData(t)
      PROVE  LatestCoherent' /\ KeepsLatest
  <2>1. cur[t] \in Index /\ hasData(cur[t])
    BY <1>3 DEF InsertAddData, At, TypeInv, CurSet, Working, PCs, KeepInv, InsertsApart, Filling
  <2>2. data' = data /\ (latest' = latest \/ latest' = LatestAddData(latest, data[cur[t]].station, cur[t]))
    BY <1>3 DEF InsertAddData
  <2>3. CASE latest' = latest
    BY <2>2, <2>3 DEF LatestCoherent, KeepsLatest, hasData
  <2> QED BY <2>1, <2>2, <2>3, CoherentAdd
<1>4. ASSUME NEW i \in Index, UNCHANGED data, UpdateIndexers(i)
      PROVE  LatestCoherent' /\ KeepsLatest
  BY <1>4, CoherentUpdate
<1> QED BY <1>1, <1>2, <1>3, <1>4, LatestSteps

(* The invariant of threads that neither remove nor edit.                   *)
LEMMA LatestInvariant ==
  ASSUME ReadOnly
  PROVE  Spec => [](TypeInv /\ KeepInv /\ NumbersApart /\ LatestCoherent)
<1> DEFINE Inv == TypeInv /\ KeepInv /\ NumbersApart /\ LatestCoherent
<1>1. Init => LatestCoherent
  BY NoneAssumption DEF Init, LatestInit, LatestCoherent
<1>2. AppendOnly
  BY DEF ReadOnly, AppendOnly
<1>3. Init => Inv
  BY <1>1, TypeInit, KeepInit, NumbersInit
<1>4. Inv /\ [Next]_vars => Inv'
  BY <1>2, TypeStep, KeepStep, NumbersStep, LatestStep
<1>5. Spec => []Inv
  <2> HIDE DEF Inv
  <2> QED BY <1>3, <1>4, PTL DEF Spec
<1> QED BY <1>5

(* For threads that insert and search, which is what the services do: the   *)
(* two maps of IDXCAMLatest are inverse to each other and point at stored   *)
(* messages of the right station, in every interleaving of inserts and of   *)
(* readers that release their views late and make an old message latest     *)
(* again.                                                                   *)
THEOREM ReadOnlyLatestCoherent == ReadOnly => (Spec => []LatestCoherent)
<1> SUFFICES ASSUME ReadOnly PROVE Spec => []LatestCoherent
  OBVIOUS
<1> QED BY LatestInvariant, PTL

(* For the same threads: a station that has a latest message never loses it *)
(* again, whichever message it is.                                          *)
THEOREM ReadOnlyLatestNeverLost == ReadOnly => (Spec => LatestNeverLost)
<1> SUFFICES ASSUME ReadOnly PROVE Spec => LatestNeverLost
  OBVIOUS
<1>1. TypeInv /\ KeepInv /\ NumbersApart /\ LatestCoherent /\ [Next]_vars => [KeepsLatest]_vars
  BY LatestStep
<1>2. Spec => [][KeepsLatest]_vars
  BY <1>1, LatestInvariant, PTL DEF Spec
<1> QED BY <1>2 DEF LatestNeverLost, KeepsLatest
=============================================================================
