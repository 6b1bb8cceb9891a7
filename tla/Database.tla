------------------------------ MODULE Database ------------------------------
(***************************************************************************)
(* The message database: Database<T>, its elements DBElement<T> and the    *)
(* DBView<T> handles through which threads read, change and remove them.   *)
(*                                                                         *)
(* A thread runs one call at a time.  The mutexes _dataLock, _indexerLock  *)
(* and _freeIndicesLock are only held inside one step below (no step waits *)
(* for an element while it holds one of them); the mutex of an element is  *)
(* held from a view's construction to its destruction and is modelled by   *)
(* "holder".  Everything the code does to an element WITHOUT its mutex is  *)
(* a step of its own, since another thread can come in between.            *)
(***************************************************************************)
EXTENDS Integers, Sequences, Indexers, QRYIndex

CONSTANTS Threads,           \* threads that call the database
          Ops,               \* Ops[t]: what thread t does with it
          Registered,        \* the indexers given to addIndexer
          Copyable,          \* which messages occur: TRUE, the message can be copied;
                             \* FALSE, its copy constructor throws
          InsertsExclusive,  \* TRUE: the callers never overlap insert
          MaxOps             \* bound: insert and get calls in a behaviour

OpKinds == {"insert", "latest", "station", "index", "modify", "remove"}

\* CAMWrapper's copy constructor encodes and decodes the message: it throws for
\* one whose CHOICE has no alternative that this version knows.
Message == [seq : 1..MaxOps, station : Stations, copyable : Copyable]

ASSUME MaxOpsAssumption == MaxOps \in Nat
ASSUME IndexAssumption == Index = 0..(MaxOps - 1)
ASSUME SizeAssumption == MaxOps <= UINT32_MAX
ASSUME OpsAssumption == Ops \in [Threads -> SUBSET OpKinds]
ASSUME RegisteredAssumption == Registered \subseteq {"index", "station", "latest"}
ASSUME CopyableAssumption == Copyable \subseteq BOOLEAN
ASSUME ExclusiveAssumption == InsertsExclusive \in BOOLEAN
ASSUME NobodyAssumption == None \notin Threads /\ None \notin Message

VARIABLES
  size,    \* _size: elements allocated so far
  data,    \* data[i]: the message in _data[i], or None
  hooked,  \* the elements whose update and remove callbacks are set
  holder,  \* holder[i]: the thread that holds the mutex of element i, or None
  free,    \* _freeIndices
  param,   \* the maps of the station id indexer
  latest,  \* the maps of the latest message indexer
  pc,      \* pc[t]: where thread t is in its call
  op,      \* op[t]: kind and station of the call
  msg,     \* msg[t]: the entry insert was called with; history: the message
           \* remove was called on; or None
  cur,     \* cur[t]: the element the call is working on, or None
  pend,    \* pend[t]: elements get has collected and not yet locked
  views,   \* views[t]: elements of the views the call has made
  seen,    \* history: the committed matches when get collected its elements
  ops,     \* calls that may still be made
  fault    \* what ended the process: "none", "terminate" or "undefined"

dbVars  == <<size, data, hooked, holder, free, param, latest>>
thrVars == <<pc, op, msg, cur, pend, views, seen>>
vars    == <<dbVars, thrVars, ops, fault>>

OpRecord == [kind : OpKinds \cup {"none"}, station : Stations \cup {None}]

NoOp == [kind |-> "none", station |-> None]

PCs == {"idle", "setData", "setCallbacks", "addData", "lockInserted",
        "get", "validate", "drop", "use",
        "eraseData", "pushFree", "clearData", "unlock"}

TypeOK ==
  /\ size \in 0..MaxOps
  /\ data \in [Index -> Message \cup {None}]
  /\ hooked \subseteq Index
  /\ holder \in [Index -> Threads \cup {None}]
  /\ free \in Seq(Index)
  /\ param \in ParamState
  /\ latest \in LatestState
  /\ pc \in [Threads -> PCs]
  /\ op \in [Threads -> OpRecord]
  /\ msg \in [Threads -> Message \cup {None}]
  /\ cur \in [Threads -> Index \cup {None}]
  /\ pend \in [Threads -> SUBSET Index]
  /\ views \in [Threads -> SUBSET Index]
  /\ seen \in [Threads -> SUBSET Index]
  /\ ops \in 0..MaxOps
  /\ fault \in {"none", "terminate", "undefined"}

Init ==
  /\ size = 0
  /\ data = [i \in Index |-> None]
  /\ hooked = {}
  /\ holder = [i \in Index |-> None]
  /\ free = <<>>
  /\ param = ParamInit
  /\ latest = LatestInit
  /\ pc = [t \in Threads |-> "idle"]
  /\ op = [t \in Threads |-> NoOp]
  /\ msg = [t \in Threads |-> None]
  /\ cur = [t \in Threads |-> None]
  /\ pend = [t \in Threads |-> {}]
  /\ views = [t \in Threads |-> {}]
  /\ seen = [t \in Threads |-> {}]
  /\ ops = MaxOps
  /\ fault = "none"

-----------------------------------------------------------------------------
(* Helpers *)

At(t, label) == fault = "none" /\ pc[t] = label

Goto(t, label) == pc' = [pc EXCEPT ![t] = label]

\* count(): the number of elements that are not free.
count == size - Len(free)

\* DBElement::hasData
hasData(i) == data[i] # None

\* An insert whose element is not yet known to the indexers.
Unindexed(i) ==
  \E u \in Threads : cur[u] = i /\ pc[u] \in {"setData", "setCallbacks", "addData"}

\* Elements with a message that no insert, no view and no removal is working on.
Settled ==
  {i \in Index : hasData(i) /\ holder[i] = None /\ \A u \in Threads : cur[u] # i}

\* Those that are about station s.
Committed(s) == {i \in Settled : data[i].station = s}

\* The caller's discipline, when there is one: an insert overlaps no other call.
MayOverlap(t, kind) ==
  InsertsExclusive =>
    \A u \in Threads \ {t} :
      pc[u] # "idle" => kind # "insert" /\ op[u].kind # "insert"

\* A thread with no view makes a call.
StartCall(t, kind, s) ==
  /\ At(t, "idle")
  /\ kind \in Ops[t]
  /\ ops > 0
  /\ MayOverlap(t, kind)
  /\ ops' = ops - 1
  /\ op' = [op EXCEPT ![t] = [kind |-> kind, station |-> s]]

\* A view on element i is gone.
CloseView(t, i) ==
  /\ holder' = [holder EXCEPT ![i] = None]
  /\ views' = [views EXCEPT ![t] = @ \ {i}]

\* Mutant: the mutex is taken whoever holds it.
LockElementAlways(t, i) == holder' = [holder EXCEPT ![i] = t]

\* DBElement::lock.
LockElement(t, i) ==
  /\ holder[i] = None
  /\ holder' = [holder EXCEPT ![i] = t]

-----------------------------------------------------------------------------
(* DBElement::unlock and Database::updateCallback: the message is replaced *)
(* by a copy of itself, and then every indexer is told, the station id     *)
(* indexer before the latest indexer.  An exception of the copy or of an   *)
(* indexer leaves unlock with the mutex still held.                        *)

UpdateCalled(i) == hasData(i) /\ i \in hooked

CopyThrows(i) == hasData(i) /\ ~data[i].copyable

UpdateThrows(i) ==
  UpdateCalled(i) /\ "station" \in Registered /\ ParamUpdateThrows(param, i)

UnlockThrows(i) == CopyThrows(i) \/ UpdateThrows(i)

\* What unlock does to the maps when nothing throws.

UpdateIndexers(i) ==
  /\ param' = IF UpdateCalled(i) /\ "station" \in Registered
              THEN ParamUpdateData(param, data[i].station, i) ELSE param
  /\ latest' = IF UpdateCalled(i) /\ "latest" \in Registered
               THEN LatestUpdateData(latest, data[i].station, i) ELSE latest

-----------------------------------------------------------------------------
(* Database::insert *)

\* Mutant: _size is extended by one element too many.
InsertSkipsElement(t, s, c) ==
  LET i == IF free = <<>> THEN size ELSE free[Len(free)] IN
  /\ StartCall(t, "insert", s)
  /\ size' = IF free = <<>> THEN size + 2 ELSE size
  /\ free' = IF free = <<>> THEN free ELSE SubSeq(free, 1, Len(free) - 1)
  /\ msg' = [msg EXCEPT ![t] = [seq |-> MaxOps - ops + 1, station |-> s, copyable |-> c]]
  /\ cur' = [cur EXCEPT ![t] = i]
  /\ Goto(t, "setData")
  /\ UNCHANGED <<data, hooked, holder, param, latest, pend, views, seen, fault>>

\* getFreeElement: the last free index, or a new element at the end.
Insert(t, s, c) ==
  LET i == IF free = <<>> THEN size ELSE free[Len(free)] IN
  /\ StartCall(t, "insert", s)
  /\ size' = IF free = <<>> THEN size + 1 ELSE size
  /\ free' = IF free = <<>> THEN free ELSE SubSeq(free, 1, Len(free) - 1)
  /\ msg' = [msg EXCEPT ![t] = [seq |-> MaxOps - ops + 1, station |-> s, copyable |-> c]]
  /\ cur' = [cur EXCEPT ![t] = i]
  /\ Goto(t, "setData")
  /\ UNCHANGED <<data, hooked, holder, param, latest, pend, views, seen, fault>>

\* The element is not locked here.
InsertSetData(t) ==
  /\ At(t, "setData")
  /\ data' = [data EXCEPT ![cur[t]] = msg[t]]
  /\ Goto(t, "setCallbacks")
  /\ UNCHANGED <<size, hooked, holder, free, param, latest, op, msg, cur, pend, views, seen, ops, fault>>

InsertSetCallbacks(t) ==
  /\ At(t, "setCallbacks")
  /\ hooked' = hooked \cup {cur[t]}
  /\ Goto(t, "addData")
  /\ UNCHANGED <<size, data, holder, free, param, latest, op, msg, cur, pend, views, seen, ops, fault>>

\* Mutant: the loop stops before the station id indexer.
InsertAddDataStops(t) ==
  /\ At(t, "addData")
  /\ Goto(t, "lockInserted")
  /\ UNCHANGED <<dbVars, op, msg, cur, pend, views, seen, ops, fault>>

\* Every indexer gets the element's data; data() throws, and is ignored, when
\* the data is gone.
InsertAddData(t) ==
  LET i == cur[t] IN
  /\ At(t, "addData")
  /\ param' = IF hasData(i) /\ "station" \in Registered
              THEN ParamAddData(param, data[i].station, i) ELSE param
  /\ latest' = IF hasData(i) /\ "latest" \in Registered
               THEN LatestAddData(latest, data[i].station, i) ELSE latest
  /\ Goto(t, "lockInserted")
  /\ UNCHANGED <<size, data, hooked, holder, free, op, msg, cur, pend, views, seen, ops, fault>>

\* The view that insert returns.
InsertLock(t) ==
  /\ At(t, "lockInserted")
  /\ LockElement(t, cur[t])
  /\ views' = [views EXCEPT ![t] = {cur[t]}]
  /\ msg' = [msg EXCEPT ![t] = None]
  /\ cur' = [cur EXCEPT ![t] = None]
  /\ Goto(t, "use")
  /\ UNCHANGED <<size, data, hooked, free, param, latest, op, pend, seen, ops, fault>>

-----------------------------------------------------------------------------
(* Database::get *)

\* Mutant: the last element is out of range.
getIndexListOffByOne(kind, list) ==
  {i \in list : kind \in Registered /\ i < size - 1 /\ hasData(i)}

\* getIndexListUnlocked: what the supporting indexer lists, without the
\* elements that have no data.
getIndexListUnlocked(kind, list) ==
  {i \in list : kind \in Registered /\ i < size /\ hasData(i)}

Collect(t, kind, s, list, matches) ==
  /\ StartCall(t, kind, s)
  /\ pend' = [pend EXCEPT ![t] = getIndexListUnlocked(kind, list)]
  /\ seen' = [seen EXCEPT ![t] = matches]
  /\ Goto(t, "get")
  /\ UNCHANGED <<dbVars, msg, cur, views, fault>>

GetLatest(t, s)  == Collect(t, "latest", s, LatestGetIndexList(latest, s), Committed(s))
GetStation(t, s) == Collect(t, "station", s, ParamGetIndexList(param, s), Committed(s))

\* A query for the indices that its caller means, in each way there is to
\* build one; a caller whose query throws makes no call.
GetIndex(t, q, meant) ==
  Collect(t, "index", None, IndexGetIndexList(q), Settled \cap meant)
byIndex(t) ==
  \E index \in UInts : \E q \in setIndex(index) : GetIndex(t, q, {index})
byRange(t) ==
  \/ \E first, last \in UInts : \E q \in setRange(first, last) : GetIndex(t, q, first..(last - 1))
  \/ \E start \in UInts, length \in Lengths :
       \E q \in setLength(start, length) : GetIndex(t, q, Meant(start, length))

\* The elements are locked one after the other, in ascending order.
GetLock(t) ==
  /\ At(t, "get")
  /\ \E i \in pend[t] :
       /\ \A j \in pend[t] : i <= j
       /\ LockElement(t, i)
       /\ cur' = [cur EXCEPT ![t] = i]
       /\ pend' = [pend EXCEPT ![t] = @ \ {i}]
  /\ Goto(t, "validate")
  /\ UNCHANGED <<size, data, hooked, free, param, latest, op, msg, views, seen, ops, fault>>

\* validateElement: the supporting indexer is asked about the element, not
\* about the query.
validateElement(t, i) ==
  CASE op[t].kind = "latest"  -> LatestIsValid(latest, data[i].station, i)
    [] op[t].kind = "station" -> ParamIsValid(param, data[i].station, i)
    [] OTHER                  -> TRUE

GetValidate(t) ==
  LET i == cur[t] IN
  /\ At(t, "validate")
  /\ \/ /\ hasData(i) /\ validateElement(t, i)
        /\ views' = [views EXCEPT ![t] = @ \cup {i}]
        /\ cur' = [cur EXCEPT ![t] = None]
        /\ Goto(t, "get")
     \/ /\ ~(hasData(i) /\ validateElement(t, i))
        /\ Goto(t, "drop")
        /\ UNCHANGED <<views, cur>>
  /\ UNCHANGED <<dbVars, op, msg, pend, seen, ops, fault>>

\* Mutants: an element that fails validation is emptied; or stays locked.
GetDropEmpties(t) ==
  /\ At(t, "drop")
  /\ data' = [data EXCEPT ![cur[t]] = None]
  /\ holder' = [holder EXCEPT ![cur[t]] = None]
  /\ cur' = [cur EXCEPT ![t] = None]
  /\ Goto(t, "get")
  /\ UNCHANGED <<size, hooked, free, param, latest, op, msg, pend, views, seen, ops, fault>>
GetDropKeepsLock(t) ==
  /\ At(t, "drop")
  /\ cur' = [cur EXCEPT ![t] = None]
  /\ Goto(t, "get")
  /\ UNCHANGED <<dbVars, op, msg, pend, views, seen, ops, fault>>

\* The loop's view goes out of scope: an exception that leaves unlock leaves
\* ~DBView, which is noexcept, and std::terminate ends the process.
GetDrop(t) ==
  LET i == cur[t] IN
  /\ At(t, "drop")
  /\ \/ /\ UnlockThrows(i)
        /\ fault' = "terminate"
        /\ UNCHANGED <<param, latest, holder, cur, pc>>
     \/ /\ ~UnlockThrows(i)
        /\ UpdateIndexers(i)
        /\ holder' = [holder EXCEPT ![i] = None]
        /\ cur' = [cur EXCEPT ![t] = None]
        /\ Goto(t, "get")
        /\ UNCHANGED fault
  /\ UNCHANGED <<size, data, hooked, free, op, msg, pend, views, seen, ops>>

GetReturn(t) ==
  /\ At(t, "get")
  /\ pend[t] = {}
  /\ seen' = [seen EXCEPT ![t] = {}]
  /\ IF views[t] = {}
     THEN Goto(t, "idle") /\ op' = [op EXCEPT ![t] = NoOp]
     ELSE Goto(t, "use") /\ UNCHANGED op
  /\ UNCHANGED <<dbVars, msg, cur, pend, views, ops, fault>>

-----------------------------------------------------------------------------
(* What a caller does with a view *)

\* The caller writes the message through the view, be it its station id or a
\* part that decides whether it can be copied.
Modify(t, i, s, c) ==
  /\ At(t, "use")
  /\ "modify" \in Ops[t]
  /\ i \in views[t] /\ hasData(i)
  /\ data' = [data EXCEPT ![i] = [seq |-> data[i].seq, station |-> s, copyable |-> c]]
  /\ UNCHANGED <<size, hooked, holder, free, param, latest, thrVars, ops, fault>>

\* ~DBView; as in GetDrop, an exception ends the process.
Release(t, i) ==
  /\ At(t, "use")
  /\ i \in views[t]
  /\ \/ /\ UnlockThrows(i)
        /\ fault' = "terminate"
        /\ UNCHANGED <<param, latest, holder, views, pc, op>>
     \/ /\ ~UnlockThrows(i)
        /\ UpdateIndexers(i)
        /\ CloseView(t, i)
        /\ IF views[t] = {i}
           THEN Goto(t, "idle") /\ op' = [op EXCEPT ![t] = NoOp]
           ELSE UNCHANGED <<pc, op>>
        /\ UNCHANGED fault
  /\ UNCHANGED <<size, data, hooked, free, msg, cur, pend, seen, ops>>

\* DBView::remove, DBElement::clear, Database::removeCallback: the indexers
\* forget the element.
Remove(t, i) ==
  /\ At(t, "use")
  /\ "remove" \in Ops[t]
  /\ i \in views[t]
  /\ cur' = [cur EXCEPT ![t] = i]
  /\ msg' = [msg EXCEPT ![t] = data[i]]
  /\ LET told == hasData(i) /\ i \in hooked
         byStation == told /\ "station" \in Registered
     IN /\ fault' = IF byStation /\ ParamRemoveUndefined(param, data[i].station, i)
                    THEN "undefined" ELSE "none"
        /\ param' = IF byStation
                    THEN ParamRemoveData(param, data[i].station, i) ELSE param
        /\ latest' = IF told /\ "latest" \in Registered
                     THEN LatestRemoveData(latest, i) ELSE latest
  /\ Goto(t, IF i \in hooked THEN "eraseData" ELSE "clearData")
  /\ UNCHANGED <<size, data, hooked, holder, free, op, pend, views, seen, ops>>

RemoveEraseData(t) ==
  /\ At(t, "eraseData")
  /\ data' = [data EXCEPT ![cur[t]] = None]
  /\ Goto(t, "pushFree")
  /\ UNCHANGED <<size, hooked, holder, free, param, latest, op, msg, cur, pend, views, seen, ops, fault>>

\* Mutant: the index is not given back.
RemovePushFreeForgets(t) ==
  /\ At(t, "pushFree")
  /\ Goto(t, "clearData")
  /\ UNCHANGED <<dbVars, op, msg, cur, pend, views, seen, ops, fault>>

\* From here on an insert may take the element, whose mutex is still held.
RemovePushFree(t) ==
  /\ At(t, "pushFree")
  /\ free' = Append(free, cur[t])
  /\ Goto(t, "clearData")
  /\ UNCHANGED <<size, data, hooked, holder, param, latest, op, msg, cur, pend, views, seen, ops, fault>>

\* The end of DBElement::clear sets the data to null once more.
RemoveClearData(t) ==
  /\ At(t, "clearData")
  /\ data' = [data EXCEPT ![cur[t]] = None]
  /\ Goto(t, "unlock")
  /\ UNCHANGED <<size, hooked, holder, free, param, latest, op, msg, cur, pend, views, seen, ops, fault>>

\* An exception from unlock leaves remove() with the view as it was; the element
\* has a message again only if an insert has taken it in between.
RemoveUnlock(t) ==
  LET i == cur[t] IN
  /\ At(t, "unlock")
  /\ cur' = [cur EXCEPT ![t] = None]
  /\ msg' = [msg EXCEPT ![t] = None]
  /\ \/ /\ UnlockThrows(i)
        /\ Goto(t, "use")
        /\ UNCHANGED <<param, latest, holder, views, op>>
     \/ /\ ~UnlockThrows(i)
        /\ UpdateIndexers(i)
        /\ CloseView(t, i)
        /\ IF views[t] = {i}
           THEN Goto(t, "idle") /\ op' = [op EXCEPT ![t] = NoOp]
           ELSE Goto(t, "use") /\ UNCHANGED op
  /\ UNCHANGED <<size, data, hooked, free, pend, seen, ops, fault>>

-----------------------------------------------------------------------------
\* No more calls are made; the ones under way go on.
NoMoreCalls == ops = 0 /\ UNCHANGED vars

\* std::terminate or undefined behaviour has ended the process.
Ended == fault # "none" /\ UNCHANGED vars

\* What thread t does inside a call.
Step(t) ==
  \/ InsertSetData(t) \/ InsertSetCallbacks(t) \/ InsertAddData(t) \/ InsertLock(t)
  \/ GetLock(t) \/ GetValidate(t) \/ GetDrop(t) \/ GetReturn(t)
  \/ \E i \in Index : Release(t, i)
  \/ RemoveEraseData(t) \/ RemovePushFree(t) \/ RemoveClearData(t) \/ RemoveUnlock(t)

Call(t) ==
  \/ \E s \in Stations, c \in Copyable : Insert(t, s, c)
  \/ \E s \in Stations : GetLatest(t, s) \/ GetStation(t, s)
  \/ byIndex(t) \/ byRange(t)
  \/ \E i \in Index : Remove(t, i)
  \/ \E i \in Index, s \in Stations, c \in Copyable : Modify(t, i, s, c)

Next == NoMoreCalls \/ Ended \/ \E t \in Threads : Step(t) \/ Call(t)

Spec == Init /\ [][Next]_vars

\* A thread inside a call is eventually scheduled, and callers let their views
\* go out of scope; no caller is obliged to make a call.
FairSpec == Spec /\ \A t \in Threads : WF_vars(Step(t))
=============================================================================
