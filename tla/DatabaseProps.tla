--------------------------- MODULE DatabaseProps ---------------------------
(***************************************************************************)
(* What the message database promises.  Each property says under which     *)
(* use of the database it is checked; the README says which uses the       *)
(* library's own services make.                                            *)
(***************************************************************************)
EXTENDS Database, FiniteSets

\* get has looked at every element it collected and is about to return.
Returning(t) == At(t, "get") /\ pend[t] = {}

\* The element whose mutex thread t holds outside its list of views: get's
\* loop variable.
LoopView(t) == IF pc[t] \in {"validate", "drop"} THEN {cur[t]} ELSE {}

\* An element no call is working on.
AtRest(i) == holder[i] = None /\ ~Unindexed(i)

(* "Once this object goes out of scope, it releases the locked element": no *)
(* call ends the process, no exception leaves a view's destructor and no    *)
(* map is erased at end().  It holds only where every message can be        *)
(* copied: unlock replaces the message by a copy of itself.                 *)
NoFault == fault = "none"

(* No indexer ends the process (IDXParameter::updateData, which throws,     *)
(* called from a destructor; removeData, which erases at end()).  If the    *)
(* process ends, then because a thread destroyed a view of a message that   *)
(* has no copy, and the thread still has that view.                         *)
OnlyCopiesFault ==
  fault # "none" =>
    fault = "terminate" /\ \E t \in Threads : \E i \in views[t] \cup LoopView(t) : CopyThrows(i)

(* A view means exclusive access: a thread holds the mutex of an element    *)
(* exactly as long as it has a view of it, whatever exception or early exit *)
(* ended the call.  This is what the assertions at the head of              *)
(* updateCallback and removeCallback rely on.                               *)
ViewsOwnElements ==
  \A i \in Index, t \in Threads :
    holder[i] = t <=> i \in views[t] \cup LoopView(t)

(* "A view to the newly inserted value": when insert returns, its view      *)
(* shows the entry it was called with, although the element was filled and  *)
(* indexed before it was locked.                                            *)
InsertViewShowsEntry ==
  [][\A t \in Threads : InsertLock(t) =>
       hasData(cur[t]) /\ data[cur[t]].seq = msg[t].seq]_vars

(* Between calls the station id indexer files every element under the       *)
(* station of its message and under nothing else, and files no element      *)
(* without a message: threads that write through views keep it in step.     *)
StationIndexExact ==
  \A i \in Index : AtRest(i) =>
    /\ param.reverse[i] = (IF hasData(i) THEN data[i].station ELSE None)
    /\ \A s \in Stations : i \in param.map[s] <=> param.reverse[i] = s

(* The two maps of the latest indexer are inverse to each other and point   *)
(* at messages of the right station (no caller writes a station id).        *)
LatestCoherent ==
  \A s \in Stations, i \in Index :
    /\ latest.ofStation[s] = i <=> latest.ofIndex[i] = s
    /\ latest.ofStation[s] = i => hasData(i) /\ data[i].station = s

(* Once a station has a latest message it keeps one: inserts and readers    *)
(* that release their views in any order never leave it without.            *)
LatestNeverLost ==
  [][\A s \in Stations : latest.ofStation[s] # None => latest'.ofStation[s] # None]_vars

(* A query by station misses no committed message of that station that was  *)
(* there when the call began and still is.                                  *)
StationAnswerComplete ==
  \A t \in Threads : Returning(t) /\ op[t].kind = "station" =>
    {i \in seen[t] : hasData(i) /\ data[i].station = op[t].station} \subseteq views[t]

(* A query by index finds every committed message at the indices its caller *)
(* meant, however the range was given, forwards or backwards, that is still *)
(* there when the call returns.                                             *)
IndexAnswerComplete ==
  \A t \in Threads : Returning(t) /\ op[t].kind = "index" =>
    {i \in seen[t] : hasData(i)} \subseteq views[t]

(* "Deletes a database entry by a view [...] of the entry to delete": a     *)
(* message disappears only when a thread that has a view of its element     *)
(* removes that very message.                                               *)
RemoveDeletesItsEntry ==
  [][\A i \in Index : hasData(i) /\ data'[i] = None =>
       \E t \in Threads : /\ holder[i] = t /\ cur[t] = i
                          /\ msg[t] # None /\ msg[t].seq = data[i].seq]_vars

\* The database as a store of messages: an insert's message arrives until it is
\* in its element, and a removal condemns a message until it has erased it.
Arriving  == {msg[t] : t \in {u \in Threads : pc[u] = "setData"}}
Stored    == {data[i] : i \in {j \in Index : hasData(j)}}
Condemned == {msg[t] : t \in {u \in Threads : pc[u] = "eraseData"}} \ {None}
CallsMade == MaxOps - ops

Store == INSTANCE MessageStore WITH
  arriving <- Arriving, stored <- Stored, condemned <- Condemned, calls <- CallsMade

(* The elements, free list, callbacks and locks implement a plain store:    *)
(* every inserted message is stored once, overwrites none, and leaves only  *)
(* when a caller removes that very message, never to come back.             *)
ImplementsStore == Store!Spec

(* When no call is running, count() is the number of stored messages and    *)
(* each free index is free once: removals by racing threads free an element *)
(* once and lose none.                                                      *)
FreeListExact ==
  (fault = "none" /\ \A t \in Threads : pc[t] = "idle") =>
    /\ count = Cardinality({i \in Index : hasData(i)})
    /\ \A i \in Index : (\E k \in 1..Len(free) : free[k] = i) => ~hasData(i) /\ i < size

(* "Returns the most recent data for a specific station": the message       *)
(* returned is no older than any that was committed when the call began.    *)
LatestIsMostRecent ==
  \A t \in Threads : Returning(t) /\ op[t].kind = "latest" =>
    \A i \in views[t], j \in seen[t] : data[j].seq <= data[i].seq

(* No call waits for ever: threads that lock several elements, wait for an  *)
(* element or drop what they collected all come back, unless the process    *)
(* ends.                                                                    *)
CallsReturn ==
  \A t \in Threads : pc[t] # "idle" ~> pc[t] = "idle" \/ fault # "none"
=============================================================================
