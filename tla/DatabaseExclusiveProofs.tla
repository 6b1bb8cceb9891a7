----------------------- MODULE DatabaseExclusiveProofs -----------------------
(***************************************************************************)
(* Proofs about a message database from which threads remove, and whose    *)
(* callers never let an insert overlap another call, for any number of     *)
(* threads, stations and calls: the list of free elements, what queries    *)
(* answer, that the database implements MessageStore, what insert's view   *)
(* shows and remove deletes, and that the indexers stay in step.           *)
(***************************************************************************)
EXTENDS DatabaseProofs, FiniteSetTheorems, SequenceTheorems

-----------------------------------------------------------------------------
(* An insert runs alone.                                                   *)

Inserting == {"setData", "setCallbacks", "addData", "lockInserted"}

\* While a thread is inserting, or has the view that insert returned, no other
\* thread is in a call.
Alone ==
  \A t \in Threads :
    /\ pc[t] = "idle" <=> op[t].kind = "none"
    /\ pc[t] \in Inserting => op[t].kind = "insert"
    /\ op[t].kind = "insert" => \A u \in Threads \ {t} : pc[u] = "idle"

\* What is known of elements is about elements that have been allocated.
Allocated ==
  /\ \A i \in Index : hasData(i) => i < size
  /\ \A k \in 1..Len(free) : free[k] < size
  /\ \A t \in Threads :
       /\ pc[t] \in Working => cur[t] < size
       /\ \A i \in views[t] \cup pend[t] : i < size

Freed(i) == \E k \in 1..Len(free) : free[k] = i

\* An index is free once; an allocated element has data or is free, but between
\* two steps of insert or remove; an element with a view has data until its
\* holder erases it.
FreeInv ==
  /\ \A j, k \in 1..Len(free) : free[j] = free[k] => j = k
  /\ \A i \in Index :
       /\ Freed(i) => ~hasData(i)
       /\ i < size =>
            /\ \/ hasData(i) \/ Freed(i)
               \/ \E t \in Threads : cur[t] = i /\ pc[t] \in {"setData", "pushFree"}
            /\ \/ i \in hooked
               \/ \E t \in Threads : cur[t] = i /\ pc[t] \in {"setData", "setCallbacks"}
  /\ \A t \in Threads :
       /\ pc[t] = "setData" => msg[t] # None
       /\ pc[t] \in {"setData", "pushFree"} => ~Freed(cur[t])
       /\ pc[t] \in {"setData", "pushFree", "clearData", "unlock"} => ~hasData(cur[t])
       /\ pc[t] \in {"setCallbacks", "addData", "lockInserted", "eraseData"} => hasData(cur[t])
       /\ \A i \in views[t] : hasData(i) \/ (pc[t] \in Removing /\ i = cur[t])

\* A search of some kind has a view of each match that is still there or has
\* still to lock it; it drops only elements without data.
Answer(kind, t) ==
  op[t].kind = kind /\ pc[t] \in {"get", "validate", "drop"} =>
    /\ {i \in seen[t] : hasData(i)} \subseteq views[t] \cup pend[t] \cup LoopView(t)
    /\ pc[t] = "drop" => ~hasData(cur[t])
AnswerInv(kind) == \A t \in Threads : Answer(kind, t)

(* The empty database satisfies the invariants.                             *)
LEMMA ExclusiveInit == Init => Alone /\ Allocated /\ FreeInv /\ \A kind : AnswerInv(kind)
BY NobodyAssumption, NoneAssumption
DEF Init, Alone, Allocated, FreeInv, AnswerInv, Answer, Inserting, Working, Freed, hasData, NoOp

(* The types the steps below use.                                           *)
LEMMA Typed ==
  ASSUME TypeInv
  PROVE  /\ size \in 0..MaxOps /\ size \in Nat /\ MaxOps \in Nat /\ Index \subseteq Nat
         /\ data \in [Index -> Message \cup {None}]
         /\ hooked \subseteq Index
         /\ holder \in [Index -> Threads \cup {None}]
         /\ free \in Seq(Index)
         /\ pc \in [Threads -> PCs] /\ op \in [Threads -> OpRecord]
         /\ msg \in [Threads -> Message \cup {None}]
         /\ cur \in [Threads -> Index \cup {None}]
         /\ pend \in [Threads -> SUBSET Index] /\ views \in [Threads -> SUBSET Index]
         /\ seen \in [Threads -> SUBSET Index]
         /\ \A t \in Threads : pc[t] \in Working => cur[t] \in Index
BY IndexAssumption, MaxOpsAssumption DEF TypeInv, TypeOK, CurSet

(* A call that begins finds no insert under way, and an insert finds no     *)
(* call.                                                                    *)
LEMMA StartsAlone ==
  ASSUME InsertsExclusive, TypeInv, Alone, NEW t \in Threads, NEW kind \in OpKinds, NEW s,
         StartCall(t, kind, s)
  PROVE  /\ pc[t] = "idle"
         /\ kind = "insert" => \A u \in Threads \ {t} : pc[u] = "idle"
         /\ \A u \in Threads \ {t} : op[u].kind # "insert"
BY Typed DEF StartCall, MayOverlap, At, Alone

(* Every step keeps inserts alone.                                          *)
LEMMA AloneStep ==
  ASSUME InsertsExclusive, TypeInv, Alone, [Next]_vars
  PROVE  Alone'
<1> USE Typed DEF PCs, At, Goto, Inserting
<1>1. ASSUME NEW t \in Threads, NEW s \in Stations, NEW c \in Copyable, Insert(t, s, c)
      PROVE  Alone'
  <2>1. /\ pc[t] = "idle" /\ \A u \in Threads \ {t} : pc[u] = "idle" /\ op[u].kind # "insert"
    BY <1>1, StartsAlone DEF Insert, OpKinds
  <2>2. /\ pc' = [pc EXCEPT ![t] = "setData"]
        /\ op' = [op EXCEPT ![t] = [kind |-> "insert", station |-> s]]
    BY <1>1 DEF Insert, StartCall
  <2> QED BY <2>1, <2>2 DEF Alone
<1>2. ASSUME NEW t \in Threads, NEW kind \in OpKinds \ {"insert"}, NEW s, NEW list, NEW matches,
             Collect(t, kind, s, list, matches)
      PROVE  Alone'
  <2>1. /\ pc[t] = "idle" /\ \A u \in Threads \ {t} : op[u].kind # "insert"
    BY <1>2, StartsAlone DEF Collect
  <2>2. /\ pc' = [pc EXCEPT ![t] = "get"]
        /\ op' = [op EXCEPT ![t] = [kind |-> kind, station |-> s]] /\ kind # "none"
    BY <1>2 DEF Collect, StartCall, OpKinds
  <2> QED BY <2>1, <2>2 DEF Alone
\* The other steps change neither kind nor idleness, or end the call.
<1> DEFINE Same(t) == op' = op /\ \E label \in PCs \ {"idle"} : pc' = [pc EXCEPT ![t] = label]
           Ends(t) == op' = [op EXCEPT ![t] = NoOp] /\ pc' = [pc EXCEPT ![t] = "idle"]
<1>3. ASSUME NEW t \in Threads, pc[t] # "idle", Same(t),
             pc'[t] \in Inserting => op[t].kind = "insert"
      PROVE  Alone'
  BY <1>3 DEF Alone
<1>4. ASSUME NEW t \in Threads, Ends(t)
      PROVE  Alone'
  BY <1>4 DEF Alone, NoOp
<1>5. ASSUME op' = op, pc' = pc
      PROVE  Alone'
  BY <1>5 DEF Alone
<1>6. ASSUME NEW t \in Threads,
             InsertSetData(t) \/ InsertSetCallbacks(t) \/ InsertAddData(t) \/ InsertLock(t)
      PROVE  Alone'
  <2>1. op' = op /\ pc[t] \in Inserting /\ \E label \in PCs \ {"idle"} : pc' = [pc EXCEPT ![t] = label]
    BY <1>6 DEF InsertSetData, InsertSetCallbacks, InsertAddData, InsertLock
  <2> QED BY <2>1, <1>3 DEF Alone
<1>7. ASSUME NEW t \in Threads, GetLock(t) \/ GetValidate(t)
      PROVE  Alone'
  <2>1. /\ op' = op /\ pc[t] # "idle"
        /\ \E label \in {"get", "validate", "drop"} : pc' = [pc EXCEPT ![t] = label]
    BY <1>7 DEF GetLock, GetValidate
  <2> QED BY <2>1, <1>3
<1>8. ASSUME NEW t \in Threads, GetDrop(t)
      PROVE  Alone'
  <2>1. op' = op /\ pc[t] # "idle" /\ (pc' = pc \/ pc' = [pc EXCEPT ![t] = "get"])
    BY <1>8 DEF GetDrop
  <2> QED BY <2>1, <1>3, <1>5
<1>9. ASSUME NEW t \in Threads, GetReturn(t) \/ RemoveUnlock(t)
      PROVE  Alone'
  <2>1. Ends(t) \/ (op' = op /\ pc[t] # "idle" /\ pc' = [pc EXCEPT ![t] = "use"])
    BY <1>9 DEF GetReturn, RemoveUnlock
  <2> QED BY <2>1, <1>3, <1>4
<1>10. ASSUME NEW t \in Threads, NEW i \in Index, Release(t, i)
       PROVE  Alone'
  <2>1. Ends(t) \/ (op' = op /\ pc' = pc)
    BY <1>10 DEF Release
  <2> QED BY <2>1, <1>4, <1>5
<1>11. ASSUME NEW t \in Threads, NEW i \in Index, Remove(t, i)
       PROVE  Alone'
  <2>1. /\ op' = op /\ pc[t] # "idle"
        /\ \E label \in {"eraseData", "clearData"} : pc' = [pc EXCEPT ![t] = label]
    BY <1>11 DEF Remove
  <2> QED BY <2>1, <1>3
<1>12. ASSUME NEW t \in Threads, RemoveEraseData(t) \/ RemovePushFree(t) \/ RemoveClearData(t)
       PROVE  Alone'
  <2>1. /\ op' = op /\ pc[t] # "idle"
        /\ \E label \in {"pushFree", "clearData", "unlock"} : pc' = [pc EXCEPT ![t] = label]
    BY <1>12 DEF RemoveEraseData, RemovePushFree, RemoveClearData
  <2> QED BY <2>1, <1>3
<1>13. ASSUME NEW t \in Threads, NEW i \in Index, NEW s \in Stations, NEW c \in Copyable,
             Modify(t, i, s, c)
       PROVE  Alone'
  BY <1>13, <1>5 DEF Modify, thrVars
<1>14. ASSUME UNCHANGED vars
       PROVE  Alone'
  BY <1>14, <1>5 DEF vars, thrVars
<1> HIDE DEF Alone
<1> QED
  BY <1>1, <1>2, <1>6, <1>7, <1>8, <1>9, <1>10, <1>11, <1>12, <1>13, <1>14
  DEF Next, Step, Call, NoMoreCalls, Ended, GetLatest, GetStation, GetIndex, byIndex, byRange, OpKinds

(* getFreeElement takes the last free index.                                *)
LEMMA Popped ==
  ASSUME TypeInv, free # <<>>, free' = SubSeq(free, 1, Len(free) - 1)
  PROVE  /\ Len(free) \in 1..Len(free) /\ free[Len(free)] \in Index
         /\ Len(free') = Len(free) - 1
         /\ \A k \in 1..Len(free') : k \in 1..Len(free) /\ free'[k] = free[k]
<1>1. free \in Seq(Index)
  BY Typed
<1>2. Len(free) \in Nat \ {0}
  BY <1>1
<1>3. \A k \in 1..(Len(free) - 1) : k \in 1..Len(free)
  BY <1>2
<1>4. \A k \in 1..(Len(free) - 1) : free[k] \in Index
  BY <1>1, <1>2, <1>3
<1> DEFINE n == Len(free) - 1
<1>5. n \in Int /\ \A k \in 1..n : free[k] \in Index
  BY <1>2, <1>4
<1> HIDE DEF n
<1>6. /\ Len(SubSeq(free, 1, n)) = IF 1 <= n THEN n - 1 + 1 ELSE 0
      /\ \A k \in 1..(n - 1 + 1) : SubSeq(free, 1, n)[k] = free[1 + k - 1]
  BY <1>5, SubSeqProperties
<1>7. free' = SubSeq(free, 1, n)
  BY DEF n
<1>8. n >= 0
  BY <1>2 DEF n
<1>9. Len(free') = n /\ \A k \in 1..n : free'[k] = free[k]
  BY <1>5, <1>6, <1>7, <1>8
<1>10. \A k \in 1..n : k \in 1..Len(free)
  BY <1>3 DEF n
<1> QED BY <1>1, <1>2, <1>9, <1>10 DEF n

(* Every step of every use, exclusive or not, works on allocated elements.  *)
LEMMA AllocatedStep ==
  ASSUME TypeInv, Allocated, [Next]_vars
  PROVE  Allocated'
<1> USE Typed, NobodyAssumption DEF PCs, Working, At, Goto
<1>1. ASSUME NEW t \in Threads, NEW s \in Stations, NEW c \in Copyable, Insert(t, s, c)
      PROVE  Allocated'
  <2>1. CASE free = <<>>
    <3>1. /\ size' = size + 1 /\ free' = free /\ cur' = [cur EXCEPT ![t] = size]
          /\ pc' = [pc EXCEPT ![t] = "setData"] /\ UNCHANGED <<data, pend, views>>
      BY <1>1, <2>1 DEF Insert
    <3>2. \A u \in Threads \ {t} : pc'[u] \in Working => cur[u] \in Index /\ cur[u] < size
      BY <3>1 DEF Allocated
    <3>3. \A i \in Index : i < size => i < size'
      BY <3>1
    <3>4. \A k \in 1..Len(free) : free[k] \in Index
      OBVIOUS
    <3> QED BY <3>1, <3>2, <3>3, <3>4 DEF Allocated, hasData
  <2>2. CASE free # <<>>
    <3>1. /\ size' = size /\ free' = SubSeq(free, 1, Len(free) - 1)
          /\ cur' = [cur EXCEPT ![t] = free[Len(free)]]
          /\ pc' = [pc EXCEPT ![t] = "setData"] /\ UNCHANGED <<data, pend, views>>
      BY <1>1, <2>2 DEF Insert
    <3>2. /\ Len(free) \in 1..Len(free)
          /\ \A k \in 1..Len(free') : k \in 1..Len(free) /\ free'[k] = free[k]
      BY <2>2, <3>1, Popped
    <3> QED BY <3>1, <3>2 DEF Allocated, hasData
  <2> QED BY <2>1, <2>2
<1>2. ASSUME NEW t \in Threads, InsertSetData(t)
      PROVE  Allocated'
  BY <1>2 DEF InsertSetData, Allocated, hasData
<1>3. ASSUME NEW t \in Threads, InsertSetCallbacks(t) \/ InsertAddData(t)
      PROVE  Allocated'
  <2>1. /\ UNCHANGED <<size, data, free, cur, views, pend>> /\ pc[t] \in Working
        /\ \E label \in PCs : pc' = [pc EXCEPT ![t] = label]
    BY <1>3 DEF InsertSetCallbacks, InsertAddData
  <2> QED BY <2>1 DEF Allocated, hasData
<1>4. ASSUME NEW t \in Threads, InsertLock(t)
      PROVE  Allocated'
  BY <1>4 DEF InsertLock, Allocated, hasData
<1>5. ASSUME NEW t \in Threads, NEW kind, NEW s, NEW list, NEW matches,
             Collect(t, kind, s, list, matches)
      PROVE  Allocated'
  BY <1>5 DEF Collect, getIndexListUnlocked, Allocated, hasData, dbVars
<1>6. ASSUME NEW t \in Threads, GetLock(t)
      PROVE  Allocated'
  BY <1>6 DEF GetLock, Allocated, hasData
<1>7. ASSUME NEW t \in Threads, GetValidate(t)
      PROVE  Allocated'
  <2>1. /\ UNCHANGED <<size, data, free, pend>> /\ pc[t] \in Working /\ cur[t] \in Index
        /\ \/ /\ hasData(cur[t]) /\ views' = [views EXCEPT ![t] = @ \cup {cur[t]}]
              /\ pc' = [pc EXCEPT ![t] = "get"] /\ cur' = [cur EXCEPT ![t] = None]
           \/ pc' = [pc EXCEPT ![t] = "drop"] /\ UNCHANGED <<views, cur>>
    BY <1>7 DEF GetValidate, dbVars
  <2>2. CASE pc' = [pc EXCEPT ![t] = "drop"] /\ UNCHANGED <<views, cur>>
    BY <2>1, <2>2 DEF Allocated, hasData
  <2>3. CASE /\ hasData(cur[t]) /\ views' = [views EXCEPT ![t] = @ \cup {cur[t]}]
             /\ pc' = [pc EXCEPT ![t] = "get"] /\ cur' = [cur EXCEPT ![t] = None]
    BY <2>1, <2>3 DEF Allocated, hasData
  <2> QED BY <2>1, <2>2, <2>3
<1>8. ASSUME NEW t \in Threads, GetDrop(t)
      PROVE  Allocated'
  BY <1>8 DEF GetDrop, Allocated, hasData
<1>9. ASSUME NEW t \in Threads, GetReturn(t)
      PROVE  Allocated'
  BY <1>9 DEF GetReturn, Allocated, hasData, dbVars
<1>10. ASSUME NEW t \in Threads, NEW i \in Index, Release(t, i)
       PROVE  Allocated'
  <2>1. /\ UNCHANGED <<size, data, free, cur, pend>>
        /\ \A u \in Threads : views'[u] \subseteq views[u] /\ (pc'[u] \in Working => pc'[u] = pc[u])
    BY <1>10 DEF Release, CloseView
  <2> QED BY <2>1 DEF Allocated, hasData
<1>11. ASSUME NEW t \in Threads, NEW i \in Index, Remove(t, i)
       PROVE  Allocated'
  BY <1>11 DEF Remove, Allocated, hasData
<1>12. ASSUME NEW t \in Threads, RemoveEraseData(t) \/ RemoveClearData(t)
       PROVE  Allocated'
  <2>1. /\ UNCHANGED <<size, free, cur, views, pend>> /\ pc[t] \in Working
        /\ data' = [data EXCEPT ![cur[t]] = None]
        /\ \E label \in PCs : pc' = [pc EXCEPT ![t] = label]
    BY <1>12 DEF RemoveEraseData, RemoveClearData
  <2>2. \A i \in Index : hasData(i)' => hasData(i)
    BY <2>1 DEF hasData
  <2> QED BY <2>1, <2>2 DEF Allocated
<1>13. ASSUME NEW t \in Threads, RemovePushFree(t)
       PROVE  Allocated'
  <2>1. free' = Append(free, cur[t]) /\ cur[t] \in Index /\ cur[t] < size
    BY <1>13 DEF RemovePushFree, Allocated
  <2>2. \A k \in 1..Len(free') : free'[k] = cur[t] \/ (k \in 1..Len(free) /\ free'[k] = free[k])
    BY <2>1
  <2> QED BY <1>13, <2>1, <2>2 DEF RemovePushFree, Allocated, hasData
<1>14. ASSUME NEW t \in Threads, RemoveUnlock(t)
       PROVE  Allocated'
  BY <1>14 DEF RemoveUnlock, CloseView, Allocated, hasData
<1>15. ASSUME NEW t \in Threads, NEW i \in Index, NEW s \in Stations, NEW c \in Copyable,
             Modify(t, i, s, c)
       PROVE  Allocated'
  BY <1>15 DEF Modify, thrVars, Allocated, hasData
<1>16. ASSUME UNCHANGED vars
       PROVE  Allocated'
  BY <1>16 DEF vars, dbVars, thrVars, Allocated, hasData
<1> QED
  BY <1>1, <1>2, <1>3, <1>4, <1>5, <1>6, <1>7, <1>8, <1>9, <1>10, <1>11, <1>12, <1>13,
     <1>14, <1>15, <1>16
  DEF Next, Step, Call, NoMoreCalls, Ended, GetLatest, GetStation, GetIndex, byIndex, byRange

(* A thread that removes an element has it to itself, and no thread is      *)
(* inserting.                                                               *)
LEMMA RemovesAlone ==
  ASSUME TypeInv, ViewInv, Alone, NEW t \in Threads, pc[t] \in Removing
  PROVE  \A u \in Threads \ {t} : /\ pc[u] \notin Inserting
                                  /\ cur[t] \notin views[u]
                                  /\ pc[u] \in Removing => cur[u] # cur[t]
<1>1. ASSUME NEW u \in Threads \ {t}
      PROVE  pc[u] \notin Inserting
  BY DEF Alone, Removing
<1>2. cur[t] \in Index /\ cur[t] \in views[t]
  BY Typed DEF ViewInv, Removing, Working, PCs
<1>3. holder[cur[t]] = t
  BY <1>2 DEF ViewInv, ViewsOwnElements
<1>4. ASSUME NEW u \in Threads \ {t}
      PROVE  cur[t] \notin views[u]
  BY <1>2, <1>3 DEF ViewInv, ViewsOwnElements
<1> QED BY <1>1, <1>4 DEF ViewInv

(* A thread that inserts has the database to itself.                        *)
LEMMA InsertsAlone ==
  ASSUME ViewInv, Alone, NEW t \in Threads, pc[t] \in Inserting
  PROVE  /\ views[t] = {}
         /\ \A u \in Threads \ {t} : pc[u] = "idle" /\ views[u] = {}
BY DEF ViewInv, Alone, BeforeView, Inserting

(* A step of thread t that neither fills nor frees an element keeps what is *)
(* known of them, when it is true of what t does next.                      *)
LEMMA FreeKept ==
  ASSUME TypeInv, FreeInv, NEW t \in Threads,
         size' = size, free' = free, hooked' = hooked,
         \A i \in Index : hasData(i)' <=> hasData(i),
         \A u \in Threads \ {t} : /\ pc'[u] = pc[u] /\ cur'[u] = cur[u]
                                  /\ msg'[u] = msg[u] /\ views'[u] = views[u],
         pc[t] \notin {"setData", "setCallbacks", "pushFree"},
         pc'[t] \notin {"setData", "pushFree"},
         pc'[t] \in Working => cur'[t] \in Index,
         pc'[t] \in {"clearData", "unlock"} => ~hasData(cur'[t]),
         pc'[t] \in {"setCallbacks", "addData", "lockInserted", "eraseData"} => hasData(cur'[t]),
         \A i \in views'[t] : i \in Index /\ (hasData(i) \/ (pc'[t] \in Removing /\ i = cur'[t]))
  PROVE  FreeInv'
<1>0. /\ \A u \in Threads : pc[u] \in Working => cur[u] \in Index
      /\ \A u \in Threads : views[u] \subseteq Index
  BY Typed
<1> DEFINE Good(u, p, c, m, v) ==
             /\ p = "setData" => m # None
             /\ p \in {"setData", "pushFree"} => ~Freed(c)
             /\ p \in {"setData", "pushFree", "clearData", "unlock"} => data[c] = None
             /\ p \in {"setCallbacks", "addData", "lockInserted", "eraseData"} => data[c] # None
             /\ \A i \in v : data[i] # None \/ (p \in Removing /\ i = c)
<1>1. \A u \in Threads : Good(u, pc[u], cur[u], msg[u], views[u])
  BY DEF FreeInv, hasData
<1>2. \A i \in Index : data'[i] # None <=> data[i] # None
  BY DEF hasData
<1>3. \A u \in Threads : Good(u, pc'[u], cur'[u], msg'[u], views'[u])
  <2>1. Good(t, pc'[t], cur'[t], msg'[t], views'[t])
    BY DEF hasData
  <2>2. ASSUME NEW u \in Threads \ {t}
        PROVE  Good(u, pc'[u], cur'[u], msg'[u], views'[u])
    BY <1>1
  <2> HIDE DEF Good
  <2> QED BY <2>1, <2>2
<1>4. /\ \A u \in Threads : pc'[u] \in Working => cur'[u] \in Index
      /\ \A u \in Threads : views'[u] \subseteq Index
  BY <1>0
<1>5. \A u \in Threads :
        /\ pc'[u] = "setData" => msg'[u] # None
        /\ pc'[u] \in {"setData", "pushFree"} => ~Freed(cur[u])'
        /\ pc'[u] \in {"setData", "pushFree", "clearData", "unlock"} => ~hasData(cur[u])'
        /\ pc'[u] \in {"setCallbacks", "addData", "lockInserted", "eraseData"} => hasData(cur[u])'
        /\ \A i \in views'[u] : hasData(i)' \/ (pc'[u] \in Removing /\ i = cur'[u])
  BY <1>2, <1>3, <1>4 DEF Freed, hasData, Working, PCs
<1>6. \A j, k \in 1..Len(free') : free'[j] = free'[k] => j = k
  BY DEF FreeInv
<1>7. \A i \in Index : Freed(i)' => ~hasData(i)'
  BY <1>2 DEF FreeInv, Freed, hasData
<1>8. ASSUME NEW i \in Index, i < size'
      PROVE  /\ \/ hasData(i)' \/ Freed(i)'
                \/ \E u \in Threads : cur'[u] = i /\ pc'[u] \in {"setData", "pushFree"}
             /\ \/ i \in hooked'
                \/ \E u \in Threads : cur'[u] = i /\ pc'[u] \in {"setData", "setCallbacks"}
  BY <1>2, <1>8 DEF FreeInv, Freed, hasData
<1> QED BY <1>5, <1>6, <1>7, <1>8 DEF FreeInv

(* Insert takes an element that is neither free any more nor filled yet.    *)
LEMMA FreeInsert ==
  ASSUME InsertsExclusive, TypeInv, ViewInv, Alone, Allocated, FreeInv,
         NEW t \in Threads, NEW s \in Stations, NEW c \in Copyable, Insert(t, s, c)
  PROVE  FreeInv'
<1>0. /\ pc \in [Threads -> PCs] /\ cur \in [Threads -> Index \cup {None}]
      /\ msg \in [Threads -> Message \cup {None}] /\ free \in Seq(Index) /\ size \in Nat
      /\ size' \in 0..MaxOps /\ Index \subseteq Nat
  BY Typed, TypeStep, IndexAssumption, MaxOpsAssumption DEF Next, Call, TypeInv, TypeOK
<1>1. /\ pc[t] = "idle"
      /\ \A u \in Threads : pc[u] = "idle" /\ views[u] = {}
  <2>1. pc[t] = "idle" /\ \A u \in Threads \ {t} : pc[u] = "idle"
    BY <1>0, StartsAlone DEF Insert, OpKinds
  <2> QED BY <2>1 DEF ViewInv, BeforeView
<1>2. /\ pc' = [pc EXCEPT ![t] = "setData"]
      /\ UNCHANGED <<data, hooked, views>>
  BY <1>1 DEF Insert, Goto
<1>3. msg'[t] # None
  <2>1. [seq |-> MaxOps - ops + 1, station |-> s, copyable |-> c] \in Message
    BY MaxOpsAssumption DEF Insert, StartCall, Message, TypeInv, TypeOK
  <2> QED BY <1>0, <2>1, NobodyAssumption DEF Insert
<1>4. ASSUME NEW new \in Index, cur' = [cur EXCEPT ![t] = new], ~hasData(new),
             \A i \in Index : i < size' => i < size \/ i = new,
             \A i \in Index : Freed(i)' <=> Freed(i) /\ i # new,
             \A j, k \in 1..Len(free') : free'[j] = free'[k] => j = k
      PROVE  FreeInv'
  <2>1. \A u \in Threads : (pc'[u] = "setData" /\ cur'[u] = new /\ u = t) \/ pc'[u] = "idle"
    BY <1>0, <1>1, <1>2, <1>4
  <2>2. pc'[t] = "setData" /\ cur'[t] = new /\ ~Freed(cur[t])'
    BY <1>0, <1>2, <1>4 DEF Freed
  <2>3. \A i \in Index :
          /\ Freed(i)' => ~hasData(i)'
          /\ i < size' =>
               /\ \/ hasData(i)' \/ Freed(i)'
                  \/ \E u \in Threads : cur'[u] = i /\ pc'[u] \in {"setData", "pushFree"}
               /\ \/ i \in hooked'
                  \/ \E u \in Threads : cur'[u] = i /\ pc'[u] \in {"setData", "setCallbacks"}
    BY <1>1, <1>2, <1>4, <2>2 DEF FreeInv, hasData
  <2>4. \A u \in Threads : views'[u] = {}
    BY <1>1, <1>2
  <2>5. ASSUME NEW u \in Threads
        PROVE  /\ pc'[u] = "setData" => msg'[u] # None
               /\ pc'[u] \in {"setData", "pushFree"} => ~Freed(cur[u])'
               /\ pc'[u] \in {"setData", "pushFree", "clearData", "unlock"} => ~hasData(cur[u])'
               /\ pc'[u] \in {"setCallbacks", "addData", "lockInserted", "eraseData"} => hasData(cur[u])'
               /\ \A i \in views'[u] : hasData(i)' \/ (pc'[u] \in Removing /\ i = cur'[u])
    <3>1. CASE u = t
      BY <1>2, <1>3, <1>4, <2>2, <2>4, <3>1 DEF hasData
    <3>2. CASE u # t
      BY <2>1, <2>4, <3>2
    <3> QED BY <3>1, <3>2
  <2> QED BY <1>4, <2>3, <2>5 DEF FreeInv
<1>5. CASE free = <<>>
  <2>1. /\ size' = size + 1 /\ free' = free /\ cur' = [cur EXCEPT ![t] = size]
    BY <1>5 DEF Insert
  <2>2. size \in Index
    BY <1>0, <2>1, IndexAssumption, MaxOpsAssumption
  <2>3. ~hasData(size)
    BY <1>0, <2>2 DEF Allocated
  <2>4. \A i \in Index : i < size' => i < size \/ i = size
    BY <1>0, <2>1
  <2>5. \A i : ~Freed(i) /\ ~Freed(i)'
    BY <1>5, <2>1 DEF Freed
  <2>6. \A j, k \in 1..Len(free') : free'[j] = free'[k] => j = k
    BY <2>1 DEF FreeInv
  <2> QED BY <1>4, <2>1, <2>2, <2>3, <2>4, <2>5, <2>6
<1>6. CASE free # <<>>
  <2> DEFINE new == free[Len(free)]
  <2>1. /\ size' = size /\ free' = SubSeq(free, 1, Len(free) - 1)
        /\ cur' = [cur EXCEPT ![t] = new]
    BY <1>6 DEF Insert
  <2>2. /\ Len(free) \in 1..Len(free) /\ new \in Index
        /\ Len(free') = Len(free) - 1
        /\ \A k \in 1..Len(free') : k \in 1..Len(free) /\ free'[k] = free[k]
    BY <1>6, <2>1, Popped
  <2>3. ~hasData(new)
    BY <2>2 DEF FreeInv, Freed
  <2>4. ASSUME NEW i \in Index
        PROVE  Freed(i)' <=> Freed(i) /\ i # new
    <3>1. ASSUME NEW k \in 1..Len(free'), free'[k] = i
          PROVE  Freed(i) /\ i # new
      <4>1. k \in 1..Len(free) /\ free[k] = i /\ k # Len(free)
        BY <2>2, <3>1
      <4> QED BY <2>2, <4>1 DEF FreeInv, Freed
    <3>2. ASSUME NEW k \in 1..Len(free), free[k] = i, i # new
          PROVE  Freed(i)'
      <4>1. k # Len(free)
        BY <3>2
      <4>2. k \in 1..Len(free')
        BY <2>2, <4>1
      <4> QED BY <2>2, <3>2, <4>2 DEF Freed
    <3> QED BY <3>1, <3>2 DEF Freed
  <2>5. \A j, k \in 1..Len(free') : free'[j] = free'[k] => j = k
    BY <2>2 DEF FreeInv
  <2> HIDE DEF new
  <2> QED BY <1>4, <2>1, <2>2, <2>3, <2>4, <2>5
<1> QED BY <1>5, <1>6

(* The new element gets its message and its callbacks.                      *)
LEMMA FreeFill ==
  ASSUME TypeInv, ViewInv, Alone, FreeInv, NEW t \in Threads,
         InsertSetData(t) \/ InsertSetCallbacks(t)
  PROVE  FreeInv'
<1>0. /\ pc \in [Threads -> PCs] /\ cur[t] \in Index
      /\ data \in [Index -> Message \cup {None}] /\ hooked \subseteq Index
  BY Typed DEF InsertSetData, InsertSetCallbacks, At, Working, PCs
<1>1. /\ views[t] = {}
      /\ \A u \in Threads \ {t} : pc[u] = "idle" /\ views[u] = {}
  BY InsertsAlone DEF InsertSetData, InsertSetCallbacks, At, Inserting
<1>2. /\ UNCHANGED <<size, free, cur, msg, views>>
      /\ \A u \in Threads \ {t} : pc'[u] = "idle"
  BY <1>0, <1>1 DEF InsertSetData, InsertSetCallbacks, Goto
<1>3. \A i : Freed(i)' <=> Freed(i)
  BY <1>2 DEF Freed
<1>4. CASE InsertSetData(t)
  <2>1. /\ pc[t] = "setData" /\ pc'[t] = "setCallbacks" /\ hooked' = hooked
        /\ data'[cur[t]] = msg[t] /\ msg[t] # None /\ ~Freed(cur[t])
        /\ \A i \in Index \ {cur[t]} : data'[i] = data[i]
    BY <1>0, <1>4 DEF InsertSetData, At, Goto, FreeInv
  <2> QED BY <1>0, <1>1, <1>2, <1>3, <2>1 DEF FreeInv, hasData
<1>5. CASE InsertSetCallbacks(t)
  <2>1. /\ pc[t] = "setCallbacks" /\ pc'[t] = "addData" /\ hooked' = hooked \cup {cur[t]}
        /\ data' = data
    BY <1>0, <1>5 DEF InsertSetCallbacks, At, Goto
  <2> QED BY <1>0, <1>1, <1>2, <1>3, <2>1 DEF FreeInv, hasData
<1> QED BY <1>4, <1>5

(* A removed element loses its message before it becomes free.              *)
LEMMA FreeErase ==
  ASSUME TypeInv, ViewInv, Alone, FreeInv, NEW t \in Threads, RemoveEraseData(t)
  PROVE  FreeInv'
<1>0. /\ pc \in [Threads -> PCs] /\ cur[t] \in Index
      /\ data \in [Index -> Message \cup {None}]
      /\ \A u \in Threads : views[u] \subseteq Index
      /\ \A u \in Threads : pc[u] \in Working => cur[u] \in Index
  BY Typed DEF RemoveEraseData, At, Working, PCs
<1>1. \A u \in Threads \ {t} : /\ pc[u] \notin Inserting
                               /\ cur[t] \notin views[u]
                               /\ pc[u] \in Removing => cur[u] # cur[t]
  BY RemovesAlone DEF RemoveEraseData, At, Removing
<1>2. /\ pc[t] = "eraseData" /\ pc'[t] = "pushFree" /\ data'[cur[t]] = None
      /\ \A i \in Index \ {cur[t]} : data'[i] = data[i]
      /\ \A u \in Threads \ {t} : pc'[u] = pc[u]
      /\ UNCHANGED <<size, free, hooked, cur, msg, views>>
  BY <1>0 DEF RemoveEraseData, At, Goto
<1>3. \A i : Freed(i)' <=> Freed(i)
  BY <1>2 DEF Freed
<1>4. ~Freed(cur[t])
  BY <1>0, <1>2 DEF FreeInv, hasData
<1>5. ASSUME NEW u \in Threads
      PROVE  /\ pc'[u] = "setData" => msg'[u] # None
             /\ pc'[u] \in {"setData", "pushFree"} => ~Freed(cur[u])'
             /\ pc'[u] \in {"setData", "pushFree", "clearData", "unlock"} => ~hasData(cur[u])'
             /\ pc'[u] \in {"setCallbacks", "addData", "lockInserted", "eraseData"} => hasData(cur[u])'
             /\ \A i \in views'[u] : hasData(i)' \/ (pc'[u] \in Removing /\ i = cur'[u])
  <2>1. CASE u = t
    BY <1>0, <1>2, <1>3, <1>4, <2>1 DEF FreeInv, hasData, Removing, Freed
  <2>2. CASE u # t
    BY <1>0, <1>1, <1>2, <1>3, <2>2 DEF FreeInv, hasData, Removing, Inserting, Working, PCs, Freed
  <2> QED BY <2>1, <2>2
<1>6. \A i \in Index :
        /\ Freed(i)' => ~hasData(i)'
        /\ i < size' =>
             /\ \/ hasData(i)' \/ Freed(i)'
                \/ \E u \in Threads : cur'[u] = i /\ pc'[u] \in {"setData", "pushFree"}
             /\ \/ i \in hooked'
                \/ \E u \in Threads : cur'[u] = i /\ pc'[u] \in {"setData", "setCallbacks"}
  BY <1>0, <1>2, <1>3 DEF FreeInv, hasData
<1>7. \A j, k \in 1..Len(free') : free'[j] = free'[k] => j = k
  BY <1>2 DEF FreeInv
<1> QED BY <1>5, <1>6, <1>7 DEF FreeInv

(* Its index becomes free once.                                             *)
LEMMA FreePush ==
  ASSUME TypeInv, ViewInv, Alone, FreeInv, NEW t \in Threads, RemovePushFree(t)
  PROVE  FreeInv'
<1>0. /\ pc \in [Threads -> PCs] /\ cur[t] \in Index /\ free \in Seq(Index)
      /\ \A u \in Threads : pc[u] \in Working => cur[u] \in Index
  BY Typed DEF RemovePushFree, At, Working, PCs
<1>1. \A u \in Threads \ {t} : /\ pc[u] \notin Inserting
                               /\ pc[u] \in Removing => cur[u] # cur[t]
  BY RemovesAlone DEF RemovePushFree, At, Removing
<1>2. /\ pc[t] = "pushFree" /\ pc'[t] = "clearData" /\ free' = Append(free, cur[t])
      /\ \A u \in Threads \ {t} : pc'[u] = pc[u]
      /\ UNCHANGED <<size, data, hooked, cur, msg, views>>
  BY <1>0 DEF RemovePushFree, At, Goto
<1>3. /\ Len(free) \in Nat /\ Len(free') = Len(free) + 1
      /\ free'[Len(free) + 1] = cur[t]
      /\ \A k \in 1..Len(free) : k \in 1..Len(free') /\ free'[k] = free[k]
  BY <1>0, <1>2
<1>4. \A k \in 1..Len(free') : k \in 1..Len(free) \/ k = Len(free) + 1
  BY <1>3
<1>5. \A i : Freed(i)' <=> Freed(i) \/ i = cur[t]
  BY <1>3, <1>4 DEF Freed
<1>6. ~Freed(cur[t]) /\ ~hasData(cur[t])
  BY <1>0, <1>2 DEF FreeInv
<1>7. \A j, k \in 1..Len(free') : free'[j] = free'[k] => j = k
  BY <1>3, <1>4, <1>6 DEF FreeInv, Freed
<1>8. ASSUME NEW u \in Threads
      PROVE  /\ pc'[u] = "setData" => msg'[u] # None
             /\ pc'[u] \in {"setData", "pushFree"} => ~Freed(cur[u])'
             /\ pc'[u] \in {"setData", "pushFree", "clearData", "unlock"} => ~hasData(cur[u])'
             /\ pc'[u] \in {"setCallbacks", "addData", "lockInserted", "eraseData"} => hasData(cur[u])'
             /\ \A i \in views'[u] : hasData(i)' \/ (pc'[u] \in Removing /\ i = cur'[u])
  <2> DEFINE Good(p, c, m, v) ==
               /\ p = "setData" => m # None
               /\ p \in {"setData", "pushFree", "clearData", "unlock"} => data[c] = None
               /\ p \in {"setCallbacks", "addData", "lockInserted", "eraseData"} => data[c] # None
               /\ \A i \in v : data[i] # None \/ (p \in Removing /\ i = c)
  <2>1. Good(pc[u], cur[u], msg[u], views[u])
    BY DEF FreeInv, hasData
  <2>2. Good(pc'[u], cur'[u], msg'[u], views'[u])
    <3>1. CASE u = t
      BY <1>2, <2>1, <3>1 DEF Removing
    <3>2. CASE u # t
      BY <1>2, <2>1, <3>2
    <3> HIDE DEF Good
    <3> QED BY <3>1, <3>2
  <2>3. pc'[u] \in {"setData", "pushFree"} => ~Freed(cur[u]) /\ u # t
    BY <1>2 DEF FreeInv
  <2>4. pc'[u] \in {"setData", "pushFree"} => cur'[u] # cur[t]
    BY <1>1, <1>2, <2>3 DEF Removing, Inserting
  <2>5. pc'[u] \in {"setData", "pushFree"} => ~Freed(cur[u])'
    <3>1. pc'[u] \in {"setData", "pushFree"} =>
            \A k \in 1..Len(free') : free'[k] # cur[u]
      BY <1>2, <1>3, <1>4, <2>3, <2>4 DEF Freed
    <3> QED BY <1>2, <3>1 DEF Freed
  <2> QED BY <1>2, <2>2, <2>5 DEF hasData
<1>9. \A i \in Index :
        /\ Freed(i)' => ~hasData(i)'
        /\ i < size' =>
             /\ \/ hasData(i)' \/ Freed(i)'
                \/ \E u \in Threads : cur'[u] = i /\ pc'[u] \in {"setData", "pushFree"}
             /\ \/ i \in hooked'
                \/ \E u \in Threads : cur'[u] = i /\ pc'[u] \in {"setData", "setCallbacks"}
  BY <1>0, <1>2, <1>5, <1>6 DEF FreeInv, hasData
<1> QED BY <1>7, <1>8, <1>9 DEF FreeInv

(* Every step keeps the free list exact and the views filled.               *)
LEMMA FreeStep ==
  ASSUME InsertsExclusive, TypeInv, ViewInv, Alone, Allocated, FreeInv, [Next]_vars
  PROVE  FreeInv'
<1>0. /\ pc \in [Threads -> PCs] /\ cur \in [Threads -> Index \cup {None}]
      /\ data \in [Index -> Message \cup {None}]
      /\ msg \in [Threads -> Message \cup {None}]
      /\ views \in [Threads -> SUBSET Index]
      /\ \A u \in Threads : pc[u] \in Working => cur[u] \in Index
  BY Typed
\* What is known of a thread before its step.
<1> DEFINE Good(t) == \A i \in views[t] : hasData(i) \/ (pc[t] \in Removing /\ i = cur[t])
<1>1. \A t \in Threads : Good(t)
  BY DEF FreeInv
\* A step of t whose only effect on elements is on locks and indexers.
<1> DEFINE Quiet(t) ==
             /\ UNCHANGED <<size, free, hooked>>
             /\ \A i \in Index : hasData(i)' <=> hasData(i)
             /\ \A u \in Threads \ {t} : /\ pc'[u] = pc[u] /\ cur'[u] = cur[u]
                                         /\ msg'[u] = msg[u] /\ views'[u] = views[u]
<1>2. ASSUME NEW t \in Threads, InsertAddData(t)
      PROVE  FreeInv'
  <2>1. Quiet(t) /\ pc[t] = "addData" /\ pc'[t] = "lockInserted" /\ UNCHANGED <<cur, views>>
    BY <1>0, <1>2 DEF InsertAddData, At, Goto, hasData
  <2>2. cur[t] \in Index /\ hasData(cur[t])
    BY <1>0, <2>1 DEF FreeInv, Working, PCs
  <2> QED BY <1>0, <1>1, <2>1, <2>2, FreeKept DEF Removing
<1>3. ASSUME NEW t \in Threads, InsertLock(t)
      PROVE  FreeInv'
  <2>1. /\ Quiet(t) /\ pc[t] = "lockInserted" /\ pc'[t] = "use"
        /\ views'[t] = {cur[t]}
    BY <1>0, <1>3 DEF InsertLock, At, Goto, hasData
  <2>2. cur[t] \in Index /\ hasData(cur[t])
    BY <1>0, <2>1 DEF FreeInv, Working, PCs
  <2> QED BY <1>0, <2>1, <2>2, FreeKept DEF Working
<1>4. ASSUME NEW t \in Threads, NEW kind, NEW s, NEW list, NEW matches,
             Collect(t, kind, s, list, matches)
      PROVE  FreeInv'
  <2>1. /\ Quiet(t) /\ pc[t] = "idle" /\ pc'[t] = "get"
        /\ views'[t] = views[t]
    BY <1>0, <1>4 DEF Collect, StartCall, At, Goto, hasData, dbVars
  <2> QED BY <1>0, <1>1, <2>1, FreeKept DEF Working, Removing
<1>5. ASSUME NEW t \in Threads, GetLock(t)
      PROVE  FreeInv'
  <2>1. /\ Quiet(t) /\ pc[t] = "get" /\ pc'[t] = "validate"
        /\ views'[t] = views[t] /\ cur'[t] \in Index
    BY <1>0, <1>5, Typed DEF GetLock, At, Goto, hasData
  <2> QED BY <1>0, <1>1, <2>1, FreeKept DEF Removing
<1>6. ASSUME NEW t \in Threads, GetValidate(t)
      PROVE  FreeInv'
  <2>1. /\ Quiet(t) /\ pc[t] = "validate" /\ cur[t] \in Index
        /\ \/ pc'[t] = "get" /\ hasData(cur[t]) /\ views'[t] = views[t] \cup {cur[t]}
           \/ pc'[t] = "drop" /\ views'[t] = views[t] /\ cur'[t] = cur[t]
    BY <1>0, <1>6 DEF GetValidate, At, Goto, hasData, dbVars, Working, PCs
  <2> QED BY <1>0, <1>1, <2>1, FreeKept DEF Working, Removing
<1>7. ASSUME NEW t \in Threads, GetDrop(t)
      PROVE  FreeInv'
  <2>1. /\ Quiet(t) /\ pc[t] = "drop" /\ views'[t] = views[t]
        /\ pc'[t] = "get" \/ (pc'[t] = "drop" /\ cur'[t] = cur[t])
    BY <1>0, <1>7 DEF GetDrop, At, Goto, hasData
  <2> QED BY <1>0, <1>1, <2>1, FreeKept DEF Working, Removing
<1>8. ASSUME NEW t \in Threads, GetReturn(t)
      PROVE  FreeInv'
  <2>1. /\ Quiet(t) /\ pc[t] = "get" /\ views'[t] = views[t] /\ pc'[t] \in {"idle", "use"}
    BY <1>0, <1>8 DEF GetReturn, At, Goto, hasData, dbVars
  <2> QED BY <1>0, <1>1, <2>1, FreeKept DEF Working, Removing
<1>9. ASSUME NEW t \in Threads, NEW i \in Index, Release(t, i)
      PROVE  FreeInv'
  <2>1. /\ Quiet(t) /\ pc[t] = "use" /\ views'[t] \subseteq views[t] /\ pc'[t] \in {"idle", "use"}
    BY <1>0, <1>9 DEF Release, CloseView, At, Goto, hasData
  <2> QED BY <1>0, <1>1, <2>1, FreeKept DEF Working, Removing
<1>10. ASSUME NEW t \in Threads, NEW i \in Index, NEW s \in Stations, NEW c \in Copyable,
             Modify(t, i, s, c)
       PROVE  FreeInv'
  <2>1. [seq |-> data[i].seq, station |-> s, copyable |-> c] # None
    BY <1>0, <1>10, NobodyAssumption DEF Modify, hasData, Message
  <2>2. /\ Quiet(t) /\ pc[t] = "use" /\ pc'[t] = "use" /\ views'[t] = views[t]
    BY <1>0, <1>10, <2>1 DEF Modify, thrVars, At, hasData
  <2> QED BY <1>0, <1>1, <2>2, FreeKept DEF Working, Removing
<1>11. ASSUME NEW t \in Threads, NEW i \in Index, Remove(t, i)
       PROVE  FreeInv'
  <2>1. /\ Quiet(t) /\ pc[t] = "use" /\ i \in views[t] /\ UNCHANGED views /\ cur'[t] = i
        /\ pc'[t] = IF i \in hooked THEN "eraseData" ELSE "clearData"
    BY <1>0, <1>11 DEF Remove, At, Goto, hasData
  <2>2. hasData(i)
    BY <1>1, <2>1 DEF Removing
  <2>3. \A u \in Threads : pc[u] \notin {"setData", "setCallbacks"}
    BY <2>1 DEF Alone, Inserting
  <2>4. i \in hooked
    BY <2>1, <2>3 DEF FreeInv, Allocated
  <2> QED BY <1>0, <1>1, <2>1, <2>2, <2>4, FreeKept DEF Removing
<1>12. ASSUME NEW t \in Threads, RemoveClearData(t)
       PROVE  FreeInv'
  <2>1. /\ pc[t] = "clearData" /\ pc'[t] = "unlock" /\ UNCHANGED <<cur, views>>
        /\ cur[t] \in Index
    BY <1>0, <1>12 DEF RemoveClearData, At, Goto, Working, PCs
  <2>2. ~hasData(cur[t])
    BY <2>1 DEF FreeInv
  <2>3. Quiet(t)
    BY <1>0, <1>12, <2>2 DEF RemoveClearData, Goto, hasData
  <2> QED BY <1>0, <1>1, <2>1, <2>2, <2>3, FreeKept DEF Removing
<1>13. ASSUME NEW t \in Threads, RemoveUnlock(t)
       PROVE  FreeInv'
  <2>1. pc[t] = "unlock" /\ ~hasData(cur[t])
    BY <1>13 DEF RemoveUnlock, At, FreeInv
  <2>2. /\ Quiet(t) /\ views'[t] = views[t] \ {cur[t]} /\ pc'[t] \in {"idle", "use"}
    BY <1>0, <1>13, <2>1 DEF RemoveUnlock, UnlockThrows, CopyThrows, UpdateThrows, UpdateCalled,
            CloseView, Goto, hasData
  <2> QED BY <1>0, <1>1, <2>1, <2>2, FreeKept DEF Working, Removing
<1>14. ASSUME UNCHANGED vars
       PROVE  FreeInv'
  BY <1>14 DEF vars, dbVars, thrVars, FreeInv, Freed, hasData
<1> QED
  BY <1>2, <1>3, <1>4, <1>5, <1>6, <1>7, <1>8, <1>9, <1>10, <1>11, <1>12, <1>13, <1>14,
     FreeInsert, FreeFill, FreeErase, FreePush
  DEF Next, Step, Call, NoMoreCalls, Ended, GetLatest, GetStation, GetIndex, byIndex, byRange

-----------------------------------------------------------------------------
(* Queries by index, while nothing is inserted.                            *)

(* However the query is built, its list has the indices that its caller     *)
(* meant, as far as there can be elements.                                  *)
LEMMA QueryLists ==
  ASSUME NEW t \in Threads, byIndex(t) \/ byRange(t)
  PROVE  \E list, meant :
           /\ meant \subseteq list
           /\ Collect(t, "index", None, list, Settled \cap meant)
<1> USE UIntAssumption DEF UInts, Lengths
<1>1. CASE byIndex(t)
  <2>1. PICK i \in UInts : \E q \in setIndex(i) : GetIndex(t, q, {i})
    BY <1>1 DEF byIndex
  <2>2. PICK q \in setIndex(i) : GetIndex(t, q, {i})
    BY <2>1
  <2>3. {i} \subseteq IndexGetIndexList(q)
    BY DEF setIndex, IndexGetIndexList
  <2> QED BY <2>2, <2>3 DEF GetIndex
<1>2. ASSUME NEW first \in UInts, NEW last \in UInts, NEW q \in setRange(first, last),
             GetIndex(t, q, first..(last - 1))
      PROVE  \E list, meant :
               /\ meant \subseteq list
               /\ Collect(t, "index", None, list, Settled \cap meant)
  <2>1. first..(last - 1) \subseteq IndexGetIndexList(q)
    BY DEF setRange, IndexGetIndexList
  <2> QED BY <1>2, <2>1 DEF GetIndex
<1>3. ASSUME NEW start \in UInts, NEW length \in Lengths, NEW q \in setLength(start, length),
             GetIndex(t, q, Meant(start, length))
      PROVE  \E list, meant :
               /\ meant \subseteq list
               /\ Collect(t, "index", None, list, Settled \cap meant)
  <2>1. Meant(start, length) \subseteq IndexGetIndexList(q)
    BY LengthExact
  <2> QED BY <1>3, <2>1 DEF GetIndex
<1> QED BY <1>1, <1>2, <1>3 DEF byRange

(* A search begins with one of the three kinds of query.                    *)
LEMMA Starts ==
  ASSUME TypeInv, NEW t \in Threads, [Next]_vars, pc[t] = "idle", pc'[t] = "get"
  PROVE  \/ byIndex(t) \/ byRange(t)
         \/ \E s \in Stations : GetLatest(t, s) \/ GetStation(t, s)
<1>0. pc \in [Threads -> PCs]
  BY Typed
<1>1. pc' # pc
  OBVIOUS
<1>2. PICK u \in Threads : Step(u) \/ Call(u)
  BY <1>1 DEF Next, NoMoreCalls, Ended, vars, thrVars
<1> USE <1>0 DEF At, Goto
<1>3. \E label \in PCs : pc' = [pc EXCEPT ![u] = label]
  <2>1. CASE Step(u)
    BY <1>1, <2>1 DEF Step, InsertSetData, InsertSetCallbacks, InsertAddData, InsertLock, GetLock,
         GetValidate, GetDrop, GetReturn, Release, RemoveEraseData, RemovePushFree, RemoveClearData,
         RemoveUnlock, PCs
  <2>2. CASE Call(u)
    BY <1>1, <2>2 DEF Call, Insert, GetLatest, GetStation, byIndex, byRange, GetIndex, Collect,
         Remove, Modify, thrVars, PCs
  <2> QED BY <1>2, <2>1, <2>2
<1>4. u = t
  BY <1>3
<1>5. ~Step(t)
  BY DEF Step, InsertSetData, InsertSetCallbacks, InsertAddData, InsertLock, GetLock,
         GetValidate, GetDrop, GetReturn, Release, RemoveEraseData, RemovePushFree, RemoveClearData,
         RemoveUnlock
<1>6. \A s \in Stations, i \in Index, c \in Copyable : ~Modify(t, i, s, c)
  BY DEF Modify
<1>7. \A i \in Index : ~Remove(t, i)
  BY DEF Remove
<1>8. \A s \in Stations, c \in Copyable : ~Insert(t, s, c)
  BY DEF Insert
<1> QED BY <1>2, <1>4, <1>5, <1>6, <1>7, <1>8 DEF Call

(* A query by index begins with all matches to lock.                        *)
LEMMA IndexStarts ==
  ASSUME "index" \in Registered, TypeInv, Allocated, NEW t \in Threads, [Next]_vars,
         pc[t] = "idle", pc'[t] = "get", op'[t].kind = "index"
  PROVE  seen'[t] \subseteq pend'[t]
<1>1. byIndex(t) \/ byRange(t)
  <2>1. ASSUME NEW s \in Stations, GetLatest(t, s) \/ GetStation(t, s)
        PROVE  FALSE
    BY <2>1, Typed DEF GetLatest, GetStation, Collect, StartCall
  <2> QED BY <2>1, Starts
<1>2. PICK list, meant : /\ meant \subseteq list
                         /\ Collect(t, "index", None, list, Settled \cap meant)
  BY <1>1, QueryLists
<1>3. seen'[t] = Settled \cap meant /\ pend'[t] = getIndexListUnlocked("index", list)
  BY <1>2, Typed DEF Collect
<1> QED BY <1>2, <1>3 DEF Settled, getIndexListUnlocked, Allocated

(* A step that fills no element keeps the answers of the threads whose own  *)
(* part of the state it leaves alone.                                       *)
LEMMA AnswerKept ==
  ASSUME TypeInv, NEW kind, NEW t \in Threads, Answer(kind, t),
         \A i \in Index : hasData(i)' => hasData(i),
         op'[t] = op[t], pc'[t] = pc[t], seen'[t] = seen[t], views'[t] = views[t],
         pend'[t] = pend[t], cur'[t] = cur[t]
  PROVE  Answer(kind, t)'
<1>1. seen[t] \subseteq Index /\ (pc[t] = "drop" => cur[t] \in Index)
  BY Typed DEF Working, PCs
<1> QED BY <1>1 DEF Answer, LoopView, hasData

(* Every step keeps a view, or the intent to make one, of every match that  *)
(* is still there.                                                          *)
LEMMA AnswerStep ==
  ASSUME InsertsExclusive, TypeInv, ViewInv, Alone, NEW kind, AnswerInv(kind), [Next]_vars,
         \A t \in Threads : op[t].kind = kind /\ pc[t] = "validate" /\ hasData(cur[t]) =>
           validateElement(t, cur[t]),
         \A t \in Threads : pc[t] = "idle" /\ pc'[t] = "get" /\ op'[t].kind = kind =>
           seen'[t] \subseteq pend'[t]
  PROVE  AnswerInv(kind)'
<1>0. /\ pc \in [Threads -> PCs] /\ cur \in [Threads -> Index \cup {None}]
      /\ op \in [Threads -> OpRecord] /\ data \in [Index -> Message \cup {None}]
      /\ pend \in [Threads -> SUBSET Index] /\ views \in [Threads -> SUBSET Index]
      /\ seen \in [Threads -> SUBSET Index]
      /\ \A u \in Threads : pc[u] \in Working => cur[u] \in Index
  BY Typed
\* A step in a call of t that changes what is known of no other thread.
<1> DEFINE Mine(t) ==
             /\ \A i \in Index : hasData(i)' => hasData(i)
             /\ \A u \in Threads \ {t} :
                  /\ op'[u] = op[u] /\ pc'[u] = pc[u] /\ seen'[u] = seen[u]
                  /\ views'[u] = views[u] /\ pend'[u] = pend[u] /\ cur'[u] = cur[u]
<1>1. ASSUME NEW t \in Threads, Mine(t), Answer(kind, t)'
      PROVE  AnswerInv(kind)'
  BY <1>1, AnswerKept DEF AnswerInv
<1>2. ASSUME NEW t \in Threads, Mine(t), pc'[t] \notin {"get", "validate", "drop"}
      PROVE  AnswerInv(kind)'
  BY <1>1, <1>2 DEF Answer
<1>3. ASSUME NEW t \in Threads,
             \/ \E s \in Stations, c \in Copyable : Insert(t, s, c)
             \/ InsertSetData(t) \/ InsertSetCallbacks(t) \/ InsertAddData(t) \/ InsertLock(t)
      PROVE  AnswerInv(kind)'
  <2>1. \A u \in Threads \ {t} : pc[u] = "idle"
    <3>1. CASE \E s \in Stations, c \in Copyable : Insert(t, s, c)
      BY <3>1, StartsAlone DEF Insert, OpKinds
    <3>2. CASE ~\E s \in Stations, c \in Copyable : Insert(t, s, c)
      BY <1>3, <3>2, InsertsAlone
      DEF InsertSetData, InsertSetCallbacks, InsertAddData, InsertLock, At, Inserting
    <3> QED BY <3>1, <3>2
  <2>2. \E label \in Inserting \cup {"use"} : pc' = [pc EXCEPT ![t] = label]
    BY <1>3 DEF Insert, InsertSetData, InsertSetCallbacks, InsertAddData, InsertLock, Goto, Inserting
  <2>3. \A u \in Threads : pc'[u] \notin {"get", "validate", "drop"}
    BY <1>0, <2>1, <2>2 DEF Inserting
  <2> QED BY <2>3 DEF AnswerInv, Answer
<1>4. ASSUME NEW t \in Threads, NEW k, NEW s, NEW list, NEW matches,
             Collect(t, k, s, list, matches)
      PROVE  AnswerInv(kind)'
  <2>1. Mine(t) /\ pc[t] = "idle" /\ pc'[t] = "get"
    BY <1>0, <1>4 DEF Collect, StartCall, At, Goto, dbVars, hasData
  <2>2. op'[t].kind = kind => seen'[t] \subseteq pend'[t]
    BY <2>1
  <2> QED BY <1>1, <2>1, <2>2 DEF Answer
<1>5. ASSUME NEW t \in Threads, GetLock(t)
      PROVE  AnswerInv(kind)'
  <2>1. PICK i \in pend[t] : /\ cur' = [cur EXCEPT ![t] = i]
                             /\ pend' = [pend EXCEPT ![t] = @ \ {i}]
    BY <1>5 DEF GetLock
  <2>2. /\ pc[t] = "get" /\ pc'[t] = "validate"
        /\ UNCHANGED <<op, seen, views, data>>
    BY <1>0, <1>5 DEF GetLock, At, Goto
  <2>3. cur'[t] = i /\ pend'[t] = pend[t] \ {i}
    BY <1>0, <2>1
  <2>4. Mine(t)
    BY <1>0, <1>5, <2>1, <2>2 DEF GetLock, Goto, hasData
  <2>5. Answer(kind, t)'
    BY <2>2, <2>3 DEF AnswerInv, Answer, LoopView, hasData
  <2> QED BY <1>1, <2>4, <2>5
<1>6. ASSUME NEW t \in Threads, GetValidate(t)
      PROVE  AnswerInv(kind)'
  <2>1. /\ pc[t] = "validate" /\ UNCHANGED <<op, seen, pend, data>> /\ Mine(t)
    BY <1>0, <1>6 DEF GetValidate, At, Goto, dbVars, hasData
  <2>2. \/ pc'[t] = "get" /\ views'[t] = views[t] \cup {cur[t]}
        \/ /\ pc'[t] = "drop" /\ UNCHANGED <<views, cur>>
           /\ ~(hasData(cur[t]) /\ validateElement(t, cur[t]))
    BY <1>0, <1>6 DEF GetValidate, Goto
  <2>3. op[t].kind = kind /\ hasData(cur[t]) => validateElement(t, cur[t])
    BY <2>1
  <2>4. Answer(kind, t)'
    BY <2>1, <2>2, <2>3 DEF AnswerInv, Answer, LoopView, hasData
  <2> QED BY <1>1, <2>1, <2>4
<1>7. ASSUME NEW t \in Threads, GetDrop(t)
      PROVE  AnswerInv(kind)'
  <2>1. /\ pc[t] = "drop" /\ UNCHANGED <<op, seen, views, pend, data>> /\ Mine(t)
        /\ pc'[t] = "get" \/ (pc'[t] = "drop" /\ cur' = cur)
    BY <1>0, <1>7 DEF GetDrop, At, Goto, hasData
  <2>2. Answer(kind, t)'
    BY <2>1 DEF AnswerInv, Answer, LoopView, hasData
  <2> QED BY <1>1, <2>1, <2>2
<1>8. ASSUME NEW t \in Threads, GetReturn(t)
      PROVE  AnswerInv(kind)'
  <2>1. Mine(t) /\ pc'[t] \in {"idle", "use"}
    BY <1>0, <1>8 DEF GetReturn, Goto, dbVars, hasData
  <2> QED BY <1>2, <2>1
<1>9. ASSUME NEW t \in Threads, NEW i \in Index, Release(t, i)
       PROVE  AnswerInv(kind)'
  <2>1. Mine(t) /\ pc'[t] \in {"idle", "use"}
    BY <1>0, <1>9 DEF Release, CloseView, At, Goto, hasData
  <2> QED BY <1>2, <2>1
<1>10. ASSUME NEW t \in Threads, NEW i \in Index, NEW s \in Stations, NEW c \in Copyable,
             Modify(t, i, s, c)
       PROVE  AnswerInv(kind)'
  <2>1. Mine(t) /\ pc'[t] = "use"
    BY <1>0, <1>10 DEF Modify, At, thrVars, hasData
  <2> QED BY <1>2, <2>1
<1>11. ASSUME NEW t \in Threads, NEW i \in Index, Remove(t, i)
       PROVE  AnswerInv(kind)'
  <2>1. Mine(t) /\ pc'[t] \in {"eraseData", "clearData"}
    BY <1>0, <1>11 DEF Remove, Goto, hasData
  <2> QED BY <1>2, <2>1
<1>12. ASSUME NEW t \in Threads, RemoveEraseData(t) \/ RemovePushFree(t) \/ RemoveClearData(t)
       PROVE  AnswerInv(kind)'
  <2>1. Mine(t) /\ pc'[t] \in {"pushFree", "clearData", "unlock"}
    BY <1>0, <1>12 DEF RemoveEraseData, RemovePushFree, RemoveClearData, Goto, hasData
  <2> QED BY <1>2, <2>1
<1>13. ASSUME NEW t \in Threads, RemoveUnlock(t)
       PROVE  AnswerInv(kind)'
  <2>1. Mine(t) /\ pc'[t] \in {"idle", "use"}
    BY <1>0, <1>13 DEF RemoveUnlock, CloseView, Goto, hasData
  <2> QED BY <1>2, <2>1
<1>14. ASSUME UNCHANGED vars
       PROVE  AnswerInv(kind)'
  BY <1>14 DEF vars, dbVars, thrVars, AnswerInv, Answer, LoopView, hasData
<1> QED
  BY <1>3, <1>4, <1>5, <1>6, <1>7, <1>8, <1>9, <1>10, <1>11, <1>12, <1>13, <1>14
  DEF Next, Step, Call, NoMoreCalls, Ended, GetLatest, GetStation, GetIndex, byIndex, byRange

-----------------------------------------------------------------------------
(* The counting behind FreeListExact: when every allocated element has data *)
(* or is free, but not both, and is free once, the elements with data are   *)
(* those that are not in the free list.                                     *)
LEMMA FreeCount ==
  ASSUME TypeInv, Allocated,
         \A j, k \in 1..Len(free) : free[j] = free[k] => j = k,
         \A i \in Index : Freed(i) => ~hasData(i),
         \A i \in Index : i < size => hasData(i) \/ Freed(i)
  PROVE  count = Cardinality({i \in Index : hasData(i)})
<1> DEFINE n == Len(free)
           full == {i \in Index : hasData(i)}
           empty == {i \in Index : Freed(i)}
<1>0. /\ size \in Nat /\ free \in Seq(Index) /\ n \in Nat /\ Index \subseteq Nat
      /\ \A i \in Nat : i < size => i \in Index
  BY Typed, IndexAssumption
<1>1. free \in Bijection(1..n, empty)
  <2>1. \A k \in 1..n : free[k] \in empty
    BY <1>0 DEF Freed
  <2>2. free \in [1..n -> empty]
    BY <1>0, <2>1
  <2>3. \A i \in empty : \E k \in 1..n : free[k] = i
    BY DEF Freed
  <2> QED BY <2>2, <2>3 DEF Bijection, Injection, Surjection, IsInjective
<1>2. IsFiniteSet(empty) /\ Cardinality(empty) = n
  <2>1. IsFiniteSet(1..n) /\ Cardinality(1..n) = n
    BY <1>0, FS_Interval
  <2>2. ExistsBijection(1..n, empty)
    BY <1>1 DEF ExistsBijection
  <2> HIDE DEF n, empty
  <2> QED BY <2>1, <2>2, FS_Bijection
<1>3. full \cup empty = 0..(size - 1) /\ full \cap empty = {}
  <2>1. \A i \in full \cup empty : i \in Nat /\ i < size
    BY <1>0 DEF Allocated, Freed
  <2>2. \A i \in 0..(size - 1) : i \in full \cup empty
    BY <1>0
  <2>3. full \cap empty = {}
    OBVIOUS
  <2> HIDE DEF full, empty
  <2>4. \A i : i \in full \cup empty <=> i \in 0..(size - 1)
    BY <1>0, <2>1, <2>2
  <2> QED BY <2>3, <2>4
<1>4. IsFiniteSet(0..(size - 1)) /\ Cardinality(0..(size - 1)) = size
  <2>1. size - 1 \in Int
    BY <1>0
  <2>2. /\ IsFiniteSet(0..(size - 1))
        /\ Cardinality(0..(size - 1)) = IF 0 > size - 1 THEN 0 ELSE size - 1 - 0 + 1
    BY <2>1, FS_Interval
  <2> QED BY <1>0, <2>2
<1>5. IsFiniteSet(full)
  BY <1>3, <1>4, FS_Subset
<1>6. size = Cardinality(full) + n - Cardinality({}) /\ Cardinality(full) \in Nat
  <2> HIDE DEF full, empty, n
  <2>1. Cardinality(full \cup empty) = Cardinality(full) + Cardinality(empty) - Cardinality(full \cap empty)
    BY <1>2, <1>5, FS_Union
  <2>2. Cardinality(full) \in Nat
    BY <1>5, FS_CardinalityType
  <2> QED BY <1>2, <1>3, <1>4, <2>1, <2>2
<1>7. Cardinality({}) = 0
  BY FS_EmptySet
<1> HIDE DEF full
<1>8. count = Cardinality(full)
  BY <1>0, <1>6, <1>7 DEF count
<1> QED BY <1>8 DEF full

(* The invariant that inserts which run alone buy.                          *)
LEMMA ExclusiveInvariant ==
  ASSUME InsertsExclusive
  PROVE  Spec => [](TypeInv /\ ViewInv /\ Alone /\ Allocated /\ FreeInv)
<1> DEFINE Inv == TypeInv /\ ViewInv /\ Alone /\ Allocated /\ FreeInv
<1>1. Init => Inv
  BY TypeInit, ViewsInit, ExclusiveInit
<1>2. Inv /\ [Next]_vars => Inv'
  BY TypeStep, ViewsStep, AloneStep, AllocatedStep, FreeStep
<1>3. Spec => []Inv
  <2> HIDE DEF Inv
  <2> QED BY <1>1, <1>2, PTL DEF Spec
<1> QED BY <1>3

(* For every number of threads, stations and calls, when no insert overlaps *)
(* another call but removals, searches and edits overlap as they like:      *)
(* between calls each free index is in _freeIndices once and count() is the *)
(* number of stored messages, so that racing removals free an element once  *)
(* and lose none (Database::removeCallback, getFreeElement).                *)
THEOREM ExclusiveFreeList == InsertsExclusive => (Spec => []FreeListExact)
<1> SUFFICES ASSUME InsertsExclusive PROVE Spec => []FreeListExact
  OBVIOUS
<1>1. ASSUME TypeInv, Allocated, FreeInv, \A t \in Threads : pc[t] = "idle"
      PROVE  /\ count = Cardinality({i \in Index : hasData(i)})
             /\ \A i \in Index : (\E k \in 1..Len(free) : free[k] = i) => ~hasData(i) /\ i < size
  <2>1. \A i \in Index : i < size => hasData(i) \/ Freed(i)
    BY <1>1 DEF FreeInv
  <2>2. count = Cardinality({i \in Index : hasData(i)})
    BY <1>1, <2>1, FreeCount DEF FreeInv
  <2> QED BY <1>1, <2>2 DEF FreeInv, Freed, Allocated
<1>2. TypeInv /\ ViewInv /\ Alone /\ Allocated /\ FreeInv => FreeListExact
  BY <1>1 DEF FreeListExact
<1> QED BY <1>2, ExclusiveInvariant, PTL

(* For the same threads, when QRYIndex has its indexer: a query by index,   *)
(* however it was built, misses no message at the indices its caller meant  *)
(* that was there when it began and still is when it returns, while other   *)
(* threads remove and edit.                                                 *)
THEOREM ExclusiveIndexAnswer ==
  InsertsExclusive /\ "index" \in Registered => (Spec => []IndexAnswerComplete)
<1> SUFFICES ASSUME InsertsExclusive, "index" \in Registered
             PROVE  Spec => []IndexAnswerComplete
  OBVIOUS
<1> DEFINE Inv == TypeInv /\ ViewInv /\ Alone /\ Allocated /\ FreeInv
<1> DEFINE Answers == AnswerInv("index")
<1>1. Init => Answers
  BY ExclusiveInit
<1>2. Inv /\ Answers /\ [Next]_vars => Answers'
  <2> SUFFICES ASSUME Inv, Answers, [Next]_vars PROVE Answers'
    OBVIOUS
  <2>1. \A t \in Threads : op[t].kind = "index" => validateElement(t, cur[t])
    BY DEF validateElement
  <2> QED BY <2>1, AnswerStep, IndexStarts
<1>3. Answers => IndexAnswerComplete
  BY DEF AnswerInv, Answer, IndexAnswerComplete, Returning, At, LoopView
<1>4. Spec => []Inv
  BY ExclusiveInvariant
<1> HIDE DEF Inv, Answers
<1> QED BY <1>1, <1>2, <1>3, <1>4, PTL DEF Spec

-----------------------------------------------------------------------------
(* The plain store.                                                        *)

\* Messages are told apart by the number of the call that inserts them, and a
\* removal erases the message it was called for.
StoreInv ==
  /\ \A i \in Index : hasData(i) => data[i].seq <= MaxOps - ops
  /\ \A i, j \in Index : hasData(i) /\ hasData(j) /\ data[i].seq = data[j].seq => i = j
  /\ \A t \in Threads :
       /\ pc[t] = "setData" =>
            /\ msg[t].seq <= MaxOps - ops
            /\ \A i \in Index : hasData(i) => data[i].seq # msg[t].seq
       /\ pc[t] = "eraseData" => msg[t] = data[cur[t]]

\* A step that changes no element's message and begins or ends neither the
\* filling nor the emptying of one.
Quiet ==
  /\ data' = data
  /\ ops' = ops \/ (ops > 0 /\ ops' = ops - 1)
  /\ \A t \in Threads, label \in {"setData", "eraseData"} :
       /\ pc'[t] = label <=> pc[t] = label
       /\ pc[t] = label => cur'[t] = cur[t] /\ msg'[t] = msg[t]

\* What is known before every step.
Known == TypeInv /\ ViewInv /\ Alone /\ Allocated /\ FreeInv /\ StoreInv

(* The numbers are numbers.                                                 *)
LEMMA StoreTyped ==
  ASSUME Known
  PROVE  /\ ops \in Nat /\ MaxOps \in Nat
         /\ data \in [Index -> Message \cup {None}]
         /\ msg \in [Threads -> Message \cup {None}]
         /\ pc \in [Threads -> PCs]
         /\ cur \in [Threads -> Index \cup {None}]
         /\ \A i \in Index : hasData(i) => data[i] \in Message /\ data[i].seq \in Nat
         /\ \A t \in Threads : pc[t] = "setData" =>
              /\ cur[t] \in Index /\ ~hasData(cur[t])
              /\ msg[t] \in Message /\ msg[t].seq \in Nat
         /\ \A t \in Threads : pc[t] = "eraseData" =>
              /\ cur[t] \in Index /\ hasData(cur[t]) /\ cur[t] \in views[t]
<1>1. \A m \in Message : m.seq \in Nat
  BY MaxOpsAssumption DEF Message
<1>2. \A t \in Threads : pc[t] \in {"setData", "eraseData"} => cur[t] \in Index
  BY DEF Known, TypeInv, CurSet, Working, PCs
<1>3. \A t \in Threads : /\ pc[t] = "setData" => msg[t] # None /\ ~hasData(cur[t])
                         /\ pc[t] = "eraseData" => hasData(cur[t]) /\ cur[t] \in views[t]
  BY DEF Known, FreeInv, ViewInv, Removing
<1> QED BY <1>1, <1>2, <1>3, MaxOpsAssumption DEF Known, TypeInv, TypeOK, hasData

(* Which steps are not quiet: the first two of insert, writing through a    *)
(* view, and the first two of remove.                                       *)
LEMMA QuietSteps ==
  ASSUME Known, [Next]_vars
  PROVE  \/ Quiet
         \/ \E t \in Threads, s \in Stations, c \in Copyable : Insert(t, s, c)
         \/ \E t \in Threads : InsertSetData(t)
         \/ \E t \in Threads, i \in Index, s \in Stations, c \in Copyable : Modify(t, i, s, c)
         \/ \E t \in Threads, i \in Index : Remove(t, i)
         \/ \E t \in Threads : RemoveEraseData(t)
<1> USE StoreTyped DEF Quiet, At, Goto
<1>1. ASSUME NEW t \in Threads, InsertSetCallbacks(t) \/ InsertAddData(t) \/ InsertLock(t)
      PROVE  Quiet
  BY <1>1 DEF InsertSetCallbacks, InsertAddData, InsertLock
<1>2. ASSUME NEW t \in Threads, GetLock(t) \/ GetValidate(t) \/ GetReturn(t)
      PROVE  Quiet
  BY <1>2 DEF GetLock, GetValidate, GetReturn, dbVars
<1>3. ASSUME NEW t \in Threads, GetDrop(t)
      PROVE  Quiet
  BY <1>3 DEF GetDrop
<1>4. ASSUME NEW t \in Threads, NEW i \in Index, Release(t, i)
      PROVE  Quiet
  BY <1>4 DEF Release
<1>5. ASSUME NEW t \in Threads, NEW kind, NEW s, NEW list, NEW matches,
             Collect(t, kind, s, list, matches)
      PROVE  Quiet
  BY <1>5 DEF Collect, StartCall, dbVars
<1>6. ASSUME NEW t \in Threads, RemovePushFree(t) \/ RemoveUnlock(t)
      PROVE  Quiet
  BY <1>6 DEF RemovePushFree, RemoveUnlock
<1>7. ASSUME NEW t \in Threads, RemoveClearData(t)
      PROVE  Quiet
  <2>1. ~hasData(cur[t])
    BY <1>7 DEF RemoveClearData, Known, FreeInv
  <2>2. data' = data
    BY <1>7, <2>1 DEF RemoveClearData, hasData
  <2> QED BY <1>7, <2>2 DEF RemoveClearData
<1>8. ASSUME UNCHANGED vars
      PROVE  Quiet
  BY <1>8 DEF vars, dbVars, thrVars
<1> HIDE DEF Quiet
<1> QED
  BY <1>1, <1>2, <1>3, <1>4, <1>5, <1>6, <1>7, <1>8
  DEF Next, Step, Call, NoMoreCalls, Ended, GetLatest, GetStation, GetIndex, byIndex, byRange

(* What a removal is about, nobody else has a view of.                      *)
LEMMA ErasedIsOwn ==
  ASSUME Known, NEW t \in Threads, NEW i \in views[t], NEW u \in Threads,
         pc[u] = "eraseData", msg[u] = data[i]
  PROVE  u = t /\ cur[u] = i
<1>1. /\ cur[u] \in Index /\ hasData(cur[u]) /\ cur[u] \in views[u]
      /\ msg[u] = data[cur[u]] /\ i \in Index
  BY StoreTyped DEF Known, StoreInv, TypeInv, TypeOK
<1>2. cur[u] = i
  BY <1>1 DEF hasData, Known, StoreInv
<1>3. holder[i] = t /\ holder[i] = u
  BY <1>1, <1>2 DEF Known, ViewInv, ViewsOwnElements
<1> QED BY <1>2, <1>3

(* The elements of which a view can be removed or written have callbacks    *)
(* and a message.                                                           *)
LEMMA ViewsFilled ==
  ASSUME Known, NEW t \in Threads, pc[t] = "use", NEW i \in views[t]
  PROVE  i \in Index /\ hasData(i) /\ i \in hooked
<1>1. i \in Index /\ hasData(i) /\ i < size
  BY DEF Known, TypeInv, TypeOK, FreeInv, Allocated, Removing
<1>2. \A u \in Threads : pc[u] \notin {"setData", "setCallbacks"}
  BY DEF Known, Alone, Inserting
<1> QED BY <1>1, <1>2 DEF Known, FreeInv

(* Every step keeps messages apart.                                         *)
LEMMA StoreInvStep ==
  ASSUME InsertsExclusive, Known, [Next]_vars
  PROVE  StoreInv'
<1> USE StoreTyped
<1>1. ASSUME Quiet
      PROVE  StoreInv'
  <2>1. \A n \in Nat : n <= MaxOps - ops => n <= MaxOps - ops'
    BY <1>1 DEF Quiet
  <2> QED BY <1>1, <2>1 DEF Known, StoreInv, Quiet, hasData
<1>2. ASSUME NEW t \in Threads, NEW s \in Stations, NEW c \in Copyable, Insert(t, s, c)
      PROVE  StoreInv'
  <2>1. /\ ops > 0 /\ ops' = ops - 1 /\ data' = data
        /\ pc' = [pc EXCEPT ![t] = "setData"]
        /\ msg' = [msg EXCEPT ![t] = [seq |-> MaxOps - ops + 1, station |-> s, copyable |-> c]]
    BY <1>2 DEF Insert, StartCall, Goto
  <2>2. \A u \in Threads \ {t} : pc'[u] = "idle"
    <3>1. \A u \in Threads \ {t} : pc[u] = "idle"
      BY <1>2, StartsAlone DEF Insert, OpKinds, Known
    <3> QED BY <2>1, <3>1
  <2>3. msg'[t].seq = MaxOps - ops' /\ MaxOps - ops' = MaxOps - ops + 1 /\ pc'[t] = "setData"
    BY <2>1
  <2>4. \A i \in Index : hasData(i)' => data'[i].seq <= MaxOps - ops' /\ data'[i].seq # msg'[t].seq
    BY <2>1, <2>3 DEF Known, StoreInv, hasData
  <2>5. \A i, j \in Index : hasData(i)' /\ hasData(j)' /\ data'[i].seq = data'[j].seq => i = j
    BY <2>1 DEF Known, StoreInv, hasData
  <2>6. msg'[t].seq <= MaxOps - ops'
    BY <2>1, <2>3
  <2> QED BY <2>2, <2>3, <2>4, <2>5, <2>6 DEF StoreInv
<1>3. ASSUME NEW t \in Threads, InsertSetData(t)
      PROVE  StoreInv'
  <2>1. /\ ops' = ops /\ msg' = msg
        /\ pc[t] = "setData" /\ pc' = [pc EXCEPT ![t] = "setCallbacks"]
        /\ data' = [data EXCEPT ![cur[t]] = msg[t]]
    BY <1>3 DEF InsertSetData, At, Goto
  <2>2. \A u \in Threads : pc'[u] \notin {"setData", "eraseData"}
    <3>1. \A u \in Threads \ {t} : pc[u] = "idle"
      BY <2>1, InsertsAlone DEF Known, Inserting
    <3> QED BY <2>1, <3>1
  <2>3. \A i \in Index : hasData(i)' => \/ i = cur[t] /\ data'[i] = msg[t]
                                        \/ i # cur[t] /\ hasData(i) /\ data'[i] = data[i]
    BY <2>1 DEF hasData
  <2>4. /\ \A i \in Index : hasData(i)' => data'[i].seq <= MaxOps - ops'
        /\ \A i, j \in Index : hasData(i)' /\ hasData(j)' /\ data'[i].seq = data'[j].seq => i = j
    BY <2>1, <2>3 DEF Known, StoreInv
  <2> QED BY <2>2, <2>4 DEF StoreInv
<1>4. ASSUME NEW t \in Threads, NEW i \in Index, NEW s \in Stations, NEW c \in Copyable,
             Modify(t, i, s, c)
      PROVE  StoreInv'
  <2>1. /\ data' = [data EXCEPT ![i] = [seq |-> data[i].seq, station |-> s, copyable |-> c]]
        /\ hasData(i) /\ i \in views[t] /\ pc[t] = "use"
        /\ UNCHANGED <<ops, pc, msg, cur>>
    BY <1>4 DEF Modify, thrVars, At
  <2>2. \A j \in Index : hasData(j)' => hasData(j) /\ data'[j].seq = data[j].seq
    BY <2>1 DEF hasData
  <2>3. \A u \in Threads : pc[u] = "eraseData" => msg[u] = data[cur[u]] /\ cur[u] # i
    BY <2>1, ErasedIsOwn DEF Known, StoreInv
  <2>4. \A u \in Threads : pc[u] = "eraseData" => msg'[u] = data'[cur'[u]]
    BY <2>1, <2>3
  <2> QED BY <2>1, <2>2, <2>4 DEF Known, StoreInv
<1>5. ASSUME NEW t \in Threads, NEW i \in Index, Remove(t, i)
      PROVE  StoreInv'
  <2>1. /\ UNCHANGED <<ops, data>> /\ cur' = [cur EXCEPT ![t] = i]
        /\ msg' = [msg EXCEPT ![t] = data[i]]
        /\ \E label \in {"eraseData", "clearData"} : pc' = [pc EXCEPT ![t] = label]
    BY <1>5 DEF Remove, Goto
  <2>2. \A u \in Threads : pc'[u] = "setData" => pc[u] = "setData" /\ msg'[u] = msg[u]
    BY <2>1
  <2>3. \A u \in Threads : pc'[u] = "eraseData" => msg'[u] = data'[cur'[u]]
    BY <2>1 DEF Known, StoreInv
  <2> QED BY <2>1, <2>2, <2>3 DEF Known, StoreInv, hasData
<1>6. ASSUME NEW t \in Threads, RemoveEraseData(t)
      PROVE  StoreInv'
  <2>1. /\ UNCHANGED <<ops, msg, cur>> /\ pc[t] = "eraseData" /\ pc' = [pc EXCEPT ![t] = "pushFree"]
        /\ data' = [data EXCEPT ![cur[t]] = None]
    BY <1>6 DEF RemoveEraseData, At, Goto
  <2>2. \A i \in Index : hasData(i)' => hasData(i) /\ data'[i] = data[i]
    BY <2>1 DEF hasData
  <2>3. \A u \in Threads \ {t} : pc[u] = "eraseData" => cur[u] # cur[t]
    BY <2>1, RemovesAlone DEF Known, Removing
  <2>4. \A u \in Threads : pc'[u] = "eraseData" => msg'[u] = data'[cur'[u]]
    BY <2>1, <2>3 DEF Known, StoreInv
  <2>5. \A u \in Threads : pc'[u] = "setData" => pc[u] = "setData"
    BY <2>1
  <2> QED BY <2>1, <2>2, <2>4, <2>5 DEF Known, StoreInv
<1> QED BY <1>1, <1>2, <1>3, <1>4, <1>5, <1>6, QuietSteps

(* The empty database is the empty store.                                   *)
LEMMA StoreInit == Init => Store!Init /\ StoreInv
BY MaxOpsAssumption
DEF Init, Store!Init, Arriving, Stored, Condemned, CallsMade, StoreInv, hasData

(* Every step is a step of the store or leaves it as it is.                 *)
LEMMA StoreStep ==
  ASSUME InsertsExclusive, Known, [Next]_vars
  PROVE  [Store!Next]_(Store!storeVars)
<1> USE StoreTyped
<1>1. ASSUME Quiet
      PROVE  [Store!Next]_(Store!storeVars)
  <2>1. Arriving' = Arriving /\ Stored' = Stored
    BY <1>1 DEF Quiet, Arriving, Stored, hasData
  <2>2. Condemned' = Condemned
    BY <1>1 DEF Quiet, Condemned
  <2>3. CallsMade' = CallsMade \/ CallsMade' = CallsMade + 1
    BY <1>1 DEF Quiet, CallsMade
  <2> QED BY <2>1, <2>2, <2>3 DEF Store!Next, Store!Query, Store!storeVars
<1>2. ASSUME NEW t \in Threads, NEW s \in Stations, NEW c \in Copyable, Insert(t, s, c)
      PROVE  Store!Next
  <2> DEFINE m == [seq |-> MaxOps - ops + 1, station |-> s, copyable |-> c]
  <2>1. /\ ops > 0 /\ ops' = ops - 1 /\ data' = data
        /\ pc[t] = "idle" /\ pc' = [pc EXCEPT ![t] = "setData"]
        /\ msg' = [msg EXCEPT ![t] = m]
    BY <1>2 DEF Insert, StartCall, At, Goto
  <2>2. m \in Message /\ m.seq = CallsMade + 1
    BY <2>1 DEF Message, CallsMade, Known, TypeInv, TypeOK
  <2> HIDE DEF m
  <2>3. Arriving' = Arriving \cup {m}
    BY <2>1 DEF Arriving
  <2>4. Condemned' = Condemned
    BY <2>1 DEF Condemned
  <2>5. Stored' = Stored /\ CallsMade' = CallsMade + 1
    BY <2>1 DEF Stored, CallsMade, hasData
  <2>6. Store!Arrive(m)
    BY <2>2, <2>3, <2>4, <2>5 DEF Store!Arrive
  <2> QED BY <2>2, <2>6 DEF Store!Next
<1>3. ASSUME NEW t \in Threads, InsertSetData(t)
      PROVE  Store!Next
  <2>1. /\ ops' = ops /\ msg' = msg
        /\ pc[t] = "setData" /\ pc' = [pc EXCEPT ![t] = "setCallbacks"]
        /\ data' = [data EXCEPT ![cur[t]] = msg[t]]
    BY <1>3 DEF InsertSetData, At, Goto
  <2>2. cur[t] \in Index /\ ~hasData(cur[t]) /\ msg[t] \in Message /\ msg[t] # None
    BY <2>1, NobodyAssumption
  <2>3. \A u \in Threads \ {t} : pc[u] = "idle"
    BY <2>1, InsertsAlone DEF Known, Inserting
  <2>4. Arriving = {msg[t]} /\ Arriving' = {}
    BY <2>1, <2>3 DEF Arriving
  <2>5. Condemned' = Condemned
    BY <2>1 DEF Condemned
  <2>6. Stored' = Stored \cup {msg[t]}
    BY <2>1, <2>2 DEF Stored, hasData
  <2>7. Store!Add(msg[t])
    BY <2>1, <2>4, <2>5, <2>6 DEF Store!Add, CallsMade
  <2> QED BY <2>2, <2>7 DEF Store!Next
<1>4. ASSUME NEW t \in Threads, NEW i \in Index, NEW s \in Stations, NEW c \in Copyable,
             Modify(t, i, s, c)
      PROVE  Store!Next
  <2> DEFINE m == [seq |-> data[i].seq, station |-> s, copyable |-> c]
  <2>1. /\ data' = [data EXCEPT ![i] = m] /\ pc[t] = "use" /\ i \in views[t]
        /\ hasData(i) /\ UNCHANGED <<ops, pc, msg>>
    BY <1>4 DEF Modify, thrVars, At
  <2>2. m # None
    BY <2>1, NobodyAssumption DEF Message, hasData
  <2> HIDE DEF m
  <2>3. data[i] \in Stored /\ data[i] \in Message
    BY <2>1 DEF Stored
  <2>4. data[i] \notin Condemned
    BY <2>1, ErasedIsOwn DEF Condemned
  <2>5. \A j \in Index \ {i} : hasData(j) => data[j] # data[i]
    BY <2>1 DEF Known, StoreInv
  <2>6. Stored' = (Stored \ {data[i]}) \cup {m}
    BY <2>1, <2>2, <2>5 DEF Stored, hasData
  <2>7. Arriving' = Arriving /\ Condemned' = Condemned /\ CallsMade' = CallsMade
    BY <2>1 DEF Arriving, Condemned, CallsMade
  <2>8. m \in Message /\ m.seq = data[i].seq
    BY <2>3 DEF m, Message
  <2>9. Store!Edit(data[i], m)
    BY <2>3, <2>4, <2>6, <2>7, <2>8 DEF Store!Edit
  <2> QED BY <2>3, <2>8, <2>9 DEF Store!Next
<1>5. ASSUME NEW t \in Threads, NEW i \in Index, Remove(t, i)
      PROVE  Store!Next
  <2>1. pc[t] = "use" /\ i \in views[t]
    BY <1>5 DEF Remove, At
  <2>2. i \in hooked /\ hasData(i)
    BY <2>1, ViewsFilled
  <2>3. /\ UNCHANGED <<ops, data>> /\ msg' = [msg EXCEPT ![t] = data[i]]
        /\ pc' = [pc EXCEPT ![t] = "eraseData"]
    BY <1>5, <2>2 DEF Remove, Goto
  <2>4. data[i] \in Stored /\ data[i] \in Message /\ data[i] # None
    BY <2>2 DEF Stored, hasData
  <2>5. data[i] \notin Condemned
    BY <2>1, ErasedIsOwn DEF Condemned
  <2>6. Condemned' = Condemned \cup {data[i]}
    BY <2>1, <2>3, <2>4 DEF Condemned
  <2>7. Arriving' = Arriving /\ Stored' = Stored /\ CallsMade' = CallsMade
    BY <2>1, <2>3 DEF Arriving, Stored, CallsMade, hasData
  <2>8. Store!Condemn(data[i])
    BY <2>4, <2>5, <2>6, <2>7 DEF Store!Condemn
  <2> QED BY <2>4, <2>8 DEF Store!Next
<1>6. ASSUME NEW t \in Threads, RemoveEraseData(t)
      PROVE  Store!Next
  <2> DEFINE m == data[cur[t]]
  <2>1. /\ UNCHANGED <<ops, msg>> /\ pc[t] = "eraseData" /\ pc' = [pc EXCEPT ![t] = "pushFree"]
        /\ data' = [data EXCEPT ![cur[t]] = None]
    BY <1>6 DEF RemoveEraseData, At, Goto
  <2>2. cur[t] \in Index /\ hasData(cur[t]) /\ cur[t] \in views[t] /\ msg[t] = m /\ m \in Message
    BY <2>1 DEF Known, StoreInv
  <2>3. m \in Stored /\ m \in Condemned /\ m # None
    BY <2>1, <2>2, NobodyAssumption DEF Stored, Condemned
  <2>4. \A j \in Index \ {cur[t]} : hasData(j) => data[j] # m
    BY <2>2 DEF Known, StoreInv
  <2>5. Stored' = Stored \ {m}
    BY <2>1, <2>2, <2>4 DEF Stored, hasData
  <2>6. \A u \in Threads \ {t} : pc[u] = "eraseData" => msg[u] # m
    BY <2>2, ErasedIsOwn
  <2>7. Condemned' = Condemned \ {m}
    BY <2>1, <2>2, <2>6 DEF Condemned
  <2>8. Arriving' = Arriving /\ CallsMade' = CallsMade
    BY <2>1 DEF Arriving, CallsMade
  <2>9. Store!Erase(m)
    BY <2>3, <2>5, <2>7, <2>8 DEF Store!Erase
  <2> QED BY <2>2, <2>9 DEF Store!Next
<1> QED BY <1>1, <1>2, <1>3, <1>4, <1>5, <1>6, QuietSteps

(* What is known before every step holds throughout.                        *)
LEMMA KnownInvariant ==
  ASSUME InsertsExclusive
  PROVE  Spec => []Known
<1> DEFINE Inv == TypeInv /\ ViewInv /\ Alone /\ Allocated /\ FreeInv
<1>1. Init => StoreInv
  BY StoreInit
<1>2. Inv /\ StoreInv /\ [Next]_vars => StoreInv'
  BY StoreInvStep DEF Known
<1>3. Spec => []Inv
  BY ExclusiveInvariant
<1>4. Inv /\ StoreInv => Known
  BY DEF Known
<1> HIDE DEF Inv
<1> QED BY <1>1, <1>2, <1>3, <1>4, PTL DEF Spec

(* For every number of threads, stations and calls, when no insert overlaps *)
(* another call: the database implements the plain store, removals, edits   *)
(* and reuse of elements included.  A message that is removed through a     *)
(* view is the one that goes, it never comes back, and the element it       *)
(* leaves takes a new message without loss of another.                      *)
THEOREM ExclusiveStore == InsertsExclusive => (Spec => ImplementsStore)
<1> SUFFICES ASSUME InsertsExclusive PROVE Spec => ImplementsStore
  OBVIOUS
<1>1. Init => Store!Init
  BY StoreInit
<1>2. Known /\ [Next]_vars => [Store!Next]_(Store!storeVars)
  BY StoreStep
<1>3. Spec => []Known
  BY KnownInvariant
<1> QED BY <1>1, <1>2, <1>3, PTL DEF Spec, ImplementsStore, Store!Spec

(* For the same callers: a message disappears only in the step in which a   *)
(* thread that has a view of its element removes that very message.  The    *)
(* other place that empties an element, at the end of DBElement::clear,     *)
(* after the index was given back, finds it empty.                          *)
THEOREM ExclusiveRemovesOwn == InsertsExclusive => (Spec => RemoveDeletesItsEntry)
<1> SUFFICES ASSUME InsertsExclusive PROVE Spec => RemoveDeletesItsEntry
  OBVIOUS
<1> DEFINE Deletes == \A i \in Index : hasData(i) /\ data'[i] = None =>
             \E t \in Threads : /\ holder[i] = t /\ cur[t] = i
                                /\ msg[t] # None /\ msg[t].seq = data[i].seq
<1>1. ASSUME Known, [Next]_vars, NEW i \in Index, hasData(i), data'[i] = None
      PROVE  \E t \in Threads : /\ holder[i] = t /\ cur[t] = i
                                /\ msg[t] # None /\ msg[t].seq = data[i].seq
  <2>1. data' # data
    BY <1>1 DEF hasData
  <2>2. ASSUME NEW t \in Threads, RemoveEraseData(t)
        PROVE  \E u \in Threads : /\ holder[i] = u /\ cur[u] = i
                                  /\ msg[u] # None /\ msg[u].seq = data[i].seq
    <3>1. pc[t] = "eraseData" /\ data' = [data EXCEPT ![cur[t]] = None]
      BY <2>2 DEF RemoveEraseData, At
    <3>2. cur[t] = i
      BY <1>1, <3>1, StoreTyped DEF hasData
    <3>3. holder[i] = t
      BY <1>1, <3>1, <3>2 DEF Known, ViewInv, ViewsOwnElements, Removing
    <3>4. msg[t] = data[i]
      BY <1>1, <3>1, <3>2 DEF Known, StoreInv
    <3> QED BY <1>1, <3>2, <3>3, <3>4 DEF hasData
  <2>3. ASSUME NEW t \in Threads, InsertSetData(t)
        PROVE  FALSE
    <3>1. pc[t] = "setData" /\ data' = [data EXCEPT ![cur[t]] = msg[t]]
      BY <2>3 DEF InsertSetData, At
    <3> QED BY <1>1, <3>1, StoreTyped, NobodyAssumption DEF hasData
  <2>4. ASSUME NEW t \in Threads, NEW j \in Index, NEW s \in Stations, NEW c \in Copyable,
             Modify(t, j, s, c)
        PROVE  FALSE
    <3>1. hasData(j) /\ data' = [data EXCEPT ![j] = [seq |-> data[j].seq, station |-> s, copyable |-> c]]
      BY <2>4 DEF Modify
    <3>2. [seq |-> data[j].seq, station |-> s, copyable |-> c] \in Message
      BY <1>1, <3>1, StoreTyped DEF Message
    <3> QED BY <1>1, <3>1, <3>2, StoreTyped, NobodyAssumption DEF hasData
  <2>5. /\ \A t \in Threads, s \in Stations, c \in Copyable : ~Insert(t, s, c)
        /\ \A t \in Threads, j \in Index : ~Remove(t, j)
    BY <2>1 DEF Insert, Remove
  <2> QED BY <1>1, <2>1, <2>2, <2>3, <2>4, <2>5, QuietSteps DEF Quiet
<1>2. Known /\ [Next]_vars => Deletes
  BY <1>1
<1>3. Spec => []Known
  BY KnownInvariant
<1> HIDE DEF Deletes
<1>4. Known /\ [Next]_vars => [Deletes]_vars
  BY <1>2
<1>5. Spec => [][Deletes]_vars
  BY <1>3, <1>4, PTL DEF Spec
<1> QED BY <1>5 DEF RemoveDeletesItsEntry, Deletes

\* While insert fills and files its element, the element shows its entry.
EntryInv ==
  \A t \in Threads :
    pc[t] \in {"setCallbacks", "addData", "lockInserted"} => data[cur[t]] = msg[t]

(* While a thread is inserting, no other thread takes a step.               *)
LEMMA InsertRunsAlone ==
  ASSUME InsertsExclusive, TypeInv, ViewInv, Alone, NEW t \in Threads, pc[t] \in Inserting, [Next]_vars
  PROVE  \/ InsertSetData(t) \/ InsertSetCallbacks(t) \/ InsertAddData(t) \/ InsertLock(t)
         \/ UNCHANGED vars
<1>1. /\ op[t].kind = "insert" /\ pc[t] # "idle"
      /\ \A u \in Threads \ {t} : pc[u] = "idle"
  BY DEF Alone, Inserting
<1>2. ASSUME NEW u \in Threads, NEW kind \in OpKinds, NEW s, StartCall(u, kind, s)
      PROVE  FALSE
  BY <1>1, <1>2, StartsAlone DEF StartCall, At
<1>3. ASSUME NEW u \in Threads, Call(u)
      PROVE  FALSE
  <2>1. \A i \in Index : ~Remove(u, i) /\ \A s \in Stations, c \in Copyable : ~Modify(u, i, s, c)
    BY <1>1 DEF Remove, Modify, At, Inserting
  <2> QED BY <1>2, <1>3, <2>1
          DEF Call, Insert, GetLatest, GetStation, GetIndex, byIndex, byRange, Collect, OpKinds
<1>4. ASSUME NEW u \in Threads, Step(u)
      PROVE  InsertSetData(t) \/ InsertSetCallbacks(t) \/ InsertAddData(t) \/ InsertLock(t)
  <2>1. u = t
    BY <1>1, <1>4 DEF Step, InsertSetData, InsertSetCallbacks, InsertAddData, InsertLock, GetLock,
       GetValidate, GetDrop, GetReturn, Release, RemoveEraseData, RemovePushFree, RemoveClearData,
       RemoveUnlock, At
  <2> QED BY <1>4, <2>1 DEF Step, GetLock, GetValidate, GetDrop, GetReturn, Release,
          RemoveEraseData, RemovePushFree, RemoveClearData, RemoveUnlock, At, Inserting
<1> QED BY <1>3, <1>4 DEF Next, NoMoreCalls, Ended

(* Every step keeps the entry in its element.                               *)
LEMMA EntryStep ==
  ASSUME InsertsExclusive, Known, EntryInv, [Next]_vars
  PROVE  EntryInv'
<1>0. /\ pc \in [Threads -> PCs] /\ cur \in [Threads -> Index \cup {None}]
      /\ data \in [Index -> Message \cup {None}] /\ msg \in [Threads -> Message \cup {None}]
      /\ TypeInv /\ ViewInv /\ Alone
  BY Typed DEF Known
<1>1. ASSUME NEW t \in Threads, pc[t] \in Inserting
      PROVE  EntryInv'
  <2>1. \A u \in Threads \ {t} : pc[u] = "idle"
    BY <1>0, <1>1 DEF Alone
  <2>2. CASE InsertSetData(t)
    <3>1. /\ pc[t] = "setData" /\ pc' = [pc EXCEPT ![t] = "setCallbacks"]
          /\ UNCHANGED <<cur, msg>> /\ data' = [data EXCEPT ![cur[t]] = msg[t]]
      BY <2>2 DEF InsertSetData, At, Goto
    <3>2. cur[t] \in Index
      BY <3>1, StoreTyped
    <3> QED BY <1>0, <2>1, <3>1, <3>2 DEF EntryInv
  <2>3. CASE InsertSetCallbacks(t) \/ InsertAddData(t)
    <3>1. /\ pc[t] \in {"setCallbacks", "addData"} /\ UNCHANGED <<cur, msg, data>>
          /\ \A u \in Threads \ {t} : pc'[u] = pc[u]
      BY <1>0, <2>3 DEF InsertSetCallbacks, InsertAddData, At, Goto
    <3> QED BY <2>1, <3>1 DEF EntryInv
  <2>4. CASE InsertLock(t)
    <3>1. pc' = [pc EXCEPT ![t] = "use"]
      BY <2>4 DEF InsertLock, Goto
    <3> QED BY <1>0, <2>1, <3>1 DEF EntryInv
  <2>5. CASE UNCHANGED vars
    BY <2>5 DEF vars, dbVars, thrVars, EntryInv
  <2> QED BY <1>0, <1>1, <2>2, <2>3, <2>4, <2>5, InsertRunsAlone
<1>2. ASSUME \A t \in Threads : pc[t] \notin Inserting
      PROVE  \A t \in Threads : pc'[t] \notin {"setCallbacks", "addData", "lockInserted"}
  <2> USE <1>0, <1>2 DEF Inserting, At, Goto
  <2>1. CASE UNCHANGED vars
    BY <2>1 DEF vars, thrVars
  <2>2. ASSUME NEW t \in Threads, Step(t)
        PROVE  \E label \in {"get", "validate", "drop", "use", "idle", "pushFree", "clearData", "unlock"} :
                 pc' = [pc EXCEPT ![t] = label] \/ pc' = pc
    BY <2>2 DEF Step, InsertSetData, InsertSetCallbacks, InsertAddData, InsertLock, GetLock,
       GetValidate, GetDrop, GetReturn, Release, RemoveEraseData, RemovePushFree, RemoveClearData,
       RemoveUnlock
  <2>3. ASSUME NEW t \in Threads, Call(t)
        PROVE  \E label \in {"setData", "get", "eraseData", "clearData"} :
                 pc' = [pc EXCEPT ![t] = label] \/ pc' = pc
    BY <2>3 DEF Call, Insert, GetLatest, GetStation, GetIndex, byIndex, byRange, Collect, Remove,
       Modify, thrVars
  <2> QED BY <2>1, <2>2, <2>3 DEF Next, NoMoreCalls, Ended
<1> QED BY <1>1, <1>2 DEF EntryInv

(* For the same callers: the view that insert returns shows the entry that  *)
(* insert was called with, although the element was filled and indexed      *)
(* before it was locked.                                                    *)
THEOREM ExclusiveInsertView == InsertsExclusive => (Spec => InsertViewShowsEntry)
<1> SUFFICES ASSUME InsertsExclusive PROVE Spec => InsertViewShowsEntry
  OBVIOUS
<1> DEFINE Shows == \A t \in Threads : InsertLock(t) =>
                      hasData(cur[t]) /\ data[cur[t]].seq = msg[t].seq
<1>1. Init => EntryInv
  BY DEF Init, EntryInv
<1>2. Known /\ EntryInv /\ [Next]_vars => EntryInv'
  BY EntryStep
<1>3. Known /\ EntryInv => Shows
  BY DEF Known, FreeInv, EntryInv, InsertLock, At
<1>4. Spec => []Known
  BY KnownInvariant
<1> HIDE DEF Shows
<1>5. Spec => [][Shows]_vars
  BY <1>1, <1>2, <1>3, <1>4, PTL DEF Spec
<1> QED BY <1>5 DEF InsertViewShowsEntry, Shows

-----------------------------------------------------------------------------
(* The station id indexer, when no thread both edits and removes.          *)

\* Threads insert alone, and those that write messages remove none.
EditOrRemove ==
  InsertsExclusive /\ \A t \in Threads : ~({"modify", "remove"} \subseteq Ops[t])

\* Element i is in the hands of a thread that may have changed its station.
Edited(i) == \E t \in Threads : "modify" \in Ops[t] /\ i \in views[t]

\* Element i is being removed, and the indexers have forgotten it.
Forgotten(i) == \E t \in Threads : pc[t] = "eraseData" /\ cur[t] = i

\* A step that files every element as before.
SameFiling ==
  /\ param'.reverse = param.reverse
  /\ \A s \in Stations, i \in Index : i \in param'.map[s] <=> i \in param.map[s]
  /\ param.keys \subseteq param'.keys

\* The two maps are inverse to each other and know exactly the elements with a
\* message that an insert has filed and no removal has made them forget, under
\* the station of the message unless an editor has a view of it.
FiledInv ==
  \A j \in Index :
    /\ \A s \in Stations : j \in param.map[s] <=> param.reverse[j] = s
    /\ \A s \in Stations : j \in param.map[s] => s \in param.keys
    /\ param.reverse[j] # None <=> hasData(j) /\ ~Unindexed(j) /\ ~Forgotten(j)
    /\ param.reverse[j] # None /\ ~Edited(j) => param.reverse[j] = data[j].station

(* The empty database satisfies it.                                         *)
LEMMA FiledInit == Init => FiledInv
BY NoneAssumption DEF Init, FiledInv, ParamInit, hasData

(* What the steps below use.                                                *)
LEMMA FiledTyped ==
  ASSUME TypeInv
  PROVE  /\ param \in ParamState /\ data \in [Index -> Message \cup {None}]
         /\ pc \in [Threads -> PCs] /\ cur \in [Threads -> Index \cup {None}]
         /\ views \in [Threads -> SUBSET Index] /\ hooked \subseteq Index
         /\ \A t \in Threads : pc[t] \in Working => cur[t] \in Index
         /\ \A i \in Index : hasData(i) => data[i].station \in Stations /\ data[i].station # None
BY NoneAssumption DEF TypeInv, TypeOK, CurSet, hasData, Message

(* The element of which a thread has a view, or holds the mutex in get's    *)
(* loop, is filed when it has a message, unless the thread is removing it;  *)
(* and only that thread may have changed it.                                *)
LEMMA HeldIsFiled ==
  ASSUME Known, FiledInv, NEW t \in Threads,
         pc[t] \notin Inserting \cup Removing \cup {"idle"},
         NEW i \in views[t] \cup LoopView(t), hasData(i)
  PROVE  /\ i \in Index /\ data[i].station \in Stations
         /\ param.reverse[i] # None /\ i \in hooked
         /\ Edited(i) => "modify" \in Ops[t] /\ i \in views[t]
         /\ ~Edited(i) => /\ param.reverse[i] = data[i].station
                          /\ i \in param.map[data[i].station]
<1>0. TypeInv /\ ViewInv /\ Alone /\ Allocated /\ FreeInv
  BY DEF Known
<1>1. i \in Index /\ i < size
  BY <1>0, FiledTyped DEF LoopView, Working, PCs, Allocated
<1>2. ~Unindexed(i) /\ i \in hooked
  <2>1. \A u \in Threads : pc[u] \notin {"setData", "setCallbacks", "addData"}
    BY <1>0 DEF Alone, Inserting
  <2> QED BY <1>0, <1>1, <2>1 DEF Unindexed, FreeInv
<1>3. ASSUME NEW u \in Threads, pc[u] = "eraseData", cur[u] = i
      PROVE  FALSE
  <2>1. holder[i] = u
    BY <1>0, <1>1, <1>3 DEF ViewInv, ViewsOwnElements, Removing
  <2>2. holder[i] = t
    BY <1>0, <1>1 DEF ViewInv, ViewsOwnElements
  <2> QED BY <1>3, <2>1, <2>2 DEF Removing
<1>4. ~Forgotten(i)
  BY <1>3 DEF Forgotten
<1>5. Edited(i) => "modify" \in Ops[t] /\ i \in views[t]
  BY <1>0, <1>1 DEF Edited, ViewInv, ViewsOwnElements
<1> QED BY <1>0, <1>1, <1>2, <1>4, <1>5, FiledTyped DEF FiledInv

(* A step that begins and ends no filling and no removal keeps it.          *)
LEMMA FiledKept ==
  ASSUME FiledInv, data' = data, SameFiling,
         \A u \in Threads : views[u] \subseteq views'[u],
         \A u \in Threads, label \in {"setData", "setCallbacks", "addData", "eraseData"} :
           /\ pc'[u] = label <=> pc[u] = label
           /\ pc[u] = label => cur'[u] = cur[u]
  PROVE  FiledInv'
<1>1. \A i : (Unindexed(i)' <=> Unindexed(i)) /\ (Forgotten(i)' <=> Forgotten(i))
  BY DEF Unindexed, Forgotten
<1>2. \A i \in Index : (hasData(i)' <=> hasData(i)) /\ (Edited(i) => Edited(i)')
  BY DEF hasData, Edited
<1> QED BY <1>1, <1>2 DEF FiledInv, SameFiling

(* Destroying a view makes no indexer throw, and files the element under    *)
(* the station of its message.                                                  *)
LEMMA UnlockFiles ==
  ASSUME TypeInv, FiledInv, "station" \in Registered, NEW i \in Index,
         hasData(i) => param.reverse[i] # None /\ i \in hooked
  PROVE  /\ ~UpdateThrows(i)
         /\ UpdateIndexers(i) =>
              /\ \A j \in Index \ {i} : param'.reverse[j] = param.reverse[j]
              /\ param'.reverse[i] = IF hasData(i) THEN data[i].station ELSE param.reverse[i]
              /\ \A j \in Index, s \in Stations :
                   /\ j \in param'.map[s] <=> param'.reverse[j] = s
                   /\ j \in param'.map[s] => s \in param'.keys
<1>1. CASE ~hasData(i)
  BY <1>1 DEF UpdateThrows, UpdateIndexers, UpdateCalled, FiledInv
<1>2. CASE hasData(i)
  <2> DEFINE p == ParamUpdateData(param, data[i].station, i)
             r == param.reverse[i]
  <2>1. /\ data[i].station \in Stations /\ r # None /\ r \in Stations
        /\ param \in ParamState
        /\ \A j \in Index, s \in Stations : /\ j \in param.map[s] <=> param.reverse[j] = s
                                            /\ j \in param.map[s] => s \in param.keys
    BY <1>2, FiledTyped DEF FiledInv, ParamState
  <2>2. ~UpdateThrows(i)
    BY <1>2, <2>1 DEF UpdateThrows, ParamUpdateThrows
  <2>3. /\ p.reverse = [param.reverse EXCEPT ![i] = data[i].station]
        /\ p.keys = param.keys \cup {data[i].station}
        /\ p.map = [k \in Stations |-> (param.map[k] \ (IF k = r THEN {i} ELSE {}))
                                        \cup (IF k = data[i].station THEN {i} ELSE {})]
    BY DEF ParamUpdateData
  <2>4. UpdateIndexers(i) => param' = p
    BY <1>2 DEF UpdateIndexers, UpdateCalled
  <2> HIDE DEF p
  <2>5. p.reverse[i] = data[i].station /\ \A j \in Index \ {i} : p.reverse[j] = param.reverse[j]
    BY <2>1, <2>3 DEF ParamState
  <2>6. \A s \in Stations : i \in p.map[s] <=> s = data[i].station
    BY <2>1, <2>3
  <2>7. \A s \in Stations, j \in Index \ {i} : j \in p.map[s] <=> j \in param.map[s]
    BY <2>1, <2>3
  <2>8. \A j \in Index, s \in Stations : /\ j \in p.map[s] <=> p.reverse[j] = s
                                         /\ j \in p.map[s] => s \in p.keys
    <3>1. ASSUME NEW s \in Stations
          PROVE  /\ i \in p.map[s] <=> p.reverse[i] = s
                 /\ i \in p.map[s] => s \in p.keys
      BY <2>3, <2>5, <2>6
    <3>2. ASSUME NEW j \in Index \ {i}, NEW s \in Stations
          PROVE  /\ j \in p.map[s] <=> p.reverse[j] = s
                 /\ j \in p.map[s] => s \in p.keys
      BY <2>1, <2>3, <2>5, <2>7
    <3> SUFFICES ASSUME NEW j \in Index, NEW s \in Stations
                 PROVE  /\ j \in p.map[s] <=> p.reverse[j] = s
                        /\ j \in p.map[s] => s \in p.keys
      OBVIOUS
    <3> QED BY <3>1, <3>2
  <2> QED BY <1>2, <2>2, <2>4, <2>5, <2>8
<1> QED BY <1>1, <1>2

(* A step that destroys a view and tells the indexers keeps the invariant.  *)
LEMMA FiledUnlocked ==
  ASSUME TypeInv, FiledInv, "station" \in Registered, NEW i \in Index,
         hasData(i) => param.reverse[i] # None /\ i \in hooked,
         UpdateIndexers(i), data' = data,
         \A j \in Index \ {i} : Edited(j) => Edited(j)',
         \A u \in Threads, label \in {"setData", "setCallbacks", "addData", "eraseData"} :
           /\ pc'[u] = label <=> pc[u] = label
           /\ pc[u] = label => cur'[u] = cur[u]
  PROVE  FiledInv'
<1>1. /\ \A j \in Index \ {i} : param'.reverse[j] = param.reverse[j]
      /\ param'.reverse[i] = IF hasData(i) THEN data[i].station ELSE param.reverse[i]
      /\ \A j \in Index, s \in Stations : /\ j \in param'.map[s] <=> param'.reverse[j] = s
                                          /\ j \in param'.map[s] => s \in param'.keys
  BY UnlockFiles
<1>2. \A j : (Unindexed(j)' <=> Unindexed(j)) /\ (Forgotten(j)' <=> Forgotten(j))
  BY DEF Unindexed, Forgotten
<1>3. \A j \in Index : hasData(j)' <=> hasData(j)
  BY DEF hasData
<1>4. hasData(i) => data[i].station # None
  BY FiledTyped
<1>5. ASSUME NEW j \in Index
      PROVE  /\ param'.reverse[j] # None <=> hasData(j)' /\ ~Unindexed(j)' /\ ~Forgotten(j)'
             /\ param'.reverse[j] # None /\ ~Edited(j)' => param'.reverse[j] = data'[j].station
  <2>1. CASE j = i
    BY <1>1, <1>2, <1>3, <1>4, <2>1 DEF FiledInv
  <2>2. CASE j # i
    BY <1>1, <1>2, <1>3, <2>2 DEF FiledInv
  <2> QED BY <2>1, <2>2
<1> QED BY <1>1, <1>5 DEF FiledInv

(* A message is removed while it is filed under its own station.            *)
LEMMA RemovesFiled ==
  ASSUME EditOrRemove, "station" \in Registered, Known, FiledInv,
         NEW t \in Threads, NEW i \in Index, Remove(t, i)
  PROVE  /\ data[i].station \in Stations /\ param.reverse[i] = data[i].station
         /\ data[i].station # None /\ i \in param.map[data[i].station]
<1>0. TypeInv
  BY DEF Known
<1>1. pc[t] = "use" /\ i \in views[t] /\ "modify" \notin Ops[t]
  BY DEF Remove, At, EditOrRemove
<1>2. i \in hooked /\ hasData(i)
  BY <1>1, ViewsFilled
<1> QED BY <1>0, <1>1, <1>2, HeldIsFiled DEF Inserting, Removing

(* Every step of threads that edit or remove, but not both, keeps the       *)
(* indexer in step and ends the process nowhere.                            *)
LEMMA FiledStep ==
  ASSUME EditOrRemove, "station" \in Registered, Known, FiledInv, [Next]_vars
  PROVE  FiledInv'
<1>0. /\ TypeInv /\ ViewInv /\ Alone /\ FreeInv /\ InsertsExclusive
      /\ param \in ParamState /\ data \in [Index -> Message \cup {None}]
      /\ pc \in [Threads -> PCs] /\ cur \in [Threads -> Index \cup {None}]
      /\ views \in [Threads -> SUBSET Index]
      /\ \A t \in Threads : pc[t] \in Working => cur[t] \in Index
  BY FiledTyped DEF Known, EditOrRemove
<1>1. ASSUME NEW t \in Threads, NEW s \in Stations, NEW c \in Copyable, Insert(t, s, c)
      PROVE  FiledInv'
  <2>1. /\ pc' = [pc EXCEPT ![t] = "setData"] /\ UNCHANGED <<data, param, views>>
        /\ \A u \in Threads \ {t} : cur'[u] = cur[u]
        /\ pc[t] = "idle" /\ \A u \in Threads \ {t} : pc[u] = "idle"
    BY <1>0, <1>1, StartsAlone DEF Insert, Goto, OpKinds
  <2>2. cur'[t] \in Index /\ ~hasData(cur'[t])
    <3>1. TypeInv' /\ FreeInv'
      BY <1>0, <1>1, TypeStep, FreeInsert DEF Next, Call, Known
    <3> QED BY <1>0, <2>1, <3>1 DEF FreeInv, hasData, TypeInv, CurSet, Working, PCs
  <2>3. \A i \in Index : ~Unindexed(i) /\ ~Forgotten(i) /\ ~Forgotten(i)'
    BY <1>0, <2>1 DEF Unindexed, Forgotten
  <2>4. \A i \in Index : Unindexed(i)' <=> i = cur'[t]
    BY <1>0, <2>1 DEF Unindexed
  <2>5. \A i \in Index :
          /\ \A r \in Stations : /\ i \in param'.map[r] <=> param'.reverse[i] = r
                                /\ i \in param'.map[r] => r \in param'.keys
          /\ param'.reverse[i] # None <=> hasData(i)' /\ ~Unindexed(i)' /\ ~Forgotten(i)'
          /\ param'.reverse[i] # None /\ ~Edited(i)' => param'.reverse[i] = data'[i].station
    BY <2>1, <2>2, <2>3, <2>4 DEF FiledInv, hasData, Edited
  <2> QED BY <2>1, <2>5 DEF FiledInv
<1>2. ASSUME NEW t \in Threads, InsertSetData(t) \/ InsertSetCallbacks(t)
      PROVE  FiledInv'
  <2>1. /\ \A u \in Threads \ {t} : pc[u] = "idle"
        /\ pc[t] \in {"setData", "setCallbacks"} /\ cur[t] \in Index
    BY <1>0, <1>2, InsertsAlone DEF InsertSetData, InsertSetCallbacks, At, Inserting, Working, PCs
  <2>2. /\ UNCHANGED <<cur, param, views>>
        /\ \A i \in Index \ {cur[t]} : data'[i] = data[i]
        /\ \E label \in {"setCallbacks", "addData"} : pc' = [pc EXCEPT ![t] = label]
    BY <1>0, <1>2, <2>1 DEF InsertSetData, InsertSetCallbacks, Goto, At
  <2>3. \A i \in Index : /\ Unindexed(i) <=> i = cur[t]
                         /\ Unindexed(i)' <=> i = cur[t]
                         /\ ~Forgotten(i) /\ ~Forgotten(i)'
    BY <1>0, <2>1, <2>2 DEF Unindexed, Forgotten
  <2>4. \A i \in Index :
          /\ \A r \in Stations : /\ i \in param'.map[r] <=> param'.reverse[i] = r
                                /\ i \in param'.map[r] => r \in param'.keys
          /\ param'.reverse[i] # None <=> hasData(i)' /\ ~Unindexed(i)' /\ ~Forgotten(i)'
          /\ param'.reverse[i] # None /\ ~Edited(i)' => param'.reverse[i] = data'[i].station
    BY <2>2, <2>3 DEF FiledInv, hasData, Edited
  <2> QED BY <2>2, <2>4 DEF FiledInv
<1>3. ASSUME NEW t \in Threads, InsertAddData(t)
      PROVE  FiledInv'
  <2> DEFINE i == cur[t]
             r == data[i].station
  <2>1. /\ \A u \in Threads \ {t} : pc[u] = "idle"
        /\ pc[t] = "addData" /\ i \in Index /\ hasData(i)
    BY <1>0, <1>3, InsertsAlone DEF InsertAddData, At, Inserting, Working, PCs, FreeInv
  <2>2. /\ UNCHANGED <<cur, data, views>> /\ pc' = [pc EXCEPT ![t] = "lockInserted"]
        /\ param' = ParamAddData(param, r, i)
    BY <1>3, <2>1 DEF InsertAddData, Goto
  <2>3. \A j \in Index : /\ Unindexed(j) <=> j = i
                         /\ ~Unindexed(j)' /\ ~Forgotten(j) /\ ~Forgotten(j)'
    BY <1>0, <2>1, <2>2 DEF Unindexed, Forgotten
  <2>4. r \in Stations /\ param.reverse[i] = None /\ \A s \in Stations : i \notin param.map[s]
    BY <1>0, <2>1, <2>3, FiledTyped, NoneAssumption DEF FiledInv
  <2> HIDE DEF i, r
  <2>5. /\ param'.reverse[i] = r
        /\ \A j \in Index \ {i} : param'.reverse[j] = param.reverse[j]
        /\ \A s \in Stations : i \in param'.map[s] <=> s = r
        /\ \A s \in Stations, j \in Index \ {i} : j \in param'.map[s] <=> j \in param.map[s]
        /\ param.keys \subseteq param'.keys /\ r \in param'.keys
    BY <1>0, <2>1, <2>2, <2>4 DEF ParamAddData, ParamState
  <2>6. \A j \in Index :
          /\ \A s \in Stations : j \in param'.map[s] <=> param'.reverse[j] = s
          /\ \A s \in Stations : j \in param'.map[s] => s \in param'.keys
          /\ param'.reverse[j] # None <=> hasData(j)' /\ ~Unindexed(j)' /\ ~Forgotten(j)'
          /\ param'.reverse[j] # None /\ ~Edited(j)' => param'.reverse[j] = data'[j].station
    BY <2>1, <2>2, <2>3, <2>4, <2>5, NoneAssumption DEF FiledInv, hasData, Edited, r
  <2>7. FiledInv'
    BY <2>6 DEF FiledInv
  <2> QED BY <2>2, <2>7 DEF NoFault
<1>4. ASSUME NEW t \in Threads, InsertLock(t) \/ GetLock(t) \/ GetValidate(t) \/ GetReturn(t)
      PROVE  FiledInv'
  <2>1. InsertLock(t) => views[t] = {}
    BY <1>0 DEF InsertLock, At, ViewInv, BeforeView
  <2> QED BY <1>0, <1>4, <2>1, FiledKept
          DEF InsertLock, GetLock, GetValidate, GetReturn, At, Goto, dbVars, SameFiling
<1>5. ASSUME NEW t \in Threads, NEW kind, NEW s, NEW list, NEW matches,
             Collect(t, kind, s, list, matches)
      PROVE  FiledInv'
  BY <1>0, <1>5, FiledKept DEF Collect, StartCall, At, Goto, dbVars, SameFiling
<1>6. ASSUME NEW t \in Threads, GetDrop(t), ~UnlockThrows(cur[t])
      PROVE  FiledInv'
  <2>1. pc[t] = "drop" /\ cur[t] \in Index /\ cur[t] \in LoopView(t)
    BY <1>0, <1>6 DEF GetDrop, At, LoopView, Working, PCs
  <2>2. hasData(cur[t]) => param.reverse[cur[t]] # None /\ cur[t] \in hooked
    BY <2>1, HeldIsFiled DEF Inserting, Removing
  <2>3. ~UnlockThrows(cur[t])
    BY <1>6
  <2>4. /\ UNCHANGED <<data, views>> /\ pc' = [pc EXCEPT ![t] = "get"]
        /\ cur' = [cur EXCEPT ![t] = None] /\ UpdateIndexers(cur[t])
    BY <1>6, <2>3 DEF GetDrop, Goto
  <2>5. \A j \in Index \ {cur[t]} : Edited(j) => Edited(j)'
    BY <2>4 DEF Edited
  <2>6. FiledInv'
    BY <1>0, <2>1, <2>2, <2>4, <2>5, FiledUnlocked
  <2> QED BY <2>4, <2>6 DEF NoFault
<1>7. ASSUME NEW t \in Threads, NEW i \in Index, Release(t, i), ~UnlockThrows(i)
      PROVE  FiledInv'
  <2>1. pc[t] = "use" /\ i \in views[t]
    BY <1>7 DEF Release, At
  <2>2. hasData(i) => param.reverse[i] # None /\ i \in hooked
    BY <2>1, HeldIsFiled DEF Inserting, Removing
  <2>3. ~UnlockThrows(i)
    BY <1>7
  <2>4. /\ UNCHANGED <<data, cur>> /\ views' = [views EXCEPT ![t] = @ \ {i}]
        /\ pc' = pc \/ pc' = [pc EXCEPT ![t] = "idle"]
        /\ UpdateIndexers(i)
    BY <1>7, <2>3 DEF Release, Goto, CloseView
  <2>5. \A j \in Index \ {i} : Edited(j) => Edited(j)'
    BY <1>0, <2>4 DEF Edited
  <2>6. FiledInv'
    BY <1>0, <2>1, <2>2, <2>4, <2>5, FiledUnlocked
  <2> QED BY <2>4, <2>6 DEF NoFault
<1>8. ASSUME NEW t \in Threads, NEW i \in Index, Remove(t, i)
      PROVE  FiledInv'
  <2> DEFINE r == data[i].station
  <2>1. pc[t] = "use" /\ i \in views[t]
    BY <1>8 DEF Remove, At
  <2>2. i \in hooked /\ hasData(i)
    BY <2>1, ViewsFilled
  <2>3. r \in Stations /\ param.reverse[i] = r /\ r # None /\ i \in param.map[r]
    BY <1>8, RemovesFiled
  <2>4. /\ UNCHANGED <<data, views>> /\ pc' = [pc EXCEPT ![t] = "eraseData"]
        /\ cur' = [cur EXCEPT ![t] = i]
        /\ param' = ParamRemoveData(param, r, i)
    BY <1>8, <2>2, <2>3 DEF Remove, Goto, ParamRemoveUndefined
  <2>5. \A j \in Index : /\ Unindexed(j)' <=> Unindexed(j)
                         /\ Forgotten(j)' <=> Forgotten(j) \/ j = i
    BY <1>0, <2>1, <2>4 DEF Unindexed, Forgotten
  <2>6. r \in param.keys
    BY <2>3 DEF FiledInv
  <2> HIDE DEF r
  <2>7. /\ param'.reverse[i] = None
        /\ \A j \in Index \ {i} : param'.reverse[j] = param.reverse[j]
        /\ \A s \in Stations : i \in param'.map[s] <=> i \in param.map[s] /\ s # r
        /\ \A s \in Stations, j \in Index \ {i} : j \in param'.map[s] <=> j \in param.map[s]
        /\ param'.keys = param.keys
    BY <1>0, <2>4, <2>3, <2>6 DEF ParamRemoveData, ParamState
  <2>8. \A s \in Stations : i \notin param'.map[s]
    BY <2>3, <2>7 DEF FiledInv
  <2>9. \A j \in Index :
          /\ \A s \in Stations : j \in param'.map[s] <=> param'.reverse[j] = s
          /\ \A s \in Stations : j \in param'.map[s] => s \in param'.keys
          /\ param'.reverse[j] # None <=> hasData(j)' /\ ~Unindexed(j)' /\ ~Forgotten(j)'
          /\ param'.reverse[j] # None /\ ~Edited(j)' => param'.reverse[j] = data'[j].station
    BY <2>4, <2>5, <2>7, <2>8, NoneAssumption DEF FiledInv, hasData, Edited
  <2>10. FiledInv'
    BY <2>9 DEF FiledInv
  <2> QED BY <2>4, <2>10 DEF NoFault
<1>9. ASSUME NEW t \in Threads, RemoveEraseData(t)
      PROVE  FiledInv'
  <2>1. /\ pc[t] = "eraseData" /\ cur[t] \in Index
        /\ UNCHANGED <<param, cur, views>> /\ pc' = [pc EXCEPT ![t] = "pushFree"]
        /\ data' = [data EXCEPT ![cur[t]] = None]
    BY <1>0, <1>9 DEF RemoveEraseData, At, Goto, Working, PCs
  <2>2. /\ \A j \in Index : Unindexed(j)' <=> Unindexed(j)
        /\ \A j \in Index \ {cur[t]} : Forgotten(j)' <=> Forgotten(j)
        /\ Forgotten(cur[t])
    BY <1>0, <2>1 DEF Unindexed, Forgotten
  <2>3. /\ ~hasData(cur[t])'
        /\ \A j \in Index \ {cur[t]} : data'[j] = data[j]
    BY <1>0, <2>1 DEF hasData
  <2>4. \A j \in Index :
          /\ \A s \in Stations : j \in param'.map[s] <=> param'.reverse[j] = s
          /\ \A s \in Stations : j \in param'.map[s] => s \in param'.keys
          /\ param'.reverse[j] # None <=> hasData(j)' /\ ~Unindexed(j)' /\ ~Forgotten(j)'
          /\ param'.reverse[j] # None /\ ~Edited(j)' => param'.reverse[j] = data'[j].station
    <3>1. ASSUME NEW j \in Index \ {cur[t]}
          PROVE  /\ hasData(j)' <=> hasData(j)
                 /\ data'[j] = data[j]
      BY <2>3 DEF hasData
    <3>2. param.reverse[cur[t]] = None /\ ~hasData(cur[t])'
      BY <1>0, <2>1, <2>2, <2>3 DEF FiledInv
    <3>3. \A j : Edited(j)' <=> Edited(j)
      BY <2>1 DEF Edited
    <3>4. ASSUME NEW j \in Index
          PROVE  /\ param'.reverse[j] # None <=> hasData(j)' /\ ~Unindexed(j)' /\ ~Forgotten(j)'
                 /\ param'.reverse[j] # None /\ ~Edited(j)' => param'.reverse[j] = data'[j].station
      <4>1. CASE j = cur[t]
        BY <2>1, <3>2, <4>1
      <4>2. CASE j # cur[t]
        BY <2>1, <2>2, <3>1, <3>3, <4>2 DEF FiledInv
      <4> QED BY <4>1, <4>2
    <3> QED BY <2>1, <3>4 DEF FiledInv
  <2> QED BY <2>1, <2>4 DEF FiledInv
<1>10. ASSUME NEW t \in Threads, RemovePushFree(t)
       PROVE  FiledInv'
  BY <1>0, <1>10, FiledKept DEF RemovePushFree, At, Goto, SameFiling
<1>11. ASSUME NEW t \in Threads, RemoveClearData(t)
       PROVE  FiledInv'
  <2>1. data' = data
    BY <1>0, <1>11 DEF RemoveClearData, At, FreeInv, hasData
  <2> QED BY <1>0, <1>11, <2>1, FiledKept DEF RemoveClearData, At, Goto, SameFiling
<1>12. ASSUME NEW t \in Threads, RemoveUnlock(t)
       PROVE  FiledInv'
  <2>1. pc[t] = "unlock" /\ ~hasData(cur[t]) /\ cur[t] \in Index
    BY <1>0, <1>12 DEF RemoveUnlock, At, FreeInv, Working, PCs
  <2>2. ~UnlockThrows(cur[t])
    BY <2>1 DEF UnlockThrows, CopyThrows, UpdateThrows, UpdateCalled
  <2>3. /\ UNCHANGED <<data>> /\ cur' = [cur EXCEPT ![t] = None]
        /\ \E label \in {"idle", "use"} : pc' = [pc EXCEPT ![t] = label]
        /\ views' = [views EXCEPT ![t] = @ \ {cur[t]}]
        /\ UpdateIndexers(cur[t])
    BY <1>12, <2>2 DEF RemoveUnlock, Goto, CloseView
  <2>4. \A j \in Index \ {cur[t]} : Edited(j) => Edited(j)'
    BY <1>0, <2>3 DEF Edited
  <2>5. FiledInv'
    BY <1>0, <2>1, <2>3, <2>4, FiledUnlocked
  <2> QED BY <2>3, <2>5 DEF NoFault
<1>13. ASSUME NEW t \in Threads, NEW i \in Index, NEW s \in Stations, NEW c \in Copyable,
             Modify(t, i, s, c)
       PROVE  FiledInv'
  <2>1. /\ UNCHANGED <<param, pc, cur, views>>
        /\ hasData(i) /\ i \in views[t] /\ "modify" \in Ops[t]
        /\ data' = [data EXCEPT ![i] = [seq |-> data[i].seq, station |-> s, copyable |-> c]]
    BY <1>13 DEF Modify, thrVars
  <2>2. \A j : /\ Unindexed(j)' <=> Unindexed(j)
               /\ Forgotten(j)' <=> Forgotten(j)
               /\ Edited(j)' <=> Edited(j)
    BY <2>1 DEF Unindexed, Forgotten, Edited
  <2>3. data'[i] # None
    <3>1. [seq |-> data[i].seq, station |-> s, copyable |-> c] \in Message
      BY <1>0, <2>1, NobodyAssumption DEF hasData, Message
    <3> QED BY <1>0, <2>1, <3>1, NobodyAssumption
  <2>4. \A j \in Index : /\ hasData(j)' <=> hasData(j)
                         /\ j # i => data'[j] = data[j]
    BY <1>0, <2>1, <2>3 DEF hasData
  <2>5. Edited(i)
    BY <2>1 DEF Edited
  <2> QED BY <2>1, <2>2, <2>4, <2>5 DEF FiledInv
<1>14. ASSUME UNCHANGED <<dbVars, thrVars>>
       PROVE  FiledInv'
  BY <1>14, FiledKept DEF dbVars, thrVars, SameFiling
<1> QED
  BY <1>1, <1>2, <1>3, <1>4, <1>5, <1>6, <1>7, <1>8, <1>9, <1>10, <1>11, <1>12, <1>13, <1>14,
     ThrowingUnlock
  DEF Next, Step, Call, NoMoreCalls, Ended, GetLatest, GetStation, GetIndex, byIndex, byRange, vars

(* Destroying a view makes no indexer throw, and removing through it erases *)
(* nothing at end().                                                        *)
LEMMA ExclusiveFault ==
  ASSUME EditOrRemove, "station" \in Registered, Known, FiledInv, OnlyCopiesFault, [Next]_vars
  PROVE  OnlyCopiesFault'
<1>0. TypeInv /\ FreeInv
  BY DEF Known
<1>1. ASSUME NEW t \in Threads, At(t, "drop")
      PROVE  ~UpdateThrows(cur[t])
  <2>1. pc[t] = "drop" /\ cur[t] \in Index /\ cur[t] \in LoopView(t)
    BY <1>0, <1>1 DEF At, LoopView, TypeInv, CurSet, Working, PCs
  <2>2. hasData(cur[t]) => param.reverse[cur[t]] # None /\ cur[t] \in hooked
    BY <2>1, HeldIsFiled DEF Inserting, Removing
  <2> QED BY <1>0, <2>1, <2>2, UnlockFiles
<1>2. ASSUME NEW t \in Threads, NEW i \in views[t], At(t, "use")
      PROVE  ~UpdateThrows(i)
  <2>1. pc[t] = "use" /\ i \in Index
    BY <1>0, <1>2 DEF At, TypeInv, TypeOK
  <2>2. hasData(i) => param.reverse[i] # None /\ i \in hooked
    BY <2>1, HeldIsFiled DEF Inserting, Removing
  <2> QED BY <1>0, <2>1, <2>2, UnlockFiles
<1>3. ASSUME NEW t \in Threads, NEW i \in Index, Remove(t, i)
      PROVE  fault' = "none"
  BY <1>3, RemovesFiled DEF Remove, ParamRemoveUndefined
<1> QED BY <1>0, <1>1, <1>2, <1>3, OnlyCopiesKept

(* The invariant of threads that insert alone, search and remove.           *)
LEMMA FiledInvariant ==
  ASSUME EditOrRemove, "station" \in Registered
  PROVE  Spec => [](Known /\ FiledInv /\ OnlyCopiesFault)
<1>1. Init => FiledInv /\ OnlyCopiesFault
  BY FiledInit DEF Init, OnlyCopiesFault
<1>2. Known /\ FiledInv /\ OnlyCopiesFault /\ [Next]_vars => FiledInv' /\ OnlyCopiesFault'
  BY FiledStep, ExclusiveFault
<1>3. Spec => []Known
  BY KnownInvariant DEF EditOrRemove
<1> QED BY <1>1, <1>2, <1>3, PTL DEF Spec

(* For any number of threads that search, insert alone, and either edit or  *)
(* remove side by side, with the station id indexer: no exception of an     *)
(* indexer leaves the destructor of a view, and removeData never erases at  *)
(* end(), as it would for a message whose station the same thread had       *)
(* edited before.  Only a message that cannot be copied ends the process.   *)
THEOREM ExclusiveOnlyCopies ==
  EditOrRemove /\ "station" \in Registered => (Spec => []OnlyCopiesFault)
<1> SUFFICES ASSUME EditOrRemove, "station" \in Registered PROVE Spec => []OnlyCopiesFault
  OBVIOUS
<1> QED BY FiledInvariant, PTL

(* For the same threads the station id indexer files every element at rest  *)
(* under the station of its message, edits included, and under nothing      *)
(* else: a removal leaves no entry behind that a later insert into the      *)
(* element would find.                                                      *)
THEOREM ExclusiveStationIndex ==
  EditOrRemove /\ "station" \in Registered => (Spec => []StationIndexExact)
<1> SUFFICES ASSUME EditOrRemove, "station" \in Registered PROVE Spec => []StationIndexExact
  OBVIOUS
<1>1. ASSUME Known, FiledInv, NEW i \in Index, AtRest(i)
      PROVE  /\ param.reverse[i] = (IF hasData(i) THEN data[i].station ELSE None)
             /\ \A s \in Stations : i \in param.map[s] <=> param.reverse[i] = s
  <2>1. \A t \in Threads : i \notin views[t]
    BY <1>1, NobodyAssumption DEF Known, ViewInv, ViewsOwnElements, AtRest
  <2>2. ~Forgotten(i) /\ ~Edited(i)
    BY <1>1, <2>1 DEF Forgotten, Edited, Known, ViewInv, Removing
  <2> QED BY <1>1, <2>2 DEF FiledInv, AtRest
<1>2. Known /\ FiledInv => StationIndexExact
  BY <1>1 DEF StationIndexExact
<1> QED BY <1>2, FiledInvariant, PTL
(* A query by station begins with all matches to lock.                      *)
LEMMA StationStarts ==
  ASSUME EditOrRemove, "station" \in Registered, Known, FiledInv,
         NEW t \in Threads, [Next]_vars, pc[t] = "idle", pc'[t] = "get", op'[t].kind = "station"
  PROVE  seen'[t] \subseteq pend'[t]
<1>0. /\ TypeInv /\ ViewInv /\ Allocated
      /\ pend \in [Threads -> SUBSET Index] /\ seen \in [Threads -> SUBSET Index]
      /\ op \in [Threads -> OpRecord]
  BY Typed DEF Known
<1>1. PICK s \in Stations : GetStation(t, s)
  <2>1. ASSUME NEW s \in Stations, GetLatest(t, s)
        PROVE  FALSE
    BY <1>0, <2>1 DEF GetLatest, Collect, StartCall
  <2>2. ASSUME byIndex(t) \/ byRange(t)
        PROVE  FALSE
    <3>1. PICK list, meant : Collect(t, "index", None, list, Settled \cap meant)
      BY <2>2, QueryLists
    <3> QED BY <1>0, <3>1 DEF Collect, StartCall
  <2> QED BY <1>0, <2>1, <2>2, Starts
<1>2. /\ seen'[t] = Committed(s)
      /\ pend'[t] = getIndexListUnlocked("station", ParamGetIndexList(param, s))
  BY <1>0, <1>1 DEF GetStation, Collect
<1>3. ASSUME NEW i \in Committed(s)
      PROVE  i \in pend'[t]
  <2>1. /\ i \in Index /\ hasData(i) /\ data[i].station = s /\ holder[i] = None
        /\ \A u \in Threads : cur[u] # i
    BY DEF Committed, Settled
  <2>2. \A u \in Threads : i \notin views[u]
    BY <1>0, <2>1, NobodyAssumption DEF ViewInv, ViewsOwnElements
  <2>3. ~Unindexed(i) /\ ~Forgotten(i) /\ ~Edited(i)
    BY <2>1, <2>2 DEF Unindexed, Forgotten, Edited
  <2>4. i \in param.map[s]
    BY <2>1, <2>3 DEF FiledInv
  <2> QED BY <1>0, <1>2, <2>1, <2>4 DEF getIndexListUnlocked, ParamGetIndexList, Allocated
<1> QED BY <1>2, <1>3

(* For the same threads: a query by station misses no message of the        *)
(* station that was there when it began and still is when it returns, while *)
(* other threads remove messages and move them between stations.            *)
(* validateElement asks whether the element is filed under the station its  *)
(* message has then, and drops none that has a message.                     *)
THEOREM ExclusiveStationAnswer ==
  EditOrRemove /\ "station" \in Registered => (Spec => []StationAnswerComplete)
<1> SUFFICES ASSUME EditOrRemove, "station" \in Registered
             PROVE  Spec => []StationAnswerComplete
  OBVIOUS
<1> DEFINE Inv == Known /\ FiledInv
           Answers == AnswerInv("station")
<1>1. Init => Answers
  BY ExclusiveInit
<1>2. Inv /\ Answers /\ [Next]_vars => Answers'
  <2> SUFFICES ASSUME Inv, Answers, [Next]_vars PROVE Answers'
    OBVIOUS
  <2>1. ASSUME NEW t \in Threads, op[t].kind = "station", pc[t] = "validate", hasData(cur[t])
        PROVE  validateElement(t, cur[t])
    <3>1. cur[t] \in LoopView(t) /\ cur[t] \notin views[t]
      BY <2>1 DEF LoopView, Known, ViewInv
    <3>2. param.reverse[cur[t]] = data[cur[t]].station
      BY <2>1, <3>1, HeldIsFiled DEF Inserting, Removing
    <3> QED BY <2>1, <3>2 DEF validateElement, ParamIsValid
  <2>2. \A t \in Threads : pc[t] = "idle" /\ pc'[t] = "get" /\ op'[t].kind = "station" =>
          seen'[t] \subseteq pend'[t]
    BY StationStarts
  <2> QED BY <2>1, <2>2, AnswerStep DEF Known, EditOrRemove
<1>3. Answers => StationAnswerComplete
  BY DEF AnswerInv, Answer, StationAnswerComplete, Returning, At, LoopView
<1>4. Spec => []Inv
  BY FiledInvariant, PTL
<1> HIDE DEF Inv, Answers
<1> QED BY <1>1, <1>2, <1>3, <1>4, PTL DEF Spec

-----------------------------------------------------------------------------
(* The latest message indexer, when nobody edits.                          *)

\* Threads insert alone, search and remove.
NoEdits == InsertsExclusive /\ \A t \in Threads : "modify" \notin Ops[t]

\* The two maps are inverse to each other and point at messages of the right
\* station, none of which is about to be erased.
LatestInv ==
  /\ LatestCoherent
  /\ \A t \in Threads : pc[t] = "eraseData" => latest.ofIndex[cur[t]] = None

(* Adding or updating an element that has a message of the station keeps    *)
(* the maps inverse to each other.                                          *)
LEMMA LatestFiles ==
  ASSUME latest \in LatestState, LatestCoherent, NEW i \in Index, hasData(i),
         data[i].station \in Stations,
         NEW l \in {LatestAddData(latest, data[i].station, i),
                    LatestUpdateData(latest, data[i].station, i)}
  PROVE  /\ \A s \in Stations, j \in Index :
              /\ l.ofStation[s] = j <=> l.ofIndex[j] = s
              /\ l.ofStation[s] = j => hasData(j) /\ data[j].station = s
         /\ \A j \in Index \ {i} : latest.ofIndex[j] = None => l.ofIndex[j] = None
<1> DEFINE r == data[i].station
<1>1. /\ latest.ofStation \in [Stations -> Index \cup {None}]
      /\ latest.ofIndex \in [Index -> Stations \cup {None}]
      /\ \A s \in Stations, j \in Index :
           /\ latest.ofStation[s] = j <=> latest.ofIndex[j] = s
           /\ latest.ofStation[s] = j => hasData(j) /\ data[j].station = s
      /\ r \in Stations /\ None \notin Stations /\ None \notin Index
  BY NoneAssumption DEF LatestState, LatestCoherent
<1>2. CASE latest.ofIndex[i] # None
  <2>1. latest.ofIndex[i] = r
    BY <1>1, <1>2
  <2>2. \/ l = latest
        \/ l = [ofStation |-> [k \in Stations |-> IF k = r THEN i
                                                  ELSE IF k = latest.ofIndex[i] THEN None
                                                  ELSE latest.ofStation[k]],
                ofIndex   |-> latest.ofIndex]
    BY <1>2 DEF LatestAddData, LatestUpdateData
  <2>3. /\ l.ofIndex = latest.ofIndex
        /\ \A s \in Stations : l.ofStation[s] = latest.ofStation[s]
    BY <1>1, <2>1, <2>2
  <2> HIDE DEF r
  <2> QED BY <1>1, <2>3
<1>3. CASE latest.ofIndex[i] = None
  <2>1. l = [ofStation |-> [latest.ofStation EXCEPT ![r] = i],
             ofIndex   |-> [j \in Index |-> IF j = i THEN r
                                           ELSE IF j = latest.ofStation[r] THEN None
                                           ELSE latest.ofIndex[j]]]
    BY <1>3 DEF LatestAddData, LatestUpdateData
  <2>2. /\ l.ofStation[r] = i /\ \A s \in Stations \ {r} : l.ofStation[s] = latest.ofStation[s]
        /\ l.ofIndex[i] = r
        /\ \A j \in Index \ {i} :
             l.ofIndex[j] = IF j = latest.ofStation[r] THEN None ELSE latest.ofIndex[j]
    BY <1>1, <2>1
  <2>3. hasData(i) /\ data[i].station = r
    OBVIOUS
  <2> HIDE DEF r
  <2>4. ASSUME NEW s \in Stations, NEW j \in Index
        PROVE  /\ l.ofStation[s] = j <=> l.ofIndex[j] = s
               /\ l.ofStation[s] = j => hasData(j) /\ data[j].station = s
    <3>1. CASE s = r
      BY <1>1, <2>2, <2>3, <3>1
    <3>2. CASE s # r /\ j = i
      BY <1>1, <1>3, <2>2, <3>2
    <3>3. CASE s # r /\ j # i
      BY <1>1, <2>2, <3>3
    <3> QED BY <3>1, <3>2, <3>3
  <2>5. \A j \in Index \ {i} : latest.ofIndex[j] = None => l.ofIndex[j] = None
    BY <2>2
  <2> QED BY <2>4, <2>5
<1> QED BY <1>2, <1>3

(* A step that fills and empties no element, and after which the maps are   *)
(* as before or as the indexer leaves them for an element that is not being *)
(* erased, keeps them coherent.                                             *)
LEMMA LatestKept ==
  ASSUME Known, LatestInv, data' = data,
         \A u \in Threads : pc'[u] = "eraseData" => pc[u] = "eraseData" /\ cur'[u] = cur[u],
         \/ latest' = latest
         \/ \E i \in Index :
              /\ hasData(i)
              /\ \A u \in Threads : pc[u] = "eraseData" => cur[u] # i
              /\ latest' \in {LatestAddData(latest, data[i].station, i),
                              LatestUpdateData(latest, data[i].station, i)}
  PROVE  LatestInv'
<1>1. /\ latest \in LatestState
      /\ \A i \in Index : hasData(i) => data[i].station \in Stations
      /\ \A u \in Threads : pc[u] = "eraseData" => cur[u] \in Index
  BY FiledTyped, StoreTyped DEF Known, TypeInv, TypeOK
<1>2. CASE latest' = latest
  BY <1>2 DEF LatestInv, LatestCoherent, hasData
<1>3. ASSUME NEW i \in Index, hasData(i),
             \A u \in Threads : pc[u] = "eraseData" => cur[u] # i,
             latest' \in {LatestAddData(latest, data[i].station, i),
                         LatestUpdateData(latest, data[i].station, i)}
      PROVE  LatestInv'
  <2>1. /\ \A s \in Stations, j \in Index :
              /\ latest'.ofStation[s] = j <=> latest'.ofIndex[j] = s
              /\ latest'.ofStation[s] = j => hasData(j) /\ data[j].station = s
        /\ \A j \in Index \ {i} : latest.ofIndex[j] = None => latest'.ofIndex[j] = None
    BY <1>1, <1>3, LatestFiles DEF LatestInv
  <2>2. \A u \in Threads : pc'[u] = "eraseData" => latest'.ofIndex[cur'[u]] = None
    BY <1>1, <1>3, <2>1 DEF LatestInv
  <2> QED BY <2>1, <2>2 DEF LatestInv, LatestCoherent, hasData
<1> QED BY <1>2, <1>3

(* Every step of threads that do not edit keeps the maps coherent.          *)
LEMMA LatestStep ==
  ASSUME NoEdits, "latest" \in Registered, Known, LatestInv, [Next]_vars
  PROVE  LatestInv'
<1>0. /\ TypeInv /\ ViewInv /\ Alone /\ FreeInv
      /\ latest \in LatestState /\ data \in [Index -> Message \cup {None}]
      /\ pc \in [Threads -> PCs] /\ cur \in [Threads -> Index \cup {None}]
      /\ views \in [Threads -> SUBSET Index]
      /\ \A t \in Threads : pc[t] \in Working => cur[t] \in Index
      /\ None \notin Stations /\ None \notin Index
  BY FiledTyped, NoneAssumption DEF Known, TypeInv, TypeOK
\* Nobody erases an element that another thread has a view of or inserts.
<1>1. ASSUME NEW t \in Threads, pc[t] \in PCs \ (Inserting \cup {"eraseData"}),
             NEW i \in views[t] \cup LoopView(t)
      PROVE  \A u \in Threads : pc[u] = "eraseData" => cur[u] # i
  <2> SUFFICES ASSUME NEW u \in Threads, pc[u] = "eraseData", cur[u] = i PROVE FALSE
    OBVIOUS
  <2>1. i \in Index /\ i \in views[u]
    BY <1>0 DEF ViewInv, Removing, Working, PCs
  <2>2. holder[i] = u /\ holder[i] = t
    BY <1>0, <2>1 DEF ViewInv, ViewsOwnElements
  <2> QED BY <1>1, <2>2
<1>2. ASSUME NEW t \in Threads, NEW s \in Stations, NEW c \in Copyable, Insert(t, s, c)
      PROVE  LatestInv'
  BY <1>0, <1>2, LatestKept DEF Insert, Goto, StartCall, At
<1>3. ASSUME NEW t \in Threads, InsertSetData(t)
      PROVE  LatestInv'
  <2>1. /\ latest' = latest /\ pc[t] = "setData" /\ pc' = [pc EXCEPT ![t] = "setCallbacks"]
        /\ cur' = cur /\ data' = [data EXCEPT ![cur[t]] = msg[t]]
    BY <1>3 DEF InsertSetData, At, Goto
  <2>2. cur[t] \in Index /\ ~hasData(cur[t])
    BY <2>1, StoreTyped
  <2>3. \A s \in Stations, i \in Index : latest.ofStation[s] = i => i # cur[t]
    BY <2>2 DEF LatestInv, LatestCoherent
  <2>4. \A i \in Index \ {cur[t]} : data'[i] = data[i]
    BY <1>0, <2>1
  <2>5. LatestCoherent'
    BY <2>1, <2>3, <2>4 DEF LatestInv, LatestCoherent, hasData
  <2>6. \A u \in Threads : pc'[u] = "eraseData" => pc[u] = "eraseData"
    BY <1>0, <2>1
  <2> QED BY <2>1, <2>5, <2>6 DEF LatestInv
<1>4. ASSUME NEW t \in Threads, InsertAddData(t)
      PROVE  LatestInv'
  <2>1. pc[t] = "addData" /\ cur[t] \in Index /\ hasData(cur[t])
    BY <1>0, <1>4 DEF InsertAddData, At, FreeInv, Working, PCs
  <2>2. \A u \in Threads : pc[u] # "eraseData"
    BY <1>0, <2>1, InsertsAlone DEF Inserting
  <2>3. /\ data' = data /\ cur' = cur /\ pc' = [pc EXCEPT ![t] = "lockInserted"]
        /\ latest' = latest \/ latest' = LatestAddData(latest, data[cur[t]].station, cur[t])
    BY <1>4 DEF InsertAddData, Goto
  <2> QED BY <1>0, <2>1, <2>2, <2>3, LatestKept
<1>5. ASSUME NEW t \in Threads, InsertSetCallbacks(t) \/ InsertLock(t) \/ GetLock(t)
                                  \/ GetValidate(t) \/ GetReturn(t)
      PROVE  LatestInv'
  BY <1>0, <1>5, LatestKept
  DEF InsertSetCallbacks, InsertLock, GetLock, GetValidate, GetReturn, At, Goto, dbVars
<1>6. ASSUME NEW t \in Threads, NEW kind, NEW s, NEW list, NEW matches,
             Collect(t, kind, s, list, matches)
      PROVE  LatestInv'
  BY <1>0, <1>6, LatestKept DEF Collect, StartCall, At, Goto, dbVars
<1>7. ASSUME NEW t \in Threads, GetDrop(t)
      PROVE  LatestInv'
  <2>1. pc[t] = "drop" /\ cur[t] \in Index /\ cur[t] \in LoopView(t)
    BY <1>0, <1>7 DEF GetDrop, At, LoopView, Working, PCs
  <2>2. \A u \in Threads : pc[u] = "eraseData" => cur[u] # cur[t]
    BY <1>0, <1>1, <2>1 DEF Inserting
  <2>3. /\ data' = data /\ pc' \in {pc, [pc EXCEPT ![t] = "get"]}
        /\ \A u \in Threads \ {t} : cur'[u] = cur[u]
        /\ \/ latest' = latest
           \/ hasData(cur[t]) /\ latest' = LatestUpdateData(latest, data[cur[t]].station, cur[t])
    BY <1>0, <1>7 DEF GetDrop, Goto, UpdateIndexers, UpdateCalled
  <2>4. \A u \in Threads : pc'[u] = "eraseData" => pc[u] = "eraseData" /\ cur'[u] = cur[u]
    BY <1>0, <2>1, <2>3
  <2>5. CASE latest' = latest
    BY <2>3, <2>4, <2>5, LatestKept
  <2>6. CASE hasData(cur[t]) /\ latest' = LatestUpdateData(latest, data[cur[t]].station, cur[t])
    BY <2>1, <2>2, <2>3, <2>4, <2>6, LatestKept
  <2> QED BY <2>3, <2>5, <2>6
<1>8. ASSUME NEW t \in Threads, NEW i \in Index, Release(t, i)
      PROVE  LatestInv'
  <2>1. pc[t] = "use" /\ i \in views[t]
    BY <1>8 DEF Release, At
  <2>2. \A u \in Threads : pc[u] = "eraseData" => cur[u] # i
    BY <1>0, <1>1, <2>1 DEF Inserting
  <2>3. /\ UNCHANGED <<data, cur>> /\ pc' \in {pc, [pc EXCEPT ![t] = "idle"]}
        /\ \/ latest' = latest
           \/ hasData(i) /\ latest' = LatestUpdateData(latest, data[i].station, i)
    BY <1>8 DEF Release, Goto, UpdateIndexers, UpdateCalled
  <2>4. \A u \in Threads : pc'[u] = "eraseData" => pc[u] = "eraseData" /\ cur'[u] = cur[u]
    BY <1>0, <2>3
  <2>5. CASE latest' = latest
    BY <2>3, <2>4, <2>5, LatestKept
  <2>6. CASE hasData(i) /\ latest' = LatestUpdateData(latest, data[i].station, i)
    BY <2>2, <2>3, <2>4, <2>6, LatestKept
  <2> QED BY <2>3, <2>5, <2>6
<1>9. ASSUME NEW t \in Threads, NEW i \in Index, Remove(t, i)
      PROVE  LatestInv'
  <2>1. i \in hooked /\ hasData(i) /\ data[i].station \in Stations
    BY <1>0, <1>9, ViewsFilled, FiledTyped DEF Remove, At
  <2>2. /\ data' = data /\ cur' = [cur EXCEPT ![t] = i]
        /\ pc' = [pc EXCEPT ![t] = "eraseData"]
        /\ latest' = LatestRemoveData(latest, i)
    BY <1>9, <2>1 DEF Remove, Goto
  <2>3. /\ latest'.ofIndex = [latest.ofIndex EXCEPT ![i] = None]
        /\ \A s \in Stations : latest'.ofStation[s] =
             IF latest.ofIndex[i] = s THEN None ELSE latest.ofStation[s]
    <3>1. CASE latest.ofIndex[i] = None
      BY <1>0, <2>2, <3>1 DEF LatestRemoveData, LatestState
    <3>2. CASE latest.ofIndex[i] # None
      BY <1>0, <2>2, <3>2 DEF LatestRemoveData, LatestState
    <3> QED BY <3>1, <3>2
  <2>4. latest'.ofIndex[i] = None /\ \A j \in Index \ {i} : latest'.ofIndex[j] = latest.ofIndex[j]
    BY <1>0, <2>3 DEF LatestState
  <2>5. ASSUME NEW s \in Stations, NEW j \in Index
        PROVE  /\ latest'.ofStation[s] = j <=> latest'.ofIndex[j] = s
               /\ latest'.ofStation[s] = j => hasData(j)' /\ data'[j].station = s
    <3>1. CASE j = i
      BY <1>0, <2>2, <2>3, <2>4, <3>1 DEF LatestInv, LatestCoherent
    <3>2. CASE j # i
      BY <1>0, <2>2, <2>3, <2>4, <3>2 DEF LatestInv, LatestCoherent, hasData
    <3> QED BY <3>1, <3>2
  <2>6. \A u \in Threads : pc'[u] = "eraseData" => latest'.ofIndex[cur'[u]] = None
    BY <1>0, <2>2, <2>4, StoreTyped DEF LatestInv
  <2> QED BY <2>5, <2>6 DEF LatestInv, LatestCoherent
<1>10. ASSUME NEW t \in Threads, RemoveEraseData(t)
       PROVE  LatestInv'
  <2>1. /\ latest' = latest /\ cur' = cur /\ pc[t] = "eraseData"
        /\ pc' = [pc EXCEPT ![t] = "pushFree"] /\ data' = [data EXCEPT ![cur[t]] = None]
    BY <1>10 DEF RemoveEraseData, At, Goto
  <2>2. cur[t] \in Index /\ latest.ofIndex[cur[t]] = None
    BY <2>1, StoreTyped DEF LatestInv
  <2>3. \A s \in Stations, i \in Index : latest.ofStation[s] = i => i # cur[t]
    BY <1>0, <2>2 DEF LatestInv, LatestCoherent
  <2>4. \A i \in Index \ {cur[t]} : data'[i] = data[i]
    BY <1>0, <2>1
  <2>5. LatestCoherent'
    BY <2>1, <2>3, <2>4 DEF LatestInv, LatestCoherent, hasData
  <2>6. \A u \in Threads : pc'[u] = "eraseData" => pc[u] = "eraseData"
    BY <1>0, <2>1
  <2> QED BY <2>1, <2>5, <2>6 DEF LatestInv
<1>11. ASSUME NEW t \in Threads, RemovePushFree(t)
       PROVE  LatestInv'
  BY <1>0, <1>11, LatestKept DEF RemovePushFree, At, Goto
<1>12. ASSUME NEW t \in Threads, RemoveClearData(t)
       PROVE  LatestInv'
  <2>1. data' = data
    BY <1>0, <1>12 DEF RemoveClearData, At, FreeInv, hasData
  <2> QED BY <1>0, <1>12, <2>1, LatestKept DEF RemoveClearData, At, Goto
<1>13. ASSUME NEW t \in Threads, RemoveUnlock(t)
       PROVE  LatestInv'
  <2>1. pc[t] = "unlock" /\ ~hasData(cur[t])
    BY <1>0, <1>13 DEF RemoveUnlock, At, FreeInv
  <2>2. /\ UNCHANGED <<data, latest>> /\ cur' = [cur EXCEPT ![t] = None]
        /\ \E label \in {"idle", "use"} : pc' = [pc EXCEPT ![t] = label]
    BY <1>13, <2>1 DEF RemoveUnlock, UpdateIndexers, UpdateCalled, Goto
  <2> QED BY <1>0, <2>1, <2>2, LatestKept
<1>14. ASSUME NEW t \in Threads, NEW i \in Index, NEW s \in Stations, NEW c \in Copyable,
             Modify(t, i, s, c)
       PROVE  FALSE
  BY <1>14 DEF Modify, NoEdits
<1>15. ASSUME UNCHANGED vars
       PROVE  LatestInv'
  BY <1>15, LatestKept DEF vars, dbVars, thrVars
<1> QED
  BY <1>2, <1>3, <1>4, <1>5, <1>6, <1>7, <1>8, <1>9, <1>10, <1>11, <1>12, <1>13, <1>14, <1>15
  DEF Next, Step, Call, NoMoreCalls, Ended, GetLatest, GetStation, GetIndex, byIndex, byRange

(* For any number of threads that insert alone, search and remove side by   *)
(* side: the two maps of IDXCAMLatest are inverse to each other and point   *)
(* at messages of the right station, never at an element whose message is   *)
(* being removed or which a later insert took.                              *)
THEOREM ExclusiveLatest ==
  NoEdits /\ "latest" \in Registered => (Spec => []LatestCoherent)
<1> SUFFICES ASSUME NoEdits, "latest" \in Registered PROVE Spec => []LatestCoherent
  OBVIOUS
<1>1. Init => LatestInv
  BY NoneAssumption DEF Init, LatestInv, LatestCoherent, LatestInit
<1>2. Known /\ LatestInv /\ [Next]_vars => LatestInv'
  BY LatestStep
<1>3. LatestInv => LatestCoherent
  BY DEF LatestInv
<1>4. Spec => []Known
  BY KnownInvariant DEF NoEdits
<1> QED BY <1>1, <1>2, <1>3, <1>4, PTL DEF Spec
=============================================================================
