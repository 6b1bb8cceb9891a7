------------------------------ MODULE Indexers ------------------------------
(***************************************************************************)
(* The indexers a message database is given: IDXParameter on the station   *)
(* id (IDXCAMStationID, IDXDENMStationID) and IDXCAMLatest.  Each one is a  *)
(* pair of hash maps, here a record of functions in which None stands for  *)
(* an absent key, and each method is an operator from the maps before the  *)
(* call to the maps after it.  A method that throws leaves its maps alone, *)
(* as in the code, and has a second operator that says when it throws.     *)
(* IDXIndex keeps no state: its methods are the empty ones of Indexer.hpp. *)
(***************************************************************************)
CONSTANTS Stations,  \* the station ids that occur in messages
          Index,     \* the element indices a database hands out
          None       \* an absent entry

ASSUME NoneAssumption == None \notin Stations /\ None \notin Index

-----------------------------------------------------------------------------
(* IDXParameter: _map (key -> set of indices; a key once touched stays in  *)
(* the map, so "keys" records which keys are there) and _reverseLookup.    *)

ParamState == [map     : [Stations -> SUBSET Index],
               keys    : SUBSET Stations,
               reverse : [Index -> Stations \cup {None}]]

ParamInit == [map     |-> [s \in Stations |-> {}],
              keys    |-> {},
              reverse |-> [i \in Index |-> None]]

\* getByParameter: the indices stored under the key.
ParamGetIndexList(p, s) == p.map[s]

\* addData throws when the index is already known (insert ignores it).
ParamAddData(p, s, i) ==
  IF p.reverse[i] # None
  THEN p
  ELSE [map     |-> [p.map EXCEPT ![s] = @ \cup {i}],
        keys    |-> p.keys \cup {s},
        reverse |-> [p.reverse EXCEPT ![i] = s]]

ParamUpdateThrows(p, i) == p.reverse[i] = None

\* The index moves from the key it is filed under to the key of the entry.
ParamUpdateData(p, s, i) ==
  [map     |-> [k \in Stations |->
                  (p.map[k] \ (IF k = p.reverse[i] THEN {i} ELSE {}))
                    \cup (IF k = s THEN {i} ELSE {})],
   keys    |-> p.keys \cup {s},
   reverse |-> [p.reverse EXCEPT ![i] = s]]

\* removeData looks the index up under the entry's PRESENT key.  It erases
\* set::find's result unseen: with the key known and the index not under it
\* that is erase(end()), undefined behaviour.
ParamRemoveUndefined(p, s, i) == s \in p.keys /\ i \notin p.map[s]

\* Mutant: the reverse lookup keeps the index.
ParamRemoveDataKeepsReverse(p, s, i) ==
  IF s \notin p.keys THEN p ELSE [p EXCEPT !.map[s] = @ \ {i}]

ParamRemoveData(p, s, i) ==
  IF s \notin p.keys
  THEN p
  ELSE [map     |-> [p.map EXCEPT ![s] = @ \ {i}],
        keys    |-> p.keys,
        reverse |-> [p.reverse EXCEPT ![i] = None]]

ParamIsValid(p, s, i) == p.reverse[i] = s

-----------------------------------------------------------------------------
(* IDXCAMLatest: _stationIDToIndex and _indexToStationID.                  *)

LatestState == [ofStation : [Stations -> Index \cup {None}],
                ofIndex   : [Index -> Stations \cup {None}]]

LatestInit == [ofStation |-> [s \in Stations |-> None],
               ofIndex   |-> [i \in Index |-> None]]

LatestGetIndexList(l, s) == {l.ofStation[s]} \ {None}

\* Mutant: the previous latest message stays known.
LatestAddDataKeepsOld(l, s, i) ==
  IF l.ofIndex[i] # None
  THEN l
  ELSE [l EXCEPT !.ofStation[s] = i, !.ofIndex[i] = s]

\* addData throws when the index is already known; otherwise the entry
\* replaces the station's previous latest message in both maps.
LatestAddData(l, s, i) ==
  IF l.ofIndex[i] # None
  THEN l
  ELSE [ofStation |-> [l.ofStation EXCEPT ![s] = i],
        ofIndex   |-> [j \in Index |-> IF j = i THEN s
                                      ELSE IF j = l.ofStation[s] THEN None
                                      ELSE l.ofIndex[j]]]

\* Mutant: the old station is forgotten after the new one is set.
LatestUpdateDataErasesLast(l, s, i) ==
  IF l.ofIndex[i] = None
  THEN LatestAddData(l, s, i)
  ELSE [l EXCEPT !.ofStation = [@ EXCEPT ![s] = i, ![l.ofIndex[i]] = None]]

\* updateData: the old station loses its latest message, the index becomes the
\* latest of the entry's station; _indexToStationID is left as it was.  An
\* index that is not (or no longer) the latest one is added.
LatestUpdateData(l, s, i) ==
  IF l.ofIndex[i] = None
  THEN LatestAddData(l, s, i)
  ELSE [ofStation |-> [k \in Stations |-> IF k = s THEN i
                                         ELSE IF k = l.ofIndex[i] THEN None
                                         ELSE l.ofStation[k]],
        ofIndex   |-> l.ofIndex]

LatestRemoveData(l, i) ==
  IF l.ofIndex[i] = None
  THEN l
  ELSE [ofStation |-> [l.ofStation EXCEPT ![l.ofIndex[i]] = None],
        ofIndex   |-> [l.ofIndex EXCEPT ![i] = None]]

LatestIsValid(l, s, i) == l.ofIndex[i] = s
=============================================================================
