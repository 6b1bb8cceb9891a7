---------------------------- MODULE MessageStore ----------------------------
(***************************************************************************)
(* What IDatabase promises, without elements, indices, locks or indexers:  *)
(* a set of messages.  A message is inserted once, can be changed by who   *)
(* has a view of it, and disappears only after a caller asked for it.      *)
(***************************************************************************)
EXTENDS Integers

CONSTANT Message   \* what can be stored: records with a field seq

VARIABLES arriving,   \* messages that insert has been called with
          stored,     \* messages that are in the database
          condemned,  \* stored messages that remove has been called for
          calls       \* calls made so far; their number is the seq of a message

storeVars == <<arriving, stored, condemned, calls>>

Init ==
  /\ arriving = {} /\ stored = {} /\ condemned = {}
  /\ calls = 0

\* insert is called with a message of its own.
Arrive(m) ==
  /\ m.seq = calls + 1
  /\ calls' = calls + 1
  /\ arriving' = arriving \cup {m}
  /\ UNCHANGED <<stored, condemned>>

\* The message is in the database; nothing else is touched.
Add(m) ==
  /\ m \in arriving
  /\ arriving' = arriving \ {m}
  /\ stored' = stored \cup {m}
  /\ UNCHANGED <<condemned, calls>>

\* get changes nothing.
Query ==
  /\ calls' = calls + 1
  /\ UNCHANGED <<arriving, stored, condemned>>

\* A view is written through: the message remains the same message.
Edit(m, n) ==
  /\ m \in stored \ condemned
  /\ n.seq = m.seq
  /\ stored' = (stored \ {m}) \cup {n}
  /\ UNCHANGED <<arriving, condemned, calls>>

\* remove is called for a stored message that nobody else removes.
Condemn(m) ==
  /\ m \in stored \ condemned
  /\ condemned' = condemned \cup {m}
  /\ UNCHANGED <<arriving, stored, calls>>

\* Only a condemned message is erased, once.
Erase(m) ==
  /\ m \in stored \cap condemned
  /\ stored' = stored \ {m}
  /\ condemned' = condemned \ {m}
  /\ UNCHANGED <<arriving, calls>>

Next ==
  \/ Query
  \/ \E m \in Message : Arrive(m) \/ Add(m) \/ Condemn(m) \/ Erase(m)
  \/ \E m, n \in Message : Edit(m, n)

Spec == Init /\ [][Next]_storeVars
=============================================================================
