----------------------------- MODULE MCDatabase -----------------------------
(***************************************************************************)
(* Finite instances of the message database.  Each definition of a profile *)
(* says what the threads do: the receive thread and API threads of         *)
(* CABasicService, or the threads of the repository's integration tests.   *)
(***************************************************************************)
EXTENDS DatabaseProps, TLC

CONSTANTS rx, a, b

MCIndex == 0..(MaxOps - 1)

\* CABasicService: the receive thread inserts, API threads call tryGetCAM, and
\* one of them also searches by station id.
Service == (rx :> {"insert"}) @@ (a :> {"latest"}) @@ (b :> {"latest", "station"})

\* Removal, with every kind of query.
Cleaners == (a :> {"insert", "station", "remove"}) @@ (b :> {"index", "latest", "remove"})

\* Everything at once.
Everything == (a :> OpKinds) @@ (b :> OpKinds)

\* test/integration/DatabaseTests.cpp, HeavyWriting.
HeavyWriting == (a :> {"insert"}) @@ (b :> {"insert", "index", "remove"})
=============================================================================
