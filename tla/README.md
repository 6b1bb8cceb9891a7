# LEVEL: a verification project

LEVEL is a C++ library with a C interface for vehicle-to-everything messages. It
sends cooperative awareness messages (CAMs) about the vehicle it runs in, receives
those of others, keeps them in a database and answers queries about them; it creates
decentralised environmental notification messages (DENMs) the same way. This
directory holds TLA+ modules that model the library, TLC runs that check them on
small instances, and proofs that TLAPS checks for every instance.

Paths below are relative to the repository.

## 1. The system

### Components, their state, operations and interaction

| Component | State | Operations | Used by |
|---|---|---|---|
| `Database<T>`, `DBElement<T>`, `DBView<T>` (`src/database`) | array of elements, each with data, a mutex and two callbacks; list of free indices; list of indexers; three internal mutexes | `insert`, `get`, `remove`, `count`, `addIndexer`; a view's `*`, `->`, `remove` and destructor | both services, on the receive thread and on API threads |
| Indexers (`IDXIndex`, `IDXParameter`, `IDXCAMLatest`) | maps between keys and element indices | `getIndexList`, `addData`, `updateData`, `removeData`, `isValid` | the database, under `_indexerLock` |
| Queries (`QRYIndex`, `QRYStationID`, `QRYLatestMsg`) | an index range or a key | setters with range checks | callers of `get` |
| `CABasicService` | the present CAM under `_camMutex`, the configuration, the flag of the dissemination thread | `configure`, setters, `tryGetCAM`, `cam`, destructor; the dissemination thread; `receiveCallback` | the C API, the receive thread |
| `VehicleFrequencyManager` | the present interval, a counter, last motion and two timestamps | `generateCAM`, `includeLFC`, `notifyCAMGeneration` | the dissemination thread |
| `CAMWrapper`, `DENMWrapper` | one message | containers, copy by encoding and decoding | services, database |
| `DENBasicService` | configuration and next sequence number under `_lock` | `createDENM`, `tryGetDENM`, `configure` | the C API |
| `SocketNAL<T>` | two sockets, a buffer, the flag of the receive thread | `send`, destructor; the receive thread | services |
| `RecvHandler`, `ErrorHandler` | vectors of callbacks, without a lock | `registerCallback`, `unregisterCallbacks`, `invoke` | the receive thread, services |
| `UDPSocket`, `Syscall` | a file descriptor, `_isBound` | `send` in chunks, `recv` with timeout, `read` | `SocketNAL` |
| Encoders, `ValueConverter`, `POTI` | none | conversions, `now` | everyone |
| `Exception` | the last error message, under a mutex | set, get, clear | everyone, the C API |
| `ServiceProvider`, `level.cpp` | the singletons | construction, forwarding | applications |
| `src/msg`, the types | none | 164 generated type descriptors with their constraint functions | encoders |
| `src/msg`, the runtime | none | BER decoder, DER encoder; PER, XER, printing and constraints, unused | encoders |

Three kinds of thread run: a receive thread per `SocketNAL`, the dissemination thread
of `CABasicService`, and the application's threads, which enter through `level.cpp`.
They meet in the database (receive thread inserts, API threads query), in
`CABasicService::_cam` (dissemination thread, API threads) and in the vector of
callbacks (receive thread iterates, the service's constructor registers).

### What is hard, and what correctness means

* The database hands out views that hold an element's mutex until they are destroyed,
  but fills, indexes and frees elements outside that mutex. Correct: a view is exclusive;
  insert's view shows the inserted entry; the indexers agree with the messages; no
  message disappears unless it is removed; queries miss nothing; calls return; no
  exception leaves a destructor, which is false for messages that cannot be copied.
* The dissemination thread works on a copy of the CAM while the application reconfigures
  the station and changes the motion. Correct: CAMs are spaced by at least T_GenCamMin,
  come from one configuration, a change of motion is eventually reported, and the
  destructor returns.
* The receive thread must survive failing system calls, datagrams that do not decode and
  callbacks that throw; each message has one owner. Correct: messages are freed once and
  not leaked, whole messages are handled, the destructor returns. It does not survive what
  ends the process inside a callback, which a CAM that cannot be copied does (`db_newer`).
* Every message that is sent, received or copied passes through the codec. Correct: what the
  library sends is the distinguished encoding, what other stations send in any form that BER
  allows decodes to what they meant, newer versions of the types included, and neither a part
  of a message nor a message of the other kind is accepted.
* `createDENM` assigns an id under a lock, then builds, sends and stores without it, while
  others create messages and reconfigure the station. Correct: ids are unique, a returned id
  names a stored message, nothing is stored that was not sent.

The list `hazards` of `PROJECT.json` names these points at their lines of code, with the
properties that would catch them going wrong and, where there is none, the reason.

## 2. Modules

| Module | Models | Role |
|---|---|---|
| `Indexers` | `IDXParameter`, `IDXCAMLatest` | operators on the indexers' maps |
| `QRYIndex` | `QRYIndex`, `IDXIndex` | operators: how a query is built, what it denotes |
| `Database` | `Database`, `DBElement`, `DBView` | the state machine; extends `Indexers` and `QRYIndex` |
| `MessageStore` | `IDatabase` | the abstract specification: a set of messages |
| `DatabaseProps` | | its properties, and the refinement mapping to `MessageStore` |
| `DatabaseProofs` | | theorems about queries by index and about every use of the database |
| `DatabaseAppendProofs` | | theorems about uses that do not remove; they implement `MessageStore` |
| `DatabaseExclusiveProofs` | | theorems about uses that remove and whose inserts run alone |
| `MCDatabase` | | instances: what the threads do |
| `VehicleFrequencyManager` | the class of this name | operators on its fields |
| `CABasicService` | the sending half of `CABasicService`, parts of `CAMWrapper` | state machine and properties |
| `CAMGeneration` | `ICABasicService`, `IFrequencyManager` | the abstract specification: when which CAM is sent |
| `CAProofs` | | its safety theorems, that it implements `CAMGeneration`, and theorems about `ValueConverter` |
| `MCCABasicService` | | instance |
| `SocketNAL` | `SocketNAL`, `UDPSocket`, `RecvHandler`, `ErrorHandler`, the network | state machine and properties |
| `MessageChannel` | `INetworkInterface`, `IRecvHandler` | the abstract specification: a lossy channel of messages |
| `NALProofs` | | its safety theorems, and that it implements `MessageChannel` |
| `MCSocketNAL` | | instance |
| `AsnTypes` | the descriptors of the messages' types in `src/msg` | data for the codec |
| `AsnPrimitives` | the runtime in `src/msg`: tags, lengths, INTEGER, BOOLEAN, native integers | operators on octet sequences, none of them recursive |
| `AsnPrimitivesProofs` | | theorems about them |
| `AsnCodec` | the runtime: strings, SEQUENCE, lists, CHOICE, the skipping of unknown TLVs | operators on values and octets; the codecs of the parts are operator constants; extends `AsnPrimitives` |
| `AsnMeaning` | X.690 and other stations | what octets mean, and what a descriptor and a value are like |
| `DEREncoder` | `DEREncoder`, the copying of `CAMWrapper` and `DENMWrapper` | the life of one message, and properties |
| `DEREncoderProofs` | | theorems about `AsnCodec` and `DEREncoder` |
| `MCDEREncoder` | | sample values of every type, and the values of the operator constants |
| `DENBasicService` | `DENBasicService`, parts of `DENMWrapper` | state machine and properties |
| `DENProofs` | | its safety theorems |
| `MCDENBasicService` | | instance |
| `ValueConverter` | `ValueConverter` | operators |

Operators whose comment begins with "Mutant" are wrong variants of the operator that
follows. They are not used in the specification; `PROJECT.json` lists which property finds
each of them.

### Database

State: `size`, `data`, `free` are the fields of the same names; `holder[i]` is the owner
of element `i`'s mutex; `hooked` are the elements whose callbacks are set; `param` and
`latest` are the maps of the two indexers. Each thread has a program counter, its call,
the element it works on, the elements `get` has still to lock, and its views. A message is
a sequence number (the order of the inserts), a station, and whether it can be copied; nothing
else in it matters to the database.

Steps: the sections under `_dataLock`, `_indexerLock` and `_freeIndicesLock` are one step
each, because no thread waits for an element's mutex inside them; unlocking an element is
part of the step that tells the indexers, since nothing else happens in between that another
thread could see without the mutex. Everything done to an element without its mutex is a
step: `InsertSetData`, `InsertSetCallbacks`, `InsertAddData` and `InsertLock` are the
four parts of `insert` after `getFreeElement`; `Remove`, `RemoveEraseData`,
`RemovePushFree`, `RemoveClearData` and `RemoveUnlock` are `DBView::remove`. `fault` says
what ended the process: `terminate` for an exception that leaves a destructor, `undefined`
for `erase(end())`.

`DBElement::unlock` replaces the message by a copy of itself before it tells the indexers
(`UnlockThrows`). The copy constructor of `CAMWrapper` encodes and decodes, and throws for a
message that was received with an alternative of a CHOICE that this version does not know: the
decoder accepts it as a CHOICE with nothing in it, which the encoder refuses (`CopyFaithful` of
`codec` describes the two). `CopyThrows` is about such messages; the constant `Copyable` says
whether they occur. Their view ends the process wherever it is destroyed, because `~DBView` is
noexcept: in `receiveCallback` this is the view that `insert` returns, so that one CAM from a
station with a newer version of the types is enough, whatever `RecvHandler` catches. `NoFault`
states what the comments promise and `db_newer` finds this behaviour; `OnlyCopiesFault`, which
the other runs check and two theorems prove, says that nothing but such a copy ends the process
and that the messages of the others are looked up, filed and refiled without an exception.

The constants `Ops` say what each thread does. `MCDatabase` names the uses: `Service` is
what `CABasicService` does, with a search by station besides, `Cleaners` is an application
that removes what it finds, `HeavyWriting` is the integration test of this name.

A query by index is built in each of the ways `QRYIndex` offers (`byIndex`, `byRange`): an
operation yields the set of its results, which is empty when the code throws. `Lengths` are
the lengths that do not throw whatever the start, and one more on either side; the
computation in `long long int` does not overflow, `startIndex + 1`, an unsigned int, does
(`Succ`). `Meant` is what the comments in the code say a query denotes.

`MessageStore` says what the interface `IDatabase` promises, with neither elements nor locks:
messages arrive, are stored, can be edited, are condemned by `remove` and then erased.
`DatabaseProps` maps the state of `Database` to it: the message of an insert that has not
reached its element is arriving, the data of the elements are stored, and a message whose
removal has begun is condemned.

### CABasicService and VehicleFrequencyManager

What `_camMutex` protects is one step (`configure`, `setMotion`, `Check`); after that the
dissemination thread works on `genCAM` in the steps `Prepare`, `Send` and `Notify`, and
API calls and time (`Tick`) come between any two steps. A CAM is its station type, its high
frequency container, whether it has a low frequency container, and its motion, one number
that stands for heading, speed and position with one threshold. Timestamps are kept as
ages. The first ages are large, because the code's timestamps start at 0 and `now()` counts
from 2004; the assignment of an `unsigned long long` to an `int` is modelled with its
wrap-around (`ToInt`).

This wrap-around has a consequence. When an application sets the motion before the first check,
10 ms after the start, the first CAM is due to a change of motion, and the time since 2004, cut
to an `int`, becomes the interval. It is compared as an `unsigned long long`: a negative one is
never reached, a positive one perhaps after weeks. Until the motion changes again no CAM is
sent, although `VehicleFMCheckUpperBound` in `src/test/unit/cam/FrequencyManagerTests.cpp`
expects an interval of at most a second. `CAMsGoOn` says that a station sends CAMs again and
again, and `ca_silent` finds the behaviour in which the interval is negative. A positive one of
weeks is in the model only a longer wait: the ages saturate, and no property bounds the wait.

`CAMGeneration` is what other stations can rely on: a CAM is a complete state in which the
station has been since the last CAM, taken at least T_GenCamMin after it; the low frequency
container may be left out of it, and is in it only when T_GenCamLFC is over. In the mapping the
thread's copy is the draft while it is prepared and sent, and the ages are those since the
sends, which the manager does not know.

### SocketNAL

The sending side splits a message of `Size[m]` bytes into datagrams, with short sends and
failures. The network delivers datagrams in any order, twice, or never. The receive thread
binds, polls, receives, decodes and runs the callbacks; every one of these may fail, up to
`MaxTrouble` times in a behaviour. `RecvHandler`'s loop reads the vector's begin and end in
two steps without a lock, as the code does; a registration that moves the vector in between
or during the loop is the fault `iterator`. The decoded message is followed from the decoder
to the callback that takes it or to the free. Callbacks return or throw here; what
`CABasicService`'s callback does with the message is in `Database`.

`MessageChannel` is what the two interfaces promise, without datagrams: a message that fits into
one datagram may be carried, the network may copy or lose it, the callbacks are given each copy
at most once, one message at a time, and at most one of them takes it. In the mapping a
message under way is the one `send` is at, its copies are counted wherever a whole one of it is
(on the network, in the socket, in the buffer before it is decoded), and its owner is read from
the round of the receive thread. A message that takes several datagrams is never carried: the
other side decodes each datagram by itself.

### AsnTypes, AsnPrimitives, AsnCodec, AsnMeaning, DEREncoder

`AsnTypes` has one definition for each generated file of a type, in terms of constructors for
what the runtime reads of a descriptor: the pair of encoder and decoder the type inherits,
its tag, its members with their tags and tag modes, runs of optional members, and whether
it is extensible. The bounds `lo` and `hi` come from the constraint functions. No service
calls those; the bounds choose the sample values.

`AsnPrimitives` and `AsnCodec` translate the runtime for how the library calls it: one whole
buffer, one fresh structure. The decoder's phases and restart contexts are then one pass, and
its hand-made stack for constructed strings is a recursion (`StringTLV`, `SegmentsFrom`). What
remains is each comparison, early return and error: wanting more inside a TLV whose length is
definite is an error (`Frame`, `Short`), unknown members are skipped only where the type is
extensible (`TrailerFrom`), an unknown alternative of a CHOICE is accepted as none
(`CHOICE_decode_ber`). Integers are sequences of octets, so that signs and lengths are as in the
code. Lengths above 2^24 are not told apart: no buffer is that long.

In the C code a SEQUENCE reaches the codecs of its members through the pointers of their
descriptors. In `AsnCodec` these are operator constants, `der_encoder` and `ber_decoder`, and so
is the next turn of each loop (`Members` in `MembersFrom`). `MCDEREncoder` gives them their values:
`EncoderOf` and `DecoderOf`, what the descriptors point to, and `MembersFrom` and the others
themselves. So the definitions are not recursive, and all can be reasoned about. `AsnMeaning` is
written in the same way.

`DEREncoder` follows one message: the library encodes it, or another station does, in one of
four `Styles`; the datagram arrives whole, in part (at every octet) or at the receiver of the
other message; `decode` and then `copy`, the copy constructor of the wrappers, run on what
arrives. `BerOf` and `MeaningOf` in `AsnMeaning` say what octets mean by X.690, written
independently of the codec; they are what it is compared with. `Values` are the messages
with all their parts. The assumptions on them, which TLC evaluates for every part of every
sample, say what a descriptor and a structure are like: one short tag per type but none for a
CHOICE, members with distinct tags, `optional` counting the optional members ahead, mandatory
members that are there, contents shorter than 2^24 octets, types nested to a finite depth, and
unsigned longs that do not begin with nine ones (see Station ids).

### DENBasicService

`Assign` is what `_lock` protects; `Build`, `Send` and `Insert` work on the thread's own
message, and calls of other threads, `configure` and failing sends come in between. The database
is the set of stored messages, its promise in `MessageStore`. What is stored and what receivers
decode is a copy of what was sent, made by encoding and decoding (`Copy`): on the type
`StationID` this is what `AsnPrimitives` computes, octet for octet; the other fields are copied
as they are. `createDENM` reads the event type, four octets, as a `CauseCodeType_t` of eight: the
upper half of the cause code that is sent is whatever lies behind the argument (`Garbage`).

### Station ids

`DENMWrapper` takes the station id, an `unsigned int`, as an `int` and stores it in an
`unsigned long`: ids from 0x80000000 on get ones in their upper half (`Widen`). The encoder
drops leading octets that repeat the sign, so that 0xFFFFFFFF80000000 is sent as the four
octets of 0x80000000, and the decoder, which knows the field is unsigned, restores the id. This
works as long as the four octets are not shortened further, that is below 0xFF800000; an id
from there on is decoded as another. `StationIDReceived` proves that 0xFF800000 is exactly the
border, and `StationIDsAssumption` says that the ids of an instance are below it;
`DenService.cfg` has an id of the least kind, 1, and the greatest that is copied, 0xFF7FFFFF.

### ValueConverter

The arguments are exact numbers, in thousandths of a unit or 10^-8 degrees, so the rounding
and clamping are as in the code while the limited precision of `float` is not modelled. The
conversions from ITS to SI units are left out: they do nothing but scale to a `float`, whose
mantissa of 24 bits does not hold most positions, and a product of integers would say otherwise.

## 3. Runs

| Run | Instance | Shows |
|---|---|---|
| `db_service` | one inserting, two `tryGetCAM` threads, one of which searches by station, two stations, messages with and without a copy, 4 calls | only a copy ends the process, coherent latest index, no station loses its latest message, a search misses nothing, insert's view shows its entry, calls return |
| `db_cleaners` | two threads that query in every way and remove; inserts overlap nothing; messages with and without a copy; 5 calls, largest unsigned int 5 | the database implements `MessageStore`, removals free each element once, queries by index are complete, calls return, only a copy ends the process |
| `db_everything` | two threads, all operations, messages with and without a copy, 3 calls | views stay exclusive whatever exceptions occur |
| `ca_service` | three station types, motions 0..2, T_GenCamMin 2, T_GenCamMax 4 | the service implements `CAMGeneration`; spacing, coherence, reporting, stopping |
| `nal_service` | a message of one and one of two datagrams, two callbacks, 2 troubles | the layer implements `MessageChannel`; memory, sending, receiving, stopping |
| `codec` | 164 types, up to 11 sample values each, 4 foreign styles, every cut of a CAM or DENM | round trips, distinguished encoding, exceptions, rejection, copies |
| `den_service` | two threads, two station ids, an event or none, 3 calls | unique ids, returned ids name stored messages, only sent messages are stored |
| `db_heavy_writing` | the HeavyWriting integration test, 3 calls | **violation**: remove wipes out a message inserted in between |
| `db_latest_recent` | `Service`, 4 calls | **violation**: `tryGetCAM` returns an older message |
| `db_newer` | `Service`, 3 calls | **violation**: the view of a stored message that has no copy ends the process |
| `ca_silent` | one car, no send fails | **violation**: a station falls silent |
| `ca_unknown` | station type unknown | **violation**: the dissemination thread ends the process |

Why the bounds are enough. In the database a conflict needs two threads on one element and
a third that observes it; the longest of the known conflicts (a reader that makes an old
message latest again) takes four calls. So `db_service`
has four, which let two messages meet two queries, and a circle of threads that wait for each
other needs no more; its safety properties are proved for any number of calls (section 4). A
removed element is used again within four calls, and `db_cleaners` has five. In
`CABasicService` the ages saturate at `MaxAge`, above every interval they are compared
with, so that runs of any length are covered; the motions are one below and one at the
threshold. In `SocketNAL` two troubles let a failure follow a failure, and a message of two
datagrams lets a part of a message arrive alone. `UINT32_MAX` is the number of calls, so that
queries reach past the elements and up to the limit. In `codec` the sample values are at the
bounds of each type, at the borders of octets and signs and, for lengths, above 127 and 255
octets; eleven seeds reach every border and every alternative of a CHOICE, five of them serve
for SEQUENCEs and lists, with no optional member, with all and with every second, and the
seed 10 leaves CHOICEs unmade. Three calls of `createDENM` let one fail and two
overlap it.

Fairness. A thread inside a call takes its next step (`WF` on `Step(t)`): the code has no
waiting but for mutexes, and a caller's views are destroyed when they go out of scope. No
one is obliged to make a call. Weak fairness does not promise a mutex to a thread that others
overtake for ever; the bound on calls rules that out, so `CallsReturn` says that there is no
deadlock and no lost unlock, not that `std::mutex` is fair. The dissemination thread, the
receive thread, time and `join` are weakly fair; the network is not: datagrams may be lost.
`createDENM` has no liveness property: it waits for nothing but a lock held for three
statements.

Deadlock is checked in every run but `codec`, where a message's life ends; the actions `Ended`
and `NoMoreCalls` stand for a process that has ended and for a bound that is used up.

## 4. Proofs

The proofs about the database hold for any sets of threads and stations, any assignment `Ops` of
calls to threads and any bound `MaxOps`. They use the named assumptions of `Indexers` and
`Database` only: `NoneAssumption` and `NobodyAssumption` (`None` is not a station, an index, a
thread or a message), `MaxOpsAssumption` and `IndexAssumption` (`Index = 0..MaxOps-1`),
`OpsAssumption`, `RegisteredAssumption`, `CopyableAssumption` and `ExclusiveAssumption`. TLC evaluates them in each
run.

`DatabaseProofs`, for every use of the database, with removals and exceptions:

* `TypeCorrect`: `Spec => []TypeOK`. `TypeOK` is not inductive: `getFreeElement` writes at
  `size`, which is an index only because each new element uses up a call (`SizeBound`), and
  the later steps of a call need an element (`CurSet`). `TypeInv` is the conjunction.
* `ViewsExclusive`: `Spec => []ViewsOwnElements`. A mutex is held by a thread exactly while
  this thread has a view of the element, so two threads never have views of one element.
  `ViewInv` adds at which step a thread has no view yet, that the element it validates is
  not one of its views already, and that the element it removes is one.

* `LocksOrdered` and `DeadlockFree`: a thread that others wait for only wants elements after
  the one they wait for (`LocksAscend`), so that they never wait in a circle, and of all
  waiting threads the one that waits for the highest element can be passed on to its holder,
  who runs (`NoDeadlock`). `OrderInv` says what keeps the order: a query validates the elements
  of its sorted list in turn, its views are below those it still has to lock, and an insert
  locks its element before it has any view.
* `CallsBounded`: `WorkLeft(t)` counts the steps a call has left. A step of its thread lowers
  it, a step of another leaves it alone, and it is 0 exactly between calls. With `DeadlockFree`
  this is all of `CallsReturn` that is not about fairness.
* `UnsupportedFindsNothing`: a query of a kind that no registered indexer supports has no view,
  ever. So `tryGetDENM` finds no message whatever was created: the DENM database has no
  `IDXCAMLatest`. Only a test with a mocked database expects one
  (`src/test/unit/denm/DENBasicServiceTests.cpp`, line 94).

`DatabaseProofs` has also, for every size of `unsigned int`: `QueriesOrdered`, no operation
leaves a query whose first index is above its last; `LengthExact`, a range by start and length
denotes exactly what its comment says or throws, and throws only when an index of the range is
not below the largest unsigned int. In particular the wrap of `startIndex + 1` never yields a
wrong range.

`DatabaseAppendProofs`, for threads that insert, search by station or for the latest message
and edit through views (`AppendOnly`), which is what the two services do. Removal is excluded
because an insert that reuses an element may meet its remover (`db_heavy_writing`), and so is
the query by index: `IDXIndex` lists every element, filed or not, and releasing the view of
one that is not yet filed makes `updateData` throw out of a destructor (`db_everything`
reaches this fault; its properties hold all the same).

* `AppendOnlyOnlyCopies`: `OnlyCopiesFault`. No indexer throws out of `DBElement::unlock`: a
  process that ends does so because a thread destroys a view of a message that cannot be copied.
  Where all messages can (`Copyable = {TRUE}`), the process does not end. The argument
  is `KeepInv`: without removal no element is given back (`NoRemoval`), so that inserts
  work on elements of their own (`InsertsApart`), and whatever a query can find has been
  filed by the station id indexer before (`FiledFirst`; it needs that `insert` asks all
  indexers in one critical section of `_indexerLock`, under which queries run too).
* `AppendOnlyInsert`: `InsertViewShowsEntry`, an action property, from `InsertsApart`. The
  view that `insert` returns shows its entry although the element is findable before it is
  locked.
* `AppendOnlyStationIndex`: with the station id indexer registered, `StationIndexExact`.
  `StationInv` says that the two maps of `IDXParameter` are inverse to each other, know only
  complete elements, and agree with each message that no thread is working on;
  `HookedFirst` that the callbacks are set before the element is filed. Without the last one
  an edit between the two steps would never reach the indexer.
* `AppendOnlyStationAnswer`: likewise, `StationAnswerComplete`. `Answer` says that a search has
  a view of each committed match or has still to lock it, and that the element it looks at is
  filed under the station of its message: it was when its mutex was free (`StationInv`), and
  only the holder of the mutex could change either.

For the same threads there is the refinement `AppendOnlyStore`: `Spec => ImplementsStore`. Most
steps leave the store as it is (`Quiet`); the others map to `Arrive`, `Add`, `Query` and `Edit`.
An insert adds and overwrites nothing because its element is its own and empty, and an edit
changes one message only because no two messages, stored or arriving, have the same number
(`NumbersApart`), which is the invariant added to `KeepInv`. When nobody edits either
(`ReadOnly`), which is what the services do, `LatestCoherent` is inductive on top of it
(`ReadOnlyLatestCoherent`): an element's message changes only while it is empty, so that the
indexer's old station of an element is its present one, and the destruction of a view either
changes nothing or replaces the latest message as `addData` does. `ReadOnlyLatestNeverLost`
follows from the same steps. That the message is the most recent one is false
(`db_latest_recent`).

`DatabaseExclusiveProofs`, for any number of threads that search, edit and remove side by side,
of which none inserts while another is in a call (`InsertsExclusive`, the discipline without
which `db_heavy_writing` fails): `ExclusiveFreeList`, `ExclusiveIndexAnswer` and
`ExclusiveStore`. `Alone` is the discipline as a fact of each state. `FreeInv` says that an
index is free once, that an allocated element has data or is free but for the two moments
between filling or emptying it and its entry in the list, that it has its callbacks, and that
an element with a view has data until the view's holder erases it; so a removal always finds
callbacks and a message, and `DBElement::clear`'s second reset finds nothing left. Counting the
elements makes `FreeListExact` of it. `IndexAnswer` says of a search that each match that is
still there has a view or is still to be locked; nothing can fill an element it has dropped
since no insert runs. For the refinement `StoreInv` adds that messages have different numbers
and that the message a removal was called for is the one in its element: nobody else has a view
of it.

Two action properties follow: `ExclusiveRemovesOwn`, a message disappears only in a step of
the thread that called `remove` through its own view of this message, which is what
`db_heavy_writing` shows to be false when inserts overlap removals; and `ExclusiveInsertView`,
that insert's view shows its entry.

When moreover no thread both edits and removes (`EditOrRemove`), with the station id indexer:
`ExclusiveOnlyCopies`, `ExclusiveStationIndex` and `ExclusiveStationAnswer`. `FiledInv` says what
`IDXParameter`'s maps hold in each state: the elements with a message, but for those an insert
has not filed yet and those a removal has made the indexers forget and not yet emptied; an
element in the view of a thread that edits may be filed under a former station of its message.
A thread that removes sees messages filed where they are, so that `removeData` finds them; a
thread that edits has them refiled when its view ends. A thread that does both breaks it: a
message whose station it edits and which it then removes through the same view is looked up
under the new station, where `IDXParameter::removeData` erases at `end()`. For the answer of a
search, removals leave fewer matches to return, and nothing else changes an element that the
search still has to lock or has a view of.

`ExclusiveLatest`, for threads that insert alone, search and remove, without edits: the maps of
`IDXCAMLatest` stay inverse to each other and file an element only under the station of a
message it holds (`LatestCoherent`): a removal makes the indexers forget before it erases.

`DENProofs`, for any threads, event types and number of calls, and all station ids below
0xFF800000: `DENTypeCorrect`, `DENIdsUnique`, `DENReturnedIsStored` and `DENStoredWasSent`.
`DENInv` adds to the properties that the numbers in use, by threads or in sent messages, are
below the next and differ (`NumbersOnce`), that a message under way has the id its thread will
return (`Built`), and that a thread at `insert` has sent its message (`SentFirst`). Of the codec
nothing is assumed: `StationIDReceived` computes what it makes of a station id, by the lemmas of
`AsnPrimitivesProofs`, and gives back the id if and only if it is below 0xFF800000
(`StationIDsAssumption`).

`AsnPrimitivesProofs`, for contents of less than 2^24 octets, any type with one short tag and any
tag it is sent under; each tag in the messages is short: `CanonicalIsShortest`, what the encoder
keeps of an INTEGER is the shortest sequence of the same value, as DER asks; `INTEGERRoundTrip`,
`NativeIntegerRoundTrip`, `NativeUnsignedRoundTrip` and `BOOLEANRoundTrip`, the decoder reads
back what the encoder wrote, whatever octets follow it in the buffer, for an unsigned long except
one that begins with nine ones, and a BOOLEAN as the one octet DER has for true; and of a buffer
that holds only a beginning of the encoding it asks for more (`Takes`). The argument goes from
the tag and length octets (`TagOctetRead`, `LengthRead`, `HeaderFetched`, `TagsChecked`) to the
contents (`PrimitiveRead`): the octets that are dropped all repeat the sign of the first one
that is kept (`DroppedSign`), so that sign extension restores them.

`DEREncoderProofs`, for any descriptors and values that satisfy the assumptions of `DEREncoder`,
not only the 164 types and the samples of the run. A codec is `Faithful` to a value when, under
each tag the value can be sent with, the octets are those of X.690, the decoder takes exactly
them and returns what was meant, and on every beginning of them asks for more; and when a value
with an unmade CHOICE fails to encode.

* `StringTakes`, `SequenceTakes`, `ListTakes`, `TaggedChoiceTakes` and `UntaggedChoiceTakes` are
  about the decoders' loops: if the decoders of the parts take the parts, the loop takes the
  whole. `SequenceTakes` says that each member is found by its tag among the optional ones, that
  members that are left out are skipped, and that the loop ends with the SEQUENCE; its invariant
  is that the members before the present one are filled in and the position is the offset of
  the next (`Placed`).
* `ValuesFaithful` puts them together with the encoders: a type whose parts have faithful
  codecs has one (`FaithfulFromParts`), and so, by induction on the depth of the types, has every
  one. The induction is the choice of a least depth at which it fails (`MinIsLeast`).
* `SendsDER`: `Spec => []EncodesDER`, `ReadsBack`: `Spec => []RoundTrip`, and
  `BeginningsRejected`: the first of the datagrams a message is cut into is never accepted. The
  inductive invariant says of the buffer that, until it is decoded, it is what `fate` tells: the
  encoding of the message, or a beginning of it.
* `OwnCopiesFaithful`: the copy of a message that the library sent and decoded is that message,
  `Spec => [](fate = "der" => CopyFaithful)`. `CopiesFaithful` says it of every message that was
  accepted, from any station: `Spec /\ []Interoperates /\ []PartsRejected => []CopyFaithful`, with
  what stays with TLC about the decoder as hypotheses. A copy encodes what a decoder returned,
  which need not be among `Values`; so `ValuesSettled` shows, by the same induction, that what
  was made of a value has a faithful codec again, has the octets of the value and means itself
  (`Settled`), and so has what is left when alternatives were not known (`Spent`).

The hypothesis `Codecs` of these theorems says that the operator constants are what `MCDEREncoder`
makes them: `der_encoder` is `EncoderOf`, and so on. `Segments` and `SkipContents` are left
arbitrary: nothing the library sends makes its decoder read a constructed string or skip a TLV.

`CAProofs`, for any intervals, width of `int`, motions and calls: `CATypeCorrect`,
`CASentCoherent`, `CARateLimited`, `CALFCSpaced`, `CANothingUnreported` and
`CAImplementsGeneration`. The assumptions are `IntervalsAssumption`, `ServiceAssumption` and
`ClockAssumption`, that the clock starts later than the interval of the low frequency container,
which it does by some decades. `CAInv` adds to the types that CAMs fit their station type
wherever the thread is (`Fitting`), that the manager's ages are not above those of the last CAM
except between a send and its notification, and that the thread sends only when the minimal
interval is over (`Spaced`), and that a CAM without the low frequency container of a car is only
sent when the manager has seen one lately (`LFCDue`). `CANothingUnreported` is the safety in
`MotionReported`: a check that generates no CAM means that the minimal interval is not over or
that the last CAM tells the present motion up to the threshold. Its invariant is `Told`: the
manager knows the motion of the last CAM, but between a send and its notification, when the
thread still has that CAM. In the refinement `CAImplementsGeneration`: `Spec =>
ImplementsGeneration`, `Check` maps to `Draft` if it generates a CAM that can be copied,
`Prepare` to `Trim` or nothing, `Send` to `Emit` or `GiveUp`, `configure` and `setMotion` to
`Change`, `Tick` to `Pass`, and everything else to nothing; it needs `Spaced` and `LFCDue`
because the manager's ages are not the ones of the sends.

`NALProofs`, for messages and datagrams of any size, any number of callbacks and of failures:
`NALTypeCorrect`, `NALNoMemoryFault`, `NALNothingLeaks` and `NALSendCovers`. `OneTakerAssumption`
says that one callback takes the messages, the service's; two would both free them. `NALInv`
says that the vector holds what was registered in this order (`VectorInv`), who owns the
decoded message at each step of a round (`RoundInv`), which has the callback that took it
behind the loop's position, and that the bytes before `chunkStart` are in one datagram each
and those behind it in none (`SendInv`). The theorem on memory is about ownership; that the
loop does not run over memory that is gone (`iterator`) is false when a callback is registered
while a message is handled.

`NALImplementsChannel`, the refinement `Spec => ImplementsChannel`, holds under the same
assumptions. `ChannelInv` adds that the datagrams of a message are made once (`SentOnce`), so
that a whole message is never on the network when it is sent, and that a round's message was
received whole (`WholeRound`). The copies in the socket are counted as the positions of a
sequence (`AtAppend`, `AtTail`). `SendTo` maps to `Carry` if its datagram is the whole message,
to `GiveUp` if it is the last or the send fails, and to nothing otherwise; `Arrive` with a
datagram that stays on the network to `Duplicate`; `Decode` to `HandOut`; a datagram that is
received into the buffer is only moved.

`CAProofs` has also, for all arguments of the conversions: `ConversionsInRange`, each value
satisfies the constraint of its ASN.1 type, which the encoder never checks; `HeadingOnCircle`,
the heading sent is the one set, rounded, up to whole turns.

TLC checks the same properties in the runs listed above, on uses that remove as well where
they hold there. What stays with TLC only, and why:

* Liveness under fairness and `ENABLED`, which the prover does not reach: `CallsReturn`
  (its safety is proved, see `CallsBounded`), `MotionReported`, `StopReturns` (of the
  dissemination and of the receive thread), `WholeMessagesHandled`.
* `Interoperates`, what other stations send in their four styles: constructed strings, indefinite
  lengths and unknown members are read by the parts of the decoder that the theorems leave out.
* `PartsRejected` for the second of two datagrams and for messages of the other kind: that these
  are refused depends on the octets that happen to stand at the cut and on the two descriptors,
  not on the form of the codec. For the first datagram it is proved.
* `CopyFaithful` of what other stations sent, as far as the decoder's part in it goes:
  `CopiesFaithful` derives it from the two properties above.
* The runs of `expect` "violation" are counterexamples, of which there is nothing to prove.

## 5. What is not modelled

* PER, XER, printing, the constraint functions as such and the freeing of structures in
  `src/msg`, and `XEREncoder`: no service of the library uses these encodings, and a
  constraint function is never called. Restarting the decoder in the middle of a message,
  which `DEREncoder` does not do.
* Octets that no encoder makes, beyond the parts of a message and messages of the other kind;
  so what the decoder does with octets that follow a tagged CHOICE of indefinite length where
  its end should be (`constr_CHOICE.c`, from line 311) is in the model but in no run.
* Floating point: the haversine distance, the precision of `float`, and with it the conversions
  from ITS to SI units.
* The last error message (`Exception`), the conversion of messages to the structures of
  `level.h`, the getters and container setters of the wrappers: nothing depends on them.
* The construction of the singletons and the end of the process, running out of memory, a
  clock that is set back, callers that hold a view while they make another call.

## 6. Plan

1. The composition of two network layers on one port.
2. The haversine distance, if a bound on its error is wanted.
