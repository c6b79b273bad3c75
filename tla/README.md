# RemoteNamedServer: TLA+ models, checks and proofs

RemoteNamedServer lets a Java program register a service under a name and lets
other programs call it by that name. Processes find one another by UDP
multicast; calls travel over a TCP or UDP transport; a sub-project buffers
incoming packets on disk before it hands them to the application, another
pools JDBC connections. Everything below was translated from the Java sources,
and `PROJECT.json` names the lines of every definition.

Contents: [the system](#the-system), [plan](#plan), [the modules](#the-modules),
[the runs](#the-runs), [fairness](#fairness), [proofs](#proofs),
[what is left out](#what-is-left-out).

## The system

| component | state | operations | hard behaviour |
|---|---|---|---|
| Service registration: `ServiceRegistry`, `ServerBoxSet`, `ServerInstances` | the listener `reqInfo`, the boxes, the registered services | `AddServers`, `AddServeBox`, `AddServerBox` | announces and saves whether or not a transport opens; multicasts before it saves; ignores that a box is missing |
| Service tables: `ServersContains`, `ServerInfoSave`, `InitPlugin` | one static `ConcurrentHashMap` of plain `ArrayList`s per JVM | `Add`, `GetCur` | several threads write one list; check-then-act on the map |
| Discovery threads: `RecRequestInfo` (port 224), `RecServerInfo` (port 223), `MulticastRec`, `MulticastSend` | sockets, iterators over the live table | answer a request with the whole table; add what is received | lost datagrams; an exception ends a receiving thread for good |
| Client lookup: `ProxyClient`, `ServerSave` | `ServerSave.plugin` | `CastObj` | publishes `plugin` before the receiver runs; a fixed sleep instead of an answer |
| Service calls: `ServerClient`, `BridgeClient`, `ClientToServer`, `RecDataCall`, `ServerBox`, `ServerPorxy` | the objects registered at a port, `Is_Start` | `SetData`, `CallData`, `GetData` | one field for the current object, exceptions that end the transport's loop |
| Transports: `TCPProtocols`, `UDPProtocols` | one accept or receive thread | `SendData`, `RecData` | messages longer than one read are cut; a failed write leaves its socket open; errors are reported as success |
| Load balancing: `cirALL`, `KetamaNodeLocator` | a ring per lookup, the static `NODE_COUNT` | choose one of the services of a name | the static count is shared by all lookups |
| Delayed-data pipeline: `DataCenter`, `DataBus`, `PersistentStorage`, `QueueID` | static cache, key counter, delay counter, database, bus queue | `AddData`; the DBCache thread; the bus thread | no lock anywhere; crash with unsynced commits; partial failure |
| Embedded store: `BerkeleyDB` | `Is_Open`, environment, database | write a batch, select the oldest, delete a list, ... | two threads open it, a failure to open is swallowed; aborts and returns false; transactions nobody ends |
| Connection pool: `ConnectionPool`, `DBHelper` | free list, thread-to-connection map, `contActive`, a monitor | `getConnection`, `releaseCurConn`, a checking timer | check-then-act on safe collections, lost updates of a volatile counter, wait and notify |
| Remote management, `ServerManagerCenter`, serialisation, configuration, mapped files, database helpers, class loading, XMPP, examples | - | - | see [what is left out](#what-is-left-out) |

How they interact. A server JVM's registering thread starts a transport's
thread, without waiting for its port or hearing of a failure, starts the listener of port 224 once, multicasts the `ServerBinds` on port 223 and then
writes its own table. A client JVM's first `CastObj` starts a receiver of port
223, multicasts a request, sleeps three seconds and looks into its own table,
which only the receiver has been filling. The found entry becomes a proxy whose
calls go over the entry's transport to `RecDataCall` in the server JVM, which
picks the object by name. Independently, the transport threads of a
data-processing program call `DataCenter.AddData`; the thread that fills a batch
writes it to BerkeleyDB, a worker selects, pushes and deletes, and the bus
thread calls the application's `IQueueCall`. All tables and caches are static
fields: the coupling inside a JVM is shared memory without locks, between JVMs
it is datagrams without acknowledgement.

What makes each part correct:

* Discovery - a table holds only services that were registered, under their own
  names, never loses one, an answer is complete, a listening client learns of a service, and
  a caller's proxy is for a service its process knows under the asked name.
* Pipeline - a packet accepted is never overwritten or dropped before it is
  pushed; what reached the disk outlives a crash; only what was pushed is
  deleted; a stored record is delivered.
* Pool - a connection is never lost to the pool, a waiting thread gets a free
  one, two threads do not share one.
* Calls and transports - a call reaches the object of its name at most once and
  in the order of its caller, a registered service has a thread that receives
  until a harmful call ends it, and a call that is merely unknown does not.
* Balancing - the ring's answer is the clockwise successor of the key, a new
  service takes keys over and moves no other, and a lookup returns one of its
  own services whatever other lookups do to the static count.
* Store - records change by whole transactions, an answer says what happened,
  a selection is of the oldest records, locks go with their operation, and every
  operation ends.

`PROJECT.json` lists the components with their files and the hazards at their
lines.

## Plan

1. `Directory`, `Discovery`: what discovery promises and how it does it. Done.
2. `Relay`, `DataCenter`, `DataCenterProofs`: the same for the pipeline, with the
   first theorems. Done.
3. `ConnectionPool`: `getConnection`, `releaseCurConn`, the timer. Done but for
   what nothing calls.
4. `Mailbox`, `ServiceCall`: proxies, transports and `RecDataCall`, and the mailbox
   they amount to. Done. Left: the composition with `Discovery`, whose `registered`
   and `found` stand for a registration and a proxy here.
5. `Ring`, `Balance`: the Ketama ring as a function on bounded points against the
   definition of the clockwise successor; `cirALL` with two lookups that share
   `NODE_COUNT`. Done.
6. `Records`, `Store`: the operations of `BerkeleyDB` with their transactions, and
   the records they amount to. Done. Left: `DataCenter`'s `Save`, `SelectList` and
   `DeleteList` are still their own, with the outcomes that `Store` has.
7. Proofs: the safety of the pipeline, of discovery, of the pool, of balancing, of
   the store and of service calls. Done; what is proved is under [proofs](#proofs).
8. The composition of `Discovery` with `ServiceCall`. A registration starts its
   receiver's thread and multicasts without waiting for the port to be bound
   (ServiceRegistry.java:39 before 58), so that a client may call a service that is
   announced and not yet bound; `ServiceCall` has the refused connection
   (`ConnectFails`) without the multicast that leads to it.

## The modules

| module | models | note |
|---|---|---|
| `Directory` | the promise of discovery | `Register`, `Learn`, `Ask`, `Find` |
| `Discovery` | registration, the two multicast threads, tables, `CastObj` | implements `Directory` |
| `Relay` | the promise of the pipeline: at-least-once relay | |
| `DataCenter` | `AddData`, `AddCahe`, worker, bus, database, crashes | implements `Relay` |
| `DataCenterProofs`, `DataCenterOnceProofs` | theorems about `DataCenter` | TLAPS |
| `DiscoveryProofs`, `DiscoveryTableProofs` | theorems about `Discovery` | TLAPS |
| `ConnectionPool` | the pool as `DBHelper` uses it, and its timer | |
| `PoolProofs` | theorems about `ConnectionPool` | TLAPS |
| `Mailbox` | the promise of a service's transport and proxy | `Offer`, `Post`, `Lose`, `Handle` |
| `ServiceCall` | registration at a proxy, transports, the way of a call | implements `Mailbox` |
| `CallProofs` | theorems about `ServiceCall` | TLAPS |
| `Ring` | `KetamaNodeLocator`: labels, points, the node of a key | pure |
| `Balance` | `InitPlugin.GetCur` and `cirALL`, lookups at the same time | extends `Ring` |
| `BalanceProofs` | theorems about `Ring` and `Balance` | TLAPS |
| `Records` | the promise of the store: records change by whole operations | |
| `Store` | `BerkeleyDB` and `PersistentStorage` | implements `Records` |
| `StoreProofs` | theorems about `Store` | TLAPS |
| `MC...` | values for TLC | |

An operator whose comment begins with "Mutant" is not part of a model: it is a
definition with a plausible mistake (a dropped test, an off-by-one, a forgotten
step) which, put in place of the definition it names, must make a property
fail. `PROJECT.json` pairs each property of a run with one.

### Discovery

One action per piece of code between two points where another thread can
interfere with shared state. `AddServers`/`AddServeBox` run up to the multicast,
`NoticeServerInfo` is the multicast, `AddCheck`, `AddPut` and `AddAppend` are
`ServerInfoSave.Add` - in the registering thread and in a receiver alike -, and
`KeepInstance` the rest. The answering thread is `TakeRequest`, `NextName`,
`SendNext`, `EndOfList`, `EndAnswer`: two nested iterators over live
collections. The map's iterator is weakly consistent; the list's is fail-fast,
so that a change between two calls of `next` is `ListenerDies`, and during
`Add`'s scan `AddFails`. A list is identified by the thread that made it and the
name, an entry by a service and the identity of its `sid` string, because `Add`
compares with `==`, which no two strings made at run time satisfy: `AddCheck`
finds an equal entry only if it is the same object.

`CastObj`, `InitRecSeverInfo`, `ReqServerInfo`, `WakeUp` and `GetCur` are the
calling thread. `WakeUp` is enabled at once: three seconds promise nothing. With
several entries for a name, `cirALL` takes one by a random key; `GetCur` takes
any.

`registered` is what a registration has announced, and nothing more:
`ServerPorxy.AddServers` calls `ClientToServer.InitServer`, which does nothing without a
transport, catches every exception and leaves the bind to another thread, and
then announces and saves the service in any case. No property of `Discovery` says
that a service one has learnt of can be reached.

What `==` costs: `ServerBinds` calls `sid` a mark for information that was already
received (ServerBinds.java:34), but a notice and every answer that name a service
add it once more, for ever. `Directory` says so: what a process knows under a name
is a sequence, `Learn` appends, and nothing in it is ever displaced.

Approximations. A socket that cannot be bound or does not join the group ends the
thread of a `MulticastRec` before its loop (`"failed"`), and nobody starts another;
liveness is stated for receivers that have joined. Left out are the log, the
address parsing of a registration and the port in an entry. A torn `ArrayList.add` is the later store
at any index between the size it read and the current one; growth of the
backing array, which could leave null holes, is left out. Reads of plain static
fields see the last write. `Balance` has the race inside `cirALL`.

#### RacyTables

A table with one writer only grows (`NothingForgotten`). Two writers arise in one
JVM in two ways: two calling threads both find `ServerSave.plugin` null and start
a receiver each, or a JVM both registers and calls. Two `AddPut`s of one name then
replace one list by the other, and of two `AddAppend`s one may overwrite the
other: an entry is gone for good, because nothing is announced twice. No source
line promises otherwise, so that this is a limit of the property and no finding:
`DiscoveryShared` shows what survives it (`ListenerStaysUp`, and `AuthenticSafe` is
proved for any number of writers), and `DiscoveryLossy` checks
`NothingForgotten` with one writer per table.

### DataCenter

`AddData`, `CountDelay`, `StartThreadDB`, `CheckSecond`, `SetSecond`, `MakeKey`,
`PutCache`, `CheckSize`, `CopyCache`, `ClearCache`, `Save`, `CheckDelay` are one pass
of a transport thread; the delayed flush `AddCahe(null)` reuses copy, clear and
save with `last` set. `delayNum++` and `queueid++` are a read and a write. The worker
is `SelectList`, `PushRecord` for each record in any order (a `HashMap` of byte
arrays), `DeleteList`; `PushNull` is the exception of `put(null)` for a record that
does not deserialise (`Poison`), after which nothing is deleted. `AddNull` is a
message that became no model: `RecData` passes the null on, `AddData` dereferences it,
and the thread is `"ended"`. `OutData` and
`ConsumerThrows` are the bus thread. `SetCall` is the application assigning
`DataCenter.call`, which the bus captures when the first packet makes it.

Keys are pairs of a second and a counter. The code concatenates their decimals;
a second has ten digits for the next two centuries, so that pair and string
determine each other. `getItem(n)` stops at n records, but only after it has
counted the second one: `Oldest`. It orders records by byte string; the model
orders them by second and leaves the order within a second open ("10" sorts
before "9").

The first `Save` opens the database. `openDatabase` swallows its exception and
`Is_Open` goes up all the same: after `OpenFails` every batch is lost (`SaveUnopened`)
until a restart. `SaveFails` and `SaveThrows` are a batch lost otherwise. All count
as faults, which `MaxFaults` bounds.

A thread reaches the late flush (`CheckDelay`) only if `delayNum`, which each batch
sets to zero, exceeds `MaxDelay` before the batch is full. With the code's 500 and
100 one thread never does; `DataCenterCrash` takes a `MaxDelay` below its `BatchSize` so
that the branch, and what it does with a crash or a failure, is run.

Commits are not synced. `WriteLog` makes the committed state the one a crash goes
back to, `Crash` restarts the process with its statics reset. A restart takes
`MinOutage` seconds or more; with 1, no key of the new process can meet one of
the old.

`Backward` allows the clock to be set back. No run uses it, the theorems exclude
it (`SteadyClock`), and both `NoPacketLost` and `PersistedIsKept` fail with it, since a
second comes twice and its counter starts at zero twice.

#### The threads of AddData

None of `DataCenter`'s fields is guarded. With two transport threads a packet put
between another thread's `putAll` and `clear` is lost, two equal keys overwrite one
another, and two workers may run over one database. The repository's only
caller, `RecData`, hands packets over from the one receiving thread of its
transport, so that the promises are stated for one thread (`OneReceiver` in the
theorems). What any number of threads still cannot do is let the cache outgrow a
batch by more than their number: that is `CacheBoundedSafe`, for every set of
`Receivers`. No run checks it: with one thread it would say little, and with two the
other promises of a run do not hold. The static
`HashMap` itself is taken to be correct under concurrent puts; its internal
corruption is left out.

### ConnectionPool

Operations are `update` (which never gives its connection back) and `query` (which
does); a batch insert asks as two updates would. `Lookup` joins
`threadConnected.get` and `freeConnection.size()`: only the thread itself binds it,
so that nothing between the two reads matters. `TakeFirst`, `Bind`, `DropFirst` are
`get(0)`, `put` and `remove(0)`, each atomic, together not. `NewConnection`, `Wait`,
`Retry` are the block guarded by `lock_Obj`; `Retry` asks again while holding it,
and every level counts the connection once more, which `depth` records up to
`MaxDepth`. `Release` ... `NotifyAll` are `releaseCurConn`. `CheckBegin`, `Collect`,
`ScanBegin`, `Reclaim`, `Unbind`, `CheckEnd` are the timer: the live threads are
enumerated, those that are bound are collected one by one, and then the map is
gone through. A thread that ends between `activeCount` and `enumerate` leaves a null
in the array, and the exception ends the `Timer` for good (`"ended"`): connections of
ended threads are never reclaimed after that. `contActive` is volatile, its `++` and `--` a read and a
write - the timer's too.

Left out: `releaseConn`, `getCurrentConnecton` and `destroy`, which nothing calls,
`activeConnection`, which only they and the log read, the in-memory mode, which
hands one connection to all, and connections closed by the database.

`contActive` is meant to bound the pool and cannot: it is counted once per call and
per nested `Retry`, and two threads may lose one another's update.
`ConnectionsBounded` says what bounds the pool all the same: a thread makes a
connection only when none is free, which, as long as none was lost, means that
all are bound to other threads.

### ServiceCall

A thread runs its `Program`, a sequence of registrations and calls. A
registration is `ServerPorxy.InitServerThread` in steps at which another thread can
interfere: the test of `Is_Start`, `recClient = new RecDataCall`, `calldata = recClient`,
`CreateObject`, and the start of the receiver with `Is_Start = true`. A `RecDataCall` is
named by the registration that made it. `CreateObject` is the same for a
registration and a client's proxy: `CheckSize`, a `PutTransport` for each transport
of the directory, and the look-up inside `StartReceiver`, `Connect` or `SendNothing`.

`posted` is the order in which connections were opened or datagrams sent and
`phase` says where each call is; the two are the network. `Receive` is `accept` and
`read`, or `receive`, with `DataSys` up to its use of `theIServer_`; it waits for the
first connection to be written to or closed, as `read` does, so that accepting
needs no step of its own. `Invoke` reads the field again and calls the object. An
exception that is no `IOException` ends the thread, whose socket stays open until
it is collected: after that a connection is accepted by nobody (`Connect`) or
refused (`ConnectFails`). `Killed` ends a client's process between `connect` and `write`,
which closes all the connections it has open. A write that throws, on null data or
otherwise (`WriteFails`, calls that `breaks`), leaves the client's socket open: the
connection is `"abandoned"`, and the one receiving thread waits in `read` for it, with
every later call behind it, until the collector closes the socket (`Collected`),
which nothing promises. A message longer than 1024 bytes (`~fits`) arrives cut,
never deserialises and ends the thread; `throws` is a call whose service throws.

An address may refuse the bind (`Blocked`): one that is taken, or a UDP service at
any address, where the socket is bound by its constructor and the second `bind`
throws. The thread goes round with exceptions and receives nothing.

Two receiving threads on one port: the second TCP bind fails and the thread goes
round with exceptions (`failing`), UDP sockets share the port and take datagrams in
any division. `GetData` of a client's proxy goes by `BridgeClient.socket`, which is
never assigned: nothing is sent (`SendNothing`).

`Mailbox` is what a service may rely on. A call is pending from its connection
until it is handled or lost, and any call may be lost; one that is handled is
handled once, by an object offered under its name, and on TCP not after one that
connected later. The mapping reads `pending` off `phase` and `offered` off the
registrations that have put their object into a `RecDataCall`.

Approximations. A message that fits is read whole: it is written at once and
shorter than a segment. The backlog has no limit; a name that cannot be
resolved is left out, as are the addresses a transport records. `ServerBox.serverBox` is written and never read.

`Callable` and `Taken` are about receiving threads that are up: a dead or failing one
does not count. So they exempt what the code leaves a caller without: an
address in `Blocked`, a port that a harmful call has reached (`Spoilt`), and for a
call also a connection accepted before it and abandoned (`Behind`).

Two threads that add to one box (`ServiceCallBox`) or register while a proxy is
being made in the same JVM break `Callable`: the second `RecDataCall` replaces the
first, or the transport is not found. `Callable` and `ImplementsMailbox` are therefore
checked with one registering thread in a JVM of its own, as the server of the
examples is (TestMainServer.java).

### Ring and Balance

The name of node k is "node" and the decimal k, a label is the name followed by
the decimal i: both are the number written that way, so that "node1" + "10" and
"node11" + "0" are the same label, as they are in the code. MD5 with the four
32-bit words of its digest is any function from labels to non-empty sets of
points, chosen once in `Init` and the same for ever; the circle has `Size` points.
`ketamaNodes` is the `TreeMap` after all puts (a later node replaces an earlier one
at its point), `getNodeForKey` its look-up with `tailMap`; `IsSuccessor` says
without a map what the answer should be.

`GetCur` copies the list, `SetCount` writes `NODE_COUNT`, `FillNodes` reads it again and
deals the elements out, `Choose` builds the ring and asks for a random key. Two
writes in a row and two reads in a row are what other threads can come between;
everything else of a lookup is its own. More nodes than elements is the
`IndexOutOfBoundsException` of `listData.get(i)`, which leaves `CastObj`: `"failed"`.
Fewer is a ring that lacks services at the end of the list, for that lookup.
`GetCur`'s `size()`, `size()` and `toArray()` are one step, since the list only grows; a
list another `AddPut` replaces stays what it was for the lookup that holds it.

`LabelsStay` assumes a hash that separates the labels (`Separates`), which MD5 is not
proved to be. What it says then is about the labels alone, not about
how much of the circle each service has: under the run's own first hash, two services
have ten points and six, though both keep every label. Up to ten
services it is that none loses a label; with eleven or more the meeting labels
above cost a node up to thirty of its forty. In the small instance `Base` is two,
and the third service is the "eleventh"; `LabelsStaySafe` is for every base, ten
included, and every number of labels.

### Store

An operation is a transaction of the calling thread; its steps are the single
calls of the library - `PutRecord`, `DeleteRecord`, `MoveNext`, `Read` - and its end. The
library (`com.sleepycat.je`, external) is what the code relies on: a record that is
written is locked until its transaction ends, one that is missing too
(serializable isolation locks the range), a cursor of read-committed isolation
has a read lock on the record it stands on and no other, a rollback restores what
was there, an abort throws while a cursor is open, keys are in order. `Free`, `Unlock`, `RollBack` and `Change` say no more than that. `TimeOut` is
a `LockConflictException` in whatever operation waits, with what its catch block
does and returns (`Refused`).

A `put` tests `Is_Open`, opens the database and sets the flag in three steps
(`Begin`, `OpenDatabase`, `SetOpen`), and no other operation looks at it: two threads may
both open, and one may come before the database is there. `openDatabase`
swallows its failure, after which every operation gives what `Missing` says.

Four details of the code are in the model because tests would hardly meet
them. A select whose wait for the next record is too long aborts in its catch
block before it closes its cursor; the abort throws because the cursor is open,
so that the select throws too and the cursor stays where it stands: no thread
writes that record again (`LeaveCursor`, `left`). A value that is null (`MsgPackTool.Serialize` of a null object, and `Save`
passes it on) makes `put` throw outside the catch block that aborts:
`PutNothing`, and the locks taken by then belong to `Lost` for good. `getItem`
compares its count after the second record: `Enough`. `Save(String sql)` sets the
`Is_Open` it shares with the other two without opening the database: `SaveSql`.

What the library answers to misuse is left open or left out. `deleteFromDatabase`
of a single missing key aborts a transaction it has committed: the answer is
true or an exception. `closeDatabase` has no caller; `cleanLog` changes no
record; crashes are in `DataCenter`, which needs them.

`AnswerIsTrue` and its limits. With `isOverwrite`, as `PersistentStorage` always calls
it, true means all of the batch and false none of it. Without it the answer is
the last record's alone, and nothing is claimed. `Save` looks at neither:
`DataCenter.SaveFails` is the batch lost that way, `SaveThrows` the batch lost when one
of its packets does not serialise. `DataCenter` has its own, simpler `SelectList`, in
which a select that fails leaves nothing behind.

## The runs

| run | instance | shows |
|---|---|---|
| `DiscoveryLossy` | one server JVM, one client; two registrations of one name, the second in a box; one lost datagram; fair threads | `TypeOK`, `Authentic`, `NothingForgotten`, `AnswerIsComplete`, that `Discovery` implements `Directory`, and - while nothing is lost - `AnnouncedIsLearnt` and `RequestIsAnswered` |
| `DiscoveryShared` | two calling threads in one client JVM, one service | with one registration of the name, `ListenerStaysUp`, although two receivers may write one table |
| `DiscoveryListener` | two registrations of one name, one client | **violated**: `ListenerStaysUp`. The second registration appends to the list being iterated over; the listener thread of the JVM is gone and no other is started |
| `DiscoveryMissed` | one service, one client, no loss | **violated**: `EveryClientLearns`. The client joins after the notice and is answered before the table is written |
| `DataCenterRelay` | one thread, batches of two, four packets, three seconds, no failure, fair threads | `TypeOK`, `NoPacketLost`, `PushedOnce`, that `DataCenter` implements `Relay`, `StoredIsDelivered` |
| `DataCenterCrash` | batches of three or a late flush, four packets, one of them poison, a crash, a failure | `PersistedIsKept`, `OnlyPushedIsDeleted` |
| `Pool` | two threads, two operations, limit two, one run of the timer, fair threads | `TypeOK`, `NoConnectionLost`, `ConnectionsBounded`, `FreeIsTaken` |
| `PoolShared` | two threads, two operations | **violated**: `OneThreadPerConnection`. Both take `get(0)` before either removes it |
| `ServiceCall` | one thread registers a box of two services on TCP, one on UDP and one on an address that refuses the bind; two clients make three calls each: one cut, one whose write fails, one refused by its service, one `GetData`; fair threads | `TypeOK`, `Callable`, `StaysUp`, `OneReceiver`, `Taken`, and that `ServiceCall` implements `Mailbox` |
| `ServiceCallBox` | two threads each add a service to one box | **violated**: `OneReceiver`. Both test `Is_Start` before either sets it, and two receiving threads are started |
| `Balance` | two lookups, a list that grows to three entries of two services, sixteen points, four hashes | `TypeOK`, `ClockwiseNext`, `Consistent`, `LabelsStay`, `OwnService`, `FailsOnlyCrossed` |
| `Store` | two threads with two operations each out of ten, three records, opening that may fail, fair threads | `TypeOK`, `LocksLeft`, `AnswerIsTrue`, `SelectIsOldest`, `OperationEnds`, and that `Store` implements `Records` |

Why the bounds are enough. A discovery hazard needs one thing being registered
while another is answered or received: two services, one client and one lost
datagram give every order of a notice, a save, an answer and a loss. A pipeline
hazard is a collision of keys or of a batch with another: two batches, three
seconds and four packets make the counter restart and a
selection smaller than the database happen, and a delay limit below the batch
size the late flush; a crash or a failure needs one
occurrence between any two steps. In the pool, a lost notification needs
one owner and one waiter, a wrong reclaim one run of the timer, and a second
operation lets a thread come back to a connection it has given away. A service call
meets its hazards in the four orders of a registration, a call, a call that ends
the thread and one after it; three calls of a client and two names in a box give
them all, on either transport. Two lookups are enough to cross, three entries to
make a count too large or too small; the four hashes are one that separates
labels, one with two points to a label and two under which labels meet, so that
points collide and keys wrap round. Two transactions deadlock over two records,
and a third record is what a selection may miss.
`MaxLoss`, `MaxSecond`, `MaxCrash`, `MaxFaults`, `MaxQueue`, `MaxOps`, `MaxDepth` and
`MaxChecks` are the only bounds that are not in the code; each is named where it is
declared. Deadlock is checked for `Discovery`, which never stops: a thread may
always call again. `DataCenter` stops when its packets are used up and
`ConnectionPool` when its operations are, so that deadlock is not checked there.
`ServiceCall` stops when every call has been made and the receiving threads wait:
neither is deadlock checked there. `Store` stops when its operations are used up;
that threads do not block one another for ever is `OperationEnds`. In `Balance` a
lookup may always begin, and deadlock is checked. Symmetry is used only in runs without temporal
properties.

## Fairness

`Discovery`: weak fairness for each thread that the JVM runs - registration once
it has begun, the listener, a receiver, a calling thread once it has called.
Java's scheduler runs every runnable thread sooner or later; none of these
threads competes for a lock. Whether an application registers or calls is
not promised. The liveness properties let go once a datagram is lost: nothing
is sent twice, so that one lost datagram is never made good. `DiscoveryMissed`
excludes loss (`MaxLoss = 0`).

`DataCenter`: weak fairness for each transport thread inside `AddData`, for the
worker and for the bus thread. New packets, the clock, log writes and failures
are not promised; `StoredIsDelivered` is stated for the process's life (a crash ends
`open`).

`ConnectionPool`: weak fairness for each thread inside a call and for the timer's
task once it runs. A waiting thread's `wait` has a time limit, so that `Retry` needs
no notification; weak fairness suffices since the property lets the thread go
as soon as the free list is empty again.

`ServiceCall`: weak fairness for each thread of a program and for each receiving
thread. A thread that has connected goes on to write, but nothing says that the
write succeeds. Nothing makes a process be killed or the collector run.

`Store`: weak fairness for each thread inside an operation, opening included. A thread that waits
for a lock is not stuck: the library's lock time limit of a second (`setLockTimeout`)
is the step that is always enabled then.

## Proofs

`DataCenterProofs` proves, for every set of packets, batch size, delay limit,
selection size and bound:

* `TypeCorrect`: `Spec => []TypeOK`. No assumption beyond `DataCenterAssumption`.
* `PersistedSafe`: `Spec => []PersistedIsKept`, assuming one transport thread
  (`OneReceiver`) and a clock that is not set back with restarts of a second or
  more (`SteadyClock`). Crashes, failing transactions, consumer exceptions and
  poison are all allowed.
* `NoPacketLostSafe`: `Spec => []NoPacketLost`, assuming the same and that neither
  crashes nor failures occur (`MaxCrash = 0`, `MaxFaults = 0`).

The argument. `NoPacketLost` fails when a put or a save overwrites a record, or a
delete removes one that was not pushed. That it does not needs an invariant about
keys, of four parts:

* `KeysSpent` - every key in the cache, in the batch being saved, in the
  database or on the disk is spent: its second is over as far as `keymill` knows,
  or it is `keymill` itself with a smaller counter, or the key and `keymill` both lie
  before the clock and the thread is not between its stamp and its put, so that
  it will stamp anew.
* `Stamping` - `keymill` is never ahead of the clock and behind it in `SetSecond`; the
  key a thread is about to put is the current second and counter.
* `Apart` - neither the cache nor the batch in the thread's hands has a key in
  common with the database; the batch is the cache until it is cleared, and the
  cache is empty until it is saved.
* `Pushing` - the worker's records are those the database has under these keys,
  and the ones marked for deletion have been pushed.

`KeysSpent` alone is not inductive: `CheckSecond` starts the counter again, which is
safe only because the clock has passed the old second, and between `MakeKey` and
`PutCache` the key is chosen and not yet counted; `Stamping` says so. `Apart` is what makes `Over` in `Save` a disjoint
union, so that `Held` of the result is the union of both. `Pushing` is needed
because `DeleteList` deletes by key: if another save could have put a new packet
under a key selected earlier, it would be deleted unpushed. The proof has one
lemma for each group of actions (`InvReceive`, `InvStamp`, `InvCache`, `InvSave`,
`InvWork`, `InvEnvironment`), and each leaf names the facts it uses.

* `OnlyPushedIsDeletedSafe`: `Spec => OnlyPushedIsDeleted`, assuming `OneReceiver` and
  `SteadyClock`. `Pushing` has the records a worker deletes pushed; a save leaves that
  so because of `Apart`: it puts no packet under a key the database has.

More theorems about the pipeline. `CacheBoundedSafe` is for any set of transport
threads: `Crowded` counts the packets beyond a batch against the threads that are
between their put and the end of their `AddCahe`, each of which brought one.
`PushedOnceSafe` (`DataCenterOnceProofs`) assumes that nothing disturbs the pipeline
(`Undisturbed`: one thread, steady clock, no crash, no failure, no poison). Its
`OnceInv` adds to the invariant above that a packet is in one place and under one
key (`OnePlace`), that a record in the database which was pushed is one its worker
has noted for deletion (`Noted`), and that the worker is the only one (`OneWorker`).
`PipelineIsRelay` is `Spec => ImplementsRelay` for any `Poison`, assuming that otherwise
nothing fails (`Faultless`) and that the consumer is set before the first packet
(`EarlyCall`). `PushedOnce` needs `Poison = {}`, since a record that does not deserialise
makes its worker push the others again; `Relay` is at-least-once and allows it.
`Posted` and `Fresh` are what it adds: the bus knows its consumer, what was pushed is
in its queue or was handed over, and a packet no thread has taken is nowhere, so
that taking a packet from the queue is the only way out of what `Relay` keeps.

`DiscoveryProofs` proves, for any processes, callers, services and names, with any
losses:

* `TypeCorrect` and `AuthenticSafe`: `Spec => []TypeOK`, `Spec => []Authentic`. The
  invariant says what a step cannot see: what a list holds and a datagram carries
  is a registered service under its name (`ListsInv`, `InfoboxInv`), what a thread in `Add`
  has in its hands still is (`AddingInv`), the tables point only to lists with
  an element (`TablesInv`), and the iterator is within its list unless the list was
  changed since, which `next` notices (`AnswerInv`). The last is needed for the type
  of the datagram `SendNext` makes.
* `NothingForgottenSafe`: `Spec => NothingForgotten`, assuming `OneWriter`. `OwnTable`
  is the reason: with one writer, the absence `AddCheck` saw still holds at
  `AddPut`, and the size it read is still the size at `AddAppend`.

`DiscoveryTableProofs` goes on from there, for any losses and again assuming
`OneWriter`:

* `DiscoveryIsDirectory`: `Spec => ImplementsDirectory`. A step of `Add` is a `Learn` of
  the directory or nothing to it (`DirectoryAdd`, from `OwnTable` and `Authentic`), and
  the list that `InitPlugin.GetCur` finds under a name is all the process knows of it
  (`DirectoryFind`).
* `AnswerIsCompleteSafe`: `Spec => AnswerIsComplete`. `AnswersInv` says what an answer
  under way has still to send: what was saved when it began has been multicast, or
  lies under a name to come, or beyond the iterator in the list at hand. Each step
  of another thread leaves that true because tables only grow (`Grows`).
* `ListenerStaysUpSafe`: `Spec => []ListenerStaysUp`, without `OneWriter`, where a process
  that serves is no client (`Dedicated`) and registers no name twice
  (`DistinctNames`): two registrations of one name are what `DiscoveryListener` ends
  the listener with. `HomeInv` has the lists of a table made by threads of its own process,
  and `StableInv` that its one registering thread finds every name absent, so that
  it puts new lists and never appends to one an answer iterates over. TLC found
  `ListenersInv` inductive on small instances before it was proved.

`PoolProofs` proves, for every finite set of threads, any operations, limit and runs of
the timer, `TypeCorrect`, `NoConnectionLostSafe` (`Spec => []NoConnectionLost`) and
`ConnectionsBoundedSafe` (`Spec => []ConnectionsBounded`). Until
two threads have been in the unguarded take at once (`overlapped`), `Kept` holds: the
thread that has done `get(0)` has the head of the list, and every connection
is bound to a thread or stays free after the pending `remove(0)` (`Rest`). The timer
adds a connection to the list before it unbinds the thread; `Kept` says that
between the two the connection needs no owner. `Unbound` is what makes a binding never
hide another: a thread in the take is bound to nothing. `ConnectionsBounded` is not
inductive: a thread that has found the list empty may still make a connection
when the pool has changed. `Few` counts these threads (`Locked`) with the connections
made. A thread joins them when no connection is free; then `Kept` has each of
them bound to another thread, none of which is `Locked`, so that there are as many
threads bound as connections (`BoundCount`, a surjection) and the sum is no more
than the threads. That the threads are finitely many is part of `PoolAssumption`.

`BalanceProofs` proves, for every circle, hash, list of services and set of threads:

* `ClockwiseNextSafe` and `ConsistentSafe`: about the ring, in which the variables only
  supply the hash. `MinOfPoints` gets the least of a non-empty set of points from
  the well-foundedness of the numbers, `NodePoints` and `RingNodes` say whose point
  is whose, `NextPoint` that `tailMap(key).firstKey()`, or the first key, is the
  clockwise successor (`AnswerIsNext`), and `OneMoreNode` that a ring with a node
  more answers as before or with the new node.
* `LabelsStaySafe`: `Spec => []LabelsStay`. A label is a number written in `Base`, node
  and copy one after the other, and `Digits` (quotient and remainder) takes it apart.
  Up to `Base` nodes no two labels are equal. With more, a label of a copy of one digit
  can only equal one of a node before it with a copy of two (`OneAndTwoDigits`), and
  the later node wins its points (`LabelOwner`, `LabelLeadsHome`). `LabelsOfNode` counts
  the labels of one digit. `BalanceAssumption` asks that every label has its points.
* `TypeCorrect`, `OwnServiceSafe`, `FailsOnlyCrossedSafe`: about lookups at the same time.
  `Looking` says that a lookup which got through `FillNodes` has no more nodes than
  its copy of the list has elements, and that the shared count is the
  lookup's own until another thread writes it.

`StoreProofs` proves, for every number of threads, records, operations and bound,
with no assumption beyond `StoreAssumption`:

* `TypeCorrect`, `LocksLeftSafe`, `AnswerIsTrueSafe`: `Spec => []TypeOK`,
  `Spec => LocksLeft`, `Spec => AnswerIsTrue`. `OwnersRun` says who holds a lock, `Leaves`
  which step leaves one behind.
* `StoreIsRecords`: `Spec => ImplementsRecords`, the refinement as a theorem.
* `SelectIsOldestSafe`: `Spec => SelectIsOldest`. `Selected` says that a running select
  has every record up to its cursor that was there all the while, none beyond
  it, and too few to stop; its cursor goes to the least key above it.

The argument is two-phase locking. `Owning` says that a thread holds exactly the
records its unfinished write has come to; `PutSoFar` and `DeletedSoFar` say what
these records hold now and that `undo` has what they held. `Past` is what is
committed at a record: what `undo` has, or what the database has. A step inside a
transaction leaves `Past` of every record alone, a rollback restores it, and a
commit changes it on the records of one thread only, all at once, since what
others are writing is locked by them and not touched.

`CallProofs` proves, for every number of threads, any programs, services, boxes
and calls:

* `TypeCorrect`: `Spec => []TypeOK`, whoever registers. Each call held is in the hands
  of one receiving thread (`Held`), and the place a call's thread has come to says
  where the call is until it is sent (`Sending`).
* `StaysUpSafe` and `CallIsMailbox`: `Spec => []StaysUp`, `Spec => ImplementsMailbox`,
  assuming that the services of one proxy are registered by one thread
  (`OneRegistrar`). `Single` says that then a proxy has one receiving thread at most:
  two registrations of it are never under way at once (`Alone`). `Own` follows: a
  `RecDataCall` serves one proxy, so that no other thread writes the field
  between the look-up and the call, and the object in it is the one of the name.
  `Ordered` says that no call of a TCP port that was connected earlier still waits
  while a later one is in hand. `ServiceCallBox` shows what happens without
  `OneRegistrar`: it is the assumption that the code does not enforce.
* `OneReceiverSafe`: `Spec => []OneReceiver`, the property that `ServiceCallBox` refutes,
  assuming `OneRegistrar` and `OwnJvm` (below). `Single` gives at most one receiving
  thread, `Served` at least one.
* `CallableSafe`: `Spec => []Callable`, assuming in addition that the registering thread
  has its JVM to itself and that the transports asked for exist (`OwnJvm`). `Binding` has
  the bind succeed unless the address is `Blocked`, since there is one receiving
  thread, and only a harmful call ends that. `Filled`
  says that the transport map is empty, full, or being filled by the one task
  there is; `Served` says step by step what a registration has done.

Only model-checked: liveness under fairness, which is beyond this prover
(`AnnouncedIsLearnt`, `RequestIsAnswered`, `StoredIsDelivered`, `FreeIsTaken`, `Taken`,
`OperationEnds`). `CacheBoundedSafe` is proved and checked by no run. Every invariant, action property and refinement
that a passing run checks is also a theorem, under the assumptions named above.
Of the four properties that a run finds violated, two are theorems under the
assumption that the code leaves to its user (`ListenerStaysUpSafe`,
`OneReceiverSafe`). `OneThreadPerConnection` holds as soon as no two threads share a
pool and is not worth a theorem, and `EveryClientLearns` is liveness.

## What is left out

* `src/.metadata/.plugins/org.eclipse.wst.jsdt.core/libraries/*.js` (`system.js`,
  `browserWindow.js`, `dom5.js`, `xhr.js`, `baseBrowserLibrary.js`) are the only JavaScript
  of the repository, and no code of it: the declarations an Eclipse workspace keeps for
  code completion, functions with empty bodies that nothing loads. They have no
  behaviour a model could be faithful to. All the program is Java.
* `closeDatabase`, `Select(String, T)` - which writes, and nothing calls it -, and the
  removal of log files.
* `ServerManagerCenter` refers to classes the repository no longer has, and the
  remote management in `RequestServerInfo` has no other caller.
* Serialisation is a conversion by reflection. The models keep its outcomes: an
  equal object, or null.
* `ConfigReader` and `dom4jAnalyze` read a file into a map, in one thread.
* `MappedByteBufferFile`, `CacheSaveData` and the H2, PostgreSQL, Perst and
  Neo4j helpers have no caller and no protocol of their own.
* `JLoader` turns jar files into classes; its result is fixed while a program
  runs. The XMPP client and the examples demonstrate the rest.
