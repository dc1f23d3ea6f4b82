# A verification project for TcpDemo

TcpDemo is a small game back end in C++: four server processes that talk over
TCP, each built from the same network layer.  This directory holds TLA+ models
of the parts where the difficulty is (threads without locks, rings, framing,
edge-triggered I/O, a hand-made worker pool), the TLC runs that check them, and
TLAPS proofs: about the two rings that every server rests on (the ring of messages
between two threads and the ring of bytes behind every connection), the broadcast
and its workers, the cache of the db server, the gate with the connections of its
clients, and sessions across the login, game and db servers.  Every safety property
of the passing runs is proved for all values of the constants; liveness is left to TLC.

## The system

| process | threads | queues |
|---|---|---|
| login server | `product_msg`, `run`, `consume_msg` | receive 4096, send 4096 |
| gate server | two `product_msg` (one network for servers, one for clients), `run_server`, `run_client`, 32 broadcast workers | receive 64K twice; answers are written directly |
| game server | `product_msg`, `run`, `consume_msg` | receive 64K, send 16K |
| db server | `product_msg`, `run`, `consume_msg` | receive 4096, send 4096 |

A client logs in at the login server, which asks the db server for the
password (`GETPASS`) and, when it is the right one, for the whole player
(`GET_ALLINFO`).  The answer goes to the gate and to the client; the gate passes
it on to the game server, which makes a player of it.  The client then connects
to the gate, says `USERLOGIN`, and sends `USERUP`, `ITEMEVENT` and `USEREXIT`,
which the gate passes to the game server by another thread.  The game server saves
to the db server (`SETITEM`, `SETPLAYER`), and the gate broadcasts its `USERSYNC`
and `USEREXIT` to every client and gives `ITEMEVENT` back to the one.

| component (source) | state | operations | interacts through |
|---|---|---|---|
| `msg_queue` (`Net/message.cpp`) | `m_in`, `m_out`, a flag per slot | `enqueue`, `dequeue`, setting `m_flag` | memory shared by two threads, no lock |
| `tcp_socket` (`Net/tcp_socket.cpp`) | byte ring, two counters | `tcp_recv`, `recv_full`, `recv_by_len`, `tcp_send` | `read` and `write` on a non-blocking socket |
| `Net`, `Epoll` (`Net/Net.cpp`) | `m_connections`, the epoll set | `product_msg`, `recvmsg`, `consume_msg`, `sendmsg` | epoll events; both queues |
| `Broadcast` (`ServerGate/broadcast.hpp`) | a task per worker | `runtask`, worker loop, `iscomplete` | the flag `isvalied`; `m_clientsfd`, `m_errorfd` of the gate |
| `gate_server` | `m_usrfd`, `m_clientsfd`, `m_errorfd` | `run_client`, `run_server`, `erasefd`, `clear_up` | two threads, no lock but in `safevector` |
| `game_server` | players by user | login, exit, position, items, heartbeat | queues; direct writes to the gate |
| `Player`, `Inventory` | items, equipment, status | add, remove, use, equip, save | called by `game_server` |
| `login_server` | pending requests by user | request, verify, success | queues |
| `db_server` | cache of players, passwords, items | get, set, whole-player load and save | MySQL |

### What is hard in it

* `msg_queue` is a ring shared by two threads with no lock.  The slot's flag is
  the only synchronisation; the consumer works on the message in place.  A slot
  is claimed before it is known whether there is a message for it, and a failed
  one becomes `INVALID` with the producer's position already moved on.
* `tcp_recv` must give exactly n bytes or none out of a ring that is filled in
  pieces, wraps anywhere, and whose counters run over 2^32.
* epoll is edge-triggered: whoever stops reading early is not told again.
* A broadcast walks the list of clients with up to 32 workers that are started
  and awaited by plain flags, and failed clients are swapped out afterwards.
* The gate's two run threads share a vector and a map without a lock, one of
  them walking the vector with iterators, while descriptors are closed and used again.
* The ring of a receive queue keeps no order, and so no handler can count on any.
* Sessions are spread over four processes, with a cache in the db server: an
  exit's save races the next login, an exit may overtake the login it ends, and a
  connection that ends takes a thread or a process with it.

`PROJECT.json` lists every hazard with its line and the properties that cover
it, or the reason why none does yet.

## The modules

| module | models | state and actions |
|---|---|---|
| `MsgChannel` | what a queue promises: messages are sent, pending, handled, done; `Ordered` says whether in order, `CanStop` whether the consumer may end | `Send`, `Receive`, `Done`, `Stop` |
| `MsgQueue` | `msg_queue` and the protocol of its producer and consumer | `Enqueue`, `FillHead`, `FillBody`, `Publish`, `Invalidate`; `SkipInvalid`, `Dequeue`, `Release`, and `Stop`, the return of `consume_msg` |
| `RingSize` | `roundup_pow_of_two`, and that masking is the remainder | operators only, evaluated by TLC |
| `ModularArithmetic`, `MsgQueueProofs` | lemmas on the remainder; theorems about `MsgQueue` | |
| `TcpSocket` | the receiving half of `tcp_socket` | one action per branch and per `read()` of `tcp_recv`, `recv_full`, `recv_by_len`; `Arrive`, `PeerEnds` are the network |
| `TcpSocketProofs` | theorems about `TcpSocket` and `RecvPath` | |
| `RecvPath` | `product_msg` and `recvmsg` for one connection, on top of `TcpSocket` | one action per call, return and branch of the drain loop; `Consume` is the run thread |
| `Broadcast` | `runtask`, its workers and `clear_up` | small steps of `run_server`, one set of actions per worker, `Breaks` for a connection that breaks; the list holds entries, and two of them may be one user's or even equal, as logins only append |
| `PlayerStore` | what the other servers expect of the db server: players and items that are read together and changed one by one | `Read`, `WritePlayer`, `WriteItem`, `Restart` |
| `DbServer` | the request handlers of `db_server` over its caches and the tables | `GetPass`, `GetPassFails`, `GetAll`, `SetPlayer`, `SetItem`; `Crash`, `Start` |
| `DbServerProofs` | theorems about `DbServer` | |
| `GateServer` | the gate with its clients' connections: `product_msg` over several connections, `run_client`, `run_server`, `erasefd`, the walk of a short broadcast | for the threads one action per access of an entry and per call of a container: `erasefd` is `Find` for each entry, `EraseAt` and `Forget`, in either thread; the walk is `SendBegins` and `SendEnds` around each write; `g_client_queue` is a set, of which any message may be next, and `SlotFor` ends the drain when no slot is to be had; `m_clientsfd` is `storage` (the vector's memory) and `size`, since `erase` and iterators leave and read what is behind the end |
| `Gateway` | the gate in its environment: clients that connect, send, stop reading, leave; servers that say anything at any time | the steps of `GateServer` with history |
| `Inventory` | a player's items and base bag | operators: an operation maps an inventory to the set of its outcomes |
| `GameServer` | the game server: its handlers, send queue and network threads | one action per handler, for any message that has come, and per outcome of `consume_msg` |
| `LoginServer` | the login server, and the descriptors of the connections to it | `login_request`, `login_verify`, `login_success`, and `SuccessDies`, when one of its writes meets SIGPIPE |
| `Sessions` | `LoginServer`, `GameServer` and `DbServer` (by INSTANCE) with the channels between them, and clients | `GameRuns`, `LoginRuns`, `DbRuns`, ...; `DbDies`, `GateLost`, `GateLeaves`, `Leaves` are the connections that end. What is on its way to a server is a set: over the wire and in the receive queue it may be passed by later messages |
| `Players` | the constants the servers share | |
| `GatewayProofs` | theorems about `Gateway` | |
| `BroadcastProofs`, `SessionsProofs` | theorems about `Broadcast` and `Sessions` | |
| `Counting` | induction over numbers, for the proofs | lemmas only |
| `MCMsgQueue`, `MCRecvPath`, `MCBroadcast`, `MCGateway`, `MCSessions` | instances for TLC | |

Names follow the code: `m_in`, `m_out`, `m_flag`, `m_clientsfd`, `isvalied`
(sic), and so on.  A `message*` is the index of its slot (`claimed`, `held`);
a payload is the number of the message, or `Torn` while only its head is in the
slot; the bytes of a stream are their positions in the stream, so that
`StreamInOrder` says that what comes out is what was sent.  The definitions
marked "Faulty" are variants of an action with a plausible bug.  No
specification uses them; each property was seen to fail under one of them.

How a step was chosen: one access to the state another thread (or the kernel)
can change.  `enqueue` reads one flag and changes only `m_in`, which no other
thread reads, so it is one step; a `read()` is a step of its own, because bytes
arrive and the peer may close between two of them; each iteration of a worker's
loop is a step.  Loops that only sleep and try again are not steps.  The db server
has one thread that handles requests and nothing else touches its caches, so a
request with its SQL statements is one step, in which each statement is done,
fails, or is done while its answer is lost.  A row is one value: the columns an
UPDATE searches for (user id and name, or user id and item id) come back unchanged from
the game server, which only sends what it has loaded.
Handlers of the game and the login server are one step each: no other thread
reads or changes `m_players`, `m_usrfd` or `m_waitverify`, and what a handler
enqueues is seen message by message by `consume_msg`.  (A handler that enqueues
two messages waits for both slots at once.)  In the gate a step is one access to
an entry of the list or one call on a container.

Receive queues outside `MsgQueue`: `recv_queue` shows that such a queue loses and
repeats nothing (`ExactlyOnce`, `ImplementsChannel`) and `recv_queue_order` that it
keeps no order, a message in a slot that `dequeue` has passed being handled a lap
later.  So `GateServer`, `GameServer`, `LoginServer` and `Sessions` have sets
there, and nothing says when a message is taken.  Send queues are sequences, as
`ImplementsLiveChannel` allows.

## The runs

| run | question | bounds |
|---|---|---|
| `send_queue` | does the ring of a send queue deliver in order, everything until `consume_msg` returns, and does the producer get its slots until then? | 4 slots, counters modulo 8, 18 messages: the counters wrap twice |
| `recv_queue` | does it keep the threads apart and lose nothing when slots become `INVALID`? | 4 slots, counters modulo 8, 6 messages, any number of failures |
| `recv_queue_order` | "enqueue is always faster than dequeue" (comment in `product_msg`) | violated |
| `recv_path` | does every whole message of a connection get published, whatever the chunks? | ring of 4 bytes, heads of 2, bodies of 0, 1 and 3, three messages, queue of 2, the peer closing or resetting anywhere |
| `broadcast` | is the handshake with the workers right, is no healthy entry lost, and none written to twice? | lists of 1, 3, 5, 7 entries, one client in two of them twice and one user twice, 3 workers, 2 clients a worker, two broadcasts, four descriptors that may break |
| `broadcast_rest` | "the last thread is responsible for the rest" (comment in `runtask`) | violated |
| `broadcast_bad_clients` | "invalid fd, to be deleted" (comment at `m_errorfd`) | violated |
| `db_server` | do reads through the caches show the last writes, and when may cache and database differ? | two users, one of them not registered, an item each, two values, statements that fail, restarts |
| `db_empty_bag` | "empty when there are no items" (comment in `get_player_allitems_from_sql`) | violated |
| `gateway` | whose descriptor does the gate write to, who is in its list, who is reached by a broadcast, does a broadcast end, and is what clients send taken once and without gaps? | two users, three connections (one user logs in twice), two descriptors, a queue of 2; the rest is bounded by `SomeBounds` |
| `sessions` | which saves, passwords and answers are lost across the four servers, and which never are? | one user, two login connections, a potion and two swords, a bag of two, a send queue of 3, two messages of a playing client, one connection (of a client, the gate or the db server) that ends |
| `items_saved` | "all items are saved at once" (comment in `usr_exit`) | violated |

Why these bounds: the position in a ring is the counter modulo the size, and
the counter modulo some multiple of it.  A counter range of twice the size shows
a wrap of the counter in the middle of the run as well as the wraps of the
position.  Four bytes are the smallest ring in which a head can wrap, a body can
wrap, a frame can be larger than the ring (2 + 3 bytes, as in the code, where
only head and body have to fit one after the other), and `recv_full` finds the
ring full.  Three workers are the smallest number for which there can be two full tasks and a
remainder; the lists are chosen for each case of the split: no task, one task,
two tasks with the remainder armed (7 & 2 is not 0) and two with the remainder
not armed (5 & 2 is 0).  With the real thresholds (32 and 10) TLC evaluates that
the tasks stay inside the list for every list of 10 to 9000 clients, in spite of
the `uint8_t`.
In `DbServer` nothing counts and requests for different users or items touch
different rows: two users and an item show the interference there could be, two
values tell an old row from a new one, and any number of requests, failures and
restarts is covered.

In `Gateway` two descriptors for three connections force one to be used again, and
the first and third connection are the same user's, so a second login meets
every state of the first.  A queue of two slots is full with one message waiting
and one being handled.  A behaviour keeps to one of four bounds (`SomeBounds`), all
within the one run: three connections and a message with a body after the login, no
message of a server; three and one message of a server; two, with an exit of a client and two
messages of servers, so that `erasefd` runs in both threads at once and while a walk goes on;
two, one message of a server, and clients that do not read.
The run has about 2.5 million states.  Each exception that `GoodClientListed` and
`WalkReachesAll` make was taken out in turn and found to be needed.
In `Sessions` two connections are the smallest number with a second login beside or
after the first; a wrong and a right password; a bag for two of three items makes
one of them homeless; `SomeEvents` has an operation of each kind, on a stack and
on an item that is not one, with more than there is; two messages are an exit
after a change, and `DownOnlyByStaleId` needs exactly them (take a sword, equip
the other).  `MaxLost` = 1: the send thread ends over the first loss.  Users share
nothing but channels and descriptors, and one shows what overlaps.  With no order in the
receive queues there are 5.3 million states.

Runs have `CHECK_DEADLOCK FALSE` because their bounds stop them: all messages
sent, all broadcasts done, the connection erased; the db server never stops for good.

### Fairness

* `MsgQueue!Spec`: weak fairness of the producer and of the consumer.  Both are
  loops that only sleep (50 to 500 ms) between two attempts, and no handler waits
  for the other thread while it holds a slot.  `Stop` is a step of the consumer
  like any other: after it `ImplementsLiveChannel` and `ProducerServed` promise
  nothing.  Both take for granted that handlers return and that a write does; `tcp_send`
  tries again for ever when the other side does not read.
* `RecvPath!Spec`: weak fairness of `product_msg` and of the run thread, for the
  same reason; none of the peer, which may stop sending in the middle of a message.
  `FrameDelivered` is therefore about messages that have arrived whole.
* `Broadcast!Spec`: weak fairness of `run_server` and of each worker; none of
  connections breaking.  A `write` that never returns is not modelled there.
* `GatewaySpec`: weak fairness of `run_server` while it walks the list, and of
  nothing else: the loop in `runtask` has no wait in it.  A client that does not
  read keeps `tcp_send` in its loop; `WriteOutcomes` then has no outcome, and
  `WalkEnds` names this as the one way in which a walk goes on for ever.
* `SessionSpec` has no fairness: its properties are about what may be lost or mixed up.
  That a message is handled in the end cannot be had of a receive queue, in which it
  may be passed over for as long as no later lap comes.

### What the runs found

1. `dequeue` leaves the flag of a skipped slot `INVALID`.  After as many failed
   receives as there are slots, the consumer runs through the whole ring, past
   the producer, and handles later messages in another order than they were
   published.  Safety survives it (`SlotExclusion`, `ExactlyOnce`, and the
   channel without the order); order and the comment do not.  Two consequences:
   `enqueue` can fail although slots are free (`RecvPath`, and `SlotFor` in
   `GateServer`), and no model that uses a receive queue relies on its order.
2. `runtask` tests `size & tc` where the remainder `size % tc` is meant: for
   some sizes (21 clients, with the real thresholds) the rest gets no message.
3. `clear_up` can leave a failed client in the list, depending on the order in
   which the workers recorded the failures.
4. The db server takes a failed SELECT of items for an empty inventory and caches
   it.  This is the only failing statement that breaks the store: failed UPDATEs
   leave a difference between cache and database (`missedPlayers`,
   `missedItems`) that no reader sees before a restart.
5. Items are not all saved at once, as `usr_exit` takes for granted: adding to a
   stack and taking the last of an item save nothing.

What the passing runs show around them, and what their properties therefore except:

* in the gate: a client that logs in while a short broadcast is walking the list is
  cut off it (`EndBroadcast`), or the vector moves under the iterators (`gate` =
  "undefined"); an `erasefd` that `run_server` begins after a login, for the game server's echo of
  an earlier exit or over a failed write, removes the new entry (`spoilt`); when one
  thread changes the list between the other's `Find` and `EraseAt`, or under a
  walk, anybody's entry may go (`overlapped`); `run_client`'s `erasefd` during a
  walk may hide clients from it (`todo`);
* a client listed twice, after a second login without an exit, gets broadcasts
  twice; when it breaks, `clear_up` moves its end twice and drops somebody else
  (`NoRepeat` in `GoodClientsStay`);
* once a connection of the game server has ended, `consume_msg` may return, and what is
  in the send queue then, saves to the db server among it, stays there for good;
* an id that `delItem` leaves in the bag brings the game server down at the next
  `equipItem` that looks at it;
* two saves of one item may be handled in either order, and a login between an exit and its
  save gets rows without it: `LoadsAddUpSaves` is about the order in which saves are
  handled, `OnlyKnownItemsUnsaved` about that in which they are made, and nothing
  makes the two the same;
* a connection that gets the descriptor of one that asked before it may get that one's answer.

## The proofs

`MsgQueueProofs` proves, for every ring size, every counter range that is a
multiple of it, any number of messages, and both kinds of queue:

* `Invariance`: the inductive invariant `IInv`;
* `TypeCorrect`, `Exclusion`, `DeliveredOnce`, `PayloadStable`: the properties
  `TypeOK`, `SlotExclusion`, `ExactlyOnce` and `HeldPayloadStable` of the runs;
* `Implementation`: `SafetySpec => ImplementsChannel`, that is, the send queue
  is a first-in first-out channel and the receive queue one without the order.

None of the properties is inductive by itself.  `IInv` adds to `TypeOK` and
`ExactlyOnce` what ties the threads' places in the protocol to the ring:
`ProducerInv` (the producer has a slot exactly while `stage` is not "none", that
slot is not `ACTIVE`, and once filled it holds message `sent + 1`) and
`ConsumerInv` (the held slot is `ACTIVE`).  `SlotExclusion` follows from these
two, and `HeldPayloadStable` from it.  The order of a send queue needs a second
invariant, `FifoInv`, relative to `IInv`: `CountersInv` says that `m_in` and
`m_out` are the numbers of messages claimed and dequeued, modulo the counters'
range, and that the consumer has handled exactly the first of them;
`PlacesInv` that message m lives in slot (m - 1) mod `Size`.  So the slot at
`m_out`, when it is `ACTIVE`, holds the oldest message that is left.  This is where
`CounterMod % Size = 0` is needed: a counter that wraps must go on at position
0, which is why the code rounds sizes to powers of two.
`ModularArithmetic` has the facts on the remainder that the SMT solver does not
find.  The assumptions are `SizeAssumption` and `BoundAssumption` of `MsgQueue`;
TLC evaluates them in the runs.  That a size rounded by `roundup_pow_of_two`
satisfies the first is evaluated by TLC (`RingSize`), since the bit operators
are recursive.

`TcpSocketProofs` proves, for every ring of bytes, every counter range that is a
multiple of its size, and every sequence of messages:

* `SocketImplemented`: `Spec => SockSpec`, that is, `product_msg` and the run
  thread use the socket as any caller may (`SockSpec` calls `tcp_recv` for any
  number of bytes, again and again);
* `SocketTypes`, `RingKeepsStream`, `CallersSeeStream`: `SockTypeOK`,
  `RingHoldsStream` and `StreamInOrder`;
* `NoEdgeLost`: `NoLostWakeup`, the edge-triggered loop never sleeps on bytes it
  would not be woken for;
* `HeadsAndBodies`: `FramesAligned`, every head is read at the start of a message,
  and every body after its own head.

The first three follow from one inductive invariant of the socket, `SockInv`,
through `SocketImplemented`.  Besides the properties it says that `m_in` and
`m_out` are the numbers of bytes read and handed out modulo the counters' range
(`CountersInv`), and that a read under way goes to the position of the next byte,
stays in the storage and in its free part (`ReadInv`).  Without `ReadInv` a
`read()` could overwrite a waiting byte; with it the bytes written have positions
that no waiting byte has (`PosApart`), since all of them are less than a ring
apart.  `Counts` is the arithmetic of the code: the unsigned difference of two
wrapped counters is the number of bytes, and `m_size - m_in + m_out` the free
space.  `NoEdgeLost` needs to know what the thread has learned about the
connection at each place of its loop (`WakeInv`): before a head is copied, that
the ring has a whole one or the kernel is empty, and after a call that returned
nothing that there is no head to be had, unless an edge has come since.  Every
arrival is an edge, so only the thread's own steps matter.
`HeadsAndBodies` follows from `FrameInv`: where the thread is in its loop tells how
far the stream has been handed out, also while a call of `tcp_recv` is under way or
has returned without a copy.  `End`, the sum of the lengths so far, is a recursive
function; `EndValues` proves its equations, and `HeadTells` that the bytes of
a head copied from the ring belong to one message only, whose length `m_len` becomes.
The assumptions are `RingAssumption` and `FrameAssumption`, evaluated by TLC.

`DbServerProofs` proves, for any users, items and values: `DbTypes` and
`CachesAgree` (`DbTypeOK`, `CacheIsDatabase`; the second is inductive together
with the first, since two tries either apply the row or are both refused, lemma
`TriesCase`), and `StoreImplemented`: if no SELECT of items fails,
`Spec => ImplementsStore`.  The store's rows are the cached ones where there are any
and the process runs, and the tables' otherwise (`PlayerNow`, `ItemsNow`); a
crash is the store's `Restart`, and starting again, or filling a cache, is a
stutter.  The assumption is `DbAssumption`, evaluated by TLC.

`GatewayProofs` proves, for any users, connections, descriptors, numbers of
messages and slots of the queue: `GateTypes`, `FdKept`, `ClientsListed`, `WalkReaches` and
`NothingLost` (`GateTypeOK`, `FdStaysWithLogin`, `GoodClientListed`, `WalkReachesAll`,
`NothingLostOrTwice`).  They follow from one inductive invariant, `IInv`, in nine parts.

* The network.  A connection has a descriptor from when it is accepted to when it is
  closed, and shares it with none (`NetInv`); a descriptor that waits in the queue
  with a message, or is being handled, is that of its connection, or the connection is closed (`QueueInv`),
  which is what makes it safe to put it into `m_usrfd` at the login (`LoginInv`).
  `Kept` says what a step may do to a connection that was there before; it is the
  only thing the other parts need to know of the network thread.  `SlotsInv` counts
  the slots, the one that is being read into among them.
* The threads.  `ThreadInv`: neither is in two places, and iterators are in the order
  of their loops.  `ListInv`: what an iterator may still look at is an entry of a client, also
  where it is behind the end of the vector, since the other thread may have erased
  meanwhile.
* `ListedInv` strengthens `GoodClientListed`.  As long as no thread has changed the list
  under the other, an iterator that has found its entry leads to it (`InPlace`), so `EraseAt`
  takes the user it looked for and nobody else; and the entry of a good client is not in
  the part in which `run_server` looks for that user, and is in front of a walk's end, or
  `erase(j, end())` would cut it off.  This is why the three exceptions are needed, and
  why the replacement of an entry that cannot be written to keeps the property: the
  last of the walk takes its place, and what is lost is the entry of somebody who is gone.
* `WalkInv` strengthens `WalkReachesAll`: whoever has still to be reached is between
  the iterators.
* `NumbersInv` is `NothingLostOrTwice` with what it rests on: of what a client has sent the first n
  messages are in the queue or were taken, never both, and the others are on the
  wire in order, or went with the connection (`Account`).  The queue is a set, and no
  two messages in it have the same number.

`Pushed` and `Erased` say what `emplace_back` and `erase` do to other entries.
The assumptions are `GateAssumption` and `GatewayAssumption`, evaluated by TLC.

`BroadcastProofs` proves, for any list, also with users or clients that are in it more than
once, any number of workers from two up and of clients a worker: `TypesKept`, `HandshakeHolds`,
`NobodyTwice`, `RangesDone` and `NobodyElseLost` (`TypeOK`, `MessageOutlivesWorkers`,
`SentAtMostOnce`, `CoveredMeansSent`, `GoodClientsStay`).  The inductive invariant
`IInv` has a part per hazard.  `WorkerInv`: a worker is awake only inside the task
that run_server has armed for it, and the others' flags are down; with it the
handshake holds, since run_server is past `runtask` only when every flag it has set is
down again.  `TriesInv`: what has been written is what the workers have passed (`Written`);
ranges of different workers are disjoint, and an entry has one place (`ListInv`), so
for no entry is anything written twice.  `ListInv` is about the live part of the list, in front of `last` while
`SendDirect` and `clear_up` move entries that failed behind it.  That no entry
whose connection works is moved there takes `NoRepeat`: then each client that
failed is noted once (`ErrorInv`), and `clear_up`'s inner loop, which goes on
behind the live part after taking out its last entry, finds nothing there (`SwapInv`).
`UsersInv` needs no such condition: a user who has lost the entry in `m_usrfd` had one
that failed.
`Split` is the arithmetic of the ranges, with the remainder or without it: they stay
inside the list and do not overlap, for a list of any length, although `scale` is
a `uint8_t` (what TLC evaluates for the real thresholds as `TasksInBounds`).
The assumption is `BroadcastAssumption`; that a list is injective in it says that an
element of a vector has one place, not that elements differ (`Info`).

`SessionsProofs` proves, for any users, clients, items, positions, passwords
that are asked for and numbers of messages, whichever UPDATEs fail once or twice, with any
number of connections lost (no SELECT fails in `Sessions`; what a failing one does is
in `DbServer`):

* `Invariance`, `TypesKept`, `SavesOnTheirWay`: the invariant `TypeInv`, and from it
  `SessionTypeOK` and `SavesUnderWay`;
* `LoadsAreSaves`: `LoadsAddUpSaves`, rows loaded are what the saves add up to, in the
  order in which they were handled;
* `LoneLogins`: `LoneLoginUpToDate`, a login with no other of the same user under way
  gets every save that had been handled when it asked;
* `UnsavedItemsKnown`: `OnlyKnownItemsUnsaved`, in the order in which saves are made;
* `WrongPasswordGoes`, `PasswordFirst`: `NoWrongPasswordLeft`, `PasswordBeforePlayer`;
* `DownByStaleIdOnly`: `DownOnlyByStaleId`.

`TypeInv` is the types and `ConnInv` (the db server's connection is lost with the server
only, the game server forgets no connection that is there, and its send thread ends
only after one has ended); everything else is proved one at a time relative to it, so that each has
the invariant it needs and no more.  `NumsInv` gives each save its place by its number: in the
send queue, between the servers, or with the db server, in one of them once, and
in one of them at all while the connection lasts; it says nothing of an order.  A lemma (`StepCases`) describes
each of the composed system's steps once, by what it does to the channels, the players and the rows (`StepKinds`,
`RunKinds`), and the proofs go over these kinds.  `LoadsInv` says that a row in the db server is at any
time what the saves handled so far come to (`RowsRight`); then so is every answer, and
it stays so however many saves are handled while it is on its way, because it carries the
number of saves it is of (`AgesKnown`).  The last save of a row is a
CHOOSE of the largest number in a set, and `NextCounts`, that one save more either becomes
the last or changes nothing, is the lemma it takes.  `WrongCleared` is `NoWrongPasswordLeft` itself, which is
inductive.  `PassInv` follows a right password through all its places: requests,
`m_waitverify`, the question to the db server, the answers on the way, the game's
players.  `LoneInv` needs that only connections that have asked have a descriptor and an answer (`FdInv`) and
that no row of this user that is older than its question is still on its way.  `KnownInv` ties
the player in the game server to the saves but for the items in `unsaved`; a
player that is loaded gets into it through `LoadsInv`.  `DownByStale`, like `WrongCleared`, is the property itself.
The assumptions are `SessionAssumption`, `NoneAssumption` (the value that stands for
nothing is not one of the values), `SlotsAssumption`, `InventoryAssumption` and
`DbAssumption`, evaluated by TLC.

The library states induction with an operator for the formula, which the provers cannot
instantiate.  `CountUp` in `Counting` states it with a set of numbers (0
is in it, and with each number the next, so all are), from `WFMin` of the library.
This is how the equations of the recursive function `End` are proved.

Only model-checked is liveness, since the proof system has no ENABLED:
`ImplementsLiveChannel` (of which `ImplementsChannel` is the safety part, and proved),
`ProducerServed`, `FrameDelivered`, `BroadcastEnds` and `WalkEnds`; and what is
evaluated about bit operators (`RoundingIsLeastPower`, `MaskingIsRemainder`).  The runs that expect a violation are counterexamples, not theorems.

## What the models leave out

* The C++ memory model.  Flags, counters and `isvalied` are plain variables, a
  data race in the language.  The models take loads and stores in program order,
  which is what the build produces on x86-64: the accesses are in other
  translation units than their loops, or around calls the compiler cannot see
  through.
* Calls of `std::vector` and `std::unordered_map` (`emplace_back`, `erase`, an
  assignment of one entry) are one step each, although the gate's
  threads make them without a lock.  What is left of the race are the iterators and
  what happens between two calls: iterators survive an insertion that does not
  grow the vector and a removal, and point anywhere after one that does.
  `Broadcast` has the list changed by `run_server` only; the interference of
  `run_client` is checked for short lists.
* The length in a message's head is not compared with the room in its slot before the
  body is copied (`Net.cpp:212`).  The models have bodies that fit, as all that the servers
  and the robots send do.
* A write is taken whole.  Splitting it (two threads write to the gate's descriptor
  in the game server) and the mutual waiting of gate and game server over full buffers
  are listed as hazards without a property.  The gate's walk has a write that waits
  for ever (`deaf`); its writes to the game server, and the writes of the other
  servers, return.
* What the gate writes to the game server is not part of `Gateway`, nor is the loss of
  that connection, and what servers say there is not tied to it: every
  order the game server could choose is there, and others.  `Sessions` has
  the game server, with the gate reduced to two threads that pass messages on.
* In `Sessions` a message on its way to the db server disappears with the connection all at
  once; which of the last saves the db server had already read makes no
  difference to the properties, since they stop there.
* A process that has ended stays so, except the db server in `DbServer`.
* Item events carry a count of 0 or more, as far as an `int` holds it.  Names, positions'
  arithmetic and items' attributes, protobuf, byte order, logging, configuration,
  unused code.
* `SERVER_INFO` between servers: the line that would send it is commented out in every `main`.
* A read that is interrupted (`EINTR`) is retried at once and is not a step.
* Requests that no server sends (`SETPASS`, `GETITEM`, `GETPLAYER`, `SET_ALLINFO`)
  and the answers of the db server that no server handles (`DB_FAILED`).
* Bodies longer than the byte ring: no message of the system has one
  (`MSG_BUF_SIZE` is 256, the ring's default far larger).

### Not modelled, and why

Most of the repository's lines are not the program's own: the protobuf classes
(`Proto/`, generated, over 10 000 lines), `tinyxml2` (over 5 000), and the columns of
the MySQL++ tables.  Of what is left the models cover the network layer and the
handlers of the four servers; the rest is starting up, reading XML, logging, SQL
text, constructors and copies of items, and code nobody calls (`kbuffer`,
`gate_queue`, `Bag`, `PlayerStatus`, `tradeItem`, `saveAll`, `add_item`, `login_failed`).

## Plan

Every invariant and action property of the passing runs is proved.  What is left:

1. `SafetySpec => ImplementsStore` holds if no SELECT of items fails; what the
   store promises when one does (which rows, and until which restart) could be a
   weaker store, proved without that condition.
2. A theorem that the broadcast misses exactly the last `size % tc` clients, and when:
   `broadcast_rest` shows that it may, `CoveredMeansSent` says that no others are missed.
3. The steps the liveness properties rest on that need no ENABLED: a bound that
   every step of a walk, and of `clear_up`, brings down.

## Running it

    tlc -config MCSendQueue.cfg MCMsgQueue
    tlc -config MCRecvPath.cfg MCRecvPath
    tlapm MsgQueueProofs.tla
    tlc -config MCDbServer.cfg DbServer
    tlc -workers 2 -config MCSessions.cfg MCSessions      (3 minutes)
    tlc -workers 2 -config MCGateway.cfg MCGateway        (2 to 3 minutes)
    tlapm TcpSocketProofs.tla
    tlapm DbServerProofs.tla
    tlapm GatewayProofs.tla
    tlapm BroadcastProofs.tla
    tlapm SessionsProofs.tla
