# TLA+ models of cpp_repo

The repository is a collection of server-side programs and building blocks: an
HTTP server on Boost.Asio coroutines, a chat server, two variants of a task
manager thread, an LRU map, a high-availability daemon on ZooKeeper, a ring of
threads, a stream buffer, a gRPC greeter, an echo server with a timeout, a linked
list, and a number of exercises. They are separate programs; what they share is the kind of
code they are made of: threads, completion handlers, condition variables,
intrusive lists, and error paths that a test hardly reaches. This directory keeps
TLA+ modules of the parts with such behaviour, the TLC configurations that check
them, and TLAPS proofs of all the safety properties that the passing runs check.

Paths below are relative to the repository (`src/`). `PROJECT.json` lists for
every definition the lines it models, and for every property a mutant: a
definition with a plausible bug under which the property fails. Mutants stand in
the modules directly before the definition they distort (`Remove_Unlocked`
before `Remove`) and are used by no run.

## 1. Inventory

### HTTP server (`boost_cpp/httpserver`)

*Start-up, accepting, shutdown* (`asio_frontend.cc`).
State: the listeners, each with an acceptor and a socket for the next connection;
`ConnectionList`, an intrusive list of nodes that live in coroutine frames, with a
mutex; the io_context, its pool of threads and a work guard; a socket pair for
signals. Operations: `init`, `run`, `stop`, `join` by the main thread; the accept
handler and one coroutine per connection on the pool; the signal handler.
Interaction: accept handlers hand sockets over to coroutines; coroutines enter
and leave the list; `stop()` closes acceptors and the sockets of the listed
connections from the main thread while the pool is running.
Hard: `stop()` against accept handlers and ending coroutines, signals before
`wait_shutdown`, exceptions that leave a coroutine.
Correct if: no freed list node is touched; every accepted socket has one owner;
listeners stay armed; a signal is never missed; shutdown ends.

*A connection* (`handle_connection`, `StreamIO`, `process.cc`, `asio_client.cc`,
the buffer of `client.hpp`). State: parser and parse buffer, the request, the
remaining body, the response buffer, the socket. Operations: read a header,
answer 400, process (PUT and POST read the body and answer 200), discard what is
left of the body, loop while kept alive. Hard: pipelined requests, partial bodies,
a peer that stalls or resets, a socket closed by `stop()` between two calls, sizes
at the limit of `int`. Correct if: requests stay framed, 200 means the body has
arrived, only certain causes throw, the coroutine ends with its socket.

*Response filters* (`client_io_filter.hpp`): a stack of decorators that reorder,
chunk, suppress Content-Length and count bytes. State: each filter's flags and
kept-back headers. Hard: the order of calls. Correct if: the response on the wire
is well formed and fully counted whatever the order.

`boost_http.cc` is the Boost.Beast example server as distributed (third party).

### Task managers (`ceph_test/test_cp.cc`, `ceph_test/test_select.cc`, `TestCPP/C++生产者消费者`)

The first runs tasks in a thread woken by a condition variable; the second
watches descriptors in `select()` and is woken through a pipe. The document prints
and explains both. State: the flag `stopped`, the vector or map under the mutex,
the pipe. Hard: lost wake-ups, unlocked reads of `stopped`, a blocking write under
the mutex. Correct if: nothing pushed or registered is overlooked, and `stop()`
followed by `join()` returns.

### LRU map (`ceph_test/lru_map.hpp`)

A map and a list that refer to each other by iterators. Sequential under a mutex.
Correct if: the iterators are valid, the capacity is kept, and it is an LRU cache.

### Chat server (`boost_cpp/tcp-chat-server.cpp`)

Sessions with an outgoing queue; handlers run on one thread, but completion and
handler are separate in time, and both operations of a session can fail. Correct
if: a queued message is always being written, clients see one order, a departure
is announced once, and what a client types arrives in full and in order.

### High-availability daemon (`python/daemon`)

Worker processes under a service manager elect a leader through ephemeral
sequential nodes. State: ZooKeeper's nodes, sessions and watches; in each process
`is_leader`, `state_changes`, `_shutdown`. Two threads run `_elect`. Hard:
sessions that expire unnoticed, one-shot watches, restarts that meet the nodes
of their predecessors. Correct if: no two leaders that both have their node.

### Small programs

*Thread ring* (`TestCPP/thread.cc`; `boost_cpp/test_thread.cc` is the same
program). Each thread holds its own mutex except while it waits for its turn,
without a predicate; `notify()` takes no mutex, `stop()` does. Hard: lost and
spurious wake-ups, `stop()` at any point of a thread. Correct if: the threads print
in turn, a stopped thread is quiet, `main()` ends.

*Stream buffer* (`boost_cpp/stream`): a `std::streambuf` over a descriptor with a
put area and a put-back area in one array. Hard: short and failed `read()` and
`write()`, the character `overflow()` adds, the move of the put-back characters.
Correct if: the file gets what was put, in order, and what is read again is what
the file has.

*gRPC greeter* (`boost_cpp/async.cc`): objects that are the tags of their own
events, take a call, answer it and delete themselves; `HandleRpcs` may run in
several threads. Correct if: every tag taken from the queue is the address of a
living object in the state its event is for.

*Echo server with a timeout* (`boost_cpp/test_spawn.cc`): a session is an echoing
coroutine that sets a timer anew in every round and one that watches the timer.
Hard: a completed wait or read whose handler is still queued when the timer is set
or the socket closed. Correct if: a session whose peer stalls ends.

*Linked list* (`ceph_test/test_iter.cc`): nodes linked both ways around a root in
the list object, with moves and destruction. Correct if: the links always form the
sequence that the calls describe.

The rest (`boost_cpp/test_async.cc`, thread wrappers, language and algorithm
exercises) is under "Not modelled".

## 2. Modules

| module | models | uses |
| --- | --- | --- |
| `Frontend` | life of the HTTP server | |
| `FrontendProofs` | theorems about `Frontend` | `Frontend`, TLAPS |
| `Session` | what `Frontend` assumes of one coroutine (abstract) | |
| `HttpConnection` | `handle_connection` in detail | refines `Session` |
| `HttpConnectionProofs` | theorems about `HttpConnection` | `HttpConnection`, TLAPS |
| `ResponseFilters` | the filter stack during one request | |
| `ResponseFiltersProofs` | theorems about `ResponseFilters` | `ResponseFilters`, TLAPS |
| `TaskManager` | the condition-variable task manager | |
| `TaskManagerProofs` | theorems about `TaskManager` | `TaskManager`, TLAPS |
| `SelectLoop` | the self-pipe task manager | |
| `SelectLoopProofs` | theorems about `SelectLoop` | `SelectLoop`, TLAPS |
| `LruSpec`, `LruMap` | abstract cache, the map | `LruMap` refines `LruSpec` |
| `ThreadRing` | the thread ring | |
| `Prebuffer` | the stream buffer | |
| `Greeter` | the gRPC greeter | |
| `Echo` | a session of the echo server with a timeout | |
| `BufferList` | the linked list | |
| `Programs` | the six small programs, each behaviour running one | `LruMap`, `ThreadRing`, `Prebuffer`, `Greeter`, `Echo`, `BufferList` |
| `ProgramsProofs` | theorems about five of them | `LruMap`, `ThreadRing`, `Prebuffer`, `Greeter`, `BufferList`, TLAPS |
| `ChatServer` | the chat server | |
| `ChatServerProofs` | theorems about `ChatServer` | `ChatServer`, TLAPS |
| `HAMaster` | leader election of the daemon | |
| `HAMasterProofs` | theorems about `HAMaster` | `HAMaster`, TLAPS |

**Frontend.** `main` and `cur` are the position of the main thread and of the
loops of `init()` and `stop()`; `acceptor`, `acceptOp`, `accepted` and `handler`
are a listener's acceptor, its outstanding accept, `l.socket` and the local
variable of its handler; `co`, `sock` and `listed` are the coroutines, their
sockets and the list; `toClose` is what the walk of `ConnectionList::close` has
still to visit. A step is what happens between two calls that other threads can
observe. `close()` is several steps with the mutex held, so coroutines that want
to link or unlink wait; adding and removing are single steps. A handler needs a
free thread of the pool (`ThreadAvailable`). The coroutine is abstract:
`CoAwait`, `CoResumeOk`, `CoResumeErr`, `CoReturn`, `CoThrow`. Calls on one socket
from two threads are a data race in Asio; they are modelled as atomic calls in any
order.

**HttpConnection** replaces those five by the code of `handle_connection`. The
client's stream is a sequence of headers and body units; `nbuf` is how much of it
is already in the parse buffer, which is still readable when the socket is
closed. A request is its method class, its framing, its size and whether it is
kept alive. `Content-Length` goes through `std::stoi` and `need_len + 1`, so sizes
reach from 0 to one more than the largest `int` (`IntMax`, in body units).
`WriteData` is `StreamIO::write_data` with its shutdown on a broken pipe. The map
`Life` from positions to the states of `Session` is the refinement mapping.

**ResponseFilters.** Every filter's members are variables, every call through
the stack is one action (`Calls`, and `RecvBody` for the request's body); a part
counts as one byte. `-EINVAL` returned as `size_t` wraps modulo `SizeMod`. What
`send_header` is given is told apart from what the filters and `ClientIO` add
(`NamesAssumption`), so that the properties can speak of both.

**TaskManager.** `Listing` chooses between the program `test_cp.cc` and the listing
of the document. `mutex` and `owns` are separate because the program uses a
`unique_lock` that does not own its mutex. `pushed`, `ran` and `late` are history.

**SelectLoop.** The callers' critical section has two steps (change the map, write
to the pipe) with `mtx` held; the write waits while the pipe is full.

**LruMap.** List nodes are addresses that are freed and reused, so a stale
iterator would point to a freed node or to another key's. `max` is the `int`
argument modulo 2^w.

**Programs.** The small programs have nothing in common, so `Programs` only
chooses one (`program`) and lets it run; the others keep one initial state. Its
steps for the thread ring are steps of `RingSpec`, the specification that the
theorems of `ProgramsProofs` are about, and likewise for the others. `Rests` is where a program may stop; a
state in which it is stuck elsewhere is a deadlock for TLC.

**ThreadRing.** `thr` is the position of each thread, from which follows who holds
the mutexes; `main` is the operation `main()` is at and its thread. A notify wakes
only who is "waiting". `turn` and `inOrder` record what is printed.

**Prebuffer.** Pointers are indices into the array, characters are numbered. A
failed call may happen anywhere, a `write()` may take any part. `memcpy` on
overlapping areas may copy from either end (`CopyUp`, `CopyDown`). For a descriptor
that is not positive `m_mode` is never assigned, so `m_out` is any Boolean.

**Greeter.** A tag and the state it is for (`for`, not in the code) travel through
the completion queue `cq`, a set because the runtime orders nothing. Addresses are
reused at once. `aborted` is a failed `GPR_ASSERT`.

**Echo.** `op` and `wait` are the outstanding socket operation and timer wait;
they complete before their handlers run. `left` is the time until expiry. The
strand runs the two starts in order before any completion.

**BufferList.** `link` is the pointers, `content` the sequence they should form.
`moved` marks a list moved while not empty, after which nothing is claimed.
`Reached` is what the loop of the destructor comes to: the smallest set that holds
the node after the root and with every node the next one.

**ChatServer.** Each completion handler is an action. An operation goes from
"pending" to "ok" or "err" before its handler runs; closing the socket turns
"pending" into "err" but does not take back an "ok". What a client types is a stream
of numbered units, some of which (`LineEnds`) end a line. `unread` is what no read
has completed with, whether in the socket or already in the streambuf; a read
completes with any beginning of it that holds a line end (`ReadCompletes`), the
beginning of another line possibly included, and `on_read` posts all of it
(`Message`).

**HAMaster.** `created`, `live` and `valid` are ZooKeeper; `armed` and `event` the
watch and the fired event; `main` and `watcher` the positions of the two threads;
`seen` the list a thread has fetched, reduced to its minimum, which is all the
code uses. A process that ends leaves its node until `Expire`. The name `state` in
`reinit(state)` (process.py:83) does not exist, so the call raises and the process
ends (`RunRaises`); the bodies of both `reinit` are never entered. The wait of the
loop is bounded by `interval_delay`, so `_wake_up` only makes it shorter and needs
no variable.

## 3. Runs

Bounds are named constants of the modules. No run takes more than about two minutes.

| run | bounds | what it shows |
| --- | --- | --- |
| `frontend` | 2 listeners, 2 connections, 1 thread, 1 signal | safety of list, ownership and re-arming; a signal is honoured; shutdown completes unless a connection came late; an accepted connection is served |
| `frontend_closeall` | 1 listener, 2 connections, 2 threads | violation: see findings |
| `http_connection` | 2 requests of 24 kinds or a bad one, `IntMax` 2 | framing, 200 after the body, causes of exceptions, termination, answered uploads, refinement of `Session` with its fairness |
| `http_status` | 1 request | violation: see findings |
| `response_filters` | 2 headers, 2 body pieces, 2 reads, all orders of calls | well-formed, flushed and accounted responses |
| `task_manager` | 3 tasks, 2 clients, the listing | FIFO, no lost wake-up, drained exit, `join()` returns, accepted tasks run |
| `task_manager_testcp` | 2 tasks, 1 client, the program | violation: see findings |
| `programs` | `LruMap`: 3 keys, 2 values, capacities 0, 1, 2 and -1, 5 uses; ring of 3; array of 5, put-back 2, 8 characters; 2 threads, 3 calls, 5 addresses; timeout of 2 ticks; 2 lists, 3 nodes | map and list consistent, refinement of `LruSpec`; turn, quiet after `stop()`, end of the ring; output kept, input re-readable; tags valid; stalled sessions end; links form the sequence |
| `chat_server` | 2 sessions, 4 units of text in 2 lines | write duty, one order, one departure notice, text kept in order and lines broken at most once, closed sessions come to rest |
| `select_loop` | 2 descriptors, 2 clients, 3 calls, a pipe of 4 | no stale `select()`, registrations take effect, `join()` returns |
| `select_pipefull` | 4 calls, a pipe of 2 | violation: see findings |
| `ha_master` | 2 workers, 3 starts, 2 faults | one leader with a node, no missed change, a leader without a node gives up |

Why the bounds are enough. In `frontend`, two connections suffice for one to be
walked, linked or freed while another is on its way, and one thread is the hardest
case for `AcceptedIsServed`; the safety properties are proved for all sizes. In
`http_connection` two requests let one request's body shift the next. The pipe of 4
in `select_loop` holds all the signals of three calls and `stop()`; the one of 2
does not. In `programs` three keys exceed the capacities that matter; three
threads are the source's; 8 characters overflow the array of 5 and leave some for
another flush, or take three reads, and short reads make the moved put-back
characters overlap; a deleted object's address is free for the next one; two ticks
let time pass before and after the timer is renewed. In `chat_server` the second line has three
units, so that a read can end before it, after its first or second unit, or at its
end. In `ha_master`
three starts are two incarnations of a worker beside another; two faults allow a
broken connection or expired session together with a signal.

`CHECK_DEADLOCK FALSE` stands where the program may really come to rest: a chat
without peers, a select loop nobody stops, workers whose bounded restarts are used
up.

### Fairness

- `Frontend`: the main thread and pool threads run. The io_context queues handlers
  first in, first out, so a ready handler is run although the pool is busy in
  between: strong fairness. A suspended operation has to complete only on a closed
  socket; peers owe nothing.
- `HttpConnection`: weak fairness of the coroutine; client and `stop()` owe nothing.
  A write on an open socket is a step of the coroutine: it is assumed to complete,
  as small responses do in the socket's buffer even when the client does not read.
- `TaskManager`, `SelectLoop`: threads run, and a thread that asks for the mutex
  again and again gets it (strong fairness); nobody has to call anything.
- `ThreadRing`: the threads run; `main()` gets a mutex that becomes free again and
  again (strong fairness). Nothing is assumed of spurious wake-ups.
- `Echo`: handlers run and time passes; the peer owes nothing.
- `ChatServer`: handlers of completed operations run; peers owe nothing.
- `HAMaster`: the threads run, and a worker whose session is gone hears of it,
  which kazoo's heartbeat does.

### Findings

- `frontend_closeall`: an accept handler that was past `is_open()` adds its
  connection after `stop()` has walked the list. It stays open and `join()` waits
  for its peer, although the comment in `stop()` says "close all connections".
  `ShutdownCompletes` makes this the only exception.
- `http_status`: `client.hpp` says "send_status() - exactly once"; a GET, and a
  PUT without Content-Length, get none and the connection goes on.
- `task_manager_testcp`: `entry()` in `test_cp.cc` lacks the `lock.lock();` of the
  document, so from the second round it waits, swaps and unlocks without the lock.
- `select_pipefull`: with a full pipe `register_fd` waits in `write()` with the
  mutex that the loop needs before it reads the pipe.
- `programs`, `LinksFormSequence`: the comment at `test_iter.cc:9` says of
  `list_base::insert` that it inserts after the node ("在此节点后插入"); the code
  (lines 19-24) links the new node in front of it, and `push_back` (at the root),
  `push_front` (at the first node) and `insert` (at an iterator, as in `std::list`)
  are right only so. `InsertBefore` follows the code, and the property, which
  passes, states the order that the calls of `buffers` promise. The comment is what
  is wrong.

Some behaviours are part of the models without a run of their own, because no
document or test claims otherwise; the properties name them as exceptions.

- An announcement of chunked encoding before the status passes `ReorderingFilter`
  by and precedes the status line, and an empty piece of a chunked body is spelled
  like the last chunk (`WellFormed`).
- An error of an accept, other than by `stop()`, disarms its listener for good
  (`StaysArmed`).
- `on_read` of the chat server posts the whole streambuf: a line that has arrived in
  part is split over two messages, never more (`LinesKept`), and another client's
  message may come between. The beginning of a line that no read has completed with
  when its client hangs up is never posted.
- The name error at `reinit(state)` ends a worker whose connection broke;
  `LeaderQuits` would hold as well if the session were renewed.
- In `HAMaster` the list that `run()` has fetched may be older than the one the
  callback thread has just decided from; if `run()` assigns last, the worker whose
  node is the first stays on standby until the next change. `OneLeader` and
  `NotDeaf` hold nevertheless.
- The thread ring loses its turn when a thread is notified before it waits; nothing
  more is printed until `stop()`, which always ends it. A spurious wake-up makes two
  turns at once (`InTurn`).
- A short `write()` in `flushoutput()` drops the rest of the buffer (`OutputKept`).
  A failed `read()` in `underflow()` leaves the put-back characters overwritten, and
  so may the `memcpy` when the areas overlap (`ReadBack`).
- The move constructor of `buffers` leaves the first and last node pointing to the
  old root unless the list is empty (`LinksFormSequence`).
- `GPR_ASSERT(ok)` ends the greeter when a client has gone before its answer.

## 4. Proofs

Every invariant that a passing run checks, the action property `StaysArmed` and the
refinement of `LruSpec` are theorems, for all values of the constants that satisfy the
named assumptions of the modules. TLC evaluates these assumptions in every run.

### `FrontendProofs`

Proved for every number of listeners, connections and threads and
every set of signals, from the assumptions `NListeners \in Nat`,
`NoConn \notin Conns` and `NThreads \in Nat \ {0}`:

| theorem | statement |
| --- | --- |
| `Inductive` | `Spec => []IInv` |
| `TypeCorrect` | `Spec => []TypeOK` |
| `ListSafe` | `Spec => []NodesAlive` |
| `NoneForgotten` | `Spec => []OpenIsListed` |
| `Ownership` | `Spec => []OneOwner` |
| `ListenerStaysArmed` | `Spec => StaysArmed` |

The properties are not inductive by themselves. `OpenIsListed` needs to know what
the walk of `close()` has done when it clears the list: the nodes passed have a
closed socket (`WalkProgress`), and no walk is in progress outside `close()`.
`OneOwner` needs that listeners `init()` has not reached are untouched and that a
handler that has not re-armed its listener has emptied `l.socket`
(`AcceptProgress`). `IInv` is the conjunction of `TypeOK`, `NodesAlive`,
`OpenIsListed`, `WalkProgress`, `OneOwner` and `AcceptProgress`. Three lemmas show
that a step preserves it (`TypeStep`, `ListStep`, `OwnerStep`), by cases over the
actions; the mutex appears as the guard `MutexFree` of `Add` and `Remove`,
without which the case of `CloseOne` fails. `ListenerStaysArmed` is an action
property from the same invariant.

### `HttpConnectionProofs`

For any number of requests, bodies of any length and any width of `int`
(`MaxReqs \in Nat`, `IntMax \in Nat \ {0}`):

| theorem | statement |
| --- | --- |
| `RequestsFramed` | `Spec => []Framed` |
| `OkIsAfterBody` | `Spec => []OkAfterBody` |
| `AbortHasCause` | `Spec => []AbortCause` |
| `SessionImplemented` | `Spec => Abstract!Init /\ [][Abstract!Next]_<<Life, sock>>` |

`Framed` speaks of the parser only when it meets a header. `ConnInv` therefore says
of the whole stream that after every header, and at the front, come as many units
of body as are still due and then a header, or that the client owes the rest
(`WellFramed`); that the number due and the room in the buffer agree with the place
of the coroutine (`Progress`), which is where `stoi`, `need_len + 1` and the
discarding of a body come in; and which methods (`InPutobj`) and which answers
(`Answer`) belong to a place. `SessionImplemented` is the refinement of `Session`
without its fairness: every step of `handle_connection` is one of `Session`, or
leaves life and socket as they are.

### `ResponseFiltersProofs`

For any header names, headers, body pieces and reads, and any width of `size_t`:

| theorem | statement |
| --- | --- |
| `BytesAccounted` | `Spec => []Accounted` |
| `ResponseWellFormed` | `Spec => []WellFormed` |

`BytesAccounted` needs to know that the `-EINVAL` of `ConLenControllingFilter` is
never returned to the sum: a content length is passed on only after the status
(`ActionKnown` in `CountInv`). `FormInv` relates the filters' flags to the calls
made (`Control`) and says at each stage what the parts sent look like (`Shape`):
before the header is complete only `100`, status, `Transfer-Encoding` and
`Content-Length` have been sent, the last of them exactly if it is due and not kept
back; afterwards the headers stand in one piece, the buffer is empty, and a last
chunk is at the end unless an empty piece made it. The lemmas on `Joined` say what
appending does to each of these, so that an action has to say only what it appends.

### `TaskManagerProofs`, `SelectLoopProofs`

| theorem | statement |
| --- | --- |
| `TasksInOrder` | `Spec => []Fifo` |
| `ListingDelivers` | `Listing /\ Spec => []Delivered` |
| `ListingWakes` | `Listing /\ Spec => []NoLostWakeup` |
| `ListingOwnsLock` | `Listing /\ Spec => []WorkerOwnsLock` |
| `SelectNotStale` | `Spec => []NoStaleSelect` |

For any tasks, clients, handlers and calls, and pipes and reads of any size.
`TasksInOrder` holds for the program and the listing; the other three are about the
listing of the document, since `test_cp.cc` violates `WorkerOwnsLock`, which is a
finding. They rest on `LockInv`: from the worker's place follows who holds the mutex
and whether its `unique_lock` owns it, and between test and sleep the predicate
stays false because every push and `stop()` needs the mutex. In `SelectLoop` the
constants `Nobody` and `LoopThread` are not clients (`ThreadsAssumption`).
`SelectInv` says that whoever has changed the map and not yet written holds the
mutex; so when the pipe is empty and nobody is about to write (`Told`), what the
loop has built is up to date.

### `ChatServerProofs`

For any sessions, any amount of text and any line ends:

| theorem | statement |
| --- | --- |
| `ChatInductive` | `Spec => []ChatInv` |
| `NoMessageStuck` | `Spec => []WriteDuty` |
| `ClientsAgree` | `Spec => []SameOrder` |
| `LeavesOnce` | `Spec => []Departure` |
| `NoTextLost` | `Spec => []LinesKept` |

`WriteDuty` is about clients; `Duty` adds that a departed session with a write under
way still has its message, which `on_write` pops. `LastWords` needs `Speechless`:
after a message that follows its departure a session has no completed read left.
For `NoTextLost`, `LineInv` says that the text said so far, the streambuf and what is
unread are the numbers from 1 to `typed` when put together, from which follows what
the streambuf holds; that the messages are in order and each holds a line end
(`InOrder`), which makes the next message end a broken line; and that the streambuf
is empty unless a read has completed. The text said so far is given by a function
that collects it message by message; that the recursive definition in `Said` comes
to the same follows from the first place where the two would differ.

### `HAMasterProofs`

For any number of workers, restarts and faults:

| theorem | statement |
| --- | --- |
| `NoSplitBrain` | `Spec => []OneLeader` |
| `WatchesHold` | `Spec => []NotDeaf` |

`LeaderInv` says that whoever leads, or has fetched a list that will make it lead, is
the first of all nodes as long as it has its node (`ClaimsHold`): nodes go, or come
with larger numbers, so a fetched minimum stays one while its node is there. For
`NotDeaf`, `Registered` says that a worker in its loop that has not been told of a
change still has its connection and node.

### `ProgramsProofs`

| theorem | statement | for |
| --- | --- | --- |
| `RingInductive` | `RingSpec => [](QuietInv /\ OneTurn)` | any number of threads but none |
| `RingQuiet` | `RingSpec => []StoppedIsQuiet` | |
| `RingInTurn` | `RingSpec => []InTurn` | |
| `LruLinked` | `Spec => []Linked` | any finite set of keys, more addresses than keys, any capacity and width of `size_t` |
| `LruImplemented` | `Spec => ImplementsLru` | |
| `GreeterTagsValid` | `GreeterSpec => []TagsValid` | any finite set of threads, any number of calls, addresses for all of them |
| `StreamOutputKept` | `StreamSpec => []OutputKept` | any array larger than its put-back area, which is not empty |
| `StreamReadBack` | `StreamSpec => []ReadBack` | |
| `ListLinked` | `ListSpec => []LinksFormSequence` | any lists and nodes, not the same addresses |

- *Ring.* `QuietInv` adds to the types how far `main()` has come: before it joins,
  all threads it has passed are stopped, and nothing is deleted before all are. It
  holds because `stop()` waits for the mutex, which a printing or notifying thread
  holds, and because a thread looks at `stopped` after every wait. `OneTurn` is what
  makes `InTurn` inductive: without spurious wake-ups at most one thread is woken to
  print, prints or is about to notify, it is the one whose turn it is, and before
  `main()`'s `notify()` there is none.
- *LRU map.* `Fits` is `Linked` together with the order of the list by last use,
  which makes the node at the back that of the least recently used key. With this
  every step of `LruMap` is one of `LruSpec`; the specifications have no fairness,
  so the refinement is proved in full.
- *Greeter.* A tag alone does not say whose it is when addresses are reused.
  `KnownOnce` says that an object is known in one place: on offer, being finished,
  in one event, or to one thread; `OnePerThread` counts the objects that await a
  call, from which follows that an address is free for the next one.
- *Stream buffer.* `OutInv`: only a stream that is bad can have a full array, so
  `overflow()` has room for its character. `InInv` bounds the get area by where
  the last `read()` ended; without it the moved put-back characters could be
  outside the array.
- *Linked list.* `Rings` says of the pointers of all lists at once that they go round
  the elements both ways, and that no node is in two lists. Each operation is first
  shown on the pointers (what `InsertBefore` and the unlinking do to neighbours), then
  on the sequences. The destructor's `Reached` is the set of the elements.

### Only model-checked

- Liveness: `SignalHonoured`, `ShutdownCompletes`, `AcceptedIsServed`,
  `ConnectionEnds`, `PutAnswered`, `StopEnds`, `AcceptedRuns`, `RingEnds`,
  `QuietSessionEnds`, `ClosedRests`, `RegisterTakesEffect`, `LeaderQuits`. The prover
  reasons neither about fairness nor about `ENABLED`. `Echo` has no other
  property, hence no theorem.
- The fairness part of `ImplementsSession`.

There is no induction over data in the proofs. Where a smallest element is needed
(the first node, the first difference, the first node of a list that is not reached),
it comes from the well-foundedness of `<` on the naturals.

## 5. Plan

Order: the HTTP server first, because it is the largest program and has the
richest interleavings, then the thread and queue components, then the daemon.
Done in this order: `Frontend`, its proofs, `HttpConnection` with `Session`,
`TaskManager`, `LruMap`, `ResponseFilters`, `ChatServer`, `SelectLoop`, `HAMaster`;
then the small programs `ThreadRing` with its proofs, `Prebuffer`, `Greeter`,
`BufferList` and `Echo`. No component with state of its own is left.

Proofs, in the order done: `Frontend`, `ThreadRing`, `TaskManager`, `HAMaster`,
`SelectLoop`, `HttpConnection` with the safety part of its refinement, `LruMap`,
`Greeter`, `Prebuffer`, `ResponseFilters`, `ChatServer`, `BufferList`.

Next:
1. Safety parts of the liveness arguments as theorems: what has to hold at every
   step for `StopEnds` (a stopped worker is never asleep without a notification)
   and for `ShutdownCompletes` (what the work guard and the pool wait for).
2. `Echo`: that nobody watches a socket that is gone.
3. That `Programs` implements the specification of each small program.

## 6. Not modelled

- Third-party examples as distributed: `boost_http.cc` (Boost.Beast) and
  `test_async.cc` (Boost.Asio), the latter a read and a write in turn.
- Thread wrappers, language and algorithm exercises: no state worth a module.
- Within the modelled parts: logging, option parsing, `initialize()` and
  `daemon()` of `main()`; `detach()` and `dump()`; descriptors above `FD_SETSIZE`;
  memory held by reference cycles of chat sessions; the environment map of a
  request beyond `CONTENT_LENGTH`; `StopWatch` and `on_reload` of the daemon, which
  only decide how long a wait is and when processes are restarted; a stream
  used for input and output at once; iterators of `buffers`; the accept loop of the
  echo server and the shutdown code of the greeter, which is never reached.
