# A verification of the concurrent programs of *My Sundry Projects*

The repository is a collection of small programs: the exercises of *C++ Concurrency in
Action*, the examples and the tutorial of Boost.Asio, the patterns of *Head First Design
Patterns*, and trials of libraries. Its tests are samples of Boost.Test; nothing tests the
programs themselves. What is hard in them is what runs concurrently, and that is what
this directory models: the locks, the queues, the lock-free stacks, the threads that send
each other messages, and the servers whose handlers run in an order nobody controls.

Abbreviations of paths below: `CCIA` is `src/cpp-concurrency-in-action`, `AE` is
`src/asio-examples`, `AT` is `src/asio-tutorial`, `HF` is
`src/head-first-design-patterns`.

## 1. Inventory

### Programs and classes that are modelled

| Part | State | Operations | What is hard | What makes it correct |
|---|---|---|---|---|
| `threadsafe_queue` (`CCIA/6.lock_based/threadsafe_queue.hpp` 258-381) | list of nodes with a dummy tail, one mutex for each end, a condition variable | `push`, `wait_and_pop`, `try_pop` in two overloads | two locks on one list; the tail is compared after its lock was released; `notify_one` without the mutex of the waiters | FIFO, each pop linearizable; the list never breaks; nobody waits while there is something to pop |
| `hierarchical_mutex` (`CCIA/3.8.hierarchical_mutex`) | level of each mutex, level of each thread, the level a mutex remembers | `lock`, `try_lock`, `unlock` | the level is thread-local and restored from shared memory | no cycle of threads that wait; a lock against the hierarchy is refused |
| cash machine (`CCIA/4.x5.ATM`) | three threads, three message queues, state function of the atm, balance of the bank | a handler for each message, keys of `main` | answers that arrive after the question was given up; shutdown with messages under way | money issued was debited; an answer that is awaited comes; `q` ends the program |
| lock-free stacks (`CCIA/7.lock_free`): `lock_free_stack`, `lock_free_stack_with_hp`, `lock_free_stack_with_rc` | a list behind one atomic pointer; a list of nodes to delete and a count of threads in `pop`, or hazard pointers and a reclaim list, or split reference counts | `push`, `pop` | a node is read by a thread that does not own it; addresses come back (ABA) | linearizable LIFO; no node is read after it is deleted, none leaks; some call always returns |
| `thread_pool` with the parallel sort (`CCIA/9.thread_pool`) | shared queue, a local queue for each worker, futures, `_done` | `submit`, `run_pending_task`, `worker_thread`, the destructor; the recursive sort | a thread that waits for a task runs others on top of its stack | the list is sorted; no two stacks wait for each other; nothing is left when the pool is destroyed |
| `thread_pool_simple` (`CCIA/9.thread_pool/thread_pool.hpp` 29-79) | workers, queue, `_done` | constructor, `submit`, `worker_thread`, destructor | the constructor fails when some workers run already; the order in which members go | no worker is left when the queue goes; a task runs once, in order |
| chat server (`AE/chat_server`) | room: participants, recent messages; session: queue of messages to write | accept, read header and body, write, join, leave, deliver | completions in any order, errors of one operation while another goes on | one write at a time; every participant gets every message once, in order, from its backlog on |
| HTTP server (`AE/http_server`) | acceptor, `new_connection_`, manager's set of connections, the socket of each | accept, read, write, stop, signal | handlers of operations that had finished when their socket was closed | manager lists the live connections; nothing starts after the signal; `run()` returns |
| chat client (`AE/chat_client`) | the thread of `main`, the thread of the io_context, calls posted to it, socket, queue of messages to write | `write`, `close`, connect, read, write | a socket closed under its operations by a call of another thread, in any order with its handlers | one write at a time; lines are sent in the order typed, none twice; both threads end after the end of the input |
| HTTP server of coroutines (`AE/http_server4`) | one coroutine, copied with its `shared_ptr`s at each `fork` | accept, fork, read, parse, handle, write, shutdown | copies that share the socket, the acceptor and the buffers by pointer | no two copies use one socket; the parent accepts; `run()` returns after the signal |
| ping (`AE/icmp`) | one timer that is a timeout and a pause in turn, the sequence number, replies to the last request | send, timeout, receive; write and read packets | a reply that comes late, twice, or when the timer has already expired; numbers that come again; carries of the checksum | requests a second apart; who is reported as timed out was; a reply is counted for the request it answers |
| small TCP servers: echo (`AE/async_tcp_echo_server`, `AE/ssl_server`, `AE/allocation`), daytime (`AT/2.Daytime.3`, `.7`), `AE/buffers` | a session with one buffer, its memory for handlers | accept, handshake, read, write | a session is deleted by its handler; one buffer and one block of memory for everything it does | one operation for each session that lives; the echo is what was sent |
| UDP servers: `AE/async_udp_echo_server`, `AT/2.Daytime.6`, `.7` | one endpoint, one buffer, the sends under way | receive, send | a datagram is received into the endpoint of the one that is being answered | the answer goes to who asked |
| timers (`AT/1.Timer`) | count, one or two timers, one or two threads | the handler of a timer | two handlers on two threads read and write one count without the strand made for it | the count ends where it should, or one above |
| request parsers (`AE/http_server`, `2`, `3` alike; `AE/http_server4`) | state of the automaton, the request so far, the length of the content | `reset`, `parse`, `consume`; the coroutine of server 4 | bytes in any packets, a continued header line, a length that overflows or is not initialised | what the grammar says: accept a request with its parts, refuse what cannot become one |
| request handlers (`AE/http_server`, `2`, `3` alike; `file_handler` of `AE/http_server4`) | none between requests | `url_decode`, `handle_request` | encodings of the characters that the tests of the path look for; an extension in a directory's name | the file opened is the one the path spells; a path that is relative or has two dots is refused |
| handler priority queue (`AE/invocation`) | handlers that wait, by priority | `add` from the `io_context`, `execute_all` from `main` | handlers are taken off after they ran, and added in the order of completion | each runs once, none before one of higher priority that waits with it |
| condition variable (`CCIA/4.1.condition_variable`), producer and consumer of `CCIA/4.5.threadsafe_queue` | a queue, a mutex, `g_done` | prepare, push, wait, pop, process | a notification before the wait, spurious wakeups, the last datum | data in order, no wakeup lost, both threads end |
| older queues (`CCIA/6.lock_based/threadsafe_queue.hpp` 21-190): `threadsafe_queue_old`; `simple_queue`, `simple_queue_dummy` | a `std::queue` with one mutex and a condition variable; a list with a head and a tail pointer, with or without a dummy | `push`, `wait_and_pop`, `try_pop` | fewer notifications than values while others take what was announced; a tail that points at no node | linearizable as the new queue, nobody sleeps beside a value for it; FIFO while `_tail` is valid |
| `threadsafe_lookup_table` (`CCIA/6.lock_based`) | buckets, each a list behind a `shared_mutex` | `value_for`, `add_or_update_mapping`, `remove_mapping` | an iterator from a search is used while others read; two keys in one bucket | one entry for each key; every call linearizable as on a map |
| parallel algorithms: `CCIA/2.8.accumulate`, `8.4`, `8.7` (blocks), `4.x3`, `8.5` (`std::async`) | blocks or recursive calls, threads, futures | start, work, wait, add up | remainders, empty blocks, exceptions of an element or of `std::thread` while threads run | the sequential result, or the exception; no thread outlives the call that owns its data |
| gumball machine (`HF/10.state`) | state, count | insert, eject, turn the crank, refill | any order of calls | a ball for each quarter kept, whatever the order; a refill without a ball costs one quarter at most |
| remote control (`HF/06.command`, `06.command_with_bind`) | two commands for each slot, the devices | set, push either button | the off button tests the on command; slots share devices | no unset command is called; a device is as its last button left it |
| weather station (`HF/02.observer`) | observers, the displays and what they show | register, measure, destroy | pointers to displays that are gone stay behind; a count that is not initialised | no display is notified after its end; what is shown was measured |
| HTTP servers with threads (`AE/http_server2`, `AE/http_server3`) | pool of io_contexts and its round robin, or threads on one io_context | the same without a manager | a handler goes on after it has started an operation that another thread finishes | handlers of one connection never overlap although there is no lock |

### Not modelled

- Code that is not built: `threadsafe_list.hpp`, which nothing includes and whose members do not
  compile when instantiated; `lock_free_queue.hpp`, which says of itself that it is broken and whose
  `pop()` does not compile when it is instantiated; `threadsafe_lookup_table::get_map()`, for the same
  reason.
- Code without anything to interleave: `threadsafe_stack`, each of whose operations is one critical
  section around `std::stack`; `splice_partition`; the clients that make one blocking call after
  the other, `ssl_client` among them; the programs of patterns without state; guards that start a
  thread and join it.
- Code that repeats what is modelled: `threadsafe_queue66` does what `ThreadsafeQueue` does with
  `try_pop` only; `CCIA/9.thread_pool/queue.hpp` is a copy of the five queues.
- What is about wording: `reply.cpp`, `mime_types.cpp`, the text that displays and devices print.
- Code that is never called: `function_wrapper` beyond what `std::function` does,
  `parallel_accmulate_using_tp` (section 6), the devices' calls that no command makes,
  `removeObserver()`.
- The trials of Lua, Python, Couchbase and the standard library, which call a library and print;
  headers, project files and data.

`PROJECT.json` lists each part with its status.

### How the parts interact

The programs are separate. Inside them: the cash machine's threads share nothing but
their queues, which are those of `messaging.hpp` (one mutex, so a queue is a sequence);
the thread pools stand on a `threadsafe_queue`, whose promise is `WaitableQueue`, and which is
proved to keep it, so that a queue is a sequence there; the
Asio programs consist of handlers that an `io_context` calls when an operation has
finished, and that start the next one.

## 2. Modules

| Module | What it is | Correspondence to the code |
|---|---|---|
| `WaitableQueue` | abstract: what a FIFO queue with waiting promises | a call takes effect at one instant between call and return |
| `ThreadsafeQueue` | `threadsafe_queue` | a step for each mutex taken, each critical section that others can observe, each wait; a node is a reusable address |
| `ThreadsafeQueueOld` | `threadsafe_queue_old` | a critical section is a step, in which a wait unlocks and blocks |
| `SimpleQueues` | `simple_queue`, `simple_queue_dummy` | `dummy` says which; a node is a reusable address, an uninitialised pointer is null or `Garbage`; nothing is said of what follows a write through a pointer to no node |
| `HierarchicalMutex` | the mutex, and its proofs | `Restore` and `Release` are the two lines of `unlock()`; `Lock`, `Acquire`, `Update` those of `lock()` |
| `Atm`, `AtmProofs` | the cash machine, and proofs; those of the gumball machine and of the composition too | one action for each handler of each state function, including what it sends; a key of `main` is a message; PIN digits are right or wrong |
| `ConcurrentStack` | abstract: what a stack shared by threads promises | |
| `LockFreeStack`, `LockFreeStackHp`, `LockFreeStackRc`, `StacksProofs` | the three stacks, and proofs that each is safe and implements `ConcurrentStack` | one step for each access to an atomic and each read of a node that is shared, the search of `hp_owner` for a slot and its end included; `compare_exchange_weak` may fail without reason |
| `ThreadPool` | pool, submission, sorter | the calls on a thread's stack are a sequence of frames; futures are indexed by task |
| `ThreadPoolSimple` | the pool without futures | constructor, `submit` and destructor of the owner; a step of a worker for each test, pop and task |
| `ChatServer` | room, sessions, acceptor | one action for each handler, error path included; messages are numbers in the order of their delivery |
| `HttpServer`, `HttpServerProofs` | server, connection, manager; proofs of all four servers | an operation is pending, then finished with a result while its handler waits; `close()` aborts only what is pending |
| `HttpServerPool` | servers 2 and 3 | `server` says which; a handler is split where it starts an operation |
| `HttpServer4` | server 4 | a step from one `yield` of a copy of the coroutine to the next |
| `RequestGrammar` | the classes of bytes, and what a request is: a reference definition | the grammar of a request as sets of sequences of pieces, written without an automaton |
| `RequestParser` | parsers of servers 1 to 3 | `consume()` is a function of state and byte; the step of a byte is `Consume` |
| `RequestParser4` | parser of server 4 | the same with the content, its length and its width |
| `ChatClient` | the client | calls of `main` are a queue of posted calls; one action for each handler |
| `Pinger` | `pinger` | one action for each handler; time is counted from `time_sent_`, a packet is the request it answers; the io_context calls handlers in the order they became ready. Its bytes are operators apart: a request with its checksum, and where a reply is read; a byte has `Base` values, a short is two bytes. `MCAsio` enumerates their inputs |
| `Timers` | `Timer3`, `Timer4`, `Timer5` | a step for each read and write of the count |
| `RequestHandler` | `url_decode`, `handle_request` | the whole of a request in one step; a character is one the tests look for, or any other |
| `HandlerQueue` | `handler_priority_queue` and `main` | a handler is its priority; `Execute` and `Pop` are two lines of one loop |
| `ProducerConsumer` | the program of 4.1, and that of 4.5, whose queue has the same lock, push, wait and pop in methods | a step for each critical section, wait and notification |
| `SharedMap` | abstract: what a map shared by threads promises | |
| `LookupTable` | `threadsafe_lookup_table` | a step for each lock taken and each access to the list under it |
| `BlockAlgorithms` | 2.8, 8.4, 8.7: `algorithm` says which | an element is its position; a step for each element, thread started, future got, and thread joined |
| `AlgorithmsProofs` | proofs about the pools and the algorithms | |
| `AsyncAlgorithms` | 4.x3, 8.5 | a call is its path in the recursion; `std::async` starts a thread or defers, as the library likes |
| `GumballMachine` | the machine and its states | one action for each method of the machine |
| `RemoteControl` | the remote control of both programs | a command is what it sets on devices; who sets the buttons of a slot sets both |
| `WeatherStation` | the subject, three displays, `main` | one action for the construction of a display, a measurement with all its updates, and the end of a display |
| `TcpServers`, `UdpServers` | the echo and daytime servers, `server` or `kind` says which | one action for each handler; the network completes an operation, with or without error |
| `ContainersProofs` | proofs about `threadsafe_queue`, that it implements `WaitableQueue`, and about the executions of `MCContainers` | |
| `AsioProofs` | proofs about the executions of `MCAsio` | |
| `MC*` | small instances | constants as model values; `MCContainers`, `MCMachines`, `MCAlgorithms`, `MCStacks`, `MCAsio` and `MCHttpServer` put several programs beside each other, and a variable `program`, fixed by the first state, says which one an execution is about |

Abstractions common to all: a value, message or request is a model value or a small
number; formatting and printing are left out; `new` takes any free address, so an address
that was freed comes back; memory order is sequential consistency, which is what the code
asks for (its relaxed variants are comments, but for the relaxed load in
`lock_free_stack_with_rc::push`, whose value only serves an exchange that checks it). The
constructors of the lock-free stacks leave the atomics to `std::atomic`, which makes them
null since C++20. `_this_thread_hierarchy_value` is declared and never defined; its first
value is the constant `InitialValue`. In the modules of the servers the parser is the choice of
its result; in the modules of the parsers a byte stands for those the automaton treats alike
(letters that spell `HTTP` are themselves, `L` is the header name `Content-Length`).

## 3. Runs

| Run | Instance | Shows |
|---|---|---|
| `queue` (`MCContainers`) | `threadsafe_queue`: 2 threads that push and pop, 2 values, 3 nodes; 4.1 and 4.5: 3 data; table: 2 threads, 2 keys in one bucket or two, 2 values; old queue: 3 threads, 3 items; single-threaded queues: 3 nodes, 2 values; fair | list shape, disjoint ends, live stale tail; `ContentsAreRight`: data in order, one entry for each key, FIFO until something undefined happens; `WakeupsAreNotLost`; `CallsAreAtomic`: `WaitableQueue` is implemented twice and `SharedMap` once; calls return |
| `queue_lost_wakeup` | 1 producer, 1 consumer | finding: `WaitersAreServed` is violated |
| `hierarchy` | 2 threads, 3 mutexes on 2 levels, unlocking in reverse order, fair | hierarchy kept, no wait cycle, locks granted |
| `hierarchy_any_order` | the same, unlocking in any order | finding: `HierarchyIsKept` is violated |
| `atm` (`MCMachines`) | PIN of 2 digits, 8 keys, 2 keys ahead, fair; gumball machine: 3 balls, 4 quarters; remote control: 2 slots and one that does not exist; weather: 3 measurements | `GoodsWerePaidFor`: notes and balls; replies, termination; `ActionsFollowARightPin`: the PIN of a session and, after abandoned verifications, one right PIN for each admission; `ReceiversAreInformed`: commands and displays |
| `atm_cancel` | PIN of 1 digit, 5 keys, 4 ahead | finding: `CancelledWithdrawalIsNotCharged` is violated |
| `stack` | 2 threads, 2 values, 2 nodes, 2 hazard pointers, counts to 5, fair | the three stacks implement `ConcurrentStack`; `SomeCallReturns` |
| `stack_reclaim` | 3 threads, 1 value, 3 nodes (2 for the second and third stack), symmetry | no dead node is read, no hazard pointer is shared, no node is lost or deleted twice |
| `stack_empty` | 2 threads | finding: `PopOfEmptyStackIsSafe` is violated |
| `asio` | chat server: 3 sessions, 1 recent message, 2 messages; chat client: 3 lines; ping: 4 requests, numbers below 3, 2 packets waiting; packets of bytes below 4; timers to 4; 3 handlers by priority; TCP: 3 sessions, 2 chunks; UDP: 2 peers, 2 sends; fair | one operation at a time, nothing missed or misdirected, counts and reports, delivery, destruction, requests a second apart; the client ends, ping goes on, timers end |
| `http` | 4 connections, 1 thread; 3 connections, 2 threads for servers 2 and 3; 3 for the coroutine; inputs that depart from a usual request in up to 2 bytes for the parsers; uris and paths of 4 characters; fair | manager, no overlap, accepting, stop, return of `run()`; verdicts of the parsers and of the request handler |
| `sort` (`MCAlgorithms`) | pool: caller and 2 workers, all lists of 4 of 3 values, with and without local queues; blocks: ranges to 5, 2 elements for each thread, 3 processors, any element and any thread may fail; simple pool: 2 workers, 3 tasks; async: lists to 4, ranges to 7 in chunks of 2; fair | `ResultsAreRight`: sorted, added up, or the exception; `NothingIsLeftBehind`: no task, no thread; the stacks of the pool make progress; every call ends |

Why the bounds are enough to be interesting:

- *queue*: three nodes make a list that is empty, has one value (where both ends meet) and
  two (where order shows), and leave a node whose address comes back. Two threads that are
  both producer and consumer give push against push, pop against pop and push against
  pop. The shape of the list is proved for any number of everything.
- *queue*, the others: three data of 4.1 make an empty queue, one behind the other, and a last
  one; two keys in one bucket meet in its list, in two buckets they pass by.
- *queue*, the older ones: three threads are two that wait and one that pushes twice before either wakes
  up, and a third item is one more than the sleepers. Of the single-threaded ones, a list of three nodes
  is emptied and filled again with addresses that come back.
- *hierarchy*: two levels and two mutexes on the same level are what `<=` against `<`
  distinguishes. Proved for all sizes.
- *atm*: eight keys make two sessions (card, two digits, an action, and again), so that an
  answer of the first reaches the second; two messages ahead let a cancel overtake an
  answer. The balance of 60 allows one withdrawal and refuses the second. The gumball
  machine sells out and is refilled, with balls or with none. Two slots of the remote control share a device; three
  measurements are the ones of `main`, in any order.
- *stacks*: a danger to a node of the first stack needs a thread that has read it, one that
  pops it and one that takes the list of pending nodes: three. Two nodes suffice for ABA, as
  an address comes back at once; two values show the order. With two hazard pointers for
  three threads a `pop()` meets a full table, and a thread that ends gives its slot to one that looks for it.
- *asio*, the chat: three sessions are one that writes, one that receives and one that joins late; one
  recent message of two makes the backlog drop one. Three lines of the client are one being
  written, one queued and one posted.
- *asio*, the others: replies come before two more requests have followed, and numbers below 3
  come again after three, as replies of the network live shorter than 65536 requests; two packets
  waiting are one reply twice, or a late one before the right one. Checksums of up to
  five shorts of 16 values have carries, and carries of carries. A third
  session is accepted while one of two others is destroyed, so that an address comes back. The count of
  4 lets each handler of `Timer5` overtake the other in every step.
- *http*: a connection to be accepted, one that reads, one that writes and one that ends;
  with two threads the acceptor and the connections are on different io_contexts. Of an input of
  a parser all bytes but `MaxOdd` = 2 are the next of a usual request, and those two are any class
  in any place: enough to end a line early, to continue a header, or to begin the content with a
  wrong length. Sizes are of width `SizeMax` + 1 = 4, so that a length overflows.
  A uri of four characters has an encoded one with another beside it, a path of four a
  directory with a dot in its name and a file.
- *sort*: lists of 4 from 1..3 have equal elements, empty halves and splits three deep. A range
  of 5 for blocks of at least 2 has a remainder; a range of 7 in chunks of 2 is halved twice.
  The constructor of the simple pool fails at the first worker or the second, and three tasks
  are one for each worker and one that may be dropped.

`CHECK_DEADLOCK FALSE` stands where a program ends or a bound stops it: the atm and the
servers return, the algorithms and the programs of 4.1 and 4.5 end, a number of quarters is the
last, the heap of the stacks can be full, the chat has a last message
and ping a last request.
The mutex never stops.

## 4. Fairness

- *queue*: a thread in a call keeps running, and a mutex that becomes free again and again is
  given to each who waits for it (strong fairness). Nobody has to call anything.
  The producer of 4.1 gets the mutex although the consumer takes it again and again (strong
  fairness), the consumer is scheduled. Nothing is claimed of the end of the table's calls: a writer can starve
  under a `shared_mutex`.
- *hierarchy*: strong fairness of `Acquire`, for the same reason, and of giving back a mutex,
  for `lock_guard`s end.
- *atm*: weak fairness of each thread, and of `main` once `q` was pressed. Keys are never due, nor is a
  customer of the gumball machine, a button of the remote control or a measurement.
- *stacks*: weak fairness of a thread in a call, and an exchange fails only because its
  variable differs: spurious failures for ever would refute any progress. They happen in
  `stack_reclaim`. A thread that looks for a hazard pointer, or ends, is not in the way of the others: that
  some call returns is asked while a thread is beyond it.
- *asio*: an operation on a socket of the chat server finishes; a read only once the connection is lost. Of the client,
  the two threads run, and the io_context does not pass over the calls posted to it for the
  sake of the server's messages (strong fairness of `Posted`). Its network owes nothing.
  For ping time passes, the timer expires and handlers run; no reply is due. Of the timers
  something goes on, and `CountingEnds` is asked only of those with one timer.
- *http*: the io_context runs handlers in the order in which operations finish. For the servers with
  threads this makes the handler of the signal strongly fair: a thread has others to run, but does
  not pass it over for ever. Clients need not connect or send. Of the coroutine's handlers that of the
  signal is due once it is called (weak fairness of `Stop`).
- *sort*: each thread of both pools is scheduled, and a destructor that has begun goes on; of the other algorithms some thread goes on, which is
  enough because each step is one of finitely many.

## 5. Proofs

TLAPS proves for every value of the constants:

`ContainersProofs`, `threadsafe_queue` (from `QueueAssumption`: the sentinels are no threads, nodes or values)

- `TypeCorrect`, `ListShape`, `StaleTail`, `TwoLocksSuffice`: `TypeOK`, `ListIsWellFormed`,
  `StaleTailIsLive` and `EndsAreDisjoint` are invariants. The inductive invariant adds
  `MutexesAreHeldByTheirSections` (so two threads are not in the same section), that a node
  being pushed is allocated, in no list and no other thread's, that a popped node is out of
  the list, and that the list is allocated. `EndsAreDisjoint` is not inductive: it follows from
  a stale tail being a node of the list, because the head differs from it only if it is not the
  last node.
- `CallsAreAtomicOnOneQueue`: `ThreadsafeQueue` implements `WaitableQueue`, whose queue is the data of
  the list without its dummy. A push takes effect where it sets `_tail`, a pop where it moves
  `_head`, a `try_pop` that returns nothing where it reads `_tail`: later the list
  may have a value. The invariant is the one above and that a call keeps
  its argument until then (`CallsKeepTheirArguments`).

`HierarchicalMutex` (from `HierarchyAssumption`: levels and the first value are numbers)

- `Hierarchy`, `LevelRestored`, `DeadlockFree`: a thread never waits for a mutex that is
  not below all it holds, it is back at its former level after `unlock()`, and no set of threads
  waits for each other. The invariant is `TypeOK`, `OwnersHold` (a mutex is owned by the thread that
  has it in `held` or is about to) and `LevelsDescend` (along `held`, levels and remembered
  levels form a descending chain that ends at the thread's). A cycle is excluded because the
  thread of the set that waits for the lowest mutex waits for one held by a thread
  that waits for a lower one. `TypeCorrect` is `TypeOK`. Callers unlock in reverse order: for the others
  `hierarchy_any_order` refutes it.

`HttpServerProofs` (from `HttpAssumption`; of the pool `PoolAssumption`: at least one thread; of the request handler
`UriAssumption`: a bound is a number)

- `TypeCorrect`, `LiveConnectionsAreOwned`, `NoOverlap`, `AcceptsUntilStopped`: the manager
  lists exactly the live connections, none has two operations, and the accept is always
  outstanding until the signal is handled. The invariant is a conjunction of one part for the
  acceptor (`AcceptorInv`) and one for each connection (`ConnInv(c)`), so that a step on
  one connection leaves the others' parts alone.
- `ServersTypesOK`, `HandlersAreApart`, `AcceptsGoOn`: `ServerTypesOK`, `HandlersDoNotOverlap` and
  `AcceptsContinue` of the executions of `MCHttpServer`. For servers 2 and 3 the invariant `PoolInv` says
  which thread is in which handler (`PoolServer`) and that a connection is in one place (`PoolConn`): with its
  acceptor, in a queue of a context, or in the hands of a thread. For server 4 `CoroInv` says that a copy of the
  coroutine owns its socket, and that the original alone has the acceptor.
- `FilesAreRight`: `VerdictsAreRight` of the executions of the request handler. `url_decode()` is a function of the place in
  the text, made from its end (`UrlDecodes`); `BeginningIsRead` says that it has made the first n characters of a path
  of what spells them, however they are spelt.

`AtmProofs` (from `AtmAssumption`: the PIN has digits; the balance and the bounds are numbers; and
`UnsetAssumption`: an empty pointer is no command)

- `TypeCorrect`: `TypeOK`. It needs the types of the messages in the three queues (`QueuesOK`) and that
  a PIN is read only while it is too short (`PinOK`).
- `RepliesCome`: `AwaitedReplyIsComing`. A handler takes one message from the head of its queue, so
  the question of the state is answered in the step that removes it, and an answer that is dropped is
  dropped in a state that does not wait for it.
- `RightPinFirst`: `ActionsFollowARightPin`, with `OneVerification`: unless a verification was
  abandoned, one is under way at most, as a question with the PIN of this session or as its answer. With
  abandoned ones several may be: by `CreditInv` the questions with the right PIN in the bank's queue and the
  answers `pin_verified` in that of the atm are together at most `credit`, the right PINs that have admitted nobody yet; an
  admission takes one of each. So a late answer (`4.x5.ATM.cpp:273`) may admit the wrong session, but no right PIN admits two.
- `MoneyWasDebited`: `MoneyIssuedWasDebited`. The count of notes and grants under way goes up by one where
  the bank debits, and nowhere else; the proof counts how an append and the removal of a head change
  the set of positions with a message of a type.
- `GoodsArePaidFor`: `GoodsWerePaidFor` of the composition. The executions of the cash machine in it are those
  of `Atm`; for the gumball machine `QuartersBuyBalls` is inductive with types: a
  quarter is lost only in a state that an empty refill has made, and the state ends with it.
- `ReceiversInformed`: `ReceiversAreInformed` of the composition. In the remote control (`RemoteInv`) both buttons of
  a slot are of one pair, and commands of different pairs set different things, so that
  a push for one slot leaves the devices of the others' commands alone. In the weather station (`WeatherInv`) all displays live while measurements are to
  come, their extremes are among the readings or are the values they began with, and the forecast
  has the last two pressures.

`ContainersProofs`, the executions of `MCContainers`

- `CallsTakeEffectAtOnce`: `CallsAreAtomic`, by the refinement above, one for `threadsafe_queue_old`,
  whose critical sections are the steps of `WaitableQueue`, and one for the table. There the
  invariant `TableInv` says who holds the lock of which bucket, that a bucket has a key once and only
  keys of its own, and that an iterator is still that of its key when it is used: a writer is
  alone in its bucket. Lemmas on lists of entries show what an append, a replacement and a removal do to
  the value of each key.
- `NobodySleepsThrough`: `WakeupsAreNotLost`. In `threadsafe_queue_old` the number of values is at
  most that of the threads that are awake in `wait_and_pop()`, while any sleeps: a push wakes one, and
  who takes one was awake. In 4.1 the mutex excludes a push between the test and the wait.

- `ContentsAreKept`: `ContentsAreRight` (from `ContainersAssumption`: a queued pointer is not null, and some data is to
  be prepared). In 4.1 and 4.5 (`DataInv`, `ToldInv`) the queue holds exactly the data between those processed and
  those prepared, in order, and who has been told to stop has been told by the last. In the table, `TableInv`. In the
  simple queues (`SimpleInv`) distinct nodes, linked from `_head` to `_tail`, hold the values inside in order, then comes the dummy;
  without a dummy the `_tail` of an empty queue is null, uninitialised or stale, and a push
  through it is the only undefined write.

`StacksProofs` (from `StackAssumption` and `StacksAssumption`: threads and nodes are finitely many, the null
pointer is no node)

- `StacksTypesOK`, `StacksDereferencesAreLive`, `StacksLoseNoNode`: `TypesOK`, `AllDereferencesAreLive`,
  `NoNodeIsLost`; `StacksAreLinearizable`: `AllImplementStack`, for every number of threads, values, nodes
  and hazard pointers. The invariants have the same parts in the three classes. *Placed*: each node is
  free, in the stack, owned by one thread or waiting to be deleted, and in one of these places. *Linked*: `_head`
  and the links make the list of the nodes of the stack. *In step*: what each thread has read at each step.
  The last part is what the class relies on for a node that a thread has read to be neither deleted nor pushed again.
  With hazard pointers (`HpInv`) it is the thread's own entry (`HpSlotted`: a slot has the id of the one thread that uses
  it, as an exchange takes it only while it has none; `PointersHold`), once the
  thread has seen `_head` again: who reclaims the node has still to look at that entry, or has kept it.
  With reference counts (`RcInv`) it is that the external count, the internal count and the threads between
  `increase_head_count()` and their exchange add up, so that nobody sees zero while another holds the node.
  With pending nodes (`PnInv`) it is that a thread which takes the pending list and then finds itself
  alone in `pop()` has taken nodes that nobody in `pop()` had read. The pending nodes (`K`) and
  the batch of each thread (`B`) are lists that the links make; the invariant quantifies over them.
- A push takes effect where its exchange of `_head` succeeds, a pop there or where it reads a null `_head`.

`AsioProofs` (from `AsioAssumption`: bounds are numbers, and what is said of `Width` and `MaxBody` below)

- `OneOperation`, `NothingMissed`: `OneOperationAtATime` and `NothingIsMissed`, for the chat server, its client, the
  TCP and UDP servers and the queue of priorities, for any number of sessions, messages, lines and chunks.
  The invariant is one of each program, since a step of one leaves the variables of the others alone.
  The chat server's (`ChatInv`) says of each session where in the order of deliveries its queue begins and ends, and
  that its write is under way exactly while the queue is not empty; the client's (`ClientInv`) that what is sent,
  queued and posted is what was typed, in this order, and which of its two threads is where. A
  session of the TCP servers (`TcpInv`) has one operation, or one chunk that is read and not yet written, or is destroyed.
  The UDP servers' (`UdpInv`) needs that a send is started only while a number is free for it: the pigeonhole principle.
  In the queue (`QueueInv`) a handler is waiting, ready, in the queue or executed, and in two places only between `execute()` and `pop()`.
- `PingIsSlow`: `RequestsAreASecondApart`. `PingInv` says which handlers can be ready in which order, and that
  the timer that has stopped waiting has expired or was cut short by a reply.
- `CountsRight`: `CountsAreRight`. Ping takes a reply for one to its last
  request only if it is, although numbers come again: while a reply waits to be handled requests go on, at most one
  for every two packets before it (the timer and the socket take turns, and every second turn of
  the timer sends), and `AsioAssumption` says that these, with the `Lifetime` of a reply, are not more than
  `Width`; in the program `Width` is 65536. For `Timer5`, whose two handlers count without a lock, `TimerInv` says
  that once the count is at its limit only one thread is still between its test and its write. For the checksum,
  of bytes with any number of values and of a body of any length that `AsioAssumption` allows (as long as its sum fits an
  unsigned int: 131066 bytes, in the program): both sums over the request are recursive functions (`SumExists`,
  `OnesExists`), which agree short by short but for a multiple of all ones, the carries (`PacketCompletes`); what `Fold`
  leaves is what is missing to such a multiple (`ChecksumCompletes`).

`AlgorithmsProofs` (from `PoolAssumption`: the caller is no worker; `BlockAssumption`: the bounds are numbers, and a
thread's minimum is positive; and `AsyncAssumption`: the longest range is a number), the executions of `MCAlgorithms`

- `SomebodyHasWork`: `SomeoneHasWork`. By `PoolInv` each task is in one place, a queue or the calls of one
  thread, until its future is ready; a call waits only for a task that was submitted after all those it runs
  within. The greatest task that is not ready is in a queue, or its call is not waiting: what it would wait for is greater.
- `CallsCleanUp`: `NothingIsLeftBehind`. In the pool, the smallest task that is not ready is awaited
  by a call of an earlier one, and so on to the caller's, which would have returned. In the simple pool and the block
  algorithms a destructor or a guard joins before anything is freed. By `AsyncInv` a deferred task stays at its start until its caller is in `get()`.

- `EachTaskRunsOnce`: `TasksRunOnce` of the simple pool. By `SimpleInv` the tasks taken from the queue are the first ones, and
  each was executed or is in the hands of one worker.
- `BlocksMakeTheResult`: `ResultIsRight` of the block algorithms. `BlocksMakeTheRange` is the arithmetic of the
  division: the blocks are next to each other and the last takes the remainder. By `WorkInv` each thread
  has worked on the beginning of its block, and on all of it once it has a result; by `CallerInv` the caller has added, in order, the blocks
  before the one it waits for, and its own last, so the result is the range in its order: the addition need not commute.
- `ListsAreSorted`: `SortIsCorrect` of the pool. By `SortInv` a task that a call awaits has, in whatever queue or stack
  it is, the lower part of the call's list, and what it puts in its future is that part in order;
  the call above has the higher part. `SelectedCount` and `PartsMakeTheList` say that the parts of a list and its pivot
  have each value as often as the list has, in whatever order `std::partition` leaves them; `SortedPartsMakeTheSort`
  that the sorted parts around the pivot are in order.
- `CallsMakeTheResult`: `ResultIsRight` of the algorithms with `std::async`. By `ResultInv` the calls that a call has made
  have the parts of its list, and a call that has ended has made of its list what it should, or threw because an
  element of that list does. `Throwing` and `HalvesMakeTheChunk` are the arithmetic of the halving.
- `ResultsRight`: the whole of `ResultsAreRight`, which adds the types and the sequential sort. That is a recursive function on
  all lists: `SortOfAllExists` shows that there is one, from sorts of the short lists that agree with each other, and
  `SequentialSortSorts` that it sorts, by the shortest list that it would not sort (`ShortestList`); `OneSort` that
  a list has only one sort.

Only model-checked:

- all liveness, which includes the progress of the stacks and the delivery of the chat: fairness and ENABLED are
  beyond the prover;
- the verdicts of the parsers (`VerdictsAreRight` but for the request handler). What a loop computes from all its input
  is an induction over data, and the library's induction theorems take an operator as a parameter, which the installed
  provers cannot instantiate. Where the loop is a recursive function on numbers or lists the proofs above do without
  them, with a least number that would be an exception (`LeastNumber`); the grammar of requests is not of that form.

## 6. Findings

1. `threadsafe_queue.hpp:373`: `push()` notifies without the mutex under which
   `wait_for_data()` tests its predicate (line 294). A push between the test and the blocking
   wakes nobody: a consumer sleeps beside a value (`queue_lost_wakeup`).
2. `3.8.hierarchical_mutex.cpp:51`: `unlock()` restores the level remembered by the mutex it
   releases; after an unlock in another order than the reverse one, a lock against the
   hierarchy is no longer refused (`hierarchy_any_order`).
3. `4.x5.ATM.cpp:418`: the bank does nothing on `cancel_withdrawal`; the account stays charged
   for a withdrawal that the display calls cancelled (`atm_cancel`).
4. `lock_free_stack.hpp:71`: a `pop()` that finds the stack empty while another runs chains a
   null pointer and writes through it (`stack_empty`).

Facts that no property states as a fault, since nothing in the repository says otherwise:

- `1.Timer.cpp:134-156`: the handlers of `Timer5` are not bound to `_strand`, and both can pass
  the last test: the count ends at 10 or 11, and one thread can undo increments of the other
  for as long as it is stopped between its read and its write.
- `2.Daytime.6.cpp:53`: after an error of a receive the server does not receive again, and its `run()`
  returns; the echo server goes on.
- `request_handler.cpp:94`: a conversion of two characters succeeds when the first is a hexadecimal
  digit, or a sign before one: `url_decode` takes `%2x` for `%02`, where
  `request_handler.hpp:38` says that it returns false if the encoding was invalid. The model decodes as the
  code does; no run is about it.
- `thread_pool.hpp:223-254`: `parallel_accmulate_using_tp` advances `block_start` in place of
  `block_end`, so that each task gets a range that ends before it starts. It is not modelled.
- `4.5.threadsafe_queue.cpp`: `try_pop(T&)` copies the front and leaves it there. It is not called.
- `threadsafe_queue.hpp`: `threadsafe_queue_old::try_pop(T&)` does not return a value where it succeeds (in
  the model, either); the constructor of `simple_queue` leaves `_tail` uninitialised, and its `try_pop()`
  leaves it at a node that is freed when the queue becomes empty. `DummyKeepsTailValid` says that these
  are the only ways to an undefined write, and that the dummy excludes both.
- `02.observer.cpp:144`: the subject keeps pointers to displays that are gone; only the order of `main` keeps
  it from notifying them. The average is right only if `_numReadings`, which nothing initialises,
  begins at 0.
- `06.command.cpp`: `offButtonWasPushed()` tests the on command of the slot. Both `main`s set both.
- `gumball_machine.cpp:84`: `refill(0)` of a sold-out machine lets it take a quarter and give nothing.
  The model has such refills and counts them (`emptyRefills`): `QuartersBuyBalls` allows one lost quarter for each.
- `threadsafe_lookup_table.hpp`: `get_map()` does not compile when it is instantiated.
- `ping.cpp:71`: when the reply comes later than a second after its request, the pause is over before it begins.

Two calls of `lock_free_stack_with_rc::pop()` can make each
other's exchange fail for ever, as each has only to raise the count (line 90); in the model
every round raises the bounded count, so there is no cycle to exhibit.

## 7. Plan

What can still be added, by what can go wrong in the code.

1. *Proofs* of the verdicts of the parsers: that a consumed byte leads from one part of a request to the next.

Programs of a family are composed in one MC module, in executions of their own: a question is asked once, of all of them.
