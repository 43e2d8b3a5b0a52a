# TLA+ models of the piotbench server pipeline and client

piotbench is a pipelined request/response benchmark. It has two programs.

- The server is `src/src/server`. Four stages of threads pass pre-allocated connection and buffer objects to each other through two-lock queues.
- The client is `src/src/client`. It opens connections, pipelines fixed-size requests and reads the responses.

This directory models the server's pipeline, with the client's peers as its environment, and the client program, with the server as its environment. It checks both with TLC.

## The system

| Part | Source | What it does |
|---|---|---|
| Spin lock | `include/lock.h` | A 0/1 CAS lock with no owner. It provides `lock`, `unlock`, `trylock` and `lock_init`. |
| Two-lock queue | `include/queue.h` | An intrusive singly linked queue. It has a head lock, a tail lock and a divider node that circulates. `queue_put` and `queue_get` are its operations. |
| Pools | `server/main.c` `setup_server_prealloc` | The queues `empty_connections` and `empty_buffers`. They are filled at startup. |
| Accept stage | `server/io/accept.c` | On readiness of the listening socket, it takes a connection from the pool, accepts the peer, resets the connection and arms EPOLLIN. |
| IO stage | `server/io/io.c` | Handles each epoll event in two parts. `handle_response` writes out the send queue and clears EPOLLOUT once `processed == sent`. `handle_request` borrows a buffer, reads a request, counts `received` and forwards the buffer to compute. `finish_connection` runs on an error or on EOF. |
| Compute stage | `server/compute.c` | Computes a digest in place and forwards the buffer to the submitter. |
| Submit stage | `server/io/submit.c` | Does a `trylock` on the buffer's connection and requeues the buffer if the lock is taken. Otherwise it counts `processed`. On a closed connection it releases the buffer, and releases the connection after the last one. On an open connection it queues the response on the send queue and arms EPOLLOUT. |
| Lifecycle | `server/main.c`, `thread.c` | `create_server`, `destroy_server`, thread groups, the stop flag. |
| Kerncall, syscall wrappers | `server/io/kerncall.c`, `sysinface.c` | Run a stage's loop in an alternative execution context. The stages behave the same either way. |
| Client | `client/worker.c`, `client/main.c` | The main thread connects every connection, starts the workers, meets them at a barrier, sets `ctx->stopping` once the deadline passes, then joins, reports and cleans up. Each worker runs an epoll loop over its non-blocking connections. It writes `nr_requests` requests and reads the responses, a part at a time, and closes each finished connection. |

A connection's counters tie the stages together:

- `received` is written by the IO thread.
- `processed` is written by the submitter.
- `sent` is written by the IO thread.
- `finish_connection` adds every drained buffer to `sent`.
- A connection returns to the pool when `sent == received` at finish, which is the immediate path. Otherwise the submitter releases it when `processed == received` after the last in-flight buffer, which is the delegated path.

The lock serialises the submitter against the IO thread's critical sections.

## Modules

### `PipelineServer.tla`

This module has one thread per stage (the default configuration) and a set of peers. Queues are modelled by their contents, as sequences. `put` is `Append` and `get` is `Head`/`Tail`. This is exact for the single-consumer use made of them here.

Each thread's loop body is split into steps at each point where another thread can see a difference: a lock acquisition, the end of a critical section, a queue operation, a system call.

| Code | Model |
|---|---|
| `struct server_connection_t` fields | The functions `fd`, `fdOpen` (the descriptor has not been closed), `closed`, `locked`, `epollState`, `recvbuf`, `sendbuf`, `sendQueue`, `received`, `processed`, `sent` |
| `buff->conn`, request/response id | `bufConn`, `bufMsg` (the peer and the index of its request) |
| `setup_server_prealloc` | `Init` |
| `handle_accept` | `Accept` |
| `__io_worker` event dispatch, EPOLLERR | `IOWait(c)`, `AfterOut` |
| `handle_response` | `IOOutPop`, `IOSendDone` / `IOSendBlocked` / `IOSendFail`, `IOOutLock`, `IOOutUnlock` |
| `handle_request` | `IOInBorrow` (with `ReadaheadFull`), `IORecv` / `IORecvAgain` / `IORecvFail`, `IOInLock`, `IOInUnlock` |
| `finish_connection` | `FinishConnection(c)`, used as a whole inside the action that calls it |
| `compute_worker` | `Compute` |
| `__submitter_worker` | `SubmitGet`, `SubmitRetry` / `SubmitLock`, `SubmitDispose` → `SubmitRelease`, `SubmitDeliver` |
| client connection and output; close after the last response | `ClientConnect`, `ClientSend`, `ClientClose` |
| a peer going away early (hang-up or reset) | `ClientAbort`, enabled by `PeerMayAbort` |

Some data is abstracted:

- A request is a pair ⟨peer, index⟩.
- Partial reads and writes of a record collapse into one transfer, plus the return paths they lead to: EAGAIN, a short write, an error.
- The peer's reads are folded into the server's send. `responses[k]` is what peer `k` has received.
- `Init` takes connection fields as zero. `aligned_alloc` does not clear them, and zero is the outcome on a fresh heap.

`MCPipelineServer.tla` is the module that the `.cfg` files instantiate.

### `MPSCQueue.tla` and `FifoQueue.tla`

`FifoQueue` is what a queue promises its users (spec §4.1). A put appends an item. A get pops the oldest item or signals empty. Each operation takes effect at one instant between its call and its return. A get may signal empty only at an instant when the queue holds no item, or while another consumer's get is under way. In that window, a get that moved `root->head` past the divider has not yet put the divider back, and another get can see no next node. With one consumer, the rule is exactly "empty only when empty".

`MPSCQueue` is the implementation in `queue.h`, with the spin locks of `lock.h`. Each step is one lock operation or one shared-memory access.

| Code | Model |
|---|---|
| `node->next`, `root->head`, `root->tail`, `head_lock`, `tail_lock`, `root->divider` | `next`, `head`, `tail`, `headLock`, `tailLock`, the model value `DIV` |
| `init_queue_root` | `Init` |
| `queue_put`: `new_->next = NULL` and `lock(tail_lock)`; `tail->next = new_`; `tail = new_`; `unlock` | `PutLock`, `PutLink`, `PutSwing`, `PutUnlock` |
| `queue_get`: `lock(head_lock)`; the read of `head->next` (the NULL return, or `root->head = next`); `unlock`, then re-put the divider or return; `head->next = QUEUE_POISON1` | `GetLock`, `GetRead`, `GetUnlock`, `GetPoison` (and `GetBegin` for the caller's loop) |
| a consumer putting the divider back | the same `Put*` steps, with `PutNode(c) = DIV` |

The refinement mapping reads the abstract queue off the linked list:

- `AbsQ` is the list from `root->head`, with the divider left out. `Walk` is a `RECURSIVE` operator.
- A put takes effect when it links its node.
- A get takes effect when it moves `root->head` past an item (`Returned`).

`Fifo` is the `INSTANCE FifoQueue WITH ...` of the mapping. `QueueRefinement` is its specification, checked as a property.

### `ServerLifecycle.tla`

This module covers startup and shutdown: `main.c` and `thread.c`. The main thread's program counter `mpc` walks through the following steps.

- `create_server`: `AllocCtx`, `Bind`, `SetupEpoll`, `AllocQueues`, `Prealloc`, then `SpawnThread` once per `__create_thread` in `spawn_server_threads` order.
- `run_server`: `RunNullCtx` or `RunStop`. The SIGINT handler is `Sigint`.
- `destroy_server`: `DestroyStop`, then `JoinSkip`/`JoinThread`/`JoinDone` in `cleanup_server_threads` order, then `FreePrealloc`, `FreeQueues`, `CleanupIO`, `FreeCtx`.

`FailPoints` chooses which allocations and system calls may fail. A failure takes the code's own exit, `FailTo` (that is, `goto out_cleanup`), or crashes where the code dereferences NULL:

- `alloc_queue_root` writes through an unchecked `malloc` result.
- `free_server_prealloc` calls `queue_get` on NULL roots.
- `run_server` reads through the NULL context.

The accept threads (`accept.c`) are modelled step by step. Each accept thread `a` has a program counter `apc[a]`:

| Code | Model |
|---|---|
| `epoll_create1` and `epoll_ctl(ADD, listen_fd)` in `accept_worker`, with their failure exits | `AcceptSetup(a)` |
| the loop tests on `ctx->stopping` in `accept_worker` and `__accept_worker` | `AcceptLoop(a)` |
| `epoll_wait` on the thread's own instance (level-triggered: readable while `backlog > 0`), timeout or EINTR, an error; then `handle_accept`'s `queue_get(empty_connections)`, skipping the event when the pool is empty | `AcceptWait(a)` |
| `accept4` on the blocking listening socket (enabled only while a peer is pending), the connection's reset and `epoll_set_conn_state(EPOLLIN)`; a failed `accept4` or `epoll_ctl` ends the thread with the connection in no pool (`lost`) | `HandleAccept(a)` |
| `close(epollfd)` and return | `AcceptClose(a)` |
| a client's `connect` | `PeerConnect`, into `backlog` (`NPeers` in all) |
| the IO stage releasing a finished connection | `ConnRelease`, from `active` to `pool` |

`handle_accept`'s shard assignment (`io.next++ % nr_io`, and the incremented `next` modulo the submit and compute thread counts) is not part of the model: with one thread per stage every index is 0. The indices stay in range even after `io.next` wraps at INT_MAX, because `nr_io` is a `size_t` and the thread counts are `unsigned int`, so `%` converts `next` to an unsigned type first. That is a fact about C arithmetic that no state of the model changes, so no run checks it.

`CleanupIO` closes `epoll_fds[0]` `nr_io` times, as `cleanup_server_epoll` does. Its test compares the array, not the element, with 0. With one IO thread this closes the one instance once. With two or more it closes `epoll_fds[0]` twice and never closes the others. No run reaches that cleanup with two IO instances: the runs with two threads per group stop earlier, in `partial_group` and `accept_hang`.

`ThreadReturn(t)` is `thread_wrapper` setting `ti->returned`, shared by every thread's last step.

The other stage threads are abstracted to `WorkerReturn`: the loop tests `ctx->stopping` and returns. What those stages do inside their loops is the subject of `PipelineServer`. `acceptErr` records that a system call of the accept stage failed.

### `BenchClient.tla`

This module models the client program with one worker thread. The server is its environment: `ServerServe(c)` answers a whole request, and `ServerClose(c)` closes the server's end when `ServerMayClose` is set.

- The main thread's `mpc` follows `run_client`:
  - `InitConn` and `InitConnFail` stand for `init_client_conn` and its failure cleanup.
  - `StartThread` and `StartThreadFail` stand for `start_client_threads`.
  - `Barrier` is the start barrier.
  - `Stop` is a progress-loop iteration after the deadline has passed.
  - `Join`, `Report` (`report_client_stats`) and `Cleanup` follow.
- The worker's `wpc` follows `client_worker`:
  - `InitEpoll` and `InitEpollFail` set up the epoll instance.
  - `EpollWait(c, e)` delivers an event for connection `c` with flags `e`, a non-empty subset of what is both ready and registered.
  - `WorkerReturn` ends the loop.
  - One action per outcome of an iteration of the output loop: `OutputStop` (the deadline at a message boundary sets `total = sent`), `OutputSend`, `OutputFull` (EAGAIN), `OutputReset` (ECONNRESET), `OutputSigpipe`.
  - One action per outcome of the input loop: `InputRecv`, `InputEmpty` (EAGAIN), `InputReset`, `InputEOF`, and `InputDone`. `InputDone` deregisters the connection, closes it and sets `fd = -1`.
- A message is `P` parts and a socket buffer holds `Cap` parts, so a `send` or `recv` moves any number of parts up to what fits.
- The AF_UNIX semantics modelled:
  - A peer's close leaves queued data readable, then `recv` returns 0.
  - Closing with unread requests makes the first `send` or `recv` fail with ECONNRESET.
  - A later `send` raises SIGPIPE, which the client does not ignore.
- After `InputEOF` the worker is in `"eof"`. In the code it calls `recv` again for ever, and each call returns 0 and changes nothing, so no step leaves that state.

## Runs

| Run | cfg | Expect | What it shows |
|---|---|---|---|
| bench | `MCPipelineServer_bench.cfg` | pass | Two well-behaved peers share one connection, so the second peer uses a recycled one. Each peer pipelines three requests with readahead 1, as in spec §8 scenario A. Checked: `TypeOK`, `BufferOwnedOnce`, `ConnAccounting`, `ResponsesAreOwnRequests`, `ResponsesInOrder`, `EveryPeerServed`, `ClosedConnRecycled`. |
| abort | `MCPipelineServer_abort.cfg` | pass | Peers may hang up or reset at any point. Two connections, none reused, and two buffers, so the pool runs empty while one peer holds both. Checked: `ConnAccounting`, `OutArmedWhilePending`, `RecycleOnlyWhenQuiescent`, and `ServedDespiteAborts`. That last one says a peer that stays connected is served. This holds even when `handle_request` meets an empty pool (`io.c:68`) and the other peer aborts with buffers in flight: the buffers come back through `finish_connection` and the submitter's disposal, and level-triggered epoll reports EPOLLIN again. |
| order | `MCPipelineServer_order.cfg` | violation | With readahead 2, a requeue on `trylock` failure reorders responses. |
| double_release | `MCPipelineServer_double_release.cfg` | violation | A send failure finishes the connection. The EPOLLIN branch of the same event finishes it again, and one buffer ends up in the pool twice. |
| stale_sendbuf | `MCPipelineServer_stale_sendbuf.cfg` | violation | A recycled connection still holds `sendbuf`. A peer receives another peer's response. |
| conn_leak | `MCPipelineServer_conn_leak.cfg` | violation | An attached `sendbuf` that is released uncounted leaves `sent < received` forever, so the connection is never recycled. |
| queue_two_consumers | `MCMPSCQueue_two_consumers.cfg` | pass | Two producers put two items each, and two consumers get concurrently. The step-by-step queue implements `FifoQueue` (`QueueRefinement`). So every item leaves exactly once and in put order, and a NULL return happens only while the queue is empty or the other consumer is inside `queue_get`. The queue drains (`Drained`). |
| startup_shutdown | `MCServerLifecycle_startup_shutdown.cfg` | pass | One thread per group. Every failure point of `create_server` and of the accept thread is enabled. There is one session for two peers. Checked: no worker is running when memory is freed (`NoThreadOutlivesCtx`); the stop flag leads to the end of the process (`ShutdownCompletes`). Once the pool holds a connection and a peer is pending, the accept stage accepts it, unless the server stops or an accept system call failed (`AcceptResumes`, the backpressure clause of spec §8). |
| partial_group | `MCServerLifecycle_partial_group.cfg` | violation | Two threads per group: the second thread's creation fails, and the first thread keeps running while `destroy_server` frees the context. |
| accept_hang | `MCServerLifecycle_accept_hang.cfg` | violation | Two accept threads and one peer. `ConnReturns` fails: both threads wake, both take a connection, one `accept4` gets the peer, and the other blocks in `accept4` holding a connection that no IO thread will serve. That thread never again tests `ctx->stopping`, so a SIGINT's `destroy_server` waits in `thread_group_join` of the accept group. |
| bench_client | `MCBenchClient_bench_client.cfg` | pass | Two connections with two requests each, every failure point, a deadline that may pass at any moment, and a server that may close connections. Checked: `TypeOK`; `EveryRequestAnswered` (a worker returning 0 has every sent request answered and none half-sent); `SocketsClosedOnce` (on every path each socket is closed exactly once); `ClientTerminatesIfServerStaysUp` (while the server keeps the connections open, the process ends). |
| server_close | `MCBenchClient_server_close.cfg` | violation | `ClientCompletes` fails: the client does not always get to return from `run_client`. The ways TLC finds are an endless `recv` loop on EOF, death by SIGPIPE, and a division by zero in the statistics. |

### Bounds and why they are enough

- One connection and two peers make the second peer reuse a recycled connection. That is where stale fields show up.
- Two connections make the pools non-trivial.
- In `abort`, two buffers, readahead 1 and two peers let one connection hold both buffers (one request in the pipeline, one being read) while the other connection finds the pool empty. In `bench` (three buffers, one connection) the pool never runs empty.
- Three requests with readahead 2 are the least that can reorder. Two responses must wait in the submitter inbox while the IO thread holds the lock for the third.
- Queue: two producers with two items each interleave puts from both producers, and each producer puts more than one item, so per-producer order is tested. Two consumers are the least for which a get can meet another get's divider re-put (the spurious-empty window). The one-consumer behaviours are the ones where `c2` has not called `queue_get` yet, and for them the empty rule is the strict one.
- Client: two connections of two requests let the deadline stop one connection mid-run while the other is finished or still sending. Two-part messages in a three-part buffer make sends and receives split across calls and let each direction fill up (EAGAIN).
- Lifecycle: one thread per group is the default configuration. A group of two is the least where creation can fail midway through a group, and the least where two accept threads race for one peer. One session for two peers makes the accept stage meet an empty pool and wait for a release.

Every action fires in the passing runs. Every property of a passing run is broken by a mutant of the code it is about (see `mutants` in `PROJECT.json`).

### Fairness

Each thread loops forever without blocking, except in `lock` (which spins) and `epoll_wait` (which is bounded). So each thread's step relation gets weak fairness.

- `epoll_wait` is level-triggered, so a ready connection is reported again after every skipped or deferred handling. This is why `IOWait(c)` gets strong fairness for each connection.
- A peer that keeps reading eventually lets a blocked send complete. This is why `IOSendDone` gets strong fairness.
- Benchmark peers connect, send and close (weak fairness).
- An abort is never forced.
- Queue: the lock steps get strong fairness, because a spinning thread finds the lock free infinitely often but not continuously. The other steps get weak fairness.
- Client: both threads get weak fairness. `epoll_wait` returns every ready descriptor, up to ten, so each connection's `EpollWait(c, _)` gets weak fairness. The server gets weak fairness for answering a request it holds and none for closing. Runs end when the process does, so deadlock checking is off.
- Lifecycle: the main thread and every worker get weak fairness. An accept thread blocked in `accept4` has no enabled step until a peer is pending, so fairness never unblocks it. A signal, a client's connect and the IO stage's release of a connection are never forced. Every path of `startup_shutdown` ends with the process gone, so those runs turn deadlock checking off.

## Findings

The runs found three code bugs:

- **Uncounted sendbuf** (`io.c:26`): a connection closed mid-response is leaked.
- **Second finish on the same event** (`io.c:205`): a buffer is released twice.
- **sendbuf not reset on accept** (`accept.c:31`): a response is sent to the wrong peer.

They also found a spec gap: response reordering with readahead ≥ 2. The code reads `readahead + 1` requests before it stops, one more than the option's description ("Max readahead", `main.c:41`). That difference is one of wording and is not checked: a property stating the bound would only restate the test at `io.c:66`.

The queue and lifecycle modules add two more:

- **Spurious empty** (`queue.h:84`): with several consumers, `queue_get` can return NULL while the queue holds an item, but only while another consumer is inside `queue_get`. `QueueRefinement` states this. The stage loops poll, so they only retry.
- **Threads of a half-created group outlive the context** (`thread.c:118`): this is a use-after-free on a failed startup.
- **A second accept thread blocks in `accept4`** (`accept.c:16`): it holds a pooled connection, and it stops the server from shutting down until another client connects. Spec §4.2 has each accept worker watch a cancellation descriptor as well, and says accept refuses rather than blocks. A failed `accept4` also ends the accept thread, with its connection in no pool, although spec §7 says per-connection failures never affect other connections.

The client module adds one more:

- **The client does not survive a server that goes away** (`client/worker.c:65`). `recv` returning 0 is treated as a zero-length read, so the worker spins on it for ever. A `send` on the closed socket kills the process with SIGPIPE. A failed event only breaks the inner `for` loop, so the error never ends the worker. Separately, a deadline that passes before the first request makes `report_client_stats` divide by zero (`client/main.c:228`).

`PROJECT.json` gives each one in full, together with the hazards that no run demonstrates. One such hazard: `cleanup_server_epoll` closes `epoll_fds[0]` once for each IO thread (see `CleanupIO` above).

## Not modelled, and why

- `PipelineServer` and the accept stage use the queues as atomic FIFOs. `MPSCQueue` shows that this is right for one consumer. With several consumers the only difference is a NULL return while another get is under way, and the polling loops retry on it.
- The submitter's `epoll_ctl` failure when it arms EPOLLOUT (`submit.c:49`). `epoll_ctl` on an open descriptor that is already registered fails only on kernel resource exhaustion, and the submitter model has no failure exits.
- The accept thread's kerncall path (`kerncall.accept`, off by default). It runs the same `__accept_worker`.
- Several IO, compute or submit threads (shards) in `PipelineServer`. The unlocked `io.next++` can give two connections the same shard when two accept threads race. That affects load balance only, since every `int` value of `next` gives indices in range.
- The SIGINT handler after `free(ctx)`: at most it changes the exit status. `thread_join`'s reads of freed memory read intact values. `PROJECT.json` explains both under hazards.
- Several client worker threads. Their connections are independent; they share only `ctx->stopping` and the start barrier. The barrier matters for one exit: `start_client_threads` failing after creating some threads, which leaves them at a barrier that `cleanup_client` destroys. That exit is listed as a hazard.
- `report_progress` only prints, so it is not modelled. This includes its `(int)` conversion of an infinite ETA.
- In `BenchClient`, an event's flags are taken when the worker handles it, not at `epoll_wait`. Readiness only grows between the two, except through the worker's own calls.
- Validation of the configuration. `parse_params` accepts any `%u`. A thread count of 0 makes `handle_accept` divide by zero. A count above 64 (`THREAD_GROUP_MAX`) or 128 (`SERVER_MAX_THREADS`) writes past fixed arrays. The spec puts command-line parsing out of scope (§1), and it plans dynamically sized tables (§9). The models take the thread counts as CONSTANTS of at least 1.
- Kerncall and syscall wrappers (assembly and ioctl), command-line parsing, and statistics. These are I/O or data, with no concurrency of their own.

## Plan

1. **Done:** `PipelineServer` with the runs above.
2. **Done:** `MPSCQueue` refining `FifoQueue`.
3. **Done:** `ServerLifecycle`.
4. **Done:** the accept stage in `ServerLifecycle`, with its failure exits, two accept threads and the blocking `accept4`. Still open: the submitter's `epoll_ctl` failure.
5. **Done:** `BenchClient` with the client's epoll loop, partial transfers, the deadline and the server closing connections.
6. Several IO, compute and submit shards, which would also reach the double close in `CleanupIO`. Routing traffic across several shards in `PipelineServer` is not modelled.
