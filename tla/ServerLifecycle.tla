--------------------------- MODULE ServerLifecycle ---------------------------
(***************************************************************************)
(* Startup and shutdown of the server (src/server/main.c) with its thread *)
(* groups (src/thread.c) and the stop flag the stage loops poll.          *)
(*                                                                         *)
(* The main thread runs create_server: allocate the context, bind the     *)
(* listening socket, create one epoll instance per IO thread, allocate    *)
(* the queues, pre-allocate the pools, spawn the compute, submit, IO and  *)
(* accept groups.  Any failure jumps to destroy_server and create_server  *)
(* returns NULL to run_server.  run_server sleeps until SIGINT sets       *)
(* ctx->stopping, then destroy_server sets the flag, joins the groups,    *)
(* frees the pools and queues, closes the descriptors and frees ctx.      *)
(*                                                                         *)
(* The accept threads (src/server/io/accept.c) are modelled step by      *)
(* step: each has its own epoll instance on the shared, blocking          *)
(* listening socket, draws a connection from the empty_connections pool,  *)
(* accept4s a peer and arms it on an IO thread's epoll.  Peers connect to *)
(* the listening socket's backlog; the IO stage is represented only by    *)
(* its release of a finished connection to the pool.  The other workers   *)
(* are abstracted to their loop test on ctx->stopping (every stage loop,  *)
(* and its kerncall wrapper, ends only on the flag); what they do inside  *)
(* the loop is PipelineServer's subject.  FailPoints selects which        *)
(* allocations and system calls may fail.                                 *)
(***************************************************************************)
EXTENDS Naturals, Sequences

CONSTANTS
    NThreads,     \* threads per group (cfg.threads.*), one value for all
    FailPoints,   \* a subset of {"ctx", "bind", "epoll", "queue",
                  \*   "prealloc", "thread", "accept_epoll", "accept4",
                  \*   "conn_epoll"}
    NSessions,    \* connections setup_server_prealloc allocates
                  \* (cfg.alloc.sessions)
    NPeers        \* clients that connect during the run

ASSUME NThreads \in Nat \ {0}
ASSUME NSessions \in Nat /\ NPeers \in Nat

Groups == {"compute", "submit", "io", "accept"}
Threads == Groups \X (0 .. NThreads - 1)

\* spawn_server_threads creates the groups in this order.
SpawnOrder == <<"compute", "submit", "io", "accept">>

Ended == {"exited", "crashed", "killed"}

AcceptThreads == 0 .. NThreads - 1

VARIABLES
    mpc,           \* where the main thread is
    createFailed,  \* create_server took a failure exit (it returns NULL)
    ctx,           \* the server context: "null", "live", "freed"
    stopping,      \* ctx->stopping
    listenFd,      \* ctx->io.listen_fd: "unset", "open", "closed"
    nrIo,          \* ctx->io.nr_io
    epollFd,       \* epollFd[i]: ctx->io.epoll_fds[i] was created
    epollCloses,   \* epollCloses[i]: close() calls on epoll_fds[i]
    queues,        \* the queue roots: "none", "live", "freed"
    pools,         \* the pre-allocated objects: "none", "live", "freed"
    group,         \* group[g]: ctx->threads.g is set ("live") or NULL
    thr,           \* thr[t]: "none", "running", "returned", "joined"
    sg, si,        \* spawn_server_threads: group position, thread index
    jg, ji,        \* cleanup_server_threads: group position, thread index
    apc,           \* apc[a]: where accept thread a is in accept_worker
    held,          \* held[a]: accept thread a holds a connection it took
                   \* from empty_connections (the local q / conn)
    acceptErr,     \* a system call of an accept thread has failed
    peersLeft,     \* peers that have not connected yet
    backlog,       \* connected peers not yet accept4ed
    pool,          \* connections in empty_connections
    active,        \* connections armed on an IO thread's epoll
    lost           \* connections taken from the pool and dropped

acceptVars == <<apc, held, acceptErr, peersLeft, backlog, pool, active, lost>>

vars == <<mpc, createFailed, ctx, stopping, listenFd, nrIo, epollFd,
          epollCloses, queues, pools, group, thr, sg, si, jg, ji, acceptVars>>

Init ==
    /\ mpc = "alloc_ctx"
    /\ createFailed = FALSE
    /\ ctx = "null"
    /\ stopping = FALSE
    /\ listenFd = "unset"
    /\ nrIo = 0
    /\ epollFd = [i \in 0 .. NThreads - 1 |-> FALSE]
    /\ epollCloses = [i \in 0 .. NThreads - 1 |-> 0]
    /\ queues = "none"
    /\ pools = "none"
    /\ group = [g \in Groups |-> "null"]
    /\ thr = [t \in Threads |-> "none"]
    /\ sg = 1 /\ si = 0
    /\ jg = 1 /\ ji = 0
    /\ apc = [a \in AcceptThreads |-> "setup"]
    /\ held = [a \in AcceptThreads |-> FALSE]
    /\ acceptErr = FALSE
    /\ peersLeft = NPeers
    /\ backlog = 0
    /\ pool = 0
    /\ active = 0
    /\ lost = 0

\* A failure exit of create_server: goto out_cleanup, i.e. destroy_server.
FailTo == mpc' = "destroy" /\ createFailed' = TRUE

-----------------------------------------------------------------------------
(* create_server                                                           *)

\* aligned_alloc and memset of ctx; a failed allocation returns NULL at once.
AllocCtx ==
    /\ mpc = "alloc_ctx"
    /\ \/ /\ ctx' = "live"
          /\ mpc' = "bind"
          /\ UNCHANGED createFailed
       \/ /\ "ctx" \in FailPoints
          /\ mpc' = "run"
          /\ createFailed' = TRUE
          /\ UNCHANGED ctx
    /\ UNCHANGED <<stopping, listenFd, nrIo, epollFd, epollCloses, queues,
                   pools, group, thr, sg, si, jg, ji, acceptVars>>

\* bind_server_socket (bind_sock closes its socket on failure).
Bind ==
    /\ mpc = "bind"
    /\ \/ /\ listenFd' = "open"
          /\ mpc' = "epoll"
          /\ UNCHANGED createFailed
       \/ /\ "bind" \in FailPoints
          /\ FailTo
          /\ UNCHANGED listenFd
    /\ UNCHANGED <<ctx, stopping, nrIo, epollFd, epollCloses, queues, pools,
                   group, thr, sg, si, jg, ji, acceptVars>>

\* setup_server_epoll: nr_io is set first, then epoll_create1 for each IO
\* thread; the k-th may fail, leaving the first k created.
SetupEpoll ==
    /\ mpc = "epoll"
    /\ \E k \in 0 .. NThreads :
          /\ k < NThreads => "epoll" \in FailPoints
          /\ nrIo' = NThreads
          /\ epollFd' = [i \in 0 .. NThreads - 1 |-> i < k]
          /\ IF k = NThreads THEN mpc' = "queues" /\ UNCHANGED createFailed
                             ELSE FailTo
    /\ UNCHANGED <<ctx, stopping, listenFd, epollCloses, queues, pools,
                   group, thr, sg, si, jg, ji, acceptVars>>

\* alloc_server_queues.  alloc_queue_root writes through the pointer that
\* malloc returned before alloc_one_queue tests it: a failed malloc
\* crashes in init_queue_root instead of taking the failure exit.
AllocQueues ==
    /\ mpc = "queues"
    /\ \/ /\ queues' = "live"
          /\ mpc' = "prealloc"
       \/ /\ "queue" \in FailPoints
          /\ mpc' = "crashed"
          /\ UNCHANGED queues
    /\ UNCHANGED <<createFailed, ctx, stopping, listenFd, nrIo, epollFd,
                   epollCloses, pools, group, thr, sg, si, jg, ji, acceptVars>>

\* setup_server_prealloc: the objects allocated before a failure are in
\* the pools either way.
Prealloc ==
    /\ mpc = "prealloc"
    /\ pools' = "live"
    /\ pool' = NSessions
    /\ \/ mpc' = "spawn" /\ UNCHANGED createFailed
       \/ "prealloc" \in FailPoints /\ FailTo
    /\ UNCHANGED <<ctx, stopping, listenFd, nrIo, epollFd, epollCloses,
                   queues, group, thr, sg, si, jg, ji, apc, held, acceptErr,
                   peersLeft, backlog, active, lost>>

\* Mutant: the loop runs one thread past the group size.
NextSpawnOffByOne(s, i) ==
    IF i < NThreads THEN <<s, i + 1>> ELSE <<s + 1, 0>>

\* thread_group_create's loop index after creating thread si of a group.
NextSpawn(s, i) ==
    IF i + 1 < NThreads THEN <<s, i + 1>> ELSE <<s + 1, 0>>

\* One __create_thread of thread_group_create, in spawn_server_threads'
\* group order.  On success the thread runs; after the last thread of a
\* group, ctx->threads.g is set.  On failure thread_group_create frees the
\* group and returns NULL, and the threads it already created keep running.
SpawnThread ==
    /\ mpc = "spawn"
    /\ LET g == SpawnOrder[sg]
           nxt == NextSpawn(sg, si)
       IN \/ /\ thr' = [thr EXCEPT ![<<g, si>>] = "running"]
             /\ sg' = nxt[1]
             /\ si' = nxt[2]
             /\ group' = IF nxt[1] # sg THEN [group EXCEPT ![g] = "live"]
                                        ELSE group
             /\ mpc' = IF nxt[1] > Len(SpawnOrder) THEN "run" ELSE "spawn"
             /\ UNCHANGED createFailed
          \/ /\ "thread" \in FailPoints
             /\ FailTo
             /\ UNCHANGED <<thr, sg, si, group>>
    /\ UNCHANGED <<ctx, stopping, listenFd, nrIo, epollFd, epollCloses,
                   queues, pools, jg, ji, acceptVars>>

-----------------------------------------------------------------------------
(* run_server and the SIGINT handler                                       *)

\* run_server after create_server returned NULL: while (!ctx->stopping)
\* reads through the NULL context.
RunNullCtx ==
    /\ mpc = "run"
    /\ createFailed
    /\ mpc' = "crashed"
    /\ UNCHANGED <<createFailed, ctx, stopping, listenFd, nrIo, epollFd,
                   epollCloses, queues, pools, group, thr, sg, si, jg, ji, acceptVars>>

\* run_server's sleep loop ends once the flag is set.
RunStop ==
    /\ mpc = "run"
    /\ ~createFailed
    /\ stopping
    /\ mpc' = "destroy"
    /\ UNCHANGED <<createFailed, ctx, stopping, listenFd, nrIo, epollFd,
                   epollCloses, queues, pools, group, thr, sg, si, jg, ji, acceptVars>>

\* sigint_handler, installed by run_server once create_server returned a
\* context: the first signal sets the flag, a repeated one exits.
Sigint ==
    /\ mpc \in {"run", "destroy", "join", "free_prealloc", "free_queues",
                "cleanup_io", "free_ctx"}
    /\ ~createFailed
    /\ ctx = "live"
    /\ \/ /\ ~stopping
          /\ stopping' = TRUE
          /\ UNCHANGED mpc
       \/ /\ stopping
          /\ mpc' = "killed"
          /\ UNCHANGED stopping
    /\ UNCHANGED <<createFailed, ctx, listenFd, nrIo, epollFd, epollCloses,
                   queues, pools, group, thr, sg, si, jg, ji, acceptVars>>

-----------------------------------------------------------------------------
(* destroy_server                                                          *)

\* ctx->stopping = 1
DestroyStop ==
    /\ mpc = "destroy"
    /\ stopping' = TRUE
    /\ mpc' = "join"
    /\ UNCHANGED <<createFailed, ctx, listenFd, nrIo, epollFd, epollCloses,
                   queues, pools, group, thr, sg, si, jg, ji, acceptVars>>

\* Mutant: cleanup_server_threads forgets the compute group.
JoinOrderNoCompute == <<"submit", "io", "accept">>

\* cleanup_server_threads joins the groups in this order.
JoinOrder == <<"submit", "io", "accept", "compute">>

\* A group whose pointer is NULL (never created, or its creation failed)
\* is skipped.
JoinSkip ==
    /\ mpc = "join"
    /\ jg <= Len(JoinOrder)
    /\ group[JoinOrder[jg]] = "null"
    /\ jg' = jg + 1
    /\ ji' = 0
    /\ UNCHANGED <<mpc, createFailed, ctx, stopping, listenFd, nrIo, epollFd,
                   epollCloses, queues, pools, group, thr, sg, si, acceptVars>>

\* thread_join of thread ji of the group: pthread_join waits until the
\* thread has returned, then the thread_info is freed.
JoinThread ==
    /\ mpc = "join"
    /\ jg <= Len(JoinOrder)
    /\ group[JoinOrder[jg]] = "live"
    /\ thr[<<JoinOrder[jg], ji>>] = "returned"
    /\ thr' = [thr EXCEPT ![<<JoinOrder[jg], ji>>] = "joined"]
    /\ IF ji + 1 < NThreads THEN jg' = jg /\ ji' = ji + 1
                            ELSE jg' = jg + 1 /\ ji' = 0
    /\ UNCHANGED <<mpc, createFailed, ctx, stopping, listenFd, nrIo, epollFd,
                   epollCloses, queues, pools, group, sg, si, acceptVars>>

JoinDone ==
    /\ mpc = "join"
    /\ jg > Len(JoinOrder)
    /\ mpc' = "free_prealloc"
    /\ UNCHANGED <<createFailed, ctx, stopping, listenFd, nrIo, epollFd,
                   epollCloses, queues, pools, group, thr, sg, si, jg, ji, acceptVars>>

\* free_server_prealloc drains empty_connections and empty_buffers with
\* queue_get; when the queues were never allocated their pointers are
\* NULL and queue_get dereferences NULL.
FreePrealloc ==
    /\ mpc = "free_prealloc"
    /\ \/ /\ queues = "live"
          /\ pools' = IF pools = "live" THEN "freed" ELSE pools
          /\ pool' = 0
          /\ mpc' = "free_queues"
       \/ /\ queues = "none"
          /\ mpc' = "crashed"
          /\ UNCHANGED <<pools, pool>>
    /\ UNCHANGED <<createFailed, ctx, stopping, listenFd, nrIo, epollFd,
                   epollCloses, queues, group, thr, sg, si, jg, ji, apc, held,
                   acceptErr, peersLeft, backlog, active, lost>>

\* cleanup_server_queues: free() of each root.
FreeQueues ==
    /\ mpc = "free_queues"
    /\ queues' = "freed"
    /\ mpc' = "cleanup_io"
    /\ UNCHANGED <<createFailed, ctx, stopping, listenFd, nrIo, epollFd,
                   epollCloses, pools, group, thr, sg, si, jg, ji, acceptVars>>

\* cleanup_server_io: cleanup_server_epoll runs nr_io iterations, each
\* closing epoll_fds[0] (its test compares the array, not the element,
\* with 0); close(-1) of an epoll_fds[0] never created does nothing.  Then
\* the listening socket is closed.
CleanupIO ==
    /\ mpc = "cleanup_io"
    /\ epollCloses' = [epollCloses EXCEPT
                         ![0] = @ + (IF epollFd[0] THEN nrIo ELSE 0)]
    /\ listenFd' = IF listenFd = "open" THEN "closed" ELSE listenFd
    /\ mpc' = "free_ctx"
    /\ UNCHANGED <<createFailed, ctx, stopping, nrIo, epollFd, queues, pools,
                   group, thr, sg, si, jg, ji, acceptVars>>

\* free(ctx); destroy_server returns to run_server, which returns, or to
\* create_server, which returns NULL to run_server.
FreeCtx ==
    /\ mpc = "free_ctx"
    /\ ctx' = "freed"
    /\ mpc' = IF createFailed THEN "run" ELSE "exited"
    /\ UNCHANGED <<createFailed, stopping, listenFd, nrIo, epollFd,
                   epollCloses, queues, pools, group, thr, sg, si, jg, ji, acceptVars>>

-----------------------------------------------------------------------------
(* Worker threads                                                          *)

\* thread_wrapper: the thread's function has returned; its result is in
\* ti->ret and ti->returned is set, and thread_join's pthread_join can
\* collect the thread.
ThreadReturn(t) == thr' = [thr EXCEPT ![t] = "returned"]

\* Mutant: compute_worker's loop does not test the flag.
WorkerReturnComputeForever(t) ==
    /\ t[1] # "compute"
    /\ thr[t] = "running"
    /\ stopping
    /\ thr' = [thr EXCEPT ![t] = "returned"]
    /\ UNCHANGED <<mpc, createFailed, ctx, stopping, listenFd, nrIo, epollFd,
                   epollCloses, queues, pools, group, sg, si, jg, ji, acceptVars>>

\* The loop of a stage worker (compute_worker, submitter_worker, io_worker,
\* accept_worker) and of its inner __*_worker tests ctx->stopping on every
\* iteration; the IO and accept loops wait at most one epoll_wait timeout.
\* The thread then returns and thread_wrapper sets ti->returned.
WorkerReturn(t) ==
    /\ thr[t] = "running"
    /\ stopping
    /\ ThreadReturn(t)
    /\ UNCHANGED <<mpc, createFailed, ctx, stopping, listenFd, nrIo, epollFd,
                   epollCloses, queues, pools, group, sg, si, jg, ji, acceptVars>>

-----------------------------------------------------------------------------
(* The accept stage (src/server/io/accept.c) and its environment          *)

\* The variables an accept thread leaves alone.
notAcceptVars == <<mpc, createFailed, ctx, stopping, listenFd, nrIo, epollFd,
                   epollCloses, queues, pools, group, sg, si, jg, ji>>

Acc(a) == <<"accept", a>>

\* accept_worker's epoll_create1 and epoll_ctl(ADD, listen_fd).  A failed
\* epoll_create1 returns at once; a failed epoll_ctl closes the instance.
AcceptSetup(a) ==
    /\ thr[Acc(a)] = "running"
    /\ apc[a] = "setup"
    /\ \/ /\ apc' = [apc EXCEPT ![a] = "loop"]
          /\ UNCHANGED <<thr, acceptErr>>
       \/ /\ "accept_epoll" \in FailPoints
          /\ acceptErr' = TRUE
          /\ \/ apc' = [apc EXCEPT ![a] = "done"]
                /\ ThreadReturn(Acc(a))
             \/ apc' = [apc EXCEPT ![a] = "close"] /\ UNCHANGED thr
    /\ UNCHANGED <<notAcceptVars, held, peersLeft, backlog, pool, active, lost>>

\* The loop tests of accept_worker (!ctx->stopping && !ret) and of
\* __accept_worker (!*stopping): a timeout or EINTR of epoll_wait, a NULL
\* from queue_get and a handled peer all come back here.
AcceptLoop(a) ==
    /\ apc[a] = "loop"
    /\ apc' = [apc EXCEPT ![a] = IF stopping THEN "close" ELSE "wait"]
    /\ UNCHANGED <<notAcceptVars, thr, held, acceptErr, peersLeft, backlog,
                   pool, active, lost>>

\* Mutant: handle_accept treats an empty pool as an error.
AcceptWaitNoConnFails(a) ==
    /\ apc[a] = "wait"
    /\ \/ /\ backlog > 0 /\ pool > 0
          /\ pool' = pool - 1
          /\ held' = [held EXCEPT ![a] = TRUE]
          /\ apc' = [apc EXCEPT ![a] = "accept"]
          /\ UNCHANGED acceptErr
       \/ /\ backlog > 0 /\ pool = 0
          /\ apc' = [apc EXCEPT ![a] = "close"]
          /\ UNCHANGED <<pool, held, acceptErr>>
       \/ /\ backlog = 0
          /\ apc' = [apc EXCEPT ![a] = "loop"]
          /\ UNCHANGED <<pool, held, acceptErr>>
       \/ /\ "accept_epoll" \in FailPoints
          /\ acceptErr' = TRUE
          /\ apc' = [apc EXCEPT ![a] = "close"]
          /\ UNCHANGED <<pool, held>>
    /\ UNCHANGED <<notAcceptVars, thr, peersLeft, backlog, active, lost>>

\* epoll_wait(1 event, 1000 ms) on the thread's own epoll instance, which
\* reports the listening socket readable while its backlog is not empty
\* (level-triggered), then handle_accept's queue_get(empty_connections):
\* an empty pool skips the event (return 0, back to the loop test, where
\* the still readable socket is reported again).  An empty backlog times
\* out.  An epoll_wait error other than EINTR ends the thread.
AcceptWait(a) ==
    /\ apc[a] = "wait"
    /\ \/ /\ backlog > 0 /\ pool > 0
          /\ pool' = pool - 1
          /\ held' = [held EXCEPT ![a] = TRUE]
          /\ apc' = [apc EXCEPT ![a] = "accept"]
          /\ UNCHANGED acceptErr
       \/ /\ backlog > 0 /\ pool = 0
          /\ apc' = [apc EXCEPT ![a] = "loop"]
          /\ UNCHANGED <<pool, held, acceptErr>>
       \/ /\ backlog = 0
          /\ apc' = [apc EXCEPT ![a] = "loop"]
          /\ UNCHANGED <<pool, held, acceptErr>>
       \/ /\ "accept_epoll" \in FailPoints
          /\ acceptErr' = TRUE
          /\ apc' = [apc EXCEPT ![a] = "close"]
          /\ UNCHANGED <<pool, held>>
    /\ UNCHANGED <<notAcceptVars, thr, peersLeft, backlog, active, lost>>

\* The rest of handle_accept: accept4 on the blocking listening socket
\* returns only once a peer is pending (another accept thread woken by the
\* same readiness may have taken it, and then this one blocks); the
\* connection is initialised and epoll_set_conn_state(EPOLLIN) adds it to
\* its IO thread's epoll.  A failed accept4 (a resource error, the peer
\* stays pending) or epoll_ctl makes handle_accept return -1: the thread
\* ends and the connection it took is in no pool.
HandleAccept(a) ==
    /\ apc[a] = "accept"
    /\ backlog > 0
    /\ held' = [held EXCEPT ![a] = FALSE]
    /\ \/ /\ backlog' = backlog - 1
          /\ active' = active + 1
          /\ apc' = [apc EXCEPT ![a] = "loop"]
          /\ UNCHANGED <<acceptErr, lost>>
       \/ /\ "accept4" \in FailPoints
          /\ acceptErr' = TRUE
          /\ lost' = lost + 1
          /\ apc' = [apc EXCEPT ![a] = "close"]
          /\ UNCHANGED <<backlog, active>>
       \/ /\ "conn_epoll" \in FailPoints
          /\ backlog' = backlog - 1
          /\ acceptErr' = TRUE
          /\ lost' = lost + 1
          /\ apc' = [apc EXCEPT ![a] = "close"]
          /\ UNCHANGED active
    /\ UNCHANGED <<notAcceptVars, thr, peersLeft, pool>>

\* close(epollfd) and the return from accept_worker.
AcceptClose(a) ==
    /\ apc[a] = "close"
    /\ apc' = [apc EXCEPT ![a] = "done"]
    /\ ThreadReturn(Acc(a))
    /\ UNCHANGED <<notAcceptVars, held, acceptErr, peersLeft, backlog, pool,
                   active, lost>>

AcceptStep(a) ==
    \/ AcceptSetup(a) \/ AcceptLoop(a) \/ AcceptWait(a) \/ HandleAccept(a)
    \/ AcceptClose(a)

\* A client connects to the listening socket (listen backlog 1024).
PeerConnect ==
    /\ listenFd = "open"
    /\ peersLeft > 0
    /\ peersLeft' = peersLeft - 1
    /\ backlog' = backlog + 1
    /\ UNCHANGED <<notAcceptVars, thr, apc, held, acceptErr, pool, active,
                   lost>>

\* The IO stage finishes a connection and releases it to
\* empty_connections (finish_connection, or submit's delegated release).
ConnRelease ==
    /\ active > 0
    /\ \E i \in 0 .. NThreads - 1 : thr[<<"io", i>>] = "running"
    /\ active' = active - 1
    /\ pool' = pool + 1
    /\ UNCHANGED <<notAcceptVars, thr, apc, held, acceptErr, peersLeft,
                   backlog, lost>>

-----------------------------------------------------------------------------
MainStep ==
    \/ AllocCtx \/ Bind \/ SetupEpoll \/ AllocQueues \/ Prealloc
    \/ SpawnThread \/ RunNullCtx \/ RunStop \/ DestroyStop
    \/ JoinSkip \/ JoinThread \/ JoinDone \/ FreePrealloc \/ FreeQueues
    \/ CleanupIO \/ FreeCtx

Next ==
    \/ MainStep
    \/ Sigint
    \/ \E t \in Threads \ {Acc(a) : a \in AcceptThreads} : WorkerReturn(t)
    \/ \E a \in AcceptThreads : AcceptStep(a)
    \/ PeerConnect
    \/ ConnRelease

\* The main thread and every worker keep running; a signal, a client's
\* connect and a client's end of its session are never forced.
Fairness ==
    /\ WF_vars(MainStep)
    /\ \A t \in Threads \ {Acc(a) : a \in AcceptThreads} :
           WF_vars(WorkerReturn(t))
    /\ \A a \in AcceptThreads : WF_vars(AcceptStep(a))

Spec == Init /\ [][Next]_vars
FairSpec == Spec /\ Fairness

-----------------------------------------------------------------------------
(* Properties                                                              *)

TypeOK ==
    /\ mpc \in {"alloc_ctx", "bind", "epoll", "queues", "prealloc", "spawn",
                "run", "destroy", "join", "free_prealloc", "free_queues",
                "cleanup_io", "free_ctx"} \cup Ended
    /\ createFailed \in BOOLEAN
    /\ ctx \in {"null", "live", "freed"}
    /\ stopping \in BOOLEAN
    /\ listenFd \in {"unset", "open", "closed"}
    /\ nrIo \in {0, NThreads}
    /\ epollFd \in [0 .. NThreads - 1 -> BOOLEAN]
    /\ epollCloses \in [0 .. NThreads - 1 -> Nat]
    /\ queues \in {"none", "live", "freed"}
    /\ pools \in {"none", "live", "freed"}
    /\ group \in [Groups -> {"null", "live"}]
    /\ thr \in [Threads -> {"none", "running", "returned", "joined"}]
    /\ sg \in 1 .. Len(SpawnOrder) + 1 /\ si \in 0 .. NThreads - 1
    /\ jg \in 1 .. Len(JoinOrder) + 1 /\ ji \in 0 .. NThreads - 1
    /\ apc \in [AcceptThreads -> {"setup", "loop", "wait", "accept", "close",
                                  "done"}]
    /\ held \in [AcceptThreads -> BOOLEAN]
    /\ acceptErr \in BOOLEAN
    /\ peersLeft \in 0 .. NPeers /\ backlog \in 0 .. NPeers
    /\ {pool, active, lost} \subseteq 0 .. NSessions

\* Memory the workers use is freed only after they are gone: once
\* destroy_server frees the pools, the queues or the context, no worker
\* thread is still in its loop (which reads ctx->stopping and calls
\* queue_get and queue_put on the context's queues).  Spec section 5:
\* joining all thread groups waits for every stage thread to return.
NoThreadOutlivesCtx ==
    (pools = "freed" \/ queues = "freed" \/ ctx = "freed")
        => \A t \in Threads : thr[t] # "running"

\* Once the stop flag is set (by SIGINT, or by destroy_server on a failed
\* startup) the process ends: every worker sees the flag, every join
\* returns, and destroy_server runs to its end.
ShutdownCompletes == stopping ~> (mpc \in Ended)

\* Accepting resumes once the pool has a connection (spec section 8,
\* backpressure: "stalls new reads/accepts ... resumes once buffers are
\* released"): while a peer is pending and a connection is free, the accept
\* stage accepts another peer, unless the server stops or a system call of
\* the accept stage fails.
Waiting == peersLeft + backlog

AcceptResumes ==
    \A k \in 1 .. NPeers :
        (backlog > 0 /\ pool > 0 /\ Waiting = k)
            ~> (Waiting < k \/ stopping \/ acceptErr)

\* A connection an accept thread takes from empty_connections is handed to
\* an IO thread, and none is dropped (spec section 3: a connection is
\* always in the empty pool, owned by accept or IO, or in cleanup).
ConnReturns ==
    \A a \in AcceptThreads : held[a] ~> (~held[a] /\ lost = 0)

====
