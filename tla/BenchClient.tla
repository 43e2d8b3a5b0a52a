---------------------------- MODULE BenchClient ----------------------------
(***************************************************************************)
(* The benchmark client of src/client: run_client in main.c and            *)
(* client_worker in worker.c, with one worker thread.                      *)
(*                                                                         *)
(* The main thread connects every connection (init_client), starts the     *)
(* worker (start_client), meets it at the start barrier, then polls until  *)
(* the worker has returned, setting ctx->stopping once the deadline has    *)
(* passed, and finally joins the worker, reports and cleans up.  The       *)
(* worker keeps an epoll set over its non-blocking connections and, per    *)
(* event, sends requests (client_conn_handle_output) and receives          *)
(* responses (client_conn_handle_input) a part at a time.                  *)
(*                                                                         *)
(* A message is P parts; a socket buffer holds Cap parts, so send and recv *)
(* move any number of parts up to what fits, and fail with EAGAIN at the   *)
(* boundaries.  The server is the environment: it answers each complete    *)
(* request with a response, and when ServerMayClose it may close a         *)
(* connection.  On an AF_UNIX stream socket closed by its peer, recv       *)
(* returns the queued data and then 0; if the peer closed with requests    *)
(* still unread, the first send or recv fails with ECONNRESET; a send      *)
(* after that raises SIGPIPE, which the client does not ignore.            *)
(***************************************************************************)
EXTENDS Integers, FiniteSets, FiniteSetsExt

CONSTANTS
    NConns,          \* cfg.nr_connections of the one worker thread
    NReq,            \* cfg.nr_requests
    P,               \* parts in a request or a response
    Cap,             \* parts a socket buffer holds in each direction
    Deadline,        \* cfg.duration # -1: the deadline may pass
    ServerMayClose,  \* the server may close a connection early
    FailPoints       \* calls that may fail: "connect", "thread", "epoll"

ASSUME /\ NConns \in Nat \ {0}
       /\ NReq \in Nat \ {0}
       /\ P \in Nat \ {0}
       /\ Cap \in Nat \ {0}
       /\ FailPoints \subseteq {"connect", "thread", "epoll"}

Conns == 1 .. NConns
Ended == {"exited", "sigpipe", "sigfpe"}

VARIABLES
    mpc,         \* main thread: where run_client is, or how the process ended
    wpc,         \* worker thread: where client_worker is
    ret,         \* the worker's ret
    stopping,    \* ctx->stopping
    opened,      \* conn->state = CONN_OPEN
    fdValid,     \* conn->fd holds the socket (not yet set to -1)
    closes,      \* close() calls on the connection's socket
    interest,    \* the events the connection is registered for in epoll
    sent,        \* conn->status.sent
    received,    \* conn->status.received
    total,       \* conn->status.total
    sendLeft,    \* conn->sendbuf.left, in parts
    recvLeft,    \* conn->recvbuf.left, in parts
    toServer,    \* parts queued from the client to the server
    fromServer,  \* parts queued from the server to the client
    srvClosed,   \* the server has closed its end
    reset,       \* ECONNRESET pending on the client's socket
    cur,         \* the connection whose event the worker is handling
    ev           \* the events epoll_wait reported for it

conn == <<opened, fdValid, closes, interest, sent, received, total,
          sendLeft, recvLeft>>
net == <<toServer, fromServer, srvClosed, reset>>
vars == <<mpc, wpc, ret, stopping, cur, ev, conn, net>>

Init ==
    /\ mpc = "init"
    /\ wpc = "none"
    /\ ret = 0
    /\ stopping = FALSE
    /\ opened = [c \in Conns |-> FALSE]
    /\ fdValid = [c \in Conns |-> FALSE]
    /\ closes = [c \in Conns |-> 0]
    /\ interest = [c \in Conns |-> {}]
    /\ sent = [c \in Conns |-> 0]
    /\ received = [c \in Conns |-> 0]
    /\ total = [c \in Conns |-> 0]
    /\ sendLeft = [c \in Conns |-> 0]
    /\ recvLeft = [c \in Conns |-> 0]
    /\ toServer = [c \in Conns |-> 0]
    /\ fromServer = [c \in Conns |-> 0]
    /\ srvClosed = [c \in Conns |-> FALSE]
    /\ reset = [c \in Conns |-> FALSE]
    /\ cur = 1
    /\ ev = {}

Min2(a, b) == IF a < b THEN a ELSE b

\* cleanup_client_conn over every CONN_OPEN connection: close(fd) if
\* fd > 0.
CloseOpenConns ==
    /\ closes' = [c \in Conns |->
                    IF opened[c] /\ fdValid[c] THEN closes[c] + 1 ELSE closes[c]]
    /\ opened' = [c \in Conns |-> FALSE]

-----------------------------------------------------------------------------
(* The main thread: run_client                                             *)

\* init_client_conn for the next connection: socket, connect and
\* setnonblock succeed; state = CONN_OPEN, status.total = nr_requests.
InitConn ==
    LET c == Cardinality({d \in Conns : opened[d]}) + 1 IN
    /\ mpc = "init"
    /\ opened' = [opened EXCEPT ![c] = TRUE]
    /\ fdValid' = [fdValid EXCEPT ![c] = TRUE]
    /\ total' = [total EXCEPT ![c] = NReq]
    /\ mpc' = IF c = NConns THEN "start" ELSE "init"
    /\ UNCHANGED <<wpc, ret, stopping, cur, ev, closes, interest, sent,
                   received, sendLeft, recvLeft, net>>

\* init_client_conn fails (its own socket is closed there): init_client
\* cleans up the thread's open connections and run_client returns -1.
InitConnFail ==
    /\ mpc = "init"
    /\ "connect" \in FailPoints
    /\ CloseOpenConns
    /\ mpc' = "exited"
    /\ UNCHANGED <<wpc, ret, stopping, cur, ev, fdValid, interest, sent,
                   received, total, sendLeft, recvLeft, net>>

\* start_client_threads: create_thread starts client_worker, which waits
\* at the barrier; the main thread waits there too.
StartThread ==
    /\ mpc = "start"
    /\ wpc' = "barrier"
    /\ mpc' = "barrier"
    /\ UNCHANGED <<ret, stopping, cur, ev, conn, net>>

\* create_thread fails: start_client returns -1 and run_client cleans up.
StartThreadFail ==
    /\ mpc = "start"
    /\ "thread" \in FailPoints
    /\ CloseOpenConns
    /\ mpc' = "exited"
    /\ UNCHANGED <<wpc, ret, stopping, cur, ev, fdValid, interest, sent,
                   received, total, sendLeft, recvLeft, net>>

\* pthread_barrier_wait with nr_threads + 1 parties releases both threads.
Barrier ==
    /\ mpc = "barrier"
    /\ wpc = "barrier"
    /\ mpc' = "progress"
    /\ wpc' = "epoll"
    /\ UNCHANGED <<ret, stopping, cur, ev, conn, net>>

\* An iteration of the progress loop in which cur_nanoseconds() >=
\* ctx->deadline: ctx->stopping = 1.
Stop ==
    /\ mpc = "progress"
    /\ Deadline
    /\ ~stopping
    /\ stopping' = TRUE
    /\ UNCHANGED <<mpc, wpc, ret, cur, ev, conn, net>>

\* client_threads_done: the worker's ti->returned is set.
WorkerDone == wpc = "returned"

\* The progress loop sees the worker done; join_client joins it and fails
\* if it returned non-NULL, in which case the stats are skipped.
Join ==
    /\ mpc = "progress"
    /\ WorkerDone
    /\ mpc' = IF ret = 0 THEN "report" ELSE "cleanup"
    /\ wpc' = "joined"
    /\ UNCHANGED <<ret, stopping, cur, ev, conn, net>>

\* report_client_stats: avg_dur_ns = duration_ns / total_requests, an
\* integer division that traps (SIGFPE) when no request was sent.
Report ==
    /\ mpc = "report"
    /\ mpc' = IF MapThenSumSet(LAMBDA c : sent[c], Conns) = 0
              THEN "sigfpe" ELSE "cleanup"
    /\ UNCHANGED <<wpc, ret, stopping, cur, ev, conn, net>>

\* cleanup_client: cleanup_client_thread closes the CONN_OPEN connections
\* whose fd is still set; run_client returns.
Cleanup ==
    /\ mpc = "cleanup"
    /\ CloseOpenConns
    /\ mpc' = "exited"
    /\ UNCHANGED <<wpc, ret, stopping, cur, ev, fdValid, interest, sent,
                   received, total, sendLeft, recvLeft, net>>

-----------------------------------------------------------------------------
(* The worker thread: client_worker                                        *)

\* init_client_thread_epoll: every connection registered for EPOLLIN |
\* EPOLLOUT; on failure the worker returns -1.
InitEpoll ==
    /\ wpc = "epoll"
    /\ interest' = [c \in Conns |-> {"IN", "OUT"}]
    /\ wpc' = "loop"
    /\ UNCHANGED <<mpc, ret, stopping, cur, ev, opened, fdValid, closes,
                   sent, received, total, sendLeft, recvLeft, net>>

InitEpollFail ==
    /\ wpc = "epoll"
    /\ "epoll" \in FailPoints
    /\ ret' = -1
    /\ wpc' = "returned"
    /\ UNCHANGED <<mpc, stopping, cur, ev, conn, net>>

\* Mutant: a connection counts as active only until its last request is
\* sent.
ActiveUntilSent == \E c \in Conns : sent[c] < total[c]

\* thread_has_active_connections: some received < total.
Active == \E c \in Conns : received[c] < total[c]

\* What epoll reports for a connection's socket: writable while the
\* outgoing buffer has room, readable while data is queued; a socket whose
\* peer has closed is both (recv returns 0, send fails).
Ready(c) ==
    (IF srvClosed[c] \/ toServer[c] < Cap THEN {"OUT"} ELSE {})
    \cup (IF srvClosed[c] \/ fromServer[c] > 0 THEN {"IN"} ELSE {})

\* epoll_wait returns with an event for connection c; the worker handles
\* it in handle_client_epoll_event.  The wakefd event never comes: the
\* main thread writes it only in thread_join, after the worker returned.
EpollWait(c, e) ==
    /\ wpc = "loop"
    /\ Active
    /\ e /= {}
    /\ e \subseteq Ready(c) \cap interest[c]
    /\ cur' = c
    /\ ev' = e
    /\ wpc' = IF "OUT" \in e THEN "out" ELSE "in"
    /\ UNCHANGED <<mpc, ret, stopping, conn, net>>

\* The while loop ends: close(epollfd), return ret.
WorkerReturn ==
    /\ wpc = "loop"
    /\ ~Active
    /\ wpc' = "returned"
    /\ UNCHANGED <<mpc, ret, stopping, cur, ev, conn, net>>

\* handle_client_epoll_event returns -1: the for loop breaks, the while
\* loop goes on.
EventFailed ==
    /\ ret' = -1
    /\ wpc' = "loop"

\* client_conn_handle_output returned 0: once sent == total the connection
\* is re-registered for EPOLLIN only; then the EPOLLIN branch, if reported.
OutputDone(c, s, t) ==
    /\ interest' = IF s = t THEN [interest EXCEPT ![c] = {"IN"}] ELSE interest
    /\ wpc' = IF "IN" \in ev THEN "in" ELSE "loop"

\* The iteration of client_conn_handle_output's loop that would start a
\* new request: sendbuf.left is 0 and sendLeft is what the send is for.
NewRequest(c) == sendLeft[c] = 0
SendLen(c) == IF NewRequest(c) THEN P ELSE sendLeft[c]

\* Mutant: the stop returns without total = sent.
OutputStopKeepsTotal ==
    /\ wpc = "out"
    /\ NewRequest(cur) /\ stopping
    /\ OutputDone(cur, sent[cur], total[cur])
    /\ UNCHANGED <<mpc, ret, stopping, cur, ev, opened, fdValid, closes,
                   sent, received, total, sendLeft, recvLeft, net>>

\* At a message boundary with ctx->stopping set: total = sent, return 0.
OutputStop ==
    /\ wpc = "out"
    /\ NewRequest(cur) /\ stopping
    /\ total' = [total EXCEPT ![cur] = sent[cur]]
    /\ OutputDone(cur, sent[cur], sent[cur])
    /\ UNCHANGED <<mpc, ret, stopping, cur, ev, opened, fdValid, closes,
                   sent, received, sendLeft, recvLeft, net>>

\* send() moves k parts; a completed request is counted, and the loop
\* returns once sent == total.
OutputSend ==
    LET c == cur IN
    /\ wpc = "out"
    /\ ~(NewRequest(c) /\ stopping)
    /\ ~srvClosed[c]
    /\ \E k \in 1 .. Min2(SendLen(c), Cap - toServer[c]) :
          LET done == k = SendLen(c)
              s == IF done THEN sent[c] + 1 ELSE sent[c]
          IN
          /\ toServer' = [toServer EXCEPT ![c] = @ + k]
          /\ sendLeft' = [sendLeft EXCEPT ![c] = SendLen(c) - k]
          /\ sent' = [sent EXCEPT ![c] = s]
          /\ IF done /\ s = total[c]
             THEN OutputDone(c, s, total[c])
             ELSE UNCHANGED <<interest, wpc>>
    /\ UNCHANGED <<mpc, ret, stopping, cur, ev, opened, fdValid, closes,
                   received, total, recvLeft, fromServer, srvClosed, reset>>

\* send() fails with EAGAIN: break, return 0.
OutputFull ==
    /\ wpc = "out"
    /\ ~(NewRequest(cur) /\ stopping)
    /\ ~srvClosed[cur]
    /\ toServer[cur] = Cap
    /\ sendLeft' = [sendLeft EXCEPT ![cur] = SendLen(cur)]
    /\ OutputDone(cur, sent[cur], total[cur])
    /\ UNCHANGED <<mpc, ret, stopping, cur, ev, opened, fdValid, closes,
                   sent, received, total, recvLeft, net>>

\* send() fails with the pending ECONNRESET, which it clears: return -1.
OutputReset ==
    /\ wpc = "out"
    /\ ~(NewRequest(cur) /\ stopping)
    /\ srvClosed[cur] /\ reset[cur]
    /\ reset' = [reset EXCEPT ![cur] = FALSE]
    /\ sendLeft' = [sendLeft EXCEPT ![cur] = SendLen(cur)]
    /\ EventFailed
    /\ UNCHANGED <<mpc, stopping, cur, ev, opened, fdValid, closes, interest,
                   sent, received, total, recvLeft, toServer, fromServer,
                   srvClosed>>

\* send() on a socket whose peer has closed: EPIPE and SIGPIPE, whose
\* default action ends the process.
OutputSigpipe ==
    /\ wpc = "out"
    /\ ~(NewRequest(cur) /\ stopping)
    /\ srvClosed[cur] /\ ~reset[cur]
    /\ mpc' = "sigpipe"
    /\ wpc' = "killed"
    /\ UNCHANGED <<ret, stopping, cur, ev, conn, net>>

RecvLen(c) == IF recvLeft[c] = 0 THEN P ELSE recvLeft[c]

\* Mutant: conn->fd is not set to -1 after close.
InputDoneKeepsFd ==
    /\ wpc = "in"
    /\ recvLeft[cur] = 0 /\ received[cur] = total[cur]
    /\ interest' = [interest EXCEPT ![cur] = {}]
    /\ closes' = [closes EXCEPT ![cur] = @ + 1]
    /\ wpc' = "loop"
    /\ UNCHANGED <<mpc, ret, stopping, cur, ev, opened, fdValid, sent,
                   received, total, sendLeft, recvLeft, net>>

\* client_conn_handle_input at a message boundary with received == total
\* returns 0; handle_client_epoll_event then deregisters the connection,
\* closes it and sets conn->fd = -1.
InputDone ==
    /\ wpc = "in"
    /\ recvLeft[cur] = 0 /\ received[cur] = total[cur]
    /\ interest' = [interest EXCEPT ![cur] = {}]
    /\ closes' = [closes EXCEPT ![cur] = @ + 1]
    /\ fdValid' = [fdValid EXCEPT ![cur] = FALSE]
    /\ wpc' = "loop"
    /\ UNCHANGED <<mpc, ret, stopping, cur, ev, opened, sent, received, total,
                   sendLeft, recvLeft, net>>

\* Mutant: recv() is passed the buffer's size, not recvbuf.left.
InputRecvOverrun ==
    LET c == cur IN
    /\ wpc = "in"
    /\ ~(recvLeft[c] = 0 /\ received[c] = total[c])
    /\ \E k \in 1 .. Min2(P, fromServer[c]) :
          /\ fromServer' = [fromServer EXCEPT ![c] = @ - k]
          /\ recvLeft' = [recvLeft EXCEPT ![c] = RecvLen(c) - k]
          /\ received' = [received EXCEPT ![c] =
                             IF k = RecvLen(c) THEN @ + 1 ELSE @]
    /\ UNCHANGED <<mpc, wpc, ret, stopping, cur, ev, opened, fdValid, closes,
                   interest, sent, total, sendLeft, toServer, srvClosed, reset>>

\* recv() returns k parts; a completed response is counted.
InputRecv ==
    LET c == cur IN
    /\ wpc = "in"
    /\ ~(recvLeft[c] = 0 /\ received[c] = total[c])
    /\ \E k \in 1 .. Min2(RecvLen(c), fromServer[c]) :
          /\ fromServer' = [fromServer EXCEPT ![c] = @ - k]
          /\ recvLeft' = [recvLeft EXCEPT ![c] = RecvLen(c) - k]
          /\ received' = [received EXCEPT ![c] =
                             IF k = RecvLen(c) THEN @ + 1 ELSE @]
    /\ UNCHANGED <<mpc, wpc, ret, stopping, cur, ev, opened, fdValid, closes,
                   interest, sent, total, sendLeft, toServer, srvClosed, reset>>

\* recv() fails with EAGAIN: break, return 0; the connection is not done.
InputEmpty ==
    /\ wpc = "in"
    /\ ~(recvLeft[cur] = 0 /\ received[cur] = total[cur])
    /\ fromServer[cur] = 0 /\ ~srvClosed[cur]
    /\ recvLeft' = [recvLeft EXCEPT ![cur] = RecvLen(cur)]
    /\ wpc' = "loop"
    /\ UNCHANGED <<mpc, ret, stopping, cur, ev, opened, fdValid, closes,
                   interest, sent, received, total, sendLeft, net>>

\* recv() fails with the pending ECONNRESET, which it clears: return -1.
InputReset ==
    /\ wpc = "in"
    /\ ~(recvLeft[cur] = 0 /\ received[cur] = total[cur])
    /\ fromServer[cur] = 0 /\ srvClosed[cur] /\ reset[cur]
    /\ reset' = [reset EXCEPT ![cur] = FALSE]
    /\ recvLeft' = [recvLeft EXCEPT ![cur] = RecvLen(cur)]
    /\ EventFailed
    /\ UNCHANGED <<mpc, stopping, cur, ev, opened, fdValid, closes, interest,
                   sent, received, total, sendLeft, toServer, fromServer,
                   srvClosed>>

\* recv() returns 0 at end of file: left -= 0, and the while (1) loop calls
\* recv() again, which returns 0 again, for ever ("eof").
InputEOF ==
    /\ wpc = "in"
    /\ ~(recvLeft[cur] = 0 /\ received[cur] = total[cur])
    /\ fromServer[cur] = 0 /\ srvClosed[cur] /\ ~reset[cur]
    /\ recvLeft' = [recvLeft EXCEPT ![cur] = RecvLen(cur)]
    /\ wpc' = "eof"
    /\ UNCHANGED <<mpc, ret, stopping, cur, ev, opened, fdValid, closes,
                   interest, sent, received, total, sendLeft, net>>

-----------------------------------------------------------------------------
(* The server, as the client sees it                                       *)

\* The server reads a whole request and queues its response.
ServerServe(c) ==
    /\ ~srvClosed[c]
    /\ toServer[c] >= P
    /\ fromServer[c] + P <= Cap
    /\ toServer' = [toServer EXCEPT ![c] = @ - P]
    /\ fromServer' = [fromServer EXCEPT ![c] = @ + P]
    /\ UNCHANGED <<mpc, wpc, ret, stopping, cur, ev, conn, srvClosed, reset>>

\* The server closes its end (it finished the connection, or exited).
\* Requests it had not read are dropped and reset the client's socket.
ServerClose(c) ==
    /\ ServerMayClose
    /\ fdValid[c] /\ ~srvClosed[c]
    /\ srvClosed' = [srvClosed EXCEPT ![c] = TRUE]
    /\ reset' = [reset EXCEPT ![c] = toServer[c] > 0]
    /\ toServer' = [toServer EXCEPT ![c] = 0]
    /\ UNCHANGED <<mpc, wpc, ret, stopping, cur, ev, conn, fromServer>>

-----------------------------------------------------------------------------
MainStep ==
    \/ InitConn \/ InitConnFail \/ StartThread \/ StartThreadFail \/ Barrier
    \/ Stop \/ Join \/ Report \/ Cleanup

HandleEvent ==
    \/ OutputStop \/ OutputSend \/ OutputFull \/ OutputReset \/ OutputSigpipe
    \/ InputDone \/ InputRecv \/ InputEmpty \/ InputReset \/ InputEOF

WorkerStep ==
    \/ InitEpoll \/ InitEpollFail \/ WorkerReturn \/ HandleEvent
    \/ \E c \in Conns, e \in SUBSET {"IN", "OUT"} : EpollWait(c, e)

Next ==
    \/ MainStep
    \/ WorkerStep
    \/ \E c \in Conns : ServerServe(c) \/ ServerClose(c)

\* Both threads keep running.  epoll_wait reports every ready connection,
\* so no connection's events are passed over for ever.  The server keeps
\* serving the requests it has; it need not ever close a connection.
Fairness ==
    /\ WF_vars(MainStep)
    /\ WF_vars(InitEpoll \/ InitEpollFail \/ WorkerReturn \/ HandleEvent)
    /\ \A c \in Conns :
          /\ WF_vars(\E e \in SUBSET {"IN", "OUT"} : EpollWait(c, e))
          /\ WF_vars(ServerServe(c))

Spec == Init /\ [][Next]_vars
FairSpec == Spec /\ Fairness

-----------------------------------------------------------------------------
(* Properties                                                              *)

TypeOK ==
    /\ mpc \in {"init", "start", "barrier", "progress", "report", "cleanup"}
              \cup Ended
    /\ wpc \in {"none", "barrier", "epoll", "loop", "out", "in", "eof",
                "returned", "joined", "killed"}
    /\ ret \in {0, -1}
    /\ stopping \in BOOLEAN
    /\ opened \in [Conns -> BOOLEAN]
    /\ fdValid \in [Conns -> BOOLEAN]
    /\ closes \in [Conns -> Nat]
    /\ interest \in [Conns -> SUBSET {"IN", "OUT"}]
    /\ \A f \in {sent, received, total} : f \in [Conns -> 0 .. NReq]
    /\ sendLeft \in [Conns -> 0 .. P]
    /\ recvLeft \in [Conns -> 0 .. P]
    /\ toServer \in [Conns -> 0 .. Cap]
    /\ fromServer \in [Conns -> 0 .. Cap]
    /\ srvClosed \in [Conns -> BOOLEAN]
    /\ reset \in [Conns -> BOOLEAN]
    /\ cur \in Conns
    /\ ev \in SUBSET {"IN", "OUT"}

\* A worker that returns 0 has every request it sent answered and no
\* request half-sent: the deadline ends a connection only at a message
\* boundary of client_conn_handle_output (total = sent), and
\* thread_has_active_connections keeps the worker until received reaches
\* total on every connection.
EveryRequestAnswered ==
    (wpc \in {"returned", "joined"} /\ ret = 0) =>
        \A c \in Conns : received[c] = sent[c] /\ sendLeft[c] = 0

\* Every socket is closed exactly once: the worker closes a finished
\* connection and sets conn->fd = -1, so cleanup_client_conn, which closes
\* whatever still has an fd, neither closes it again nor leaves one open
\* when run_client returns, on the normal path and on each failure path.
SocketsClosedOnce ==
    \A c \in Conns :
        /\ closes[c] <= 1
        /\ mpc = "exited" => (fdValid[c] => closes[c] = 1)

\* While the server keeps every connection open, the client process ends:
\* the worker finishes every connection, also when the deadline stops it
\* early, and run_client returns (or the report traps).
ClientTerminatesIfServerStaysUp ==
    [](\A c \in Conns : ~srvClosed[c]) => <>(mpc \in Ended)

\* The benchmark runs to completion: run_client returns after reporting or
\* after a failure it handles, whatever the server does with the
\* connections and whenever the deadline passes.
ClientCompletes == <>(mpc = "exited")
====
