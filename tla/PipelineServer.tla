--------------------------- MODULE PipelineServer ---------------------------
(***************************************************************************)
(* The piotbench server pipeline: one Accept, one IO, one Compute and one  *)
(* Submit thread (src/src/server/io/{accept,io,submit}.c and               *)
(* src/src/server/compute.c) handing pre-allocated connections and         *)
(* buffers to each other through the queues of struct server_queues_t,    *)
(* together with the peers that connect to the listening socket.           *)
(*                                                                         *)
(* Queues are modelled by their contents; put and get are atomic here and *)
(* the two-lock implementation is checked separately (MPSCQueue).  A     *)
(* buffer or connection put twice shows up twice in its queue.            *)
(* A thread's loop body is split into steps at every point where another  *)
(* thread can observe the difference: a lock acquisition, the end of a    *)
(* critical section, a queue operation, a system call.                    *)
(***************************************************************************)
EXTENDS Integers, Sequences, SequencesExt

CONSTANTS
    Conns,          \* struct server_connection_t objects (cfg.alloc.sessions)
    Buffers,        \* struct server_buffer_t objects (cfg.alloc.buffers)
    Clients,        \* peers that connect to the listening socket
    NReq,           \* requests each peer sends before it closes
    Readahead,      \* cfg.load.readahead
    PeerMayAbort,   \* a peer may close before it has read every response
    NULL

ASSUME /\ NReq \in Nat \ {0}
       /\ Readahead \in Nat
       /\ PeerMayAbort \in BOOLEAN

EPOLLIN  == "EPOLLIN"
EPOLLOUT == "EPOLLOUT"

\* A request identifier (struct request_t id), tagged with the peer that
\* sent it so that a response reaching the wrong peer can be recognised.
Msgs == Clients \X (1 .. NReq)

PeerStates == {"idle", "connected", "hup", "reset"}

VARIABLES
    emptyConns,     \* queues.empty_connections
    emptyBuffers,   \* queues.empty_buffers
    computeInbox,   \* queues.compute_inbox[0]
    submitInbox,    \* queues.submitter_inbox[0]
    fd,             \* conn->fd: the peer whose socket it is
    fdOpen,         \* conn->fd has not been passed to Z_close
    closed,         \* conn->closed
    locked,         \* conn->lock (0/1 spin lock, no owner)
    epollState,     \* conn->epoll_state, the interest set armed in epoll
    recvbuf,        \* conn->recvbuf
    sendbuf,        \* conn->sendbuf
    sendQueue,      \* conn->send_queue
    received,       \* conn->received
    processed,      \* conn->processed
    sent,           \* conn->sent
    bufConn,        \* buff->conn
    bufMsg,         \* buff->msg id
    ioPc,           \* where the IO thread is in __io_worker
    ioConn,         \* the connection of the event being handled
    ioIn,           \* the event being handled also carries EPOLLIN
    subPc,          \* where the submitter is in __submitter_worker
    subBuf,         \* the buffer the submitter has taken from its inbox
    subConn,        \* its buff->conn, read once after queue_get
    cstate,         \* peer socket state
    accepted,       \* the peer's connection was taken by accept4
    nsent,          \* requests the peer has written
    nread,          \* requests the server has read from the peer's socket
    responses       \* response ids the peer has received, in order

poolVars  == <<emptyConns, emptyBuffers>>
stageVars == <<computeInbox, submitInbox>>
connVars  == <<fd, fdOpen, closed, locked, epollState, recvbuf, sendbuf,
               sendQueue, received, processed, sent>>
bufVars   == <<bufConn, bufMsg>>
ioVars    == <<ioPc, ioConn, ioIn>>
subVars   == <<subPc, subBuf, subConn>>
peerVars  == <<cstate, accepted, nsent, nread, responses>>
vars == <<poolVars, stageVars, connVars, bufVars, ioVars, subVars, peerVars>>

-----------------------------------------------------------------------------
(* Helpers                                                                 *)

InPool(c) == Contains(emptyConns, c)

PeerGone(c) == cstate[fd[c]] \in {"hup", "reset"}

ReadaheadFull(c) ==
    IF sent[c] > received[c] THEN TRUE
    ELSE received[c] - sent[c] > Readahead

\* The attached buffers that finish_connection puts back, in its order.
Attached(c) ==
    SelectSeq(<<sendbuf[c], recvbuf[c]>>, LAMBDA b : b # NULL)

\* Mutant: the released branch forgets queue_put to empty_connections.
FinishConnectionNoRelease(c) ==
    IF locked[c]
    THEN UNCHANGED <<emptyConns, emptyBuffers, fdOpen, closed, locked,
                     sendQueue, sent>>
    ELSE /\ emptyBuffers' = emptyBuffers \o Attached(c) \o sendQueue[c]
         /\ fdOpen' = [fdOpen EXCEPT ![c] = FALSE]
         /\ sendQueue' = [sendQueue EXCEPT ![c] = <<>>]
         /\ sent' = [sent EXCEPT ![c] = @ + Len(sendQueue[c])]
         /\ closed' = [closed EXCEPT ![c] = TRUE]
         /\ locked' = [locked EXCEPT ![c] = FALSE]
         /\ UNCHANGED emptyConns

\* finish_connection: trylock; on failure nothing changes (the submitter
\* holds the lock).  Otherwise release the attached send and receive
\* buffers (the pointers are left as they are), close the descriptor,
\* drain the send queue counting every drained buffer as sent, mark the
\* connection closed, and either put it back in the pool with the lock
\* still taken (sent == received) or unlock it and leave the release to
\* the submitter.
FinishConnection(c) ==
    IF locked[c]
    THEN UNCHANGED <<emptyConns, emptyBuffers, fdOpen, closed, locked,
                     sendQueue, sent>>
    ELSE LET newSent == sent[c] + Len(sendQueue[c])
         IN  /\ emptyBuffers' = emptyBuffers \o Attached(c) \o sendQueue[c]
             /\ fdOpen' = [fdOpen EXCEPT ![c] = FALSE]
             /\ sendQueue' = [sendQueue EXCEPT ![c] = <<>>]
             /\ sent' = [sent EXCEPT ![c] = newSent]
             /\ closed' = [closed EXCEPT ![c] = TRUE]
             /\ locked' = [locked EXCEPT ![c] = (newSent = received[c])]
             /\ emptyConns' = IF newSent = received[c]
                              THEN Append(emptyConns, c)
                              ELSE emptyConns

\* Where __io_worker goes when handle_response returns: on to the
\* EPOLLIN branch when the event carries it, else to the next event.
AfterOut == IF ioIn THEN "in" ELSE "wait"

-----------------------------------------------------------------------------
Init ==
    /\ emptyConns = SetToSeq(Conns)
    /\ emptyBuffers = SetToSeq(Buffers)
    /\ computeInbox = <<>>
    /\ submitInbox = <<>>
    /\ fd = [c \in Conns |-> NULL]
    /\ fdOpen = [c \in Conns |-> FALSE]
    /\ closed = [c \in Conns |-> FALSE]
    /\ locked = [c \in Conns |-> FALSE]
    /\ epollState = [c \in Conns |-> {}]
    /\ recvbuf = [c \in Conns |-> NULL]
    /\ sendbuf = [c \in Conns |-> NULL]
    /\ sendQueue = [c \in Conns |-> <<>>]
    /\ received = [c \in Conns |-> 0]
    /\ processed = [c \in Conns |-> 0]
    /\ sent = [c \in Conns |-> 0]
    /\ bufConn = [b \in Buffers |-> NULL]
    /\ bufMsg = [b \in Buffers |-> NULL]
    /\ ioPc = "wait"
    /\ ioConn = NULL
    /\ ioIn = FALSE
    /\ subPc = "loop"
    /\ subBuf = NULL
    /\ subConn = NULL
    /\ cstate = [k \in Clients |-> "idle"]
    /\ accepted = [k \in Clients |-> FALSE]
    /\ nsent = [k \in Clients |-> 0]
    /\ nread = [k \in Clients |-> 0]
    /\ responses = [k \in Clients |-> <<>>]
\* The pooled connections come from aligned_alloc and are never cleared:
\* Init takes the outcome in which the never-written fields (sendbuf
\* among them) read as zero.

-----------------------------------------------------------------------------
(* Accept thread                                                           *)

\* handle_accept, on EPOLLIN of the listening socket (a peer k waits in
\* the backlog): take an empty connection (none: skip the event), accept
\* the peer, reset the counters, the send queue, recvbuf, closed and the
\* lock, and arm EPOLLIN.  conn->sendbuf is not reset.
Accept ==
    \E k \in Clients :
      LET c == Head(emptyConns) IN
        /\ emptyConns # <<>>
        /\ cstate[k] # "idle"
        /\ ~accepted[k]
        /\ emptyConns' = Tail(emptyConns)
        /\ accepted' = [accepted EXCEPT ![k] = TRUE]
        /\ fd' = [fd EXCEPT ![c] = k]
        /\ fdOpen' = [fdOpen EXCEPT ![c] = TRUE]
        /\ received' = [received EXCEPT ![c] = 0]
        /\ processed' = [processed EXCEPT ![c] = 0]
        /\ sent' = [sent EXCEPT ![c] = 0]
        /\ sendQueue' = [sendQueue EXCEPT ![c] = <<>>]
        /\ recvbuf' = [recvbuf EXCEPT ![c] = NULL]
        /\ epollState' = [epollState EXCEPT ![c] = {EPOLLIN}]
        /\ closed' = [closed EXCEPT ![c] = FALSE]
        /\ locked' = [locked EXCEPT ![c] = FALSE]
        /\ UNCHANGED <<emptyBuffers, stageVars, sendbuf, bufVars, ioVars,
                       subVars, cstate, nsent, nread, responses>>

-----------------------------------------------------------------------------
(* IO thread                                                               *)

\* Z_epoll_wait reports a connection whose descriptor is open and armed:
\* EPOLLERR when the peer reset it, which __io_worker turns straight into
\* finish_connection; otherwise EPOLLOUT when armed, and EPOLLIN when
\* armed and the socket has a request or an end of file to read.
IOWait(c) ==
    /\ ioPc = "wait"
    /\ fdOpen[c]
    /\ LET err  == cstate[fd[c]] = "reset"
           inR  == /\ EPOLLIN \in epollState[c]
                   /\ nread[fd[c]] < nsent[fd[c]] \/ PeerGone(c)
           outR == EPOLLOUT \in epollState[c]
       IN  \/ /\ err
              /\ FinishConnection(c)
              /\ UNCHANGED <<stageVars, fd, epollState, recvbuf, sendbuf,
                             received, processed, bufVars, ioVars, subVars,
                             peerVars>>
           \/ /\ ~err
              /\ inR \/ outR
              /\ ioConn' = c
              /\ ioIn' = inR
              /\ ioPc' = IF outR THEN "out" ELSE "in"
              /\ UNCHANGED <<poolVars, stageVars, connVars, bufVars, subVars,
                             peerVars>>

\* handle_response, no partial response attached: pop the next response
\* of the send queue, or return when there is none.
IOOutPop ==
    LET c == ioConn IN
    /\ ioPc = "out"
    /\ sendbuf[c] = NULL
    /\ \/ /\ sendQueue[c] # <<>>
          /\ sendbuf' = [sendbuf EXCEPT ![c] = Head(sendQueue[c])]
          /\ sendQueue' = [sendQueue EXCEPT ![c] = Tail(@)]
          /\ bufConn' = [bufConn EXCEPT ![Head(sendQueue[c])] = c]
          /\ UNCHANGED ioPc
       \/ /\ sendQueue[c] = <<>>
          /\ ioPc' = AfterOut
          /\ UNCHANGED <<sendbuf, sendQueue, bufConn>>
    /\ UNCHANGED <<poolVars, stageVars, fd, fdOpen, closed, locked, epollState,
                   recvbuf, received, processed, sent, bufMsg, ioConn, ioIn,
                   subVars, peerVars>>

\* Mutant: conn->sendbuf is not cleared after a complete send.
IOSendDoneKeepsBuf ==
    LET c == ioConn
        b == sendbuf[ioConn]
    IN
    /\ ioPc = "out"
    /\ b # NULL
    /\ fdOpen[c] /\ ~PeerGone(c)
    /\ responses' = [responses EXCEPT ![fd[c]] = Append(@, bufMsg[b])]
    /\ sent' = [sent EXCEPT ![c] = @ + 1]
    /\ emptyBuffers' = Append(emptyBuffers, b)
    /\ ioPc' = "outLock"
    /\ UNCHANGED <<emptyConns, stageVars, fd, fdOpen, closed, locked,
                   epollState, recvbuf, sendbuf, sendQueue, received,
                   processed, bufVars, ioConn, ioIn, subVars, cstate,
                   accepted, nsent, nread>>

\* Z_send of the rest of the attached response completes: sent++, the
\* buffer goes back to the pool, then the lock is taken.
IOSendDone ==
    LET c == ioConn
        b == sendbuf[ioConn]
    IN
    /\ ioPc = "out"
    /\ b # NULL
    /\ fdOpen[c] /\ ~PeerGone(c)
    /\ responses' = [responses EXCEPT ![fd[c]] = Append(@, bufMsg[b])]
    /\ sent' = [sent EXCEPT ![c] = @ + 1]
    /\ sendbuf' = [sendbuf EXCEPT ![c] = NULL]
    /\ emptyBuffers' = Append(emptyBuffers, b)
    /\ ioPc' = "outLock"
    /\ UNCHANGED <<emptyConns, stageVars, fd, fdOpen, closed, locked,
                   epollState, recvbuf, sendQueue, received, processed,
                   bufVars, ioConn, ioIn, subVars, cstate, accepted, nsent,
                   nread>>

\* Z_send returns EAGAIN, or writes less than asked: handle_response
\* returns with the response still attached.
IOSendBlocked ==
    /\ ioPc = "out"
    /\ sendbuf[ioConn] # NULL
    /\ fdOpen[ioConn] /\ ~PeerGone(ioConn)
    /\ ioPc' = AfterOut
    /\ UNCHANGED <<poolVars, stageVars, connVars, bufVars, ioConn, ioIn,
                   subVars, peerVars>>

\* Z_send fails (peer gone, or descriptor already closed): handle_response
\* returns finish_connection's 0, and __io_worker goes on to the EPOLLIN
\* branch of the same event.
IOSendFail ==
    /\ ioPc = "out"
    /\ sendbuf[ioConn] # NULL
    /\ ~fdOpen[ioConn] \/ PeerGone(ioConn)
    /\ FinishConnection(ioConn)
    /\ ioPc' = AfterOut
    /\ UNCHANGED <<stageVars, fd, epollState, recvbuf, sendbuf, received,
                   processed, bufVars, ioConn, ioIn, subVars, peerVars>>

\* lock(&conn->lock) after a complete send: spins until free.
IOOutLock ==
    /\ ioPc = "outLock"
    /\ ~locked[ioConn]
    /\ locked' = [locked EXCEPT ![ioConn] = TRUE]
    /\ ioPc' = "outCS"
    /\ UNCHANGED <<poolVars, stageVars, fd, fdOpen, closed, epollState,
                   recvbuf, sendbuf, sendQueue, received, processed, sent,
                   bufVars, ioConn, ioIn, subVars, peerVars>>

\* Mutant: EPOLLOUT is cleared after every complete send.
IOOutUnlockClearsAlways ==
    LET c == ioConn IN
    /\ ioPc = "outCS"
    /\ epollState' = [epollState EXCEPT ![c] = @ \ {EPOLLOUT}]
    /\ locked' = [locked EXCEPT ![c] = FALSE]
    /\ ioPc' = "out"
    /\ UNCHANGED <<poolVars, stageVars, fd, fdOpen, closed, recvbuf, sendbuf,
                   sendQueue, received, processed, sent, bufVars, ioConn,
                   ioIn, subVars, peerVars>>

\* No response pending (processed == sent): clear EPOLLOUT; unlock and
\* loop for the next response.
IOOutUnlock ==
    LET c == ioConn IN
    /\ ioPc = "outCS"
    /\ epollState' = IF processed[c] = sent[c]
                     THEN [epollState EXCEPT ![c] = @ \ {EPOLLOUT}]
                     ELSE epollState
    /\ locked' = [locked EXCEPT ![c] = FALSE]
    /\ ioPc' = "out"
    /\ UNCHANGED <<poolVars, stageVars, fd, fdOpen, closed, recvbuf, sendbuf,
                   sendQueue, received, processed, sent, bufVars, ioConn,
                   ioIn, subVars, peerVars>>

\* handle_request, no receive buffer attached: return when
\* received - sent exceeds the readahead or the pool is empty; otherwise
\* borrow a buffer and attach it (buff->conn = conn).
IOInBorrow ==
    LET c == ioConn IN
    /\ ioPc = "in"
    /\ recvbuf[c] = NULL
    /\ \/ /\ ReadaheadFull(c) \/ emptyBuffers = <<>>
          /\ ioPc' = "wait"
          /\ UNCHANGED <<emptyBuffers, recvbuf, bufConn>>
       \/ /\ ~ReadaheadFull(c)
          /\ emptyBuffers # <<>>
          /\ emptyBuffers' = Tail(emptyBuffers)
          /\ recvbuf' = [recvbuf EXCEPT ![c] = Head(emptyBuffers)]
          /\ bufConn' = [bufConn EXCEPT ![Head(emptyBuffers)] = c]
          /\ UNCHANGED ioPc
    /\ UNCHANGED <<emptyConns, stageVars, fd, fdOpen, closed, locked,
                   epollState, sendbuf, sendQueue, received, processed, sent,
                   bufMsg, ioConn, ioIn, subVars, peerVars>>

\* Z_recv into the attached buffer reads a whole request; the lock is
\* taken next.
IORecv ==
    LET c == ioConn
        k == fd[ioConn]
    IN
    /\ ioPc = "in"
    /\ recvbuf[c] # NULL
    /\ fdOpen[c]
    /\ nread[k] < nsent[k]
    /\ nread' = [nread EXCEPT ![k] = @ + 1]
    /\ bufMsg' = [bufMsg EXCEPT ![recvbuf[c]] = <<k, nread[k] + 1>>]
    /\ ioPc' = "inLock"
    /\ UNCHANGED <<poolVars, stageVars, connVars, bufConn, ioConn, ioIn,
                   subVars, cstate, accepted, nsent, responses>>

\* Z_recv returns EAGAIN: handle_request returns, the buffer stays
\* attached.
IORecvAgain ==
    LET c == ioConn IN
    /\ ioPc = "in"
    /\ recvbuf[c] # NULL
    /\ fdOpen[c]
    /\ nread[fd[c]] = nsent[fd[c]]
    /\ ~PeerGone(c)
    /\ ioPc' = "wait"
    /\ UNCHANGED <<poolVars, stageVars, connVars, bufVars, ioConn, ioIn,
                   subVars, peerVars>>

\* Z_recv returns 0 (end of file) or an error (peer reset, descriptor
\* already closed): finish_connection.
IORecvFail ==
    LET c == ioConn IN
    /\ ioPc = "in"
    /\ recvbuf[c] # NULL
    /\ \/ ~fdOpen[c]
       \/ nread[fd[c]] = nsent[fd[c]] /\ PeerGone(c)
    /\ FinishConnection(c)
    /\ ioPc' = "wait"
    /\ UNCHANGED <<stageVars, fd, epollState, recvbuf, sendbuf, received,
                   processed, bufVars, ioConn, ioIn, subVars, peerVars>>

\* lock(&conn->lock) once a whole request is in: spins until free.
IOInLock ==
    /\ ioPc = "inLock"
    /\ ~locked[ioConn]
    /\ locked' = [locked EXCEPT ![ioConn] = TRUE]
    /\ ioPc' = "inCS"
    /\ UNCHANGED <<poolVars, stageVars, fd, fdOpen, closed, epollState,
                   recvbuf, sendbuf, sendQueue, received, processed, sent,
                   bufVars, ioConn, ioIn, subVars, peerVars>>

\* Mutant: conn->received++ is missing.
IOInUnlockNoCount ==
    LET c == ioConn IN
    /\ ioPc = "inCS"
    /\ recvbuf' = [recvbuf EXCEPT ![c] = NULL]
    /\ computeInbox' = Append(computeInbox, recvbuf[c])
    /\ locked' = [locked EXCEPT ![c] = FALSE]
    /\ ioPc' = "in"
    /\ UNCHANGED <<poolVars, submitInbox, fd, fdOpen, closed, epollState,
                   sendbuf, sendQueue, received, processed, sent, bufVars,
                   ioConn, ioIn, subVars, peerVars>>

\* Mutant: conn->recvbuf is not cleared after forwarding the buffer.
IOInUnlockKeepsBuf ==
    LET c == ioConn IN
    /\ ioPc = "inCS"
    /\ received' = [received EXCEPT ![c] = @ + 1]
    /\ computeInbox' = Append(computeInbox, recvbuf[c])
    /\ locked' = [locked EXCEPT ![c] = FALSE]
    /\ ioPc' = "in"
    /\ UNCHANGED <<poolVars, submitInbox, fd, fdOpen, closed, epollState,
                   recvbuf, sendbuf, sendQueue, processed, sent, bufVars,
                   ioConn, ioIn, subVars, peerVars>>

\* received++, detach the buffer, forward it to the compute inbox,
\* unlock, and loop for the next request.
IOInUnlock ==
    LET c == ioConn IN
    /\ ioPc = "inCS"
    /\ received' = [received EXCEPT ![c] = @ + 1]
    /\ recvbuf' = [recvbuf EXCEPT ![c] = NULL]
    /\ computeInbox' = Append(computeInbox, recvbuf[c])
    /\ locked' = [locked EXCEPT ![c] = FALSE]
    /\ ioPc' = "in"
    /\ UNCHANGED <<poolVars, submitInbox, fd, fdOpen, closed, epollState,
                   sendbuf, sendQueue, processed, sent, bufVars, ioConn, ioIn,
                   subVars, peerVars>>

-----------------------------------------------------------------------------
(* Compute thread                                                          *)

\* compute_worker: pop a buffer, compute the response (its id is the
\* request's id, the digest is not modelled) and forward it to the
\* submitter inbox of buff->conn.
Compute ==
    /\ computeInbox # <<>>
    /\ computeInbox' = Tail(computeInbox)
    /\ submitInbox' = Append(submitInbox, Head(computeInbox))
    /\ UNCHANGED <<poolVars, connVars, bufVars, ioVars, subVars, peerVars>>

-----------------------------------------------------------------------------
(* Submit thread                                                           *)

\* __submitter_worker: pop a buffer from the inbox and read buff->conn.
SubmitGet ==
    /\ subPc = "loop"
    /\ submitInbox # <<>>
    /\ submitInbox' = Tail(submitInbox)
    /\ subBuf' = Head(submitInbox)
    /\ subConn' = bufConn[Head(submitInbox)]
    /\ subPc' = "try"
    /\ UNCHANGED <<poolVars, computeInbox, connVars, bufVars, ioVars, peerVars>>

\* trylock fails (the IO thread holds the lock): put the buffer back at
\* the tail of the same inbox.
SubmitRetry ==
    /\ subPc = "try"
    /\ locked[subConn]
    /\ submitInbox' = Append(submitInbox, subBuf)
    /\ subBuf' = NULL
    /\ subPc' = "loop"
    /\ UNCHANGED <<poolVars, computeInbox, connVars, bufVars, ioVars, subConn,
                   peerVars>>

\* trylock succeeds.
SubmitLock ==
    /\ subPc = "try"
    /\ ~locked[subConn]
    /\ locked' = [locked EXCEPT ![subConn] = TRUE]
    /\ subPc' = "cs"
    /\ UNCHANGED <<poolVars, stageVars, fd, fdOpen, closed, epollState,
                   recvbuf, sendbuf, sendQueue, received, processed, sent,
                   bufVars, ioVars, subBuf, subConn, peerVars>>

\* Mutant: the disposal path forgets processed++.
SubmitDisposeNoCount ==
    LET c == subConn IN
    /\ subPc = "cs"
    /\ closed[c]
    /\ emptyBuffers' = Append(emptyBuffers, subBuf)
    /\ locked' = [locked EXCEPT ![c] = FALSE]
    /\ subBuf' = NULL
    /\ subPc' = "check"
    /\ UNCHANGED <<emptyConns, stageVars, fd, fdOpen, closed, epollState,
                   recvbuf, sendbuf, sendQueue, received, processed, sent,
                   bufVars, ioVars, subConn, peerVars>>

\* Mutant: the disposal path forgets queue_put to empty_buffers.
SubmitDisposeLeaks ==
    LET c == subConn IN
    /\ subPc = "cs"
    /\ closed[c]
    /\ processed' = [processed EXCEPT ![c] = @ + 1]
    /\ locked' = [locked EXCEPT ![c] = FALSE]
    /\ subBuf' = NULL
    /\ subPc' = "check"
    /\ UNCHANGED <<poolVars, stageVars, fd, fdOpen, closed, epollState,
                   recvbuf, sendbuf, sendQueue, received, sent, bufVars,
                   ioVars, subConn, peerVars>>

\* Under the lock, connection closed: processed++, the buffer goes to the
\* pool, unlock; the release test comes after the unlock.  (processed is
\* read by other threads only under the lock, so its increment is taken
\* in the same step as the rest of the critical section.)
SubmitDispose ==
    LET c == subConn IN
    /\ subPc = "cs"
    /\ closed[c]
    /\ processed' = [processed EXCEPT ![c] = @ + 1]
    /\ emptyBuffers' = Append(emptyBuffers, subBuf)
    /\ locked' = [locked EXCEPT ![c] = FALSE]
    /\ subBuf' = NULL
    /\ subPc' = "check"
    /\ UNCHANGED <<emptyConns, stageVars, fd, fdOpen, closed, epollState,
                   recvbuf, sendbuf, sendQueue, received, sent, bufVars,
                   ioVars, subConn, peerVars>>

\* Mutant: the connection is released after every disposal.
SubmitReleaseAlways ==
    /\ subPc = "check"
    /\ emptyConns' = Append(emptyConns, subConn)
    /\ subPc' = "loop"
    /\ UNCHANGED <<emptyBuffers, stageVars, connVars, bufVars, ioVars,
                   subBuf, subConn, peerVars>>

\* The last in-flight buffer of a closed connection (processed ==
\* received): release the connection to the pool.
SubmitRelease ==
    LET c == subConn IN
    /\ subPc = "check"
    /\ emptyConns' = IF processed[c] = received[c]
                     THEN Append(emptyConns, c)
                     ELSE emptyConns
    /\ subPc' = "loop"
    /\ UNCHANGED <<emptyBuffers, stageVars, connVars, bufVars, ioVars,
                   subBuf, subConn, peerVars>>

\* Under the lock, connection open: processed++, queue the response on
\* the connection's send queue, arm EPOLLOUT, unlock.
SubmitDeliver ==
    LET c == subConn IN
    /\ subPc = "cs"
    /\ ~closed[c]
    /\ processed' = [processed EXCEPT ![c] = @ + 1]
    /\ sendQueue' = [sendQueue EXCEPT ![c] = Append(@, subBuf)]
    /\ epollState' = [epollState EXCEPT ![c] = @ \cup {EPOLLOUT}]
    /\ locked' = [locked EXCEPT ![c] = FALSE]
    /\ subBuf' = NULL
    /\ subPc' = "loop"
    /\ UNCHANGED <<poolVars, stageVars, fd, fdOpen, closed, recvbuf, sendbuf,
                   received, sent, bufVars, ioVars, subConn, peerVars>>

-----------------------------------------------------------------------------
(* Peers (the client benchmark harness, src/src/client/worker.c)           *)

ClientConnect(k) ==
    /\ cstate[k] = "idle"
    /\ cstate' = [cstate EXCEPT ![k] = "connected"]
    /\ UNCHANGED <<poolVars, stageVars, connVars, bufVars, ioVars, subVars,
                   accepted, nsent, nread, responses>>

\* Mutant: the client does not stop at status.total.
ClientSendUnbounded(k) ==
    /\ cstate[k] = "connected"
    /\ nsent' = [nsent EXCEPT ![k] = @ + 1]
    /\ UNCHANGED <<poolVars, stageVars, connVars, bufVars, ioVars, subVars,
                   cstate, accepted, nread, responses>>

ClientSend(k) ==
    /\ cstate[k] = "connected"
    /\ nsent[k] < NReq
    /\ nsent' = [nsent EXCEPT ![k] = @ + 1]
    /\ UNCHANGED <<poolVars, stageVars, connVars, bufVars, ioVars, subVars,
                   cstate, accepted, nread, responses>>

\* The benchmark client closes once it has received every response.
ClientClose(k) ==
    /\ cstate[k] = "connected"
    /\ Len(responses[k]) = NReq
    /\ cstate' = [cstate EXCEPT ![k] = "hup"]
    /\ UNCHANGED <<poolVars, stageVars, connVars, bufVars, ioVars, subVars,
                   accepted, nsent, nread, responses>>

\* A peer that goes away early: a clean close, or a reset when responses
\* were left unread in its socket.
ClientAbort(k) ==
    /\ PeerMayAbort
    /\ cstate[k] = "connected"
    /\ Len(responses[k]) < NReq
    /\ \E s \in {"hup", "reset"} : cstate' = [cstate EXCEPT ![k] = s]
    /\ UNCHANGED <<poolVars, stageVars, connVars, bufVars, ioVars, subVars,
                   accepted, nsent, nread, responses>>

-----------------------------------------------------------------------------
IOStep ==
    \/ \E c \in Conns : IOWait(c)
    \/ IOOutPop \/ IOSendDone \/ IOSendBlocked \/ IOSendFail
    \/ IOOutLock \/ IOOutUnlock
    \/ IOInBorrow \/ IORecv \/ IORecvAgain \/ IORecvFail
    \/ IOInLock \/ IOInUnlock

SubmitStep ==
    \/ SubmitGet \/ SubmitRetry \/ SubmitLock
    \/ SubmitDispose \/ SubmitRelease \/ SubmitDeliver

PeerStep(k) ==
    ClientConnect(k) \/ ClientSend(k) \/ ClientClose(k) \/ ClientAbort(k)

\* Every peer has closed and the server has nothing left to do: the
\* threads keep polling without changing anything.
Quiescent ==
    /\ \A k \in Clients : cstate[k] \in {"hup", "reset"}
    /\ ~ENABLED (IOStep \/ Compute \/ SubmitStep \/ Accept)
    /\ UNCHANGED vars

Next ==
    \/ Accept
    \/ IOStep
    \/ Compute
    \/ SubmitStep
    \/ \E k \in Clients : PeerStep(k)
    \/ Quiescent

\* Every thread loops forever: weak fairness for each.  A response that
\* keeps meeting EAGAIN is eventually written because the peer keeps
\* reading (strong fairness on IOSendDone), and epoll reports every ready
\* connection (strong fairness on IOWait(c), enabled only between events).
\* The benchmark peers connect, write and close without being forced
\* (weak fairness); an abort is never forced.
Fairness ==
    /\ WF_vars(Accept)
    /\ WF_vars(IOStep)
    /\ SF_vars(IOSendDone)
    /\ \A c \in Conns : SF_vars(IOWait(c))
    /\ WF_vars(Compute)
    /\ WF_vars(SubmitStep)
    /\ \A k \in Clients : WF_vars(ClientConnect(k) \/ ClientSend(k) \/ ClientClose(k))

Spec == Init /\ [][Next]_vars
FairSpec == Spec /\ Fairness

-----------------------------------------------------------------------------
(* Properties                                                              *)

Count(s, P(_)) == Len(SelectSeq(s, P))

\* Buffers of c that are between the IO thread and the send queue: in
\* the compute or the submitter inbox, or held by the submitter.
InPipeline(c) ==
    Count(computeInbox, LAMBDA b : bufConn[b] = c)
    + Count(submitInbox, LAMBDA b : bufConn[b] = c)
    + (IF subBuf # NULL /\ subConn = c THEN 1 ELSE 0)

\* The places a buffer can be owned from: the pool, an inbox, a send
\* queue, or the recv/send pointer of a connection whose descriptor is
\* open.  (A closed connection's pointers are stale by design.)
Holders(b) ==
    Count(emptyBuffers, LAMBDA x : x = b)
    + Count(computeInbox, LAMBDA x : x = b)
    + Count(submitInbox, LAMBDA x : x = b)
    + (IF subBuf = b THEN 1 ELSE 0)
    + SumFunction([c \in Conns |-> Count(sendQueue[c], LAMBDA x : x = b)])
    + Cardinality({c \in Conns : fdOpen[c] /\ recvbuf[c] = b})
    + Cardinality({c \in Conns : fdOpen[c] /\ sendbuf[c] = b})

TypeOK ==
    /\ emptyConns \in Seq(Conns)
    /\ emptyBuffers \in Seq(Buffers)
    /\ computeInbox \in Seq(Buffers)
    /\ submitInbox \in Seq(Buffers)
    /\ fd \in [Conns -> Clients \cup {NULL}]
    /\ fdOpen \in [Conns -> BOOLEAN]
    /\ closed \in [Conns -> BOOLEAN]
    /\ locked \in [Conns -> BOOLEAN]
    /\ epollState \in [Conns -> SUBSET {EPOLLIN, EPOLLOUT}]
    /\ recvbuf \in [Conns -> Buffers \cup {NULL}]
    /\ sendbuf \in [Conns -> Buffers \cup {NULL}]
    /\ sendQueue \in [Conns -> Seq(Buffers)]
    /\ received \in [Conns -> Nat]
    /\ processed \in [Conns -> Nat]
    /\ sent \in [Conns -> Nat]
    /\ bufConn \in [Buffers -> Conns \cup {NULL}]
    /\ bufMsg \in [Buffers -> Msgs \cup {NULL}]
    /\ ioPc \in {"wait", "out", "outLock", "outCS", "in", "inLock", "inCS"}
    /\ ioConn \in Conns \cup {NULL}
    /\ ioIn \in BOOLEAN
    /\ subPc \in {"loop", "try", "cs", "check"}
    /\ subBuf \in Buffers \cup {NULL}
    /\ subConn \in Conns \cup {NULL}
    /\ cstate \in [Clients -> PeerStates]
    /\ accepted \in [Clients -> BOOLEAN]
    /\ nsent \in [Clients -> 0 .. NReq]
    /\ nread \in [Clients -> 0 .. NReq]
    /\ responses \in [Clients -> Seq(Msgs)]

\* Buffer ownership (a buffer is owned by one stage at a time): across
\* the IO, compute and submit threads and finish_connection, every buffer
\* is in exactly one place.  A release of a buffer that is still attached
\* or queued elsewhere, or a borrow that nothing will give back, breaks it.
BufferOwnedOnce == \A b \in Buffers : Holders(b) = 1

\* Per-connection accounting that the recycling tests rely on: for a
\* connection out of the pool, the requests received and not yet
\* processed are exactly its buffers in the compute and submit inboxes;
\* while its descriptor is open, the responses processed and not yet
\* counted as sent are exactly its send queue plus the attached sendbuf.
ConnAccounting ==
    \A c \in Conns :
        /\ fd[c] # NULL /\ ~InPool(c) =>
              received[c] = processed[c] + InPipeline(c)
        /\ fdOpen[c] =>
              processed[c] = sent[c] + Len(sendQueue[c])
                             + (IF sendbuf[c] # NULL THEN 1 ELSE 0)

\* A connection enters the empty pool (from finish_connection or from the
\* submitter's delegated cleanup) only when it is not already there and
\* no buffer of it is left in an inbox or its send queue.
RecycleOnlyWhenQuiescent ==
    [][\A c \in Conns :
         Count(emptyConns', LAMBDA x : x = c)
           > Count(emptyConns, LAMBDA x : x = c) =>
            /\ ~InPool(c)
            /\ InPipeline(c)' = 0
            /\ sendQueue'[c] = <<>>]_vars

\* Every response a peer receives answers one of its own requests, and
\* none twice.
ResponsesAreOwnRequests ==
    \A k \in Clients :
        /\ \A i \in 1 .. Len(responses[k]) : responses[k][i][1] = k
        /\ IsInjective(responses[k])

\* Responses reach the peer in request order (spec section 8, scenario A).
ResponsesInOrder ==
    \A k \in Clients :
        \A i \in 1 .. Len(responses[k]) : responses[k][i] = <<k, i>>

\* A peer that connects eventually receives all its responses.
EveryPeerServed ==
    \A k \in Clients : (cstate[k] = "connected") ~> (Len(responses[k]) = NReq)

\* A connection marked closed eventually returns to the empty pool.
ClosedConnRecycled ==
    \A c \in Conns : closed[c] ~> InPool(c)

\* No lost wake-up between the submitter arming EPOLLOUT and the IO
\* thread clearing it: while a connection is open and has a response
\* queued, EPOLLOUT is armed.
OutArmedWhilePending ==
    \A c \in Conns :
        fdOpen[c] /\ sendQueue[c] # <<>> => EPOLLOUT \in epollState[c]
\* No starvation on the buffer pool (io.c:68): handle_request skips a
\* connection when empty_buffers is empty and relies on epoll reporting
\* its EPOLLIN again once buffers come back.  A peer that stays connected
\* is served even when another peer aborts with buffers in flight: those
\* come back through finish_connection and the submitter's disposal.
ServedDespiteAborts ==
    \A k \in Clients :
        (cstate[k] = "connected")
            ~> (Len(responses[k]) = NReq \/ cstate[k] \in {"hup", "reset"})
====
