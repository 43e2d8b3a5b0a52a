----------------------------- MODULE MPSCQueue -----------------------------
(***************************************************************************)
(* The two-lock queue of include/queue.h with the spin locks of           *)
(* include/lock.h.  A queue_root holds head and tail pointers, a head     *)
(* lock, a tail lock and an embedded divider node.  queue_put links a     *)
(* node after tail under the tail lock; queue_get advances head under the *)
(* head lock, and when the node it took off is the divider it puts the    *)
(* divider back at the tail and tries again.                              *)
(*                                                                         *)
(* Producers put their items in order; consumers call queue_get in a loop *)
(* (compute_worker, __submitter_worker, the IO and accept threads on the  *)
(* pools).  Each step is one shared-memory access or lock operation.  A   *)
(* node's own next field, written while the node is in no queue, is       *)
(* written in the step that takes the tail lock.                          *)
(***************************************************************************)
EXTENDS Integers, Sequences, FiniteSets

CONSTANTS
    Producers,      \* threads that queue_put
    Consumers,      \* threads that queue_get
    NItems,         \* items each producer puts
    DIV,            \* &root->divider
    NULL,
    POISON,         \* QUEUE_POISON1
    NONE            \* queue_get returned NULL

ASSUME NItems \in Nat

Items == Producers \X (1 .. NItems)
Nodes == Items \cup {DIV}
Actors == Producers \cup Consumers

VARIABLES
    next,       \* node->next
    head,       \* root->head
    tail,       \* root->tail
    headLock,   \* root->head_lock
    tailLock,   \* root->tail_lock
    pc,         \* where each thread is
    pending,    \* per producer, the items it has still to put
    cHead,      \* per consumer, its local head in queue_get
    res         \* per consumer, what its last queue_get returned

vars == <<next, head, tail, headLock, tailLock, pc, pending, cHead, res>>

Batch == [p \in Producers |-> [i \in 1 .. NItems |-> <<p, i>>]]

\* The node a thread is putting: a producer's next item, or the divider a
\* consumer puts back.
PutNode(a) == IF a \in Consumers THEN DIV ELSE Head(pending[a])

\* init_queue_root: head and tail at the divider, divider.next NULL, both
\* locks free.
Init ==
    /\ next = [n \in Nodes |-> NULL]
    /\ head = DIV
    /\ tail = DIV
    /\ headLock = FALSE
    /\ tailLock = FALSE
    /\ pc = [a \in Actors |->
               IF a \in Consumers THEN "idle"
               ELSE IF NItems > 0 THEN "plock" ELSE "done"]
    /\ pending = Batch
    /\ cHead = [c \in Consumers |-> NULL]
    /\ res = [c \in Consumers |-> NONE]

-----------------------------------------------------------------------------
(* queue_put                                                               *)

\* Mutant: the tail lock is not waited for.
PutLockNoWait(a) ==
    /\ pc[a] = "plock"
    /\ tailLock' = TRUE
    /\ next' = [next EXCEPT ![PutNode(a)] = NULL]
    /\ pc' = [pc EXCEPT ![a] = "plink"]
    /\ UNCHANGED <<head, tail, headLock, pending, cHead, res>>

\* new_->next = NULL, then lock(&root->tail_lock): spins until free.
PutLock(a) ==
    /\ pc[a] = "plock"
    /\ ~tailLock
    /\ tailLock' = TRUE
    /\ next' = [next EXCEPT ![PutNode(a)] = NULL]
    /\ pc' = [pc EXCEPT ![a] = "plink"]
    /\ UNCHANGED <<head, tail, headLock, pending, cHead, res>>

\* root->tail->next = new_
PutLink(a) ==
    /\ pc[a] = "plink"
    /\ next' = [next EXCEPT ![tail] = PutNode(a)]
    /\ pc' = [pc EXCEPT ![a] = "pswing"]
    /\ UNCHANGED <<head, tail, headLock, tailLock, pending, cHead, res>>

\* root->tail = new_
PutSwing(a) ==
    /\ pc[a] = "pswing"
    /\ tail' = PutNode(a)
    /\ pc' = [pc EXCEPT ![a] = "punlock"]
    /\ UNCHANGED <<next, head, headLock, tailLock, pending, cHead, res>>

\* unlock(&root->tail_lock).  A producer goes on to its next item; a
\* consumer that put the divider back continues its queue_get loop.
PutUnlock(a) ==
    /\ pc[a] = "punlock"
    /\ tailLock' = FALSE
    /\ IF a \in Consumers
       THEN /\ pc' = [pc EXCEPT ![a] = "glock"]
            /\ UNCHANGED pending
       ELSE /\ pending' = [pending EXCEPT ![a] = Tail(@)]
            /\ pc' = [pc EXCEPT ![a] = IF Len(pending[a]) > 1 THEN "plock"
                                                                ELSE "done"]
    /\ UNCHANGED <<next, head, tail, headLock, cHead, res>>

-----------------------------------------------------------------------------
(* queue_get                                                               *)

\* The caller's loop calls queue_get again.
GetBegin(c) ==
    /\ pc[c] = "idle"
    /\ pc' = [pc EXCEPT ![c] = "glock"]
    /\ UNCHANGED <<next, head, tail, headLock, tailLock, pending, cHead, res>>

\* lock(&root->head_lock): spins until free.
GetLock(c) ==
    /\ pc[c] = "glock"
    /\ ~headLock
    /\ headLock' = TRUE
    /\ pc' = [pc EXCEPT ![c] = "gread"]
    /\ UNCHANGED <<next, head, tail, tailLock, pending, cHead, res>>

\* head = root->head; next = head->next.  NULL: unlock and return NULL;
\* otherwise root->head = next.
GetRead(c) ==
    /\ pc[c] = "gread"
    /\ cHead' = [cHead EXCEPT ![c] = head]
    /\ IF next[head] = NULL
       THEN /\ headLock' = FALSE
            /\ res' = [res EXCEPT ![c] = NONE]
            /\ pc' = [pc EXCEPT ![c] = "idle"]
            /\ UNCHANGED head
       ELSE /\ head' = next[head]
            /\ pc' = [pc EXCEPT ![c] = "gunlock"]
            /\ UNCHANGED <<headLock, res>>
    /\ UNCHANGED <<next, tail, tailLock, pending>>

\* Mutant: the divider test is missing; the divider is returned as an item.
GetUnlockNoDividerTest(c) ==
    /\ pc[c] = "gunlock"
    /\ headLock' = FALSE
    /\ pc' = [pc EXCEPT ![c] = "gpoison"]
    /\ UNCHANGED <<next, head, tail, tailLock, pending, cHead, res>>

\* Mutant: the divider taken off the head is not put back.
GetUnlockDropsDivider(c) ==
    /\ pc[c] = "gunlock"
    /\ headLock' = FALSE
    /\ pc' = [pc EXCEPT ![c] = IF cHead[c] = DIV THEN "glock" ELSE "gpoison"]
    /\ UNCHANGED <<next, head, tail, tailLock, pending, cHead, res>>

\* unlock(&root->head_lock); the divider is put back (queue_put, then
\* continue), any other node is returned.
GetUnlock(c) ==
    /\ pc[c] = "gunlock"
    /\ headLock' = FALSE
    /\ pc' = [pc EXCEPT ![c] = IF cHead[c] = DIV THEN "plock" ELSE "gpoison"]
    /\ UNCHANGED <<next, head, tail, tailLock, pending, cHead, res>>

\* head->next = QUEUE_POISON1; return head.
GetPoison(c) ==
    /\ pc[c] = "gpoison"
    /\ next' = [next EXCEPT ![cHead[c]] = POISON]
    /\ res' = [res EXCEPT ![c] = cHead[c]]
    /\ pc' = [pc EXCEPT ![c] = "idle"]
    /\ UNCHANGED <<head, tail, headLock, tailLock, pending, cHead>>

-----------------------------------------------------------------------------
PutStep(a) == PutLock(a) \/ PutLink(a) \/ PutSwing(a) \/ PutUnlock(a)

GetStep(c) == GetBegin(c) \/ GetLock(c) \/ GetRead(c) \/ GetUnlock(c)
              \/ GetPoison(c)

Next ==
    \/ \E a \in Actors : PutStep(a)
    \/ \E c \in Consumers : GetStep(c)

\* Every thread keeps running.  The lock steps are enabled only while the
\* lock is free, which another thread's spin can keep changing: strong
\* fairness for them, weak fairness for the other steps.
Fairness ==
    \A a \in Actors :
        /\ SF_vars(PutLock(a))
        /\ WF_vars(PutLink(a) \/ PutSwing(a) \/ PutUnlock(a))
        /\ a \in Consumers =>
              /\ SF_vars(GetLock(a))
              /\ WF_vars(GetBegin(a) \/ GetRead(a) \/ GetUnlock(a)
                         \/ GetPoison(a))

Spec == Init /\ [][Next]_vars
FairSpec == Spec /\ Fairness

-----------------------------------------------------------------------------
(* Refinement mapping to FifoQueue                                         *)

\* The nodes reachable from root->head, in list order.
RECURSIVE Walk(_, _)
Walk(n, fuel) ==
    IF fuel = 0 \/ next[n] \notin Nodes THEN <<n>>
    ELSE <<n>> \o Walk(next[n], fuel - 1)

\* The queue's items: the list from root->head without the divider.  A
\* put takes effect when it links its node (PutLink), a get when it moves
\* root->head past an item (GetRead).
AbsQ == SelectSeq(Walk(head, Cardinality(Nodes)), LAMBDA n : n # DIV)

\* A get that has moved root->head past an item has, abstractly, returned.
Returned(c) == pc[c] \in {"gunlock", "gpoison"} /\ cHead[c] # DIV

AbsToPut == [p \in Producers |->
               IF pc[p] \in {"pswing", "punlock"} THEN Tail(pending[p])
               ELSE pending[p]]
AbsBusy == [c \in Consumers |-> pc[c] # "idle" /\ ~Returned(c)]
AbsRes == [c \in Consumers |-> IF Returned(c) THEN cHead[c] ELSE res[c]]

Fifo == INSTANCE FifoQueue
          WITH q <- AbsQ, toPut <- AbsToPut, busy <- AbsBusy, res <- AbsRes

-----------------------------------------------------------------------------
(* Properties                                                              *)

TypeOK ==
    /\ next \in [Nodes -> Nodes \cup {NULL, POISON}]
    /\ head \in Nodes
    /\ tail \in Nodes
    /\ headLock \in BOOLEAN
    /\ tailLock \in BOOLEAN
    /\ pc \in [Actors -> {"idle", "glock", "gread", "gunlock", "gpoison",
                          "plock", "plink", "pswing", "punlock", "done"}]
    /\ pending \in [Producers -> Seq(Items)]
    /\ cHead \in [Consumers -> Nodes \cup {NULL}]
    /\ res \in [Consumers -> Items \cup {NONE}]

\* The queue is linearizable to a FIFO queue (spec section 4.1: "get pops
\* the oldest item or signals empty", and the first property of spec
\* section 8): every queue_put and queue_get takes effect at one step
\* between its call and its return, every item put is returned by exactly
\* one get in the order of the puts, and a get returns NULL only when no
\* item is in the queue or another thread is inside queue_get (the window
\* in which queue_get has taken the divider out and not yet put it back).
QueueRefinement == Fifo!Spec

\* Every item put is eventually returned by a get: the queue drains, the
\* divider being put back after each pass of a get over it.
Drained ==
    <>[](/\ \A p \in Producers : pending[p] = <<>>
         /\ AbsQ = <<>>)
====
