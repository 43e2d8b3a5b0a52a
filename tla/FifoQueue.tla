----------------------------- MODULE FifoQueue -----------------------------
(***************************************************************************)
(* What a queue of include/queue.h promises its users (spec section 4.1): *)
(* put appends an item; a get either pops the oldest item or, when the    *)
(* queue holds none, signals empty.  Each operation takes effect at one   *)
(* instant between its call and its return (busy[c] marks a get under     *)
(* way), so an item is returned by exactly one get, and items leave in    *)
(* the order they were put.                                                *)
(*                                                                         *)
(* A get signals empty only at an instant the queue holds no item, or    *)
(* while another consumer's get is under way (a get that has moved the   *)
(* head past the divider puts it back before it returns, and a get       *)
(* meanwhile may see no next node).  With one consumer this is exactly   *)
(* "signals empty only when empty".                                       *)
(***************************************************************************)
EXTENDS Sequences

CONSTANTS
    Producers,
    Consumers,
    Batch,   \* per producer, the items it puts, in order
    NONE

VARIABLES
    q,       \* the items in the queue, oldest first
    toPut,   \* per producer, the items it has still to put, in order
    busy,    \* per consumer, a get has been called and has not returned
    res      \* per consumer, the result of its last get (NONE: empty)

vars == <<q, toPut, busy, res>>

Init ==
    /\ q = <<>>
    /\ toPut = Batch
    /\ busy = [c \in Consumers |-> FALSE]
    /\ res = [c \in Consumers |-> NONE]

Put(p) ==
    /\ toPut[p] # <<>>
    /\ q' = Append(q, Head(toPut[p]))
    /\ toPut' = [toPut EXCEPT ![p] = Tail(@)]
    /\ UNCHANGED <<busy, res>>

BeginGet(c) ==
    /\ ~busy[c]
    /\ busy' = [busy EXCEPT ![c] = TRUE]
    /\ UNCHANGED <<q, toPut, res>>

GetItem(c) ==
    /\ busy[c]
    /\ q # <<>>
    /\ res' = [res EXCEPT ![c] = Head(q)]
    /\ q' = Tail(q)
    /\ busy' = [busy EXCEPT ![c] = FALSE]
    /\ UNCHANGED toPut

GetEmpty(c) ==
    /\ busy[c]
    /\ q = <<>> \/ \E d \in Consumers \ {c} : busy[d]
    /\ res' = [res EXCEPT ![c] = NONE]
    /\ busy' = [busy EXCEPT ![c] = FALSE]
    /\ UNCHANGED <<q, toPut>>

Next ==
    \/ \E p \in Producers : Put(p)
    \/ \E c \in Consumers : BeginGet(c) \/ GetItem(c) \/ GetEmpty(c)

Spec == Init /\ [][Next]_vars
====
