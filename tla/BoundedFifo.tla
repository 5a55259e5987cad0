---------------------------- MODULE BoundedFifo ----------------------------
(***************************************************************************)
(* What ringbuf.h promises its two users: a first-in first-out queue of at *)
(* most Cap items that refuses an item, and counts the refusal, only when  *)
(* it is full, and that answers "empty" only when it is empty.             *)
(***************************************************************************)
EXTENDS Naturals, Sequences

CONSTANTS Values,   \* the items
          NoItem,   \* what a consumer is left with when the queue is empty
          Cap,      \* capacity
          OvfMod    \* the overflow counter counts modulo OvfMod

VARIABLES queue,    \* the items accepted and not yet taken
          overflow, \* refusals since the queue was initialised
          got       \* the answer of the consumer's last call

fvars == <<queue, overflow, got>>

FInit == queue = <<>> /\ overflow = 0 /\ got = NoItem

Put(v) == /\ Len(queue) < Cap
          /\ queue' = Append(queue, v)
          /\ UNCHANGED <<overflow, got>>

Refuse == /\ Len(queue) = Cap
          /\ overflow' = (overflow + 1) % OvfMod
          /\ UNCHANGED <<queue, got>>

Take == /\ queue # <<>>
        /\ got' = Head(queue)
        /\ queue' = Tail(queue)
        /\ UNCHANGED overflow

TakeNothing == /\ queue = <<>>
               /\ got' = NoItem
               /\ UNCHANGED <<queue, overflow>>

FNext == (\E v \in Values : Put(v)) \/ Refuse \/ Take \/ TakeNothing

FSpec == FInit /\ [][FNext]_fvars
=============================================================================
