------------------------------ MODULE RingBuf ------------------------------
(***************************************************************************)
(* The single-producer single-consumer ring buffer of core/ringbuf.c, one  *)
(* step per access to shared memory.  Three threads use a ring: the        *)
(* producer (rb_push), the consumer (rb_pop), and the metrics thread,      *)
(* which only calls rb_size.                                               *)
(*                                                                         *)
(*  - head and tail are size_t: they count modulo CtrMod (2^64 in the      *)
(*    build) and are never reduced modulo the capacity.                    *)
(*  - A memcpy of a slot is not atomic: it opens and closes a window, and  *)
(*    while the producer's window is open the slot holds no whole item.    *)
(*  - The relaxed load of the thread's own counter is merged with the      *)
(*    acquire load of the other one: no other thread writes the former.    *)
(***************************************************************************)
EXTENDS Integers, Sequences

CONSTANTS Values,   \* items a producer may push
          NoItem,   \* bytes that are no whole item: calloc's zeros, a torn copy
          Cap,      \* rb->capacity
          CtrMod,   \* size_t counters wrap at CtrMod
          OvfMod    \* the uint64_t overflow counter wraps at OvfMod

ASSUME CapAssumption    == Cap \in Nat \ {0}
ASSUME CtrModAssumption == CtrMod \in Nat /\ \E k \in 2 .. CtrMod : CtrMod = k * Cap
ASSUME OvfModAssumption == OvfMod \in Nat \ {0}
ASSUME NoItemAssumption == NoItem \notin Values

VARIABLES
  head, tail, overflow, slots,  \* ringbuf_t, shared
  ppc, item, phead,             \* rb_push: where it is, its argument, its local head
  cpc, ctail, buf, got,         \* rb_pop: where it is, its local tail, *out, its answer
  opc, ohead, osize             \* rb_size: where it is, its local head, its answer

shared   == <<head, tail, overflow, slots>>
producer == <<ppc, item, phead>>
consumer == <<cpc, ctail, buf, got>>
observer == <<opc, ohead, osize>>
vars     == <<shared, producer, consumer, observer>>

\* Two bugs for mutation runs, as those further down.
MutIncNoWrap(x) == x + 1
MutSlotShortMask(x) == x % (Cap - 1)

Sub(a, b) == (a - b) % CtrMod      \* unsigned subtraction of size_t
Inc(x)    == (x + 1) % CtrMod
Slot(x)   == x % Cap               \* x & rb->mask, the capacity a power of two

Occupancy == Sub(head, tail)

(***************************************************************************)
(* Bugs that mutation runs plant in the definitions below.                 *)
(***************************************************************************)
MutPushRoomOffByOne(v) ==
  /\ ppc = "idle"
  /\ Sub(head, tail) <= Cap
  /\ item' = v /\ phead' = head
  /\ ppc' = "room"
  /\ UNCHANGED <<shared, consumer, observer>>

MutPushRoomPublishFirst(v) ==
  /\ ppc = "idle"
  /\ Sub(head, tail) < Cap
  /\ item' = v /\ phead' = head
  /\ head' = Inc(head)
  /\ ppc' = "room"
  /\ UNCHANGED <<tail, overflow, slots, consumer, observer>>

(***************************************************************************)
(* rb_init: counters at zero, slots zeroed by calloc.                      *)
(***************************************************************************)
Init ==
  /\ head = 0 /\ tail = 0 /\ overflow = 0
  /\ slots = [i \in 0 .. Cap - 1 |-> NoItem]
  /\ ppc = "idle" /\ item = NoItem /\ phead = 0
  /\ cpc = "idle" /\ ctail = 0 /\ buf = NoItem /\ got = NoItem
  /\ opc = "idle" /\ ohead = 0 /\ osize = 0

(***************************************************************************)
(* rb_push, called by the one producer.                                    *)
(***************************************************************************)
PushRoom(v) ==                     \* loads of head and tail; there is room
  /\ ppc = "idle"
  /\ Sub(head, tail) < Cap
  /\ item' = v /\ phead' = head
  /\ ppc' = "room"
  /\ UNCHANGED <<shared, consumer, observer>>

PushFull(v) ==                     \* loads of head and tail; the ring is full
  /\ ppc = "idle"
  /\ Sub(head, tail) >= Cap
  /\ item' = v /\ phead' = head
  /\ ppc' = "full"
  /\ UNCHANGED <<shared, consumer, observer>>

PushOverflow ==                    \* fetch_add of overflow_count; return -1
  /\ ppc = "full"
  /\ overflow' = (overflow + 1) % OvfMod
  /\ ppc' = "idle"
  /\ UNCHANGED <<head, tail, slots, item, phead, consumer, observer>>

PushCopyBegin ==                   \* memcpy into the slot starts
  /\ ppc = "room"
  /\ slots' = [slots EXCEPT ![Slot(phead)] = NoItem]
  /\ ppc' = "copying"
  /\ UNCHANGED <<head, tail, overflow, item, phead, consumer, observer>>

PushCopyEnd ==                     \* memcpy into the slot is complete
  /\ ppc = "copying"
  /\ slots' = [slots EXCEPT ![Slot(phead)] = item]
  /\ ppc' = "copied"
  /\ UNCHANGED <<head, tail, overflow, item, phead, consumer, observer>>

PushStore ==                       \* release store of head + 1; return 0
  /\ ppc = "copied"
  /\ head' = Inc(phead)
  /\ ppc' = "idle"
  /\ UNCHANGED <<tail, overflow, slots, item, phead, consumer, observer>>

(***************************************************************************)
(* rb_pop, called by the one consumer.                                     *)
(***************************************************************************)
PopEmpty ==                        \* loads of tail and head; nothing to read
  /\ cpc = "idle"
  /\ tail = head
  /\ ctail' = tail
  /\ got' = NoItem
  /\ UNCHANGED <<shared, cpc, buf, producer, observer>>

PopSome ==                         \* loads of tail and head; an item is there
  /\ cpc = "idle"
  /\ tail # head
  /\ ctail' = tail
  /\ cpc' = "copying"
  /\ UNCHANGED <<shared, buf, got, producer, observer>>

PopCopyEnd ==                      \* memcpy out of the slot is complete
  /\ cpc = "copying"
  /\ buf' = slots[Slot(ctail)]
  /\ cpc' = "copied"
  /\ UNCHANGED <<shared, ctail, got, producer, observer>>

PopStore ==                        \* release store of tail + 1; return 0
  /\ cpc = "copied"
  /\ tail' = Inc(ctail)
  /\ got' = buf
  /\ cpc' = "idle"
  /\ UNCHANGED <<head, overflow, slots, ctail, buf, producer, observer>>

(***************************************************************************)
(* rb_size, called by the metrics thread: head first, tail second.         *)
(***************************************************************************)
SizeLoadHead ==
  /\ opc = "idle"
  /\ ohead' = head
  /\ opc' = "tail"
  /\ UNCHANGED <<shared, producer, consumer, osize>>

SizeLoadTail ==
  /\ opc = "tail"
  /\ osize' = Sub(ohead, tail)
  /\ opc' = "idle"
  /\ UNCHANGED <<shared, producer, consumer, ohead>>

Push == \/ \E v \in Values : PushRoom(v) \/ PushFull(v)
        \/ PushOverflow \/ PushCopyBegin \/ PushCopyEnd \/ PushStore

Pop  == PopEmpty \/ PopSome \/ PopCopyEnd \/ PopStore

Size == SizeLoadHead \/ SizeLoadTail

Next == Push \/ Pop \/ Size

Spec == Init /\ [][Next]_vars

(***************************************************************************)
(* Properties.                                                             *)
(***************************************************************************)
\* Every counter stays within its width and every slot holds a value.
TypeOK ==
  /\ head \in 0 .. CtrMod - 1 /\ tail \in 0 .. CtrMod - 1
  /\ overflow \in 0 .. OvfMod - 1
  /\ slots \in [0 .. Cap - 1 -> Values \cup {NoItem}]
  /\ ppc \in {"idle", "room", "full", "copying", "copied"}
  /\ item \in Values \cup {NoItem} /\ phead \in 0 .. CtrMod - 1
  /\ cpc \in {"idle", "copying", "copied"}
  /\ ctail \in 0 .. CtrMod - 1
  /\ buf \in Values \cup {NoItem} /\ got \in Values \cup {NoItem}
  /\ opc \in {"idle", "tail"}
  /\ ohead \in 0 .. CtrMod - 1 /\ osize \in 0 .. CtrMod - 1

\* rb_push and rb_pop are never inside the same slot at the same time: the
\* plain memcpy of one side is no data race with that of the other, although
\* neither side takes a lock.
NoSlotRace ==
  ppc = "copying" /\ cpc = "copying" => Slot(phead) # Slot(ctail)

\* Every slot between tail and head, as any thread may see them at any moment,
\* holds a whole item: head is published only after the copy is complete, and
\* a full ring is never overwritten, at the wrap of the counters too.
PublishedWhole ==
  /\ Occupancy <= Cap
  /\ \A i \in 0 .. Occupancy - 1 : slots[Slot(tail + i)] \in Values

\* What the two sides know of each other between their steps: each works from
\* its own counter, the producer's slot stays free and the consumer's taken
\* whatever the other side does meanwhile.
Handshake ==
  /\ ppc # "idle" => phead = head
  /\ ppc \in {"room", "copying", "copied"} => Occupancy < Cap /\ item \in Values
  /\ ppc = "copied" => slots[Slot(phead)] = item
  /\ cpc # "idle" => ctail = tail /\ Occupancy > 0
  /\ cpc = "copied" => buf = slots[Slot(ctail)]

\* The inductive invariant of the ring.
IInv == TypeOK /\ PublishedWhole /\ Handshake

\* The items of the ring, oldest first.
Contents == [i \in 1 .. Occupancy |-> slots[Slot(tail + i - 1)]]

\* A refused push counts as refused from the moment it saw the ring full: when
\* overflow_count is incremented the consumer may already have made room.
RefusalsSoFar == IF ppc = "full" THEN (overflow + 1) % OvfMod ELSE overflow

Fifo == INSTANCE BoundedFifo WITH queue <- Contents, overflow <- RefusalsSoFar

\* The ring implements the bounded queue of ringbuf.h: items come out whole, in
\* the order they went in, once each; rb_push answers -1 (and counts it) only
\* if the ring was full when it looked, rb_pop only if it was empty.
ImplementsFifo == Fifo!FSpec
=============================================================================
