--------------------------- MODULE RingBufProofs ---------------------------
(***************************************************************************)
(* The ring buffer is correct for every capacity, every counter width that *)
(* is a multiple of it, and every set of items.                            *)
(***************************************************************************)
EXTENDS RingBuf, SequenceTheorems, TLAPS

(***************************************************************************)
(* Arithmetic of the wrapping counters.                                    *)
(***************************************************************************)
\* The constants are positive and the counters wrap at a multiple of Cap.
LEMMA Constants ==
  /\ Cap \in Nat /\ Cap >= 1 /\ CtrMod \in Nat /\ CtrMod >= 2 * Cap
  /\ \E k \in Nat : CtrMod = k * Cap
<1>1. Cap \in Nat /\ Cap >= 1
  BY CapAssumption
<1>2. PICK k \in 2 .. CtrMod : CtrMod = k * Cap
  BY CtrModAssumption
<1>3. k * Cap >= 2 * Cap
  BY <1>1, <1>2, CtrModAssumption
<1> QED BY <1>1, <1>2, <1>3, CtrModAssumption

\* Remainders modulo a positive number: a quotient exists.
LEMMA Division ==
  ASSUME NEW a \in Int, NEW m \in Nat, m >= 1
  PROVE  /\ a % m \in 0 .. m - 1
         /\ \E q \in Int : a = q * m + (a % m)
<1>1. a % m \in 0 .. m - 1
  OBVIOUS
<1>2. a \div m \in Int /\ a = m * (a \div m) + (a % m)
  OBVIOUS
<1>3. m * (a \div m) = (a \div m) * m
  BY <1>2
<1> QED BY <1>1, <1>2, <1>3

\* A quotient and a remainder in range determine the remainder.
LEMMA DivisionUnique ==
  ASSUME NEW a \in Int, NEW m \in Nat, m >= 1, NEW q \in Int, NEW r \in 0 .. m - 1,
         a = q * m + r
  PROVE  a % m = r
<1>1. PICK p \in Int : a = p * m + (a % m)
  BY Division
<1>2. a % m \in 0 .. m - 1
  BY Division
<1>3. (p - q) * m = r - (a % m)
  BY <1>1, <1>2
<1>4. p - q = 0
  <2>1. CASE p - q >= 1
    <3>1. (p - q) * m >= m  BY <2>1
    <3> QED BY <3>1, <1>2, <1>3
  <2>2. CASE p - q <= -1
    <3>1. (p - q) * m <= -m  BY <2>2
    <3> QED BY <3>1, <1>2, <1>3
  <2> QED BY <2>1, <2>2
<1> QED BY <1>1, <1>2, <1>3, <1>4

\* Unsigned subtraction of two counters.
LEMMA SubValue ==
  ASSUME NEW a \in 0 .. CtrMod - 1, NEW b \in 0 .. CtrMod - 1
  PROVE  Sub(a, b) = IF a >= b THEN a - b ELSE a - b + CtrMod
<1>1. CASE a >= b
  <2>1. a - b = 0 * CtrMod + (a - b) /\ a - b \in 0 .. CtrMod - 1
    BY <1>1, Constants
  <2> QED BY <1>1, <2>1, Constants, DivisionUnique DEF Sub
<1>2. CASE a < b
  <2>1. a - b = (-1) * CtrMod + (a - b + CtrMod) /\ a - b + CtrMod \in 0 .. CtrMod - 1
    BY <1>2, Constants
  <2> QED BY <1>2, <2>1, Constants, DivisionUnique DEF Sub
<1> QED BY <1>1, <1>2, Constants

\* Increment of a counter.
LEMMA IncValue ==
  ASSUME NEW x \in 0 .. CtrMod - 1
  PROVE  Inc(x) = IF x = CtrMod - 1 THEN 0 ELSE x + 1
<1>1. CASE x = CtrMod - 1
  <2>1. x + 1 = 1 * CtrMod + 0 /\ 0 \in 0 .. CtrMod - 1
    BY <1>1, Constants
  <2> QED BY <1>1, <2>1, Constants, DivisionUnique DEF Inc
<1>2. CASE x # CtrMod - 1
  <2>1. x + 1 = 0 * CtrMod + (x + 1) /\ x + 1 \in 0 .. CtrMod - 1
    BY <1>2, Constants
  <2> QED BY <1>2, <2>1, Constants, DivisionUnique DEF Inc
<1> QED BY <1>1, <1>2

\* A slot index is in range, and a remainder.
LEMMA SlotRange ==
  ASSUME NEW x \in Nat
  PROVE  /\ Slot(x) \in 0 .. Cap - 1
         /\ \E q \in Int : x = q * Cap + Slot(x)
<1>1. x \in Int /\ Cap \in Nat /\ Cap >= 1
  BY CapAssumption
<1>2. /\ x % Cap \in 0 .. Cap - 1
      /\ \E q \in Int : x = q * Cap + (x % Cap)
  BY ONLY <1>1, Division
<1> QED BY <1>2 DEF Slot

\* Counters less than a capacity apart name different slots.
LEMMA SlotDistinct ==
  ASSUME NEW x \in Nat, NEW d \in 1 .. Cap - 1
  PROVE  Slot(x + d) # Slot(x)
<1> SUFFICES ASSUME Slot(x + d) = Slot(x) PROVE FALSE
  OBVIOUS
<1>0. x + d \in Nat
  BY Constants
<1>1. PICK p \in Int : x = p * Cap + Slot(x)
  BY SlotRange
<1>2. PICK q \in Int : x + d = q * Cap + Slot(x + d)
  BY <1>0, SlotRange
<1>3. Slot(x) \in Int
  BY SlotRange
<1>4. d = (q - p) * Cap
  BY <1>1, <1>2, <1>3, Constants
<1>5. CASE q - p >= 1
  <2>1. (q - p) * Cap >= Cap  BY <1>5, Constants
  <2> QED BY <2>1, <1>4, Constants
<1>6. CASE q - p <= 0
  <2>1. (q - p) * Cap <= 0  BY <1>6, Constants
  <2> QED BY <2>1, <1>4, Constants
<1> QED BY <1>5, <1>6

\* The wrap of a counter does not move its slot.
LEMMA SlotWrap ==
  ASSUME NEW x \in Nat
  PROVE  Slot(x + CtrMod) = Slot(x)
<1>1. PICK k \in Nat : CtrMod = k * Cap
  BY Constants
<1>2. PICK p \in Int : x = p * Cap + Slot(x)
  BY SlotRange
<1>3. Slot(x) \in 0 .. Cap - 1 /\ Cap \in Nat /\ Cap >= 1
  BY SlotRange, CapAssumption
<1>4. x + CtrMod = (p + k) * Cap + Slot(x)
  BY <1>1, <1>2, <1>3
<1>5. x + CtrMod \in Int /\ p + k \in Int
  BY <1>1
<1>6. (x + CtrMod) % Cap = Slot(x)
  BY ONLY <1>3, <1>4, <1>5, DivisionUnique
<1> QED BY <1>6 DEF Slot

\* Publishing an item adds one to the occupancy.
LEMMA OccupancyPush ==
  ASSUME NEW h \in 0 .. CtrMod - 1, NEW t \in 0 .. CtrMod - 1, Sub(h, t) < Cap
  PROVE  Inc(h) \in 0 .. CtrMod - 1 /\ Sub(Inc(h), t) = Sub(h, t) + 1
<1>1. Inc(h) = IF h = CtrMod - 1 THEN 0 ELSE h + 1
  BY IncValue
<1>2. Inc(h) \in 0 .. CtrMod - 1
  BY <1>1, Constants
<1>3. Sub(h, t) = IF h >= t THEN h - t ELSE h - t + CtrMod
  BY SubValue
<1>4. Sub(Inc(h), t) = IF Inc(h) >= t THEN Inc(h) - t ELSE Inc(h) - t + CtrMod
  BY <1>2, SubValue
<1> QED BY <1>1, <1>2, <1>3, <1>4, Constants

\* Releasing a slot takes one from the occupancy.
LEMMA OccupancyPop ==
  ASSUME NEW h \in 0 .. CtrMod - 1, NEW t \in 0 .. CtrMod - 1, Sub(h, t) > 0
  PROVE  Inc(t) \in 0 .. CtrMod - 1 /\ Sub(h, Inc(t)) = Sub(h, t) - 1
<1>1. Inc(t) = IF t = CtrMod - 1 THEN 0 ELSE t + 1
  BY IncValue
<1>2. Inc(t) \in 0 .. CtrMod - 1
  BY <1>1, Constants
<1>3. Sub(h, t) = IF h >= t THEN h - t ELSE h - t + CtrMod
  BY SubValue
<1>4. Sub(h, Inc(t)) = IF h >= Inc(t) THEN h - Inc(t) ELSE h - Inc(t) + CtrMod
  BY <1>2, SubValue
<1> QED BY <1>1, <1>2, <1>3, <1>4, Constants

\* Occupancies are counts.
LEMMA OccupancyRange ==
  ASSUME NEW h \in 0 .. CtrMod - 1, NEW t \in 0 .. CtrMod - 1
  PROVE  Sub(h, t) \in 0 .. CtrMod - 1 /\ (Sub(h, t) = 0 <=> h = t)
BY SubValue, Constants

\* The slot of head is the one after the last occupied slot.
LEMMA HeadSlot ==
  ASSUME NEW h \in 0 .. CtrMod - 1, NEW t \in 0 .. CtrMod - 1
  PROVE  Slot(t + Sub(h, t)) = Slot(h)
<1>1. CASE h >= t
  <2>1. t + Sub(h, t) = h
    BY <1>1, SubValue, Constants
  <2> QED BY <2>1
<1>2. CASE h < t
  <2>1. t + Sub(h, t) = h + CtrMod
    BY <1>2, SubValue, Constants
  <2> QED BY <2>1, SlotWrap
<1> QED BY <1>1, <1>2, Constants

\* Advancing tail by one shifts the slots by one, at the wrap too.
LEMMA TailSlot ==
  ASSUME NEW t \in 0 .. CtrMod - 1, NEW i \in Nat
  PROVE  Slot(Inc(t) + i) = Slot(t + (i + 1))
<1>1. CASE t = CtrMod - 1
  <2>1. Inc(t) + i = i /\ t + (i + 1) = i + CtrMod
    BY <1>1, IncValue, Constants
  <2> QED BY <2>1, SlotWrap
<1>2. CASE t # CtrMod - 1
  <2>1. Inc(t) + i = t + (i + 1)
    BY <1>2, IncValue, Constants
  <2> QED BY <2>1
<1> QED BY <1>1, <1>2

\* The slot the producer fills is none of the occupied ones.
LEMMA HeadSlotFree ==
  ASSUME NEW h \in 0 .. CtrMod - 1, NEW t \in 0 .. CtrMod - 1, Sub(h, t) < Cap,
         NEW i \in 0 .. Sub(h, t) - 1
  PROVE  Slot(h) # Slot(t + i)
<1>1. Sub(h, t) \in 0 .. CtrMod - 1
  BY OccupancyRange
<1> DEFINE d == Sub(h, t) - i
<1>2. d \in 1 .. Cap - 1 /\ t + i \in Nat /\ (t + i) + d = t + Sub(h, t)
  BY <1>1, Constants
<1> HIDE DEF d
<1>3. Slot((t + i) + d) # Slot(t + i)
  BY <1>2, SlotDistinct
<1> QED BY <1>2, <1>3, HeadSlot

(***************************************************************************)
(* The inductive invariant.                                                *)
(***************************************************************************)
\* rb_init establishes the invariant.
LEMMA InitIInv == Init => IInv
<1> SUFFICES ASSUME Init PROVE IInv
  OBVIOUS
<1>1. 0 \in 0 .. CtrMod - 1 /\ 0 \in 0 .. OvfMod - 1
  BY Constants, OvfModAssumption
<1>2. TypeOK
  BY <1>1 DEF Init, TypeOK
<1>3. Occupancy = 0
  BY <1>1, OccupancyRange DEF Init, Occupancy
<1>4. PublishedWhole
  BY <1>3, Constants DEF PublishedWhole
<1>5. Handshake
  BY DEF Init, Handshake
<1> QED BY <1>2, <1>4, <1>5 DEF IInv

\* Every step preserves the invariant: one case per step of the three calls.
LEMMA NextIInv == IInv /\ [Next]_vars => IInv'
<1> SUFFICES ASSUME IInv, [Next]_vars PROVE IInv'
  OBVIOUS
<1> USE DEF IInv
<1>1. /\ head \in 0 .. CtrMod - 1 /\ tail \in 0 .. CtrMod - 1
      /\ Cap \in Nat /\ Cap >= 1 /\ CtrMod \in Nat
      /\ Occupancy \in Nat /\ Occupancy <= Cap
      /\ Occupancy = 0 <=> head = tail
  BY Constants, OccupancyRange DEF TypeOK, Occupancy, PublishedWhole
<1>2. Slot(head) \in 0 .. Cap - 1
  BY <1>1, SlotRange
<1>a. ASSUME NEW v \in Values, PushRoom(v) PROVE IInv'
  <2>1. TypeOK'
    BY <1>a DEF PushRoom, TypeOK, shared, consumer, observer
  <2>2. PublishedWhole' /\ Occupancy' = Occupancy
    BY <1>a DEF PushRoom, PublishedWhole, Occupancy, shared
  <2>3. Handshake'
    BY <1>a, <2>2 DEF PushRoom, Handshake, Occupancy, shared, consumer
  <2> QED BY <2>1, <2>2, <2>3
<1>b. ASSUME NEW v \in Values, PushFull(v) PROVE IInv'
  <2>1. TypeOK'
    BY <1>b DEF PushFull, TypeOK, shared, consumer, observer
  <2>2. PublishedWhole' /\ Occupancy' = Occupancy
    BY <1>b DEF PushFull, PublishedWhole, Occupancy, shared
  <2>3. Handshake'
    BY <1>b, <2>2 DEF PushFull, Handshake, shared, consumer
  <2> QED BY <2>1, <2>2, <2>3
<1>c. CASE PushOverflow
  <2>1. (overflow + 1) % OvfMod \in 0 .. OvfMod - 1
    BY OvfModAssumption DEF TypeOK
  <2>2. TypeOK'
    BY <1>c, <2>1 DEF PushOverflow, TypeOK, consumer, observer
  <2>3. PublishedWhole' /\ Occupancy' = Occupancy
    BY <1>c DEF PushOverflow, PublishedWhole, Occupancy
  <2>4. Handshake'
    BY <1>c, <2>3 DEF PushOverflow, Handshake, consumer
  <2> QED BY <2>2, <2>3, <2>4
<1>d. CASE PushCopyBegin
  <2>0. phead = head /\ Occupancy < Cap
    BY <1>d DEF PushCopyBegin, Handshake
  <2>1. TypeOK'
    BY <1>d DEF PushCopyBegin, TypeOK, consumer, observer
  <2>2. Occupancy' = Occupancy
    BY <1>d DEF PushCopyBegin, Occupancy
  <2>3. \A i \in 0 .. Occupancy - 1 : slots'[Slot(tail + i)] = slots[Slot(tail + i)]
    <3> TAKE i \in 0 .. Occupancy - 1
    <3>1. Slot(head) # Slot(tail + i) /\ Slot(tail + i) \in 0 .. Cap - 1
      BY <1>1, <2>0, HeadSlotFree, SlotRange DEF Occupancy
    <3> QED BY <1>d, <2>0, <3>1 DEF PushCopyBegin, TypeOK
  <2>4. PublishedWhole'
    BY <1>d, <2>2, <2>3 DEF PushCopyBegin, PublishedWhole
  <2>5. Handshake'
    <3>1. cpc # "idle" => slots'[Slot(tail)] = slots[Slot(tail)]
      BY <1>1, <2>3 DEF Handshake
    <3> QED BY <1>d, <2>0, <2>2, <3>1 DEF PushCopyBegin, Handshake, consumer
  <2> QED BY <2>1, <2>4, <2>5
<1>e. CASE PushCopyEnd
  <2>0. phead = head /\ Occupancy < Cap /\ item \in Values
    BY <1>e DEF PushCopyEnd, Handshake
  <2>1. TypeOK'
    BY <1>e, <2>0 DEF PushCopyEnd, TypeOK, consumer, observer
  <2>2. Occupancy' = Occupancy
    BY <1>e DEF PushCopyEnd, Occupancy
  <2>3. \A i \in 0 .. Occupancy - 1 : slots'[Slot(tail + i)] = slots[Slot(tail + i)]
    <3> TAKE i \in 0 .. Occupancy - 1
    <3>1. Slot(head) # Slot(tail + i) /\ Slot(tail + i) \in 0 .. Cap - 1
      BY <1>1, <2>0, HeadSlotFree, SlotRange DEF Occupancy
    <3> QED BY <1>e, <2>0, <3>1 DEF PushCopyEnd, TypeOK
  <2>4. PublishedWhole'
    BY <1>e, <2>2, <2>3 DEF PushCopyEnd, PublishedWhole
  <2>5. Handshake'
    <3>1. cpc # "idle" => slots'[Slot(tail)] = slots[Slot(tail)]
      BY <1>1, <2>3 DEF Handshake
    <3>2. slots'[Slot(head)] = item
      BY <1>e, <1>2, <2>0 DEF PushCopyEnd, TypeOK
    <3> QED BY <1>e, <2>0, <2>2, <3>1, <3>2 DEF PushCopyEnd, Handshake, consumer
  <2> QED BY <2>1, <2>4, <2>5
<1>f. CASE PushStore
  <2>0. phead = head /\ Occupancy < Cap /\ item \in Values /\ slots[Slot(head)] = item
    BY <1>f DEF PushStore, Handshake
  <2>1. head' \in 0 .. CtrMod - 1 /\ Occupancy' = Occupancy + 1
    BY <1>f, <1>1, <2>0, OccupancyPush DEF PushStore, Occupancy
  <2>2. TypeOK'
    BY <1>f, <2>1 DEF PushStore, TypeOK, consumer, observer
  <2>3. slots[Slot(tail + Occupancy)] = item
    BY <1>1, <2>0, HeadSlot DEF Occupancy
  <2>4. \A i \in 0 .. Occupancy : slots[Slot(tail + i)] \in Values
    BY <1>1, <2>0, <2>3 DEF PublishedWhole
  <2>5. PublishedWhole'
    BY <1>f, <1>1, <2>0, <2>1, <2>4 DEF PushStore, PublishedWhole
  <2>6. Handshake'
    BY <1>f, <1>1, <2>1 DEF PushStore, Handshake, consumer
  <2> QED BY <2>2, <2>5, <2>6
<1>g. CASE PopEmpty
  <2>1. TypeOK'
    BY <1>g DEF PopEmpty, TypeOK, shared, producer, observer
  <2>2. PublishedWhole' /\ Occupancy' = Occupancy
    BY <1>g DEF PopEmpty, PublishedWhole, Occupancy, shared
  <2>3. Handshake'
    BY <1>g, <2>2 DEF PopEmpty, Handshake, shared, producer
  <2> QED BY <2>1, <2>2, <2>3
<1>h. CASE PopSome
  <2>1. TypeOK'
    BY <1>h DEF PopSome, TypeOK, shared, producer, observer
  <2>2. PublishedWhole' /\ Occupancy' = Occupancy
    BY <1>h DEF PopSome, PublishedWhole, Occupancy, shared
  <2>3. Handshake'
    BY <1>h, <1>1, <2>2 DEF PopSome, Handshake, shared, producer
  <2> QED BY <2>1, <2>2, <2>3
<1>i. CASE PopCopyEnd
  <2>0. ctail = tail
    BY <1>i DEF PopCopyEnd, Handshake
  <2>a. Slot(tail) \in 0 .. Cap - 1
    BY <1>1, SlotRange
  <2>b. slots[Slot(ctail)] \in Values \cup {NoItem}
    BY <2>0, <2>a DEF TypeOK
  <2>1. TypeOK'
    BY <1>i, <2>b DEF PopCopyEnd, TypeOK, shared, producer, observer
  <2>2. PublishedWhole' /\ Occupancy' = Occupancy
    BY <1>i DEF PopCopyEnd, PublishedWhole, Occupancy, shared
  <2>3. Handshake'
    BY <1>i, <2>2 DEF PopCopyEnd, Handshake, shared, producer
  <2> QED BY <2>1, <2>2, <2>3
<1>j. CASE PopStore
  <2>0. ctail = tail /\ Occupancy > 0
    BY <1>j DEF PopStore, Handshake
  <2>1. tail' \in 0 .. CtrMod - 1 /\ Occupancy' = Occupancy - 1
    BY <1>j, <1>1, <2>0, OccupancyPop DEF PopStore, Occupancy
  <2>2. TypeOK'
    BY <1>j, <2>1 DEF PopStore, TypeOK, producer, observer
  <2>3. \A i \in 0 .. Occupancy - 2 : slots[Slot(tail' + i)] = slots[Slot(tail + (i + 1))]
    BY <1>j, <1>1, <2>0, TailSlot DEF PopStore
  <2>4. \A i \in 0 .. Occupancy - 2 : slots[Slot(tail + (i + 1))] \in Values
    BY <1>1 DEF PublishedWhole
  <2>5. PublishedWhole'
    BY <1>j, <1>1, <2>1, <2>3, <2>4 DEF PopStore, PublishedWhole
  <2>6. Handshake'
    BY <1>j, <1>1, <2>1 DEF PopStore, Handshake, producer
  <2> QED BY <2>2, <2>5, <2>6
<1>k. CASE Size
  <2>1. Sub(ohead, tail) \in 0 .. CtrMod - 1
    BY <1>1, OccupancyRange DEF TypeOK
  <2>2. TypeOK'
    BY <1>k, <2>1 DEF Size, SizeLoadHead, SizeLoadTail, TypeOK, shared, producer, consumer
  <2>3. PublishedWhole' /\ Occupancy' = Occupancy
    BY <1>k DEF Size, SizeLoadHead, SizeLoadTail, PublishedWhole, Occupancy, shared
  <2>4. Handshake'
    BY <1>k, <2>3 DEF Size, SizeLoadHead, SizeLoadTail, Handshake, shared, producer, consumer
  <2> QED BY <2>2, <2>3, <2>4
<1>l. CASE UNCHANGED vars
  <2>1. TypeOK'
    BY <1>l DEF vars, TypeOK, shared, producer, consumer, observer
  <2>2. PublishedWhole' /\ Occupancy' = Occupancy
    BY <1>l DEF vars, PublishedWhole, Occupancy, shared
  <2>3. Handshake'
    BY <1>l, <2>2 DEF vars, Handshake, shared, producer, consumer
  <2> QED BY <2>1, <2>2, <2>3
<1> QED BY <1>a, <1>b, <1>c, <1>d, <1>e, <1>f, <1>g, <1>h, <1>i, <1>j, <1>k, <1>l
        DEF Next, Push, Pop

\* The invariant holds throughout.
THEOREM Invariant == Spec => []IInv
BY InitIInv, NextIInv, PTL DEF Spec

\* Type correctness: every counter keeps to its width, for every capacity.
THEOREM TypeCorrect == Spec => []TypeOK
<1>1. IInv => TypeOK
  BY DEF IInv
<1> QED BY <1>1, Invariant, PTL

\* No slot between tail and head is ever torn, overwritten or unwritten.
THEOREM PublishedSlotsWhole == Spec => []PublishedWhole
<1>1. IInv => PublishedWhole
  BY DEF IInv
<1> QED BY <1>1, Invariant, PTL

\* rb_push and rb_pop never touch the same slot at the same time.
THEOREM SlotRaceFreedom == Spec => []NoSlotRace
<1>1. IInv => NoSlotRace
  <2> SUFFICES ASSUME IInv, ppc = "copying", cpc = "copying"
               PROVE  Slot(phead) # Slot(ctail)
    BY DEF NoSlotRace
  <2>1. /\ head \in 0 .. CtrMod - 1 /\ tail \in 0 .. CtrMod - 1
        /\ phead = head /\ ctail = tail /\ Sub(head, tail) < Cap /\ Sub(head, tail) > 0
    BY DEF IInv, TypeOK, Handshake, Occupancy
  <2>2. 0 \in 0 .. Sub(head, tail) - 1 /\ tail + 0 = tail
    BY <2>1, OccupancyRange
  <2>3. Slot(head) # Slot(tail + 0)
    BY <2>1, <2>2, HeadSlotFree
  <2> QED BY <2>1, <2>2, <2>3
<1> QED BY <1>1, Invariant, PTL

(***************************************************************************)
(* The ring implements the bounded FIFO queue.                             *)
(***************************************************************************)
\* A sequence is the function that lists its elements.
LEMMA SeqAsFunction ==
  ASSUME NEW S, NEW s \in Seq(S), NEW n \in Nat, Len(s) = n
  PROVE  s = [i \in 1 .. n |-> s[i]]
<1>1. PICK m \in Nat : s \in [1 .. m -> S]
  OBVIOUS
<1>2. Len(s) = m
  BY <1>1
<1> QED BY <1>1, <1>2

\* Contents is a sequence of whole items, one per occupied slot.
LEMMA ContentsSeq ==
  ASSUME IInv
  PROVE  /\ Occupancy \in Nat /\ Occupancy <= Cap
         /\ Contents \in Seq(Values) /\ Len(Contents) = Occupancy
         /\ \A i \in 1 .. Occupancy : Contents[i] = slots[Slot(tail + i - 1)]
<1>1. Occupancy \in Nat /\ Occupancy <= Cap /\ tail \in Nat /\ Cap \in Nat
  BY OccupancyRange, Constants DEF IInv, TypeOK, PublishedWhole, Occupancy
<1>2. ASSUME NEW i \in 1 .. Occupancy PROVE slots[Slot(tail + i - 1)] \in Values
  <2>1. i - 1 \in 0 .. Occupancy - 1 /\ tail + (i - 1) = tail + i - 1
    BY <1>1
  <2> QED BY <2>1 DEF IInv, PublishedWhole
<1>3. Contents \in [1 .. Occupancy -> Values]
  BY <1>2 DEF Contents
<1> QED BY <1>1, <1>3 DEF Contents

\* Slots left alone between tail and head leave the contents alone.
LEMMA ContentsUnchanged ==
  ASSUME tail' = tail, Occupancy' = Occupancy, Occupancy \in Nat, tail \in Nat,
         \A i \in 0 .. Occupancy - 1 : slots'[Slot(tail + i)] = slots[Slot(tail + i)]
  PROVE  Contents' = Contents
<1>1. ASSUME NEW i \in 1 .. Occupancy
      PROVE  slots'[Slot(tail + i - 1)] = slots[Slot(tail + i - 1)]
  <2>1. i - 1 \in 0 .. Occupancy - 1 /\ tail + (i - 1) = tail + i - 1
    OBVIOUS
  <2> QED BY <2>1
<1> QED BY <1>1 DEF Contents

\* A new ring is an empty queue.
LEMMA InitFifo == Init => Fifo!FInit
<1> SUFFICES ASSUME Init PROVE Fifo!FInit
  OBVIOUS
<1>1. IInv
  BY InitIInv
<1>2. Occupancy = 0
  BY Constants, OccupancyRange DEF Init, Occupancy
<1>3. Contents = <<>>
  BY <1>1, <1>2, ContentsSeq
<1> QED BY <1>3 DEF Init, Fifo!FInit, RefusalsSoFar

\* The store of head is the moment an item enters the queue.
LEMMA StoreIsPut == IInv /\ PushStore => Fifo!Put(item) /\ item \in Values
<1> SUFFICES ASSUME IInv, PushStore PROVE Fifo!Put(item) /\ item \in Values
  OBVIOUS
<1>1. /\ head \in 0 .. CtrMod - 1 /\ tail \in 0 .. CtrMod - 1
      /\ phead = head /\ Occupancy < Cap /\ item \in Values /\ slots[Slot(head)] = item
  BY DEF IInv, TypeOK, PushStore, Handshake
<1>2. Occupancy' = Occupancy + 1 /\ tail' = tail /\ slots' = slots
  BY <1>1, OccupancyPush DEF PushStore, Occupancy
<1>3. slots[Slot(tail + Occupancy)] = item
  BY <1>1, HeadSlot DEF Occupancy
<1>4. /\ Occupancy \in Nat /\ Contents \in Seq(Values) /\ Len(Contents) = Occupancy
      /\ \A i \in 1 .. Occupancy : Contents[i] = slots[Slot(tail + i - 1)]
  BY ContentsSeq
<1>5. Contents' = [i \in 1 .. Occupancy + 1 |-> slots[Slot(tail + i - 1)]]
  BY <1>2 DEF Contents
<1>6. tail + (Occupancy + 1) - 1 = tail + Occupancy
  BY <1>1, <1>4
<1>7. /\ Append(Contents, item) \in Seq(Values)
      /\ Len(Append(Contents, item)) = Occupancy + 1
      /\ \A i \in 1 .. Occupancy : Append(Contents, item)[i] = Contents[i]
      /\ Append(Contents, item)[Occupancy + 1] = item
  BY <1>1, <1>4, AppendProperties
<1>8. ASSUME NEW i \in 1 .. Occupancy + 1
      PROVE  slots[Slot(tail + i - 1)] = Append(Contents, item)[i]
  <2>1. CASE i \in 1 .. Occupancy
    BY <2>1, <1>4, <1>7
  <2>2. CASE i = Occupancy + 1
    BY <2>2, <1>3, <1>6, <1>7
  <2> QED BY <2>1, <2>2, <1>4
<1>9. Contents' = Append(Contents, item)
  <2>1. PICK a : a = Append(Contents, item)
    OBVIOUS
  <2>2. a \in Seq(Values) /\ Len(a) = Occupancy + 1 /\ Occupancy + 1 \in Nat
    BY <2>1, <1>4, <1>7
  <2>3. a = [i \in 1 .. Occupancy + 1 |-> a[i]]
    BY ONLY <2>2, SeqAsFunction
  <2> QED BY <1>5, <1>8, <2>1, <2>3
<1>10. RefusalsSoFar' = RefusalsSoFar /\ got' = got
  BY DEF PushStore, RefusalsSoFar, consumer
<1> QED BY <1>1, <1>4, <1>9, <1>10 DEF Fifo!Put

\* The store of tail is the moment an item leaves it.
LEMMA StoreIsTake == IInv /\ PopStore => Fifo!Take
<1> SUFFICES ASSUME IInv, PopStore PROVE Fifo!Take
  OBVIOUS
<1>1. /\ head \in 0 .. CtrMod - 1 /\ tail \in 0 .. CtrMod - 1
      /\ ctail = tail /\ Occupancy > 0 /\ buf = slots[Slot(tail)]
  BY DEF IInv, TypeOK, PopStore, Handshake
<1>2. Occupancy' = Occupancy - 1 /\ tail' = Inc(tail) /\ slots' = slots
  BY <1>1, OccupancyPop DEF PopStore, Occupancy
<1>3. /\ Occupancy \in Nat /\ Contents \in Seq(Values) /\ Len(Contents) = Occupancy
      /\ \A i \in 1 .. Occupancy : Contents[i] = slots[Slot(tail + i - 1)]
  BY ContentsSeq
<1>4. Contents' = [i \in 1 .. Occupancy - 1 |-> slots[Slot(Inc(tail) + i - 1)]]
  BY <1>2 DEF Contents
<1>5. Tail(Contents) = [i \in 1 .. Occupancy - 1 |-> Contents[i + 1]]
  <2>1. Contents # <<>>
    BY <1>1, <1>3
  <2>2. /\ Tail(Contents) \in Seq(Values) /\ Len(Tail(Contents)) = Occupancy - 1
        /\ \A i \in 1 .. Occupancy - 1 : Tail(Contents)[i] = Contents[i + 1]
    BY <2>1, <1>3, HeadTailProperties
  <2>3. PICK a : a = Tail(Contents)
    OBVIOUS
  <2>4. a \in Seq(Values) /\ Len(a) = Occupancy - 1 /\ Occupancy - 1 \in Nat
    BY <2>2, <2>3, <1>1, <1>3
  <2>5. a = [i \in 1 .. Occupancy - 1 |-> a[i]]
    BY ONLY <2>4, SeqAsFunction
  <2> QED BY <2>2, <2>3, <2>5
<1>6. ASSUME NEW i \in 1 .. Occupancy - 1
      PROVE  slots[Slot(Inc(tail) + i - 1)] = Contents[i + 1]
  <2>1. i - 1 \in Nat /\ i + 1 \in 1 .. Occupancy /\ Inc(tail) \in Nat
    BY <1>1, <1>3, OccupancyPop DEF Occupancy
  <2>2. Inc(tail) + (i - 1) = Inc(tail) + i - 1 /\ tail + ((i - 1) + 1) = tail + (i + 1) - 1
    BY <2>1, <1>1
  <2>3. Slot(Inc(tail) + (i - 1)) = Slot(tail + ((i - 1) + 1))
    BY <2>1, <1>1, TailSlot
  <2> QED BY <2>1, <2>2, <2>3, <1>3
<1>7. Contents' = Tail(Contents)
  BY <1>4, <1>5, <1>6
<1>8. Contents # <<>> /\ Head(Contents) = buf
  <2>1. 1 \in 1 .. Occupancy /\ tail + 1 - 1 = tail
    BY <1>1, <1>3
  <2> QED BY <2>1, <1>1, <1>3
<1>9. RefusalsSoFar' = RefusalsSoFar /\ got' = buf
  BY DEF PopStore, RefusalsSoFar, producer
<1> QED BY <1>7, <1>8, <1>9 DEF Fifo!Take

\* Every step of the ring is a step of the queue or leaves it alone.
LEMMA NextFifo == IInv /\ [Next]_vars => [Fifo!FNext]_(Fifo!fvars)
<1> SUFFICES ASSUME IInv, [Next]_vars PROVE [Fifo!FNext]_(Fifo!fvars)
  OBVIOUS
<1> USE DEF Fifo!fvars
<1>1. /\ head \in 0 .. CtrMod - 1 /\ tail \in 0 .. CtrMod - 1 /\ tail \in Nat
      /\ Occupancy \in Nat /\ Occupancy <= Cap /\ Len(Contents) = Occupancy
      /\ Contents \in Seq(Values) /\ (Occupancy = 0 <=> head = tail)
  <2>1. head \in 0 .. CtrMod - 1 /\ tail \in 0 .. CtrMod - 1 /\ tail \in Nat
    BY Constants DEF IInv, TypeOK
  <2>2. Occupancy = 0 <=> head = tail
    BY <2>1, OccupancyRange DEF Occupancy
  <2> QED BY <2>1, <2>2, ContentsSeq
<1>2. ASSUME UNCHANGED shared
      PROVE  Contents' = Contents
  BY <1>2 DEF shared, Contents, Occupancy
<1>a. ASSUME NEW v \in Values, PushRoom(v) PROVE UNCHANGED Fifo!fvars
  BY <1>2, <1>a DEF PushRoom, RefusalsSoFar, shared, consumer
<1>b. ASSUME NEW v \in Values, PushFull(v) PROVE Fifo!Refuse
  <2>1. Len(Contents) = Cap
    BY <1>1, <1>b, Constants DEF PushFull, Occupancy
  <2>2. RefusalsSoFar' = (RefusalsSoFar + 1) % OvfMod
    BY <1>b DEF PushFull, RefusalsSoFar, shared
  <2> QED BY <2>1, <2>2, <1>2, <1>b DEF Fifo!Refuse, PushFull, consumer
<1>c. CASE PushOverflow
  <2>1. Contents' = Contents
    BY <1>c DEF PushOverflow, Contents, Occupancy
  <2> QED BY <2>1, <1>c DEF PushOverflow, RefusalsSoFar, consumer
<1>d. CASE PushCopyBegin \/ PushCopyEnd
  <2>1. phead = head /\ Occupancy < Cap
    BY <1>d DEF PushCopyBegin, PushCopyEnd, IInv, Handshake
  <2>2. Occupancy' = Occupancy /\ tail' = tail
    BY <1>d DEF PushCopyBegin, PushCopyEnd, Occupancy
  <2>3. ASSUME NEW i \in 0 .. Occupancy - 1
        PROVE  slots'[Slot(tail + i)] = slots[Slot(tail + i)]
    <3>1. Slot(head) # Slot(tail + i)
      <4>1. Sub(head, tail) < Cap /\ i \in 0 .. Sub(head, tail) - 1
        BY <2>1 DEF Occupancy
      <4> QED BY <1>1, <4>1, HeadSlotFree
    <3>2. Slot(tail + i) \in 0 .. Cap - 1
      <4>1. tail + i \in Nat
        BY <1>1
      <4> QED BY <4>1, SlotRange
    <3> QED BY <1>d, <2>1, <3>1, <3>2 DEF PushCopyBegin, PushCopyEnd, IInv, TypeOK
  <2>4. Contents' = Contents
    BY <1>1, <2>2, <2>3, ContentsUnchanged
  <2> QED BY <2>4, <1>d DEF PushCopyBegin, PushCopyEnd, RefusalsSoFar, consumer
<1>e. CASE PushStore
  BY <1>e, StoreIsPut DEF Fifo!FNext
<1>f. CASE PopEmpty
  <2>1. Contents = <<>>
    BY <1>1, <1>f DEF PopEmpty
  <2> QED BY <2>1, <1>2, <1>f DEF PopEmpty, Fifo!FNext, Fifo!TakeNothing, RefusalsSoFar, shared, producer
<1>g. CASE PopSome \/ PopCopyEnd
  BY <1>2, <1>g DEF PopSome, PopCopyEnd, RefusalsSoFar, shared, producer
<1>h. CASE PopStore
  BY <1>h, StoreIsTake DEF Fifo!FNext
<1>i. CASE Size
  BY <1>2, <1>i DEF Size, SizeLoadHead, SizeLoadTail, RefusalsSoFar, shared, producer, consumer
<1>j. CASE UNCHANGED vars
  BY <1>2, <1>j DEF vars, RefusalsSoFar, shared, producer, consumer
<1> QED BY <1>a, <1>b, <1>c, <1>d, <1>e, <1>f, <1>g, <1>h, <1>i, <1>j
        DEF Next, Push, Pop, Fifo!FNext

\* The lock-free ring refines the abstract bounded queue: no item is lost,
\* duplicated, reordered or torn, at any capacity and counter width.
THEOREM Refinement == Spec => ImplementsFifo
BY InitFifo, NextFifo, Invariant, PTL DEF Spec, ImplementsFifo, Fifo!FSpec
=============================================================================
