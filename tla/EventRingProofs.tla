--------------------------- MODULE EventRingProofs ---------------------------
(***************************************************************************)
(* The control event queue, for every size of an event and every number of *)
(* slots.  The inductive invariant says that both indices are at the start *)
(* of an event; everything else is arithmetic on multiples of EventSize.   *)
(* The refinement of the abstract queue needs one more: the octets of      *)
(* every slot between the two indices are those of one event.              *)
(***************************************************************************)
EXTENDS EventRing, SequenceTheorems, TLAPS

\* Both indices are always at the start of an event.
Aligned ==
    \E r, w \in 0 .. Slots - 1 :
        read_idx = r * EventSize /\ write_idx = w * EventSize

\* Multiples of EventSize are at least EventSize apart.
LEMMA Apart ==
    ASSUME NEW a \in Nat, NEW b \in Nat, a < b
    PROVE  a * EventSize + EventSize =< b * EventSize
<1> DEFINE d == b - (a + 1)
<1>1. d \in Nat /\ b = a + 1 + d
    OBVIOUS
<1>2. EventSize \in Nat
    BY RingAssumption
<1>3. d * EventSize >= 0
    BY <1>1, <1>2
<1> HIDE DEF d
<1>4. b * EventSize = a * EventSize + EventSize + d * EventSize
    BY <1>1, <1>2, Z3
<1> QED
    BY <1>2, <1>3, <1>4

\* What is known of the offset of a slot.
LEMMA SlotOffset ==
    ASSUME NEW r \in 0 .. Slots - 1
    PROVE  /\ r * EventSize \in Nat
           /\ r * EventSize + EventSize =< Size
           /\ r * EventSize = 0 <=> r = 0
           /\ r = Slots - 1 => r * EventSize + EventSize = Size
           /\ Size \in Nat
           /\ EventSize + EventSize =< Size
<1>1. EventSize \in Nat \ {0} /\ Slots \in Nat \ {0, 1}
    BY RingAssumption
<1>2. r * EventSize \in Nat
    BY <1>1
<1>3. r * EventSize + EventSize =< Size
    BY <1>1, Apart DEF Size
<1>4. r * EventSize = 0 <=> r = 0
    <2>1. CASE r = 0
        BY <1>1, <2>1
    <2>2. CASE r # 0
        <3>1. 0 * EventSize + EventSize =< r * EventSize
            BY <1>1, <2>2, Apart
        <3> QED
            BY <1>1, <2>2, <3>1
    <2> QED
        BY <2>1, <2>2
<1>5. ASSUME r = Slots - 1 PROVE r * EventSize + EventSize = Size
    BY <1>1, <1>5, Z3 DEF Size
<1>6. EventSize + EventSize =< Size
    <2>1. 1 * EventSize + EventSize =< Slots * EventSize \/ Slots = 2
        BY <1>1, Apart
    <2> QED
        BY <1>1, <2>1 DEF Size
<1>7. Size \in Nat
    BY <1>1 DEF Size
<1> QED
    BY <1>2, <1>3, <1>4, <1>5, <1>6, <1>7

\* The order of slots is the order of their offsets.
LEMMA SlotOrder ==
    ASSUME NEW r \in 0 .. Slots - 1, NEW w \in 0 .. Slots - 1
    PROVE  /\ r < w => r * EventSize + EventSize =< w * EventSize
           /\ r > w => w * EventSize + EventSize =< r * EventSize
    BY Apart, RingAssumption

\* ring_buffer_move_read and ring_buffer_move_write by one event go to the
\* next slot.
LEMMA NextSlot ==
    ASSUME NEW r \in 0 .. Slots - 1
    PROVE  \E n \in 0 .. Slots - 1 :
              /\ Advance(r * EventSize, EventSize, Size) = n * EventSize
              /\ n = IF r = Slots - 1 THEN 0 ELSE r + 1
<1>1. EventSize \in Nat \ {0} /\ Slots \in Nat \ {0, 1}
    BY RingAssumption
<1>2. r * EventSize \in Nat /\ Size \in Nat /\ Size > 0
    BY <1>1, SlotOffset
<1>3. CASE r = Slots - 1
    <2>1. Advance(r * EventSize, EventSize, Size) = Size % Size
        BY <1>3, SlotOffset DEF Advance
    <2>2. Size % Size = 0 * EventSize
        BY <1>1, <1>2
    <2> QED
        BY <1>1, <1>3, <2>1, <2>2
<1>4. CASE r # Slots - 1
    <2>1. r + 1 \in 0 .. Slots - 1
        BY <1>1, <1>4
    <2>2. (r + 1) * EventSize = r * EventSize + EventSize
        BY <1>1, Z3
    <2>3. (r + 1) * EventSize + EventSize =< Size
        BY <2>1, SlotOffset
    <2>4. (r * EventSize + EventSize) % Size = r * EventSize + EventSize
        BY <1>1, <1>2, <2>2, <2>3
    <2> QED
        BY <1>4, <2>1, <2>2, <2>4 DEF Advance
<1> QED
    BY <1>3, <1>4

-----------------------------------------------------------------------------

IInv == TypeOK /\ Aligned

\* cmtspeech_open leaves both indices at the start of the ring.
LEMMA InitIInv == Init => IInv
<1> SUFFICES ASSUME Init PROVE IInv
    OBVIOUS
<1>1. EventSize \in Nat \ {0} /\ Slots \in Nat \ {0, 1}
    BY RingAssumption
<1>2. 0 \in 0 .. Slots - 1 /\ 0 * EventSize = 0
    BY <1>1
<1>3. 0 \in 0 .. Size - 1
    BY <1>1, <1>2, SlotOffset
<1>4. Aligned
    BY <1>2 DEF Init, Aligned
<1>5. TypeOK
    BY <1>1, <1>3 DEF Init, TypeOK, Octets
<1> QED
    BY <1>4, <1>5 DEF IInv

\* A call moves an index by whole events or not at all.
LEMMA NextIInv == IInv /\ [Next]_vars => IInv'
<1> SUFFICES ASSUME IInv, [Next]_vars PROVE IInv'
    OBVIOUS
<1>1. EventSize \in Nat \ {0} /\ Slots \in Nat \ {0, 1}
    BY RingAssumption
<1>2. PICK r \in 0 .. Slots - 1, w \in 0 .. Slots - 1 :
            read_idx = r * EventSize /\ write_idx = w * EventSize
    BY DEF IInv, Aligned
<1>3. PICK nr \in 0 .. Slots - 1 :
            Advance(read_idx, EventSize, Size) = nr * EventSize
    BY <1>2, NextSlot
<1>4. PICK nw \in 0 .. Slots - 1 :
            Advance(write_idx, EventSize, Size) = nw * EventSize
    BY <1>2, NextSlot
<1>5. ASSUME NEW n \in 0 .. Slots - 1
      PROVE  n * EventSize \in 0 .. Size - 1
    BY <1>1, SlotOffset
<1>6. write_idx \in Nat
    BY <1>2, SlotOffset
<1>7. CASE \E e \in Events : priv_queue_control_event(e)
    <2>1. PICK e \in Events : priv_queue_control_event(e)
        BY <1>7
    <2>2. read_idx' \in {r * EventSize, nr * EventSize}
        BY <1>2, <1>3, <2>1 DEF priv_queue_control_event, RoomMade
    <2>3. write_idx' = nw * EventSize
        BY <1>4, <2>1 DEF priv_queue_control_event
    <2>4. Aligned'
        BY <2>2, <2>3 DEF Aligned
    <2>5. read_idx' \in 0 .. Size - 1 /\ write_idx' \in 0 .. Size - 1
        BY <1>5, <2>2, <2>3
    <2>6. Stored(e, write_idx) \in [0 .. Size - 1 -> Octets]
        <3>1. ASSUME NEW i \in 0 .. Size - 1,
                     i \in write_idx .. write_idx + EventSize - 1
              PROVE  <<e, i - write_idx>> \in Octets
            BY <1>1, <1>6, <3>1 DEF Octets
        <3> QED
            BY <3>1 DEF Stored, IInv, TypeOK
    <2>7. TypeOK'
        BY <2>1, <2>5, <2>6 DEF priv_queue_control_event, IInv, TypeOK
    <2> QED
        BY <2>4, <2>7 DEF IInv
<1>8. CASE priv_dequeue_control_event
    <2>1. CASE UNCHANGED <<read_idx, write_idx, data, event>> /\ res' = -1
        BY <2>1 DEF IInv, TypeOK, Aligned
    <2>2. CASE /\ event' = [k \in 0 .. EventSize - 1 |-> data[read_idx + k]]
               /\ read_idx' = Advance(read_idx, EventSize, Size)
               /\ res' = 0
               /\ UNCHANGED <<write_idx, data>>
        <3>1. Aligned'
            BY <1>2, <1>3, <2>2 DEF Aligned
        <3>2. read_idx' \in 0 .. Size - 1
            BY <1>3, <1>5, <2>2
        <3>3. ASSUME NEW k \in 0 .. EventSize - 1
              PROVE  read_idx + k \in 0 .. Size - 1
            <4>1. r * EventSize \in Nat /\ r * EventSize + EventSize =< Size
                BY SlotOffset
            <4> QED
                BY <1>1, <1>2, <4>1, SlotOffset
        <3>4. event' \in [0 .. EventSize - 1 -> Octets]
            BY <2>2, <3>3 DEF IInv, TypeOK
        <3>5. TypeOK'
            BY <2>2, <3>2, <3>4 DEF IInv, TypeOK
        <3> QED
            BY <3>1, <3>5 DEF IInv
    <2> QED
        BY <1>8, <2>1, <2>2 DEF priv_dequeue_control_event
<1>9. CASE UNCHANGED vars
    BY <1>9 DEF vars, IInv, TypeOK, Aligned
<1> QED
    BY <1>7, <1>8, <1>9 DEF Next

\* The indices stay inside the ring, and what is copied in and out of it is
\* made of octets of events (priv_queue_control_event and
\* priv_dequeue_control_event).
THEOREM TypeCorrect == Spec => []TypeOK
<1>1. IInv => TypeOK
    BY DEF IInv
<1> QED
    BY InitIInv, NextIInv, <1>1, PTL DEF Spec

\* The two memcpy calls of the queue never pass the end of the ring's memory.
THEOREM CopiesInside == Spec => []CopiesStayInside
<1>1. IInv => CopiesStayInside
    BY SlotOffset DEF IInv, Aligned, CopiesStayInside
<1> QED
    BY InitIInv, NextIInv, <1>1, PTL DEF Spec

\* One dropped event is always room enough for the new one, so the assertion
\* of priv_queue_control_event never fails.
THEOREM RoomMadeByOneEvent == Spec => []RoomForNewEvent
<1>1. ASSUME IInv PROVE RoomForNewEvent
    <2>1. EventSize \in Nat \ {0} /\ Slots \in Nat \ {0, 1}
        BY RingAssumption
    <2>2. PICK r \in 0 .. Slots - 1, w \in 0 .. Slots - 1 :
                read_idx = r * EventSize /\ write_idx = w * EventSize
        BY <1>1 DEF IInv, Aligned
    <2> DEFINE R == r * EventSize
               W == w * EventSize
    <2>3. /\ R \in Nat /\ R + EventSize =< Size /\ (R = 0 <=> r = 0)
          /\ r = Slots - 1 => R + EventSize = Size
          /\ Size \in Nat /\ EventSize + EventSize =< Size
        BY SlotOffset
    <2>4. /\ W \in Nat /\ W + EventSize =< Size
          /\ w = Slots - 1 => W + EventSize = Size
        BY SlotOffset
    <2>5. /\ r < w => R + EventSize =< W
          /\ r > w => W + EventSize =< R
          /\ r = w => R = W
        BY SlotOrder
    <2>6. CASE ~Overflow
        <3>1. CavailForWrite(R, W, Size) \in Int
            BY <2>1, <2>3, <2>4 DEF CavailForWrite, AvailForWrite
        <3> QED
            BY <2>1, <2>2, <2>6, <3>1 DEF Overflow, RoomForNewEvent, RoomMade
    <2>7. CASE Overflow /\ r > w
        \* Full, with the next slot to write just before the next to read.
        <3>1. AvailForWrite(R, W, Size) = R - W - 1
            <4>1. R - W - 1 \in Nat /\ R - W - 1 < Size /\ R # W
                BY <2>1, <2>3, <2>4, <2>5, <2>7
            <4>2. (R - W - 1 + Size) % Size = R - W - 1
                BY <2>3, <2>4, <4>1
            <4> QED
                BY <4>1, <4>2 DEF AvailForWrite
        <3>2. R < W + EventSize + EventSize
            <4>1. CavailForWrite(R, W, Size) = R - W - 1
                BY <2>1, <2>3, <2>4, <2>5, <2>7, <3>1 DEF CavailForWrite
            <4> QED
                BY <2>1, <2>2, <2>3, <2>4, <2>7, <4>1 DEF Overflow
        <3>3. r = w + 1
            <4>1. CASE w + 1 < r
                <5>1. (w + 1) * EventSize + EventSize =< R
                    BY <4>1, SlotOrder, <2>1
                <5>2. (w + 1) * EventSize = W + EventSize
                    BY <2>1, Z3
                <5> QED
                    BY <2>1, <2>3, <2>4, <3>2, <5>1, <5>2
            <4> QED
                BY <2>7, <4>1
        <3>4. R = W + EventSize
            BY <2>1, <3>3, Z3
        <3>5. CASE r = Slots - 1
            <4>1. RoomMade = 0
                BY <2>1, <2>2, <2>7, <3>5, NextSlot DEF RoomMade
            <4> QED
                BY <2>1, <2>2, <2>3, <2>4, <3>4, <3>5, <4>1
                   DEF RoomForNewEvent, CavailForWrite
        <3>6. CASE r # Slots - 1
            <4> DEFINE R1 == (r + 1) * EventSize
            <4>1. R1 = R + EventSize
                BY <2>1, Z3
            <4>2. RoomMade = R1
                BY <2>2, <2>7, <3>6, NextSlot DEF RoomMade
            <4>3. R1 + EventSize =< Size
                BY <3>6, SlotOffset, <2>1
            <4>4. R1 - W - 1 = EventSize + EventSize - 1
                BY <2>1, <2>3, <2>4, <3>4, <4>1
            <4>5. (R1 - W - 1 + Size) % Size = EventSize + EventSize - 1
                BY <2>1, <2>3, <2>4, <3>4, <4>1, <4>3, <4>4
            <4> QED
                BY <2>1, <2>2, <2>3, <2>4, <3>4, <4>1, <4>2, <4>5
                   DEF RoomForNewEvent, CavailForWrite, AvailForWrite
        <3> QED
            BY <3>5, <3>6
    <2>8. CASE Overflow /\ ~(r > w)
        \* Full, with the next slot to write at the end of the ring.
        <3>1. ~(R > W)
            BY <2>1, <2>3, <2>4, <2>5, <2>8
        <3>2. R = 0 /\ Size - W - 1 < EventSize
            BY <2>1, <2>2, <2>3, <2>4, <2>8, <3>1 DEF Overflow, CavailForWrite
        <3>3. w = Slots - 1
            <4>1. CASE w < Slots - 1
                <5>1. W + EventSize + EventSize =< Size
                    <6>1. w + 1 \in 0 .. Slots - 1
                        BY <4>1, <2>1
                    <6>2. (w + 1) * EventSize = W + EventSize
                        BY <2>1, Z3
                    <6> QED
                        BY <6>1, <6>2, SlotOffset
                <5> QED
                    BY <2>1, <2>3, <2>4, <3>2, <5>1
            <4> QED
                BY <2>1, <4>1
        <3>4. r = 0 /\ r # Slots - 1
            BY <2>1, <2>3, <3>2
        <3>5. RoomMade = 1 * EventSize
            <4>1. PICK n \in 0 .. Slots - 1 :
                        /\ Advance(R, EventSize, Size) = n * EventSize
                        /\ n = IF r = Slots - 1 THEN 0 ELSE r + 1
                BY NextSlot
            <4>2. n = 1
                BY <3>4, <4>1
            <4> QED
                BY <2>2, <2>8, <4>1, <4>2 DEF RoomMade
        <3>6. RoomMade = EventSize
            BY <2>1, <3>5
        <3> QED
            BY <2>1, <2>2, <2>3, <2>4, <3>3, <3>6
               DEF RoomForNewEvent, CavailForWrite
    <2> QED
        BY <2>6, <2>7, <2>8
<1> QED
    BY InitIInv, NextIInv, <1>1, PTL DEF Spec

-----------------------------------------------------------------------------
\* The offset of the a-th event.
At(a) == a * EventSize

\* Offsets add up, and an offset tells its event.
LEMMA Offsets ==
    ASSUME NEW a \in Nat, NEW b \in Nat
    PROVE  /\ At(a) \in Nat
           /\ At(a + b) = At(a) + At(b)
           /\ a =< b => At(b - a) = At(b) - At(a)
           /\ a < b => At(a) + EventSize =< At(b)
           /\ At(0) = 0 /\ At(1) = EventSize /\ At(Slots) = Size
           /\ At(a) \div EventSize = a
<1>1. EventSize \in Nat \ {0} /\ Slots \in Nat \ {0, 1}
    BY RingAssumption
<1>2. At(a) \in Nat /\ At(b) \in Nat
    BY <1>1 DEF At
<1>3. At(a + b) = At(a) + At(b)
    BY <1>1, Z3 DEF At
<1>4. a =< b => At(b - a) = At(b) - At(a)
    <2>1. (b - a) * EventSize = b * EventSize - a * EventSize
        BY <1>1, Z3
    <2> QED
        BY <2>1 DEF At
<1>5. a < b => At(a) + EventSize =< At(b)
    BY Apart DEF At
<1>6. At(0) = 0 /\ At(1) = EventSize /\ At(Slots) = Size
    BY <1>1 DEF At, Size
<1>7. At(a) \div EventSize = a
    <2>1. ASSUME NEW q \in Nat, NEW d \in Nat \ {0} PROVE (q * d) \div d = q
        OBVIOUS
    <2> QED
        BY <1>1, <2>1 DEF At
<1> QED
    BY <1>2, <1>3, <1>4, <1>5, <1>6, <1>7

\* The number of unread events, and the slot of the i-th.
Count(r, w) == IF w >= r THEN w - r ELSE w - r + Slots

Place(r, i) == IF r + i - 1 < Slots THEN r + i - 1 ELSE r + i - 1 - Slots

Following(r) == IF r = Slots - 1 THEN 0 ELSE r + 1

\* The slots of a ring
LEMMA Places ==
    ASSUME NEW r \in 0 .. Slots - 1, NEW w \in 0 .. Slots - 1
    PROVE  /\ Count(r, w) \in 0 .. Slots - 1
           /\ Count(r, w) = 0 <=> r = w
           /\ \A i \in 1 .. Count(r, w) :
                Place(r, i) \in 0 .. Slots - 1 /\ Place(r, i) # w
           /\ Place(r, Count(r, w) + 1) = w
           /\ Following(r) \in 0 .. Slots - 1 /\ Following(w) \in 0 .. Slots - 1
           /\ Count(r, w) < Slots - 1 =>
                Count(r, Following(w)) = Count(r, w) + 1
           /\ Count(r, w) = Slots - 1 =>
                Count(Following(r), Following(w)) = Slots - 1
           /\ r # w => Count(Following(r), w) = Count(r, w) - 1
           /\ \A i \in 1 .. Slots - 1 : Place(Following(r), i) = Place(r, i + 1)
           /\ Place(r, 1) = r
BY RingAssumption DEF Count, Place, Following

\* What the ring's functions compute when both indices are at an event.
LEMMA RingIndices ==
    ASSUME NEW r \in 0 .. Slots - 1, NEW w \in 0 .. Slots - 1
    PROVE  /\ AvailForRead(At(r), At(w), Size) \div EventSize = Count(r, w)
           /\ CavailForRead(At(r), At(w), Size) < EventSize <=> r = w
           /\ \A i \in 1 .. Slots - 1, k \in 0 .. EventSize - 1 :
                (At(r) + (i - 1) * EventSize + k) % Size = At(Place(r, i)) + k
           /\ Advance(At(r), EventSize, Size) = At(Following(r))
           /\ CavailForWrite(At(r), At(w), Size) < EventSize
                <=> Count(r, w) = Slots - 1
<1>1. EventSize \in Nat \ {0} /\ Slots \in Nat \ {0, 1} /\ Size \in Nat \ {0}
    BY RingAssumption, SlotOffset, Apart
<1>2. /\ At(r) \in Nat /\ At(w) \in Nat /\ At(r) < Size /\ At(w) < Size
      /\ At(r) + EventSize =< Size /\ At(w) + EventSize =< Size
      /\ r < w => At(r) + EventSize =< At(w)
      /\ w < r => At(w) + EventSize =< At(r)
    BY <1>1, Offsets, SlotOffset DEF At
<1>3. AvailForRead(At(r), At(w), Size) \div EventSize = Count(r, w)
    <2>1. CASE w >= r
        <3>1. At(w) - At(r) \in Nat /\ At(w) - At(r) < Size
            BY <1>1, <1>2, <2>1
        <3>2. AvailForRead(At(r), At(w), Size) = At(w) - At(r)
            BY <1>1, <1>2, <3>1 DEF AvailForRead
        <3>3. At(w) - At(r) = At(w - r)
            BY <2>1, Offsets
        <3>4. w - r \in Nat /\ Count(r, w) = w - r
            BY <2>1 DEF Count
        <3> QED
            BY <3>2, <3>3, <3>4, Offsets
    <2>2. CASE w < r
        <3>1. At(w) - At(r) + Size \in Nat /\ At(w) - At(r) + Size < Size
            BY <1>1, <1>2, <2>2
        <3>2. AvailForRead(At(r), At(w), Size) = At(w) - At(r) + Size
            BY <1>1, <1>2, <3>1 DEF AvailForRead
        <3>3. At(w + Slots) = At(w) + Size /\ w + Slots \in Nat
            BY <1>1, Offsets
        <3>4. At(w + Slots - r) = At(w) + Size - At(r)
            BY <1>1, <3>3, Offsets
        <3>5. w + Slots - r \in Nat /\ Count(r, w) = w + Slots - r
            BY <1>1, <2>2 DEF Count
        <3>6. AvailForRead(At(r), At(w), Size) = At(w + Slots - r)
            BY <1>1, <1>2, <3>2, <3>4
        <3> QED
            BY <3>5, <3>6, Offsets
    <2> QED
        BY <2>1, <2>2
<1>4. CavailForRead(At(r), At(w), Size) < EventSize <=> r = w
    BY <1>1, <1>2 DEF CavailForRead
<1>5. Advance(At(r), EventSize, Size) = At(Following(r))
    BY NextSlot DEF At, Following
<1>6. ASSUME NEW i \in 1 .. Slots - 1, NEW k \in 0 .. EventSize - 1
      PROVE  (At(r) + (i - 1) * EventSize + k) % Size = At(Place(r, i)) + k
    <2>1. At(r) + (i - 1) * EventSize = At(r + i - 1) /\ r + i - 1 \in Nat
        <3>1. At(r + (i - 1)) = At(r) + At(i - 1)
            BY Offsets
        <3>2. r + (i - 1) = r + i - 1 /\ At(i - 1) = (i - 1) * EventSize
            BY DEF At
        <3> QED
            BY <3>1, <3>2
    <2>2. CASE r + i - 1 < Slots
        <3>1. At(r + i - 1) + EventSize =< Size /\ At(r + i - 1) \in Nat
            BY <1>1, <2>1, <2>2, Offsets
        <3>2. (At(r + i - 1) + k) % Size = At(r + i - 1) + k
            BY <1>1, <3>1
        <3> QED
            BY <2>1, <2>2, <3>2 DEF Place
    <2>3. CASE r + i - 1 >= Slots
        <3> DEFINE p == r + i - 1 - Slots
        <3>1. p \in Nat /\ p < Slots /\ r + i - 1 = p + Slots /\ Place(r, i) = p
            BY <1>1, <2>3 DEF Place
        <3>2. At(p + Slots) = At(p) + Size
            BY <1>1, <3>1, Offsets
        <3>3. At(p) + EventSize =< Size /\ At(p) \in Nat
            BY <1>1, <3>1, Offsets
        <3>4. (At(p) + Size + k) % Size = At(p) + k
            <4>1. ASSUME NEW x \in Nat, NEW n \in Nat, x < n
                  PROVE  (x + n) % n = x
                BY <4>1
            <4>2. /\ At(p) + k \in Nat /\ At(p) + k < Size
                  /\ At(p) + Size + k = (At(p) + k) + Size
                BY <1>1, <3>3
            <4> QED
                BY <1>1, <4>1, <4>2
        <3> QED
            BY <2>1, <3>1, <3>2, <3>4
    <2> QED
        BY <1>1, <2>2, <2>3
<1>7. CavailForWrite(At(r), At(w), Size) < EventSize <=> Count(r, w) = Slots - 1
    <2>1. CASE r > w
        <3>1. /\ At(r) - At(w) - 1 \in Nat /\ At(r) - At(w) - 1 < Size
              /\ At(r) > At(w)
            BY <1>1, <1>2, <2>1
        <3>2. CavailForWrite(At(r), At(w), Size) = At(r) - At(w) - 1
            BY <1>1, <1>2, <3>1 DEF CavailForWrite, AvailForWrite
        <3>3. At(w + 1) = At(w) + EventSize
            BY Offsets
        <3>4. w + 1 < r => At(w + 1) + EventSize =< At(r)
            BY Offsets
        <3>5. Count(r, w) = Slots - 1 <=> r = w + 1
            BY <1>1, <2>1 DEF Count
        <3> QED
            BY <1>1, <1>2, <2>1, <3>2, <3>3, <3>4, <3>5
    <2>2. CASE ~(r > w)
        <3>1. ~(At(r) > At(w)) /\ (At(r) = 0 <=> r = 0)
            BY <1>1, <1>2, <2>2, SlotOffset DEF At
        <3>2. CavailForWrite(At(r), At(w), Size)
                = IF r = 0 THEN Size - At(w) - 1 ELSE Size - At(w)
            BY <3>1 DEF CavailForWrite
        <3>3. At(w + 1) = At(w) + EventSize
            BY Offsets
        <3>4. w + 1 < Slots => At(w + 1) + EventSize =< Size
            BY <1>1, Offsets
        <3>5. w + 1 = Slots => At(w) + EventSize = Size
            BY <1>1, <3>3, Offsets
        <3>6. Count(r, w) = Slots - 1 <=> r = 0 /\ w + 1 = Slots
            BY <1>1, <2>2 DEF Count
        <3> QED
            BY <1>1, <1>2, <3>2, <3>3, <3>4, <3>5, <3>6
    <2> QED
        BY <2>1, <2>2
<1> QED
    BY <1>3, <1>4, <1>5, <1>6, <1>7

-----------------------------------------------------------------------------
(* The ring as a queue                                                     *)

\* The octets d of a ring have event e in slot s.
Holds(d, s, e) == \A k \in 0 .. EventSize - 1 : d[At(s) + k] = <<e, k>>

\* The events between slot r and slot w.
Unread(d, r, w) ==
    [i \in 1 .. Count(r, w) |->
        Whole([k \in 0 .. EventSize - 1 |-> d[At(Place(r, i)) + k]])]

Intact(d, r, w) ==
    \A i \in 1 .. Count(r, w) : \E e \in Events : Holds(d, Place(r, i), e)

\* What is unread is made of whole events.
Kept ==
    \E r, w \in 0 .. Slots - 1 :
        read_idx = At(r) /\ write_idx = At(w) /\ Intact(data, r, w)

\* The abstract queue is read off the slots.
LEMMA QueueIsUnread ==
    ASSUME NEW r \in 0 .. Slots - 1, NEW w \in 0 .. Slots - 1, NEW d
    PROVE  [i \in 1 .. AvailForRead(At(r), At(w), Size) \div EventSize |->
                Whole([k \in 0 .. EventSize - 1 |->
                    d[(At(r) + (i - 1) * EventSize + k) % Size]])]
            = Unread(d, r, w)
<1>1. ASSUME NEW i \in 1 .. Count(r, w)
      PROVE  [k \in 0 .. EventSize - 1 |->
                d[(At(r) + (i - 1) * EventSize + k) % Size]]
              = [k \in 0 .. EventSize - 1 |-> d[At(Place(r, i)) + k]]
    <2>1. i \in 1 .. Slots - 1
        BY RingAssumption, Places
    <2>2. \A k \in 0 .. EventSize - 1 :
            (At(r) + (i - 1) * EventSize + k) % Size = At(Place(r, i)) + k
        BY <2>1, RingIndices
    <2> QED
        BY <2>2, Zenon
<1>2. AvailForRead(At(r), At(w), Size) \div EventSize = Count(r, w)
    BY RingIndices
<1> QED
    BY <1>1, <1>2, Zenon DEF Unread

\* An event of a slot is what the application gets.
LEMMA EventOf ==
    ASSUME NEW e \in Events, NEW s, NEW d, Holds(d, s, e)
    PROVE  Whole([k \in 0 .. EventSize - 1 |-> d[At(s) + k]]) = e
<1> DEFINE o == [k \in 0 .. EventSize - 1 |-> d[At(s) + k]]
<1>1. \A k \in 0 .. EventSize - 1 : o[k] = <<e, k>>
    BY DEF Holds
<1>2. 0 \in 0 .. EventSize - 1
    BY RingAssumption
<1>3. o[0][1] = e
    BY <1>1, <1>2
<1> HIDE DEF o
<1>4. Whole(o) = e
    BY <1>1, <1>3, Zenon DEF Whole
<1> QED
    BY <1>4 DEF o

\* The unread events form a sequence.
LEMMA UnreadTyped ==
    ASSUME NEW r \in 0 .. Slots - 1, NEW w \in 0 .. Slots - 1, NEW d,
           Intact(d, r, w)
    PROVE  /\ Unread(d, r, w) \in Seq(Events)
           /\ Len(Unread(d, r, w)) = Count(r, w)
           /\ \A i \in 1 .. Count(r, w), e \in Events :
                Holds(d, Place(r, i), e) => Unread(d, r, w)[i] = e
<1> DEFINE q == Unread(d, r, w)
<1>1. Count(r, w) \in Nat
    BY RingAssumption, Places
<1>2. ASSUME NEW i \in 1 .. Count(r, w), NEW e \in Events,
             Holds(d, Place(r, i), e)
      PROVE  q[i] = e
    BY <1>2, EventOf DEF Unread
<1>3. \A i \in 1 .. Count(r, w) : q[i] \in Events
    BY <1>2 DEF Intact
<1>4. q = [i \in 1 .. Count(r, w) |-> q[i]]
    BY Zenon DEF Unread
<1> HIDE DEF q
<1>5. q \in [1 .. Count(r, w) -> Events]
    BY <1>3, <1>4
<1>6. q \in Seq(Events) /\ Len(q) = Count(r, w)
    BY <1>1, <1>5
<1> QED
    BY <1>2, <1>6 DEF q

\* memcpy of an event to slot w leaves the other slots alone.
LEMMA StoredInSlot ==
    ASSUME NEW w \in 0 .. Slots - 1, NEW s \in 0 .. Slots - 1, NEW e,
           NEW d, d = Stored(e, At(w))
    PROVE  /\ Holds(d, w, e)
           /\ s # w => \A x : Holds(data, s, x) => Holds(d, s, x)
<1>1. EventSize \in Nat \ {0} /\ Slots \in Nat \ {0, 1} /\ Size \in Nat
    BY RingAssumption, SlotOffset
<1>2. ASSUME NEW p \in 0 .. Slots - 1, NEW k \in 0 .. EventSize - 1
      PROVE  /\ At(p) + k \in 0 .. Size - 1 /\ At(p) \in Nat
             /\ p < w => At(p) + EventSize =< At(w)
             /\ w < p => At(w) + EventSize =< At(p)
    <2>1. At(p) \in Nat /\ At(p) + EventSize =< Size
        BY <1>1, Offsets, SlotOffset DEF At
    <2>2. /\ p < w => At(p) + EventSize =< At(w)
          /\ w < p => At(w) + EventSize =< At(p)
        BY SlotOrder DEF At
    <2> QED
        BY <1>1, <2>1, <2>2
<1>3. ASSUME NEW k \in 0 .. EventSize - 1 PROVE d[At(w) + k] = <<e, k>>
    <2> DEFINE y == At(w) + k
    <2>1. /\ y \in 0 .. Size - 1 /\ y \in At(w) .. At(w) + EventSize - 1
          /\ y - At(w) = k
        <3>1. At(w) \in Nat /\ At(w) + k \in 0 .. Size - 1
            BY <1>2
        <3>2. ASSUME NEW x \in Nat
              PROVE  x + k \in x .. x + EventSize - 1 /\ x + k - x = k
            BY <1>1
        <3> QED
            BY <3>1, <3>2
    <2> HIDE DEF y
    <2>2. d[y] = <<e, y - At(w)>>
        BY <2>1, Zenon DEF Stored
    <2> QED
        BY <2>1, <2>2, Zenon DEF y
<1>4. ASSUME s # w, NEW k \in 0 .. EventSize - 1
      PROVE  d[At(s) + k] = data[At(s) + k]
    <2> DEFINE y == At(s) + k
    <2>1. y \in 0 .. Size - 1 /\ y \notin At(w) .. At(w) + EventSize - 1
        BY <1>1, <1>2, <1>4
    <2> HIDE DEF y
    <2>2. d[y] = data[y]
        BY <2>1, Zenon DEF Stored
    <2> QED
        BY <2>2 DEF y
<1> QED
    BY <1>3, <1>4 DEF Holds

-----------------------------------------------------------------------------
(* Each step of the ring is a step of the queue                            *)

\* The abstract queue, in the terms of the slots.
LEMMA BarIs ==
    ASSUME NEW r \in 0 .. Slots - 1, NEW w \in 0 .. Slots - 1,
           read_idx = At(r), write_idx = At(w)
    PROVE  QueueBar = Unread(data, r, w)
BY QueueIsUnread DEF QueueBar

\* priv_queue_control_event appends an event, and drops one if it must.
LEMMA EventQueued ==
    ASSUME TypeOK, NEW r \in 0 .. Slots - 1, NEW w \in 0 .. Slots - 1,
           read_idx = At(r), write_idx = At(w), Intact(data, r, w),
           NEW e \in Events, priv_queue_control_event(e)
    PROVE  Kept' /\ Fifo!Queue(e)
<1> DEFINE q == Unread(data, r, w)
           full == Count(r, w) = Slots - 1
           s == IF full THEN Following(r) ELSE r
           v == Following(w)
           t == Unread(data', s, v)
           b == IF full THEN Tail(q) ELSE q
<1>1. EventSize \in Nat \ {0} /\ Slots \in Nat \ {0, 1}
    BY RingAssumption
<1>2. Overflow <=> full
    BY RingIndices DEF Overflow
<1>3. s \in 0 .. Slots - 1 /\ v \in 0 .. Slots - 1
    BY Places
<1>4. read_idx' = At(s) /\ write_idx' = At(v) /\ data' = Stored(e, At(w))
    BY <1>2, RingIndices DEF priv_queue_control_event, RoomMade
<1>5. /\ Count(r, w) \in 0 .. Slots - 1
      /\ Count(s, v) = IF full THEN Slots - 1 ELSE Count(r, w) + 1
    <2>1. /\ Count(r, w) \in 0 .. Slots - 1
          /\ Count(r, w) < Slots - 1 => Count(r, v) = Count(r, w) + 1
          /\ Count(r, w) = Slots - 1 => Count(Following(r), v) = Slots - 1
        BY Places
    <2>2. (full => s = Following(r)) /\ (~full => s = r /\ Count(r, w) < Slots - 1)
        BY <1>1, <2>1
    <2> HIDE DEF s, v
    <2> QED
        BY <2>1, <2>2
<1>6. \A i \in 1 .. Count(s, v) - 1 :
            /\ i + 1 \in 1 .. Count(r, w) + 1
            /\ full => i + 1 \in 1 .. Count(r, w) /\ Place(s, i) = Place(r, i + 1)
            /\ ~full => i \in 1 .. Count(r, w) /\ Place(s, i) = Place(r, i)
    BY <1>1, <1>5, Places
<1>7. Place(s, Count(s, v)) = w
    BY <1>1, <1>5, Places
<1>8. q \in Seq(Events) /\ Len(q) = Count(r, w)
    BY UnreadTyped
<1> HIDE DEF t, s, v, full
<1>9. ASSUME NEW i \in 1 .. Count(r, w), NEW x, Holds(data, Place(r, i), x)
      PROVE  Holds(data', Place(r, i), x)
    <2>1. Place(r, i) \in 0 .. Slots - 1 /\ Place(r, i) # w
        BY Places
    <2> QED
        BY <1>4, <1>9, <2>1, StoredInSlot
<1>10. Holds(data', w, e)
    BY <1>4, StoredInSlot
<1>11. ASSUME NEW i \in 1 .. Count(s, v) - 1
       PROVE  \E x \in Events : Holds(data', Place(s, i), x) /\ b[i] = x
    <2> DEFINE j == IF full THEN i + 1 ELSE i
    <2>1. j \in 1 .. Count(r, w) /\ Place(s, i) = Place(r, j)
        BY <1>6
    <2>2. PICK x \in Events : Holds(data, Place(r, j), x)
        BY <2>1 DEF Intact
    <2>3. q[j] = x
        BY <2>1, <2>2, UnreadTyped
    <2>4. b[i] = q[j]
        <3>1. full => q # <<>> /\ i \in 1 .. Len(q) - 1
            BY <1>5, <1>8, <2>1
        <3> QED
            BY <1>8, <3>1
    <2> HIDE DEF j, b, q
    <2> QED
        BY <1>9, <2>1, <2>2, <2>3, <2>4
<1>12. Intact(data', s, v)
    <2>1. ASSUME NEW i \in 1 .. Count(s, v)
          PROVE  \E x \in Events : Holds(data', Place(s, i), x)
        <3>1. CASE i = Count(s, v)
            BY <1>7, <1>10, <3>1
        <3>2. CASE i # Count(s, v)
            BY <1>1, <1>5, <1>11, <3>2
        <3> QED
            BY <3>1, <3>2
    <2> QED
        BY <2>1 DEF Intact
<1>13. t \in Seq(Events) /\ Len(t) = Count(s, v)
    BY <1>3, <1>12, UnreadTyped DEF t
<1>14. b \in Seq(Events) /\ Len(b) = Count(s, v) - 1
    BY <1>1, <1>5, <1>8 DEF full
<1>15. t = Append(b, e)
    <2>1. /\ Append(b, e) \in Seq(Events) /\ Len(Append(b, e)) = Count(s, v)
          /\ Append(b, e)[Count(s, v)] = e
          /\ \A i \in 1 .. Count(s, v) - 1 : Append(b, e)[i] = b[i]
        BY <1>1, <1>5, <1>14, AppendProperties
    <2>2. ASSUME NEW i \in 1 .. Count(s, v), NEW x \in Events,
                 Holds(data', Place(s, i), x)
          PROVE  t[i] = x
        BY <1>3, <1>12, <2>2, UnreadTyped DEF t
    <2>3. ASSUME NEW i \in 1 .. Count(s, v)
          PROVE  t[i] = Append(b, e)[i]
        <3>1. CASE i = Count(s, v)
            BY <1>7, <1>10, <2>1, <2>2, <3>1
        <3>2. CASE i # Count(s, v)
            BY <1>1, <1>5, <1>11, <2>1, <2>2, <3>2
        <3> QED
            BY <3>1, <3>2
    <2> HIDE DEF b
    <2> QED
        BY <1>13, <2>1, <2>3, SeqEqual
<1>16. QueueBar = q /\ QueueBar' = t
    <2>1. QueueBar' = Unread(data', s, v)
        BY <1>3, <1>4, QueueIsUnread DEF QueueBar
    <2> QED
        BY <2>1, BarIs DEF t
<1>17. Kept'
    BY <1>3, <1>4, <1>12 DEF Kept
<1>18. EventBar' = EventBar /\ res' = IF full THEN -1 ELSE 0
    BY <1>2 DEF priv_queue_control_event, EventBar
<1>19. full <=> Len(q) = Slots - 1
    BY <1>8 DEF full
<1>20. Len(q) < Slots - 1 <=> ~full
    BY <1>1, <1>5, <1>8, <1>19
<1> HIDE DEF q
<1> QED
    BY <1>15, <1>16, <1>17, <1>18, <1>19, <1>20 DEF Fifo!Queue, b

\* priv_dequeue_control_event takes the oldest event whole, if there is one.
LEMMA EventDequeued ==
    ASSUME TypeOK, NEW r \in 0 .. Slots - 1, NEW w \in 0 .. Slots - 1,
           read_idx = At(r), write_idx = At(w), Intact(data, r, w),
           priv_dequeue_control_event
    PROVE  Kept' /\ Fifo!Dequeue
<1> DEFINE q == Unread(data, r, w)
           v == Following(r)
           t == Unread(data, v, w)
<1>1. EventSize \in Nat \ {0} /\ Slots \in Nat \ {0, 1}
    BY RingAssumption
<1>2. q \in Seq(Events) /\ Len(q) = Count(r, w) /\ QueueBar = q
    BY UnreadTyped, BarIs
<1>3. CavailForRead(read_idx, write_idx, Size) < EventSize <=> r = w
    BY RingIndices
<1>4. CASE r = w
    <2>1. res' = -1 /\ UNCHANGED <<read_idx, write_idx, data, event>>
        <3>1. ~(CavailForRead(read_idx, write_idx, Size) >= EventSize)
            <4>1. CavailForRead(read_idx, write_idx, Size) \in Int
                BY <1>1, SlotOffset DEF CavailForRead, TypeOK
            <4> QED
                BY <1>1, <1>3, <1>4, <4>1
        <3> QED
            BY <3>1 DEF priv_dequeue_control_event
    <2>2. Kept'
        BY <2>1 DEF Kept
    <2>3. Len(q) = 0
        BY <1>2, <1>4, Places
    <2>4. QueueBar' = QueueBar /\ EventBar' = EventBar
        BY <2>1 DEF QueueBar, EventBar
    <2> HIDE DEF q
    <2>5. q = <<>>
        BY <1>2, <2>3
    <2> QED
        BY <1>2, <2>1, <2>2, <2>4, <2>5 DEF Fifo!Dequeue
<1>5. CASE r # w
    <2>1. /\ event' = [k \in 0 .. EventSize - 1 |-> data[read_idx + k]]
          /\ read_idx' = Advance(read_idx, EventSize, Size)
          /\ res' = 0 /\ UNCHANGED <<write_idx, data>>
        BY <1>3, <1>5 DEF priv_dequeue_control_event
    <2>2. v \in 0 .. Slots - 1 /\ read_idx' = At(v)
        BY <2>1, Places, RingIndices
    <2>3. /\ Count(r, w) \in 1 .. Slots - 1 /\ Count(v, w) = Count(r, w) - 1
          /\ Place(r, 1) = r
          /\ \A i \in 1 .. Count(v, w) : Place(v, i) = Place(r, i + 1)
        <3>1. /\ Count(r, w) \in 0 .. Slots - 1 /\ Count(r, w) # 0
              /\ Count(v, w) = Count(r, w) - 1
              /\ Place(r, 1) = r
            BY <1>5, Places
        <3>2. ASSUME NEW i \in 1 .. Count(v, w)
              PROVE  Place(v, i) = Place(r, i + 1)
            <4>1. i \in 1 .. Slots - 1
                BY <1>1, <3>1, <3>2
            <4> QED
                BY <4>1, Places
        <3> HIDE DEF v
        <3> QED
            BY <1>1, <3>1, <3>2
    <2> HIDE DEF v, q
    <2>4. Intact(data, v, w)
        <3>1. ASSUME NEW i \in 1 .. Count(v, w)
              PROVE  \E x \in Events : Holds(data, Place(v, i), x)
            <4>1. i + 1 \in 1 .. Count(r, w) /\ Place(v, i) = Place(r, i + 1)
                BY <1>1, <2>3
            <4> QED
                BY <4>1 DEF Intact
        <3> QED
            BY <3>1 DEF Intact
    <2>5. Kept'
        BY <2>1, <2>2, <2>4 DEF Kept
    <2>6. t \in Seq(Events) /\ Len(t) = Count(v, w)
        BY <2>2, <2>4, UnreadTyped
    <2>7. QueueBar' = t
        BY <2>1, <2>2, QueueIsUnread DEF QueueBar
    <2>8. t = Tail(q)
        <3>1. /\ Tail(q) \in Seq(Events) /\ Len(Tail(q)) = Len(q) - 1
              /\ \A i \in 1 .. Len(q) - 1 : Tail(q)[i] = q[i + 1]
            BY <1>2, <2>3
        <3>2. ASSUME NEW i \in 1 .. Count(v, w) PROVE t[i] = q[i + 1]
            <4>1. i + 1 \in 1 .. Count(r, w) /\ Place(v, i) = Place(r, i + 1)
                BY <1>1, <2>3
            <4>2. PICK x \in Events : Holds(data, Place(r, i + 1), x)
                BY <4>1 DEF Intact
            <4>3. q[i + 1] = x
                BY <4>1, <4>2, UnreadTyped DEF q
            <4>4. t[i] = x
                BY <2>2, <2>4, <4>1, <4>2, UnreadTyped
            <4> QED
                BY <4>3, <4>4
        <3> HIDE DEF t
        <3> QED
            BY <1>2, <2>3, <2>6, <3>1, <3>2, SeqEqual
    <2>9. EventBar' = Head(q)
        <3>1. PICK x \in Events : Holds(data, Place(r, 1), x)
            BY <2>3 DEF Intact
        <3>2. q[1] = x
            BY <2>3, <3>1, UnreadTyped DEF q
        <3>3. Whole([k \in 0 .. EventSize - 1 |-> data[At(r) + k]]) = x
            BY <2>3, <3>1, EventOf
        <3>4. event' = [k \in 0 .. EventSize - 1 |-> data[At(r) + k]]
            BY <2>1
        <3>5. Whole(event') = x
            BY <3>3, <3>4, Zenon
        <3>6. event'[0][1] = x
            <4>1. 0 \in 0 .. EventSize - 1
                BY <1>1
            <4>2. event'[0] = data[At(r) + 0]
                BY <3>4, <4>1, Zenon
            <4>3. data[At(r) + 0] = <<x, 0>>
                BY <2>3, <3>1, <4>1 DEF Holds
            <4> QED
                BY <4>2, <4>3
        <3>7. x # NoEvent
            BY RingAssumption
        <3>8. EventBar' = x
            BY <3>5, <3>6, <3>7 DEF EventBar
        <3> QED
            BY <1>2, <2>3, <3>2, <3>8
    <2>10. q # <<>>
        BY <1>2, <2>3
    <2> HIDE DEF t
    <2> QED
        BY <1>2, <2>1, <2>5, <2>7, <2>8, <2>9, <2>10 DEF Fifo!Dequeue
<1> QED
    BY <1>4, <1>5

\* The ring is always made of whole events, and every step of it is a step of
\* the abstract queue.
LEMMA RingSteps ==
    ASSUME TypeOK, Kept, [Next]_vars
    PROVE  Kept' /\ [Fifo!Next]_(Fifo!vars)
<1>1. PICK r \in 0 .. Slots - 1, w \in 0 .. Slots - 1 :
            read_idx = At(r) /\ write_idx = At(w) /\ Intact(data, r, w)
    BY DEF Kept
<1>2. ASSUME NEW e \in Events, priv_queue_control_event(e)
      PROVE  Kept' /\ Fifo!Queue(e)
    BY <1>1, <1>2, EventQueued
<1>3. ASSUME priv_dequeue_control_event
      PROVE  Kept' /\ Fifo!Dequeue
    BY <1>1, <1>3, EventDequeued
<1>4. ASSUME UNCHANGED vars
      PROVE  Kept' /\ UNCHANGED Fifo!vars
    BY <1>4 DEF vars, Kept, Fifo!vars, QueueBar, EventBar
<1> QED
    BY <1>2, <1>3, <1>4 DEF Next, Fifo!Next

\* An empty ring is an empty queue.
LEMMA RingStarts == Init => Kept /\ Fifo!Init
<1> SUFFICES ASSUME Init PROVE Kept /\ Fifo!Init
    OBVIOUS
<1>1. EventSize \in Nat \ {0} /\ Slots \in Nat \ {0, 1} /\ 0 \in 0 .. Slots - 1
    BY RingAssumption
<1>2. At(0) = 0 /\ Count(0, 0) = 0
    BY <1>1, Offsets DEF Count
<1>3. read_idx = At(0) /\ write_idx = At(0)
    BY <1>2 DEF Init
<1>4. Intact(data, 0, 0)
    BY <1>2 DEF Intact
<1>5. Kept
    BY <1>1, <1>3, <1>4 DEF Kept
<1>6. QueueBar = <<>>
    <2>1. QueueBar = Unread(data, 0, 0)
        BY <1>1, <1>3, BarIs
    <2>2. Unread(data, 0, 0) \in Seq(Events) /\ Len(Unread(data, 0, 0)) = 0
        BY <1>1, <1>2, <1>4, UnreadTyped
    <2> QED
        BY <2>1, <2>2
<1>7. EventBar = NoEvent
    <2>1. 0 \in 0 .. EventSize - 1
        BY <1>1
    <2>2. event[0] = <<NoEvent, 0>>
        BY <2>1 DEF Init
    <2> QED
        BY <2>2 DEF EventBar
<1> QED
    BY <1>5, <1>6, <1>7 DEF Fifo!Init, Init

\* The ring implements the queue: priv_queue_control_event keeps every event
\* and drops the oldest one only when Slots - 1 are unread, and
\* priv_dequeue_control_event returns whole events in order.
THEOREM RingIsFifo == Spec => ImplementsFifo
<1>1. Init => IInv /\ Kept /\ Fifo!Init
    BY InitIInv, RingStarts
<1>2. IInv /\ Kept /\ [Next]_vars =>
            IInv' /\ Kept' /\ [Fifo!Next]_(Fifo!vars)
    BY NextIInv, RingSteps DEF IInv
<1> QED
    BY <1>1, <1>2, PTL DEF Spec, ImplementsFifo, Fifo!Spec
=============================================================================
