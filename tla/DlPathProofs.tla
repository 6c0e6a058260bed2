----------------------------- MODULE DlPathProofs -----------------------------
(***************************************************************************)
(* The downlink, for every number of slots and every boundary of the       *)
(* driver's positions that is a multiple of it.  A position is a frame     *)
(* number of which only the rest modulo rx_ptr_boundary is left; the       *)
(* inductive invariant says which frame numbers the library's positions    *)
(* stand for, and the proofs are about when the rests still tell the       *)
(* numbers apart.                                                          *)
(***************************************************************************)
EXTENDS DlPath, TLAPS

-----------------------------------------------------------------------------
(* Rests                                                                   *)

Rest(a, m) == a % m

\* a divided by m is q and leaves r.
Divided(a, m, q, r) == a = m * q + r /\ r \in 0 .. m - 1

\* a is q times m further than b.
Further(a, b, m, q) == a = b + m * q

\* Every number can be divided, and % is the rest.
LEMMA DivMod ==
    ASSUME NEW m \in Nat \ {0}, NEW a \in Int
    PROVE  \E q \in Int, r \in Int : Divided(a, m, q, r) /\ Rest(a, m) = r
<1>1. /\ (a % m) \in 0 .. m - 1 /\ (a \div m) \in Int
      /\ a = m * (a \div m) + (a % m)
    OBVIOUS
<1>2. Divided(a, m, (a \div m), (a % m)) /\ (a % m) \in Int
    BY <1>1 DEF Divided
<1> QED
    BY <1>1, <1>2 DEF Rest

\* A multiple of m that is less than m away from zero is zero.
LEMMA SmallMultiple ==
    ASSUME NEW m \in Nat \ {0}, NEW k \in Int, m * k < m, -m < m * k
    PROVE  k = 0
<1>1. CASE k >= 1
    <2>1. m * (k - 1) >= 0
        BY <1>1
    <2>2. m * k = m * (k - 1) + m
        OBVIOUS
    <2> QED
        BY <2>1, <2>2
<1>2. CASE k <= -1
    <2>1. m * (-1 - k) >= 0
        BY <1>2
    <2>2. m * (-1 - k) = -(m * k) - m
        OBVIOUS
    <2> QED
        BY <2>1, <2>2
<1> QED
    BY <1>1, <1>2

\* What is less than m further is not further.
LEMMA NotFurther ==
    ASSUME NEW m \in Nat \ {0}, NEW a \in Int, NEW b \in Int, NEW q \in Int,
           Further(a, b, m, q), a - b < m, b - a < m
    PROVE  a = b
<1>1. m * q < m /\ -m < m * q /\ a = b + m * q
    BY DEF Further
<1>2. q = 0
    BY <1>1, SmallMultiple
<1> QED
    BY <1>1, <1>2

\* A division that leaves a rest determines it.
LEMMA RestUnique ==
    ASSUME NEW m \in Nat \ {0}, NEW a \in Int, NEW q \in Int, NEW r \in Int,
           Divided(a, m, q, r)
    PROVE  Rest(a, m) = r
<1>1. PICK d \in Int, e \in Int : Divided(a, m, d, e) /\ Rest(a, m) = e
    BY DivMod
<1>2. PICK k \in Int : k = q - d
    OBVIOUS
<1>3. Further(e, r, m, k)
    BY <1>1, <1>2 DEF Divided, Further
<1>4. e - r < m /\ r - e < m
    BY <1>1 DEF Divided
<1>5. e = r
    BY <1>3, <1>4, NotFurther
<1> QED
    BY <1>1, <1>5

\* Numbers a multiple of m apart leave the same rest,
LEMMA SameRest ==
    ASSUME NEW m \in Nat \ {0}, NEW a \in Int, NEW b \in Int, NEW q \in Int,
           Further(a, b, m, q)
    PROVE  Rest(a, m) = Rest(b, m)
<1>1. PICK d \in Int, r \in Int : Divided(b, m, d, r) /\ Rest(b, m) = r
    BY DivMod
<1>2. PICK k \in Int : k = d + q
    OBVIOUS
<1>3. Divided(a, m, k, r)
    BY <1>1, <1>2 DEF Divided, Further
<1>4. Rest(a, m) = r
    BY <1>3, RestUnique
<1> QED
    BY <1>1, <1>4

\* and only those do.
LEMMA RestsEqual ==
    ASSUME NEW m \in Nat \ {0}, NEW a \in Int, NEW b \in Int,
           Rest(a, m) = Rest(b, m)
    PROVE  \E q \in Int : Further(a, b, m, q)
<1>1. PICK d \in Int, r \in Int : Divided(a, m, d, r) /\ Rest(a, m) = r
    BY DivMod
<1>2. PICK e \in Int, s \in Int : Divided(b, m, e, s) /\ Rest(b, m) = s
    BY DivMod
<1>3. r = s
    BY <1>1, <1>2
<1>4. PICK k \in Int : k = d - e
    OBVIOUS
<1>5. Further(a, b, m, k)
    BY <1>1, <1>2, <1>3, <1>4 DEF Divided, Further
<1> QED
    BY <1>5

\* Both can be moved.
LEMMA FurtherMoved ==
    ASSUME NEW m \in Int, NEW a \in Int, NEW b \in Int, NEW q \in Int,
           NEW u \in Int, NEW v \in Int, u - a = v - b, Further(a, b, m, q)
    PROVE  Further(u, v, m, q)
<1>1. PICK t \in Int : t = m * q
    OBVIOUS
<1>2. a = b + t
    BY <1>1 DEF Further
<1>3. u = v + t
    BY <1>2
<1> QED
    BY <1>1, <1>3 DEF Further

\* The difference of two numbers, taken of their rests and made positive.
LEMMA FurtherApart ==
    ASSUME NEW m \in Int, NEW a \in Int, NEW b \in Int, NEW q \in Int,
           NEW c \in Int, NEW d \in Int, NEW t \in Int,
           Further(a, b, m, q), Further(c, d, m, t)
    PROVE  Further(a - c, m + b - d, m, q - t - 1)
<1>1. PICK x \in Int, y \in Int : x = m * q /\ y = m * t
    OBVIOUS
<1>2. m * (q - t - 1) = x - y - m
    BY <1>1
<1>3. a = b + x /\ c = d + y
    BY <1>1 DEF Further
<1>4. a - c = (m + b - d) + (x - y - m)
    BY <1>3
<1> QED
    BY <1>2, <1>4 DEF Further

-----------------------------------------------------------------------------
(* Positions and slots                                                     *)

\* What the constants of the stream are, without %.
LEMMA Constants ==
    /\ DL_SLOTS \in Nat \ {0} /\ DL_SLOTS >= 2
    /\ rx_ptr_boundary \in Nat \ {0} /\ rx_ptr_boundary > DL_SLOTS
    /\ \E k \in Int : rx_ptr_boundary = DL_SLOTS * k
<1>1. /\ DL_SLOTS \in Nat \ {0} /\ DL_SLOTS >= 2
      /\ rx_ptr_boundary \in Nat \ {0} /\ rx_ptr_boundary > DL_SLOTS
      /\ Rest(rx_ptr_boundary, DL_SLOTS) = 0
    BY DlAssumption DEF Rest
<1>2. PICK q \in Int, r \in Int : /\ Divided(rx_ptr_boundary, DL_SLOTS, q, r)
                                 /\ Rest(rx_ptr_boundary, DL_SLOTS) = r
    BY <1>1, DivMod
<1>3. rx_ptr_boundary = DL_SLOTS * q
    BY <1>1, <1>2 DEF Divided
<1> QED
    BY <1>1, <1>3

\* The position of the frame x.
At(x) == Rest(x, rx_ptr_boundary)

\* A position is below the boundary, and a multiple of it away from its frame.
LEMMA AtRange ==
    ASSUME NEW x \in Int
    PROVE  At(x) \in Positions /\ \E q \in Int : Further(x, At(x), rx_ptr_boundary, q)
<1>1. rx_ptr_boundary \in Nat \ {0}
    BY Constants
<1>2. PICK q \in Int, r \in Int : /\ Divided(x, rx_ptr_boundary, q, r)
                                 /\ Rest(x, rx_ptr_boundary) = r
    BY <1>1, DivMod
<1>3. Further(x, r, rx_ptr_boundary, q) /\ r \in 0 .. rx_ptr_boundary - 1
    BY <1>1, <1>2 DEF Divided, Further
<1> QED
    BY <1>2, <1>3 DEF At, Positions

\* The slot of a position is a rest.
LEMMA SlotRest == \A x : Slot(x) = Rest(x, DL_SLOTS)
BY DEF Slot, Rest

\* Slots are numbered from 0 to DL_SLOTS - 1.
LEMMA SlotRange ==
    ASSUME NEW x \in Int
    PROVE  Slot(x) \in Slots
<1>1. DL_SLOTS \in Nat \ {0}
    BY Constants
<1>2. PICK q \in Int, r \in Int : Divided(x, DL_SLOTS, q, r) /\ Rest(x, DL_SLOTS) = r
    BY <1>1, DivMod
<1>3. r \in 0 .. DL_SLOTS - 1
    BY <1>2 DEF Divided
<1> QED
    BY <1>2, <1>3, SlotRest DEF Slots

\* Frames a multiple of the boundary apart are in the same slot.
LEMMA SlotPeriod ==
    ASSUME NEW a \in Int, NEW b \in Int, NEW q \in Int,
           Further(a, b, rx_ptr_boundary, q)
    PROVE  Slot(a) = Slot(b)
<1>1. DL_SLOTS \in Nat \ {0}
    BY Constants
<1>2. PICK k \in Int : rx_ptr_boundary = DL_SLOTS * k
    BY Constants
<1>3. PICK n \in Int : n = k * q
    OBVIOUS
<1>4. (DL_SLOTS * k) * q = DL_SLOTS * n
    BY <1>1, <1>3
<1>5. a = b + (DL_SLOTS * k) * q
    BY <1>2 DEF Further
<1>6. Further(a, b, DL_SLOTS, n)
    BY <1>4, <1>5 DEF Further
<1> QED
    BY <1>1, <1>6, SameRest, SlotRest

\* DL_SLOTS frames later it is the turn of the slot again.
LEMMA NextTurn ==
    ASSUME NEW x \in Int, NEW y \in Int, x = y + DL_SLOTS
    PROVE  Slot(x) = Slot(y)
<1>1. DL_SLOTS \in Nat \ {0}
    BY Constants
<1>2. PICK one \in Int : one = 1
    OBVIOUS
<1>3. x = y + DL_SLOTS * one
    BY <1>1, <1>2
<1>4. Further(x, y, DL_SLOTS, one)
    BY <1>3 DEF Further
<1> QED
    BY <1>1, <1>4, SameRest, SlotRest

\* The slot of a position is that of the frame.
LEMMA SlotOfPosition ==
    ASSUME NEW x \in Int
    PROVE  Slot(At(x)) = Slot(x)
<1>1. PICK q \in Int : Further(x, At(x), rx_ptr_boundary, q)
    BY AtRange
<1>2. At(x) \in Int
    BY AtRange DEF Positions
<1> QED
    BY <1>1, <1>2, SlotPeriod

\* Different frames in the same slot are at least DL_SLOTS apart.
LEMMA SlotWindow ==
    ASSUME NEW x \in Int, NEW y \in Int, Slot(x) = Slot(y),
           x - y < DL_SLOTS, y - x < DL_SLOTS
    PROVE  x = y
<1>1. DL_SLOTS \in Nat \ {0}
    BY Constants
<1>2. PICK q \in Int : Further(x, y, DL_SLOTS, q)
    BY <1>1, RestsEqual, SlotRest
<1> QED
    BY <1>1, <1>2, NotFurther

\* The frame in a slot is one of the last DL_SLOTS frames, and belongs there.
LEMMA FrameInSlot ==
    ASSUME NEW slot \in Slots, frames \in Nat
    PROVE  /\ FrameIn(slot) \in Int
           /\ frames - DL_SLOTS <= FrameIn(slot) /\ FrameIn(slot) < frames
           /\ Slot(FrameIn(slot)) = slot
<1>1. DL_SLOTS \in Nat \ {0} /\ slot \in Int
    BY Constants DEF Slots
<1>2. PICK d \in Int : d = frames - 1 - slot
    BY <1>1
<1>3. PICK q \in Int, r \in Int : Divided(d, DL_SLOTS, q, r) /\ Rest(d, DL_SLOTS) = r
    BY <1>1, DivMod
<1>4. PICK f \in Int : f = frames - 1 - r
    OBVIOUS
<1>5. FrameIn(slot) = f
    BY <1>2, <1>3, <1>4 DEF FrameIn, Rest
<1>6. frames - DL_SLOTS <= f /\ f < frames
    BY <1>1, <1>3, <1>4 DEF Divided
<1>7. Further(f, slot, DL_SLOTS, q)
    BY <1>1, <1>2, <1>3, <1>4 DEF Divided, Further
<1>8. Slot(f) = Slot(slot)
    BY <1>1, <1>7, SameRest, SlotRest
<1>9. Slot(slot) = slot
    <2>1. PICK z \in Int : z = 0
        OBVIOUS
    <2>2. Divided(slot, DL_SLOTS, z, slot)
        BY <1>1, <2>1 DEF Divided, Slots
    <2>3. Rest(slot, DL_SLOTS) = slot
        BY <1>1, <2>2, RestUnique
    <2> QED
        BY <2>3, SlotRest
<1> QED
    BY <1>5, <1>6, <1>8, <1>9

\* Frames a multiple of the boundary apart have the same position.
LEMMA AtPeriod ==
    ASSUME NEW a \in Int, NEW b \in Int, NEW q \in Int,
           Further(a, b, rx_ptr_boundary, q)
    PROVE  At(a) = At(b)
BY Constants, SameRest DEF At

\* The first frames are their own positions.
LEMMA AtSmall ==
    ASSUME NEW x \in Positions
    PROVE  At(x) = x
<1>1. rx_ptr_boundary \in Nat \ {0} /\ x \in Int
    BY Constants DEF Positions
<1>2. PICK z \in Int : z = 0
    OBVIOUS
<1>3. Divided(x, rx_ptr_boundary, z, x)
    BY <1>1, <1>2 DEF Divided, Positions
<1> QED
    BY <1>1, <1>3, RestUnique DEF At

\* Differences of positions are those of the frames, as far as they go.
LEMMA BehindIs ==
    ASSUME NEW p \in Int, NEW a \in Int
    PROVE  Behind(At(p), At(a)) = At(p - a)
<1>1. rx_ptr_boundary \in Nat \ {0}
    BY Constants
<1>2. PICK r \in Int, q \in Int : r = At(p) /\ Further(p, r, rx_ptr_boundary, q)
    BY AtRange DEF Positions
<1>3. PICK s \in Int, t \in Int : s = At(a) /\ Further(a, s, rx_ptr_boundary, t)
    BY AtRange DEF Positions
<1>4. PICK d \in Int, e \in Int, k \in Int :
          d = p - a /\ e = rx_ptr_boundary + r - s /\ k = q - t - 1
    BY <1>1
<1>5. Further(d, e, rx_ptr_boundary, k)
    BY <1>1, <1>2, <1>3, <1>4, FurtherApart
<1>6. At(d) = At(e)
    BY <1>5, AtPeriod
<1> QED
    BY <1>2, <1>3, <1>4, <1>6 DEF Behind, At, Rest

\* priv_bump_rx_ptr_appl goes to the position of the next frame.
LEMMA BumpedIs ==
    ASSUME NEW a \in Int
    PROVE  Bumped(At(a)) = At(a + 1)
<1>1. rx_ptr_boundary \in Nat \ {0}
    BY Constants
<1>2. PICK r \in Int, q \in Int : r = At(a) /\ Further(a, r, rx_ptr_boundary, q)
    BY AtRange DEF Positions
<1>3. PICK d \in Int, e \in Int : d = a + 1 /\ e = r + 1
    OBVIOUS
<1>4. Further(d, e, rx_ptr_boundary, q)
    BY <1>1, <1>2, <1>3, FurtherMoved
<1>5. At(d) = At(e)
    BY <1>4, AtPeriod
<1> QED
    BY <1>2, <1>3, <1>5 DEF Bumped, At, Rest

\* The library has read all there is when the distance is -1.
LEMMA AtMinusOne == At(-1) = rx_ptr_boundary - 1
<1>1. rx_ptr_boundary \in Nat \ {0}
    BY Constants
<1>2. PICK b \in Int : b = rx_ptr_boundary - 1
    BY <1>1
<1>3. Further(-1, b, rx_ptr_boundary, -1) /\ b \in Positions
    BY <1>1, <1>2 DEF Further, Positions
<1>4. At(-1) = At(b)
    BY <1>3, AtPeriod
<1> QED
    BY <1>2, <1>3, <1>4, AtSmall

-----------------------------------------------------------------------------
(* The invariant                                                           *)

\* The notifications have the positions of the frames that follow the last one
\* read, and rx_ptr_hw that of the last one read.
NotesNumbered ==
    /\ Len(notes) <= frames
    /\ \A i \in 1 .. Len(notes) : notes[i] = At(Notified + i - 1)
    /\ Notified > 0 => rx_ptr_hw = At(Notified - 1)

\* rx_ptr_appl is the position of a frame that is later than all the
\* application was given when it had read everything, and the next to be
\* notified at the latest.
ApplIs(a) == rx_ptr_appl = At(a) /\ settled < a /\ a <= Notified

ApplNumbered ==
    /\ rx_ptr_appl < 0 <=> Notified = 0
    /\ Notified = 0 => settled = -1
    /\ Notified > 0 => \E a \in Nat : ApplIs(a)

\* What the application holds has been received.
HeldNumbered ==
    \A k \in 1 .. Len(held) :
        held[k].slot = Slot(held[k].frame) /\ held[k].frame < frames

DlInv ==
    TypeOK /\ NotesNumbered /\ ApplNumbered /\ HeldNumbered /\ OverrunReported

\* The numbers the invariant speaks of.
LEMMA Numbers ==
    ASSUME TypeOK, NotesNumbered
    PROVE  /\ frames \in Nat /\ Len(notes) \in Nat /\ Notified \in Nat
           /\ Notified <= frames /\ Notified = frames - Len(notes)
           /\ settled \in Int /\ -1 <= settled
           /\ notes = <<>> <=> Notified = frames
<1>1. /\ frames \in Nat /\ Len(notes) \in Nat /\ settled \in Int /\ -1 <= settled
      /\ notes = <<>> <=> Len(notes) = 0
    BY DlAssumption DEF TypeOK
<1>2. Notified = frames - Len(notes) /\ Len(notes) <= frames
    BY DEF Notified, NotesNumbered
<1> QED
    BY <1>1, <1>2

\* The buffers held are of the stream's slots.
LEMMA Held ==
    ASSUME TypeOK, NEW k \in 1 .. Len(held)
    PROVE  held[k].slot \in Slots /\ held[k].frame \in Nat
<1> DEFINE Buffers == [slot : Slots, frame : Nat]
<1>1. held \in Seq(Buffers)
    BY DEF TypeOK
<1>2. held[k] \in Buffers
    <2> HIDE DEF Buffers
    <2> QED
        BY <1>1
<1> QED
    BY <1>2

-----------------------------------------------------------------------------
(* Handing out a buffer                                                    *)

\* What HandedOut is the position of, and what is in that slot.
LEMMA HandedOutIs ==
    ASSUME DlInv, rx_ptr_appl >= 0, ~NoData
    PROVE  \E x \in Nat :
             /\ HandedOut = At(x) /\ x < Notified /\ settled <= x
             /\ Bumped(HandedOut) = At(x + 1)
             /\ notes = <<>> =>
                  \E f \in Nat : /\ Slot(f) = Slot(x)
                                 /\ frames - DL_SLOTS < f /\ f < frames
                                 /\ settled < f /\ x <= f
                                 /\ At(f + 1) = At(x + 1)
<1>0. TypeOK /\ NotesNumbered /\ ApplNumbered
    BY DEF DlInv
<1>1. /\ frames \in Nat /\ Notified \in Nat /\ Notified <= frames
      /\ settled \in Int /\ (notes = <<>> <=> Notified = frames)
    BY <1>0, Numbers
<1>2. rx_ptr_appl \in Int
    BY <1>0, Constants DEF TypeOK, Positions
<1>3. Notified > 0
    BY <1>0, <1>1, <1>2 DEF ApplNumbered
<1>4. PICK a \in Nat : ApplIs(a)
    BY <1>0, <1>3 DEF ApplNumbered
<1>5. rx_ptr_appl = At(a) /\ settled < a /\ a <= Notified
    BY <1>4 DEF ApplIs
<1>6. rx_ptr_hw = At(Notified - 1)
    BY <1>0, <1>3 DEF NotesNumbered
<1>7. HwDelay(rx_ptr_appl) = At(frames - a)
    <2>1. rx_ptr = At(frames)
        BY DEF rx_ptr, At, Rest
    <2> QED
        BY <1>1, <1>5, <2>1, BehindIs DEF HwDelay
<1>8. Avail(rx_ptr_appl) = At(Notified - 1 - a)
    BY <1>1, <1>5, <1>6, BehindIs DEF Avail
<1>9. PICK n \in Int : n = Notified - 1
    BY <1>1
<1>10. DL_SLOTS \in Nat /\ DL_SLOTS >= 2 /\ rx_ptr_boundary \in Nat
    BY Constants
<1>11. CASE Late(rx_ptr_appl)
    <2>1. HandedOut = At(n) /\ n \in Nat /\ n < Notified /\ settled <= n
        BY <1>1, <1>3, <1>5, <1>6, <1>9, <1>11 DEF HandedOut
    <2>2. Bumped(HandedOut) = At(n + 1)
        BY <2>1, BumpedIs
    <2>3. ASSUME notes = <<>> PROVE settled < n
        <3>1. frames = n + 1
            BY <1>1, <1>9, <2>3
        <3>2. CASE a = frames
            <4>1. At(frames - a) = 0
                <5>1. PICK z \in Int : z = 0
                    OBVIOUS
                <5>2. z \in Positions
                    BY <1>10, <5>1, Constants DEF Positions
                <5>3. At(z) = z /\ frames - a = z
                    BY <1>1, <3>2, <5>1, <5>2, AtSmall
                <5> QED
                    BY <5>1, <5>3
            <4> QED
                BY <1>7, <1>10, <1>11, <4>1 DEF Late
        <3>3. CASE a # frames
            BY <1>1, <1>5, <2>3, <3>1, <3>3
        <3> QED
            BY <3>2, <3>3
    <2>4. ASSUME notes = <<>>
          PROVE  /\ Slot(n) = Slot(n) /\ frames - DL_SLOTS < n /\ n < frames
                 /\ settled < n /\ n <= n /\ At(n + 1) = At(n + 1)
        BY <1>1, <1>9, <1>10, <2>3, <2>4
    <2> QED
        BY <2>1, <2>2, <2>4
<1>12. CASE ~Late(rx_ptr_appl)
    <2>1. HandedOut = At(a)
        BY <1>5, <1>12 DEF HandedOut
    <2>2. Bumped(HandedOut) = At(a + 1)
        BY <2>1, BumpedIs
    <2>3. a # Notified
        <3>1. ASSUME a = Notified PROVE FALSE
            <4>1. PICK m \in Int : m = -1
                OBVIOUS
            <4>2. Notified - 1 - a = m
                BY <1>1, <3>1, <4>1
            <4>3. Avail(rx_ptr_appl) = rx_ptr_boundary - 1
                BY <1>8, <4>1, <4>2, AtMinusOne
            <4> QED
                BY <4>3 DEF NoData
        <3> QED
            BY <3>1
    <2>4. a < Notified /\ settled <= a
        BY <1>1, <1>5, <2>3
    <2>5. ASSUME notes = <<>>
          PROVE  \E f \in Nat : /\ Slot(f) = Slot(a)
                                /\ frames - DL_SLOTS < f /\ f < frames
                                /\ settled < f /\ a <= f
                                /\ At(f + 1) = At(a + 1)
        <3>1. PICK e \in Int : e = frames - a
            BY <1>1
        <3>2. PICK d \in Int : d = At(e)
            BY AtRange DEF Positions
        <3>3. d \in 0 .. DL_SLOTS - 1
            <4>1. d \in Positions /\ d < DL_SLOTS
                BY <1>7, <1>10, <1>12, <3>1, <3>2, AtRange DEF Late, Positions
            <4> QED
                BY <1>10, <4>1 DEF Positions
        <3>4. PICK q \in Int : Further(e, d, rx_ptr_boundary, q)
            BY <3>2, AtRange
        <3>5. d # 0
            <4>1. ASSUME d = 0 PROVE FALSE
                <5>1. PICK u \in Int, m \in Int : u = Notified - 1 - a /\ m = -1
                    BY <1>1
                <5>2. Further(u, m, rx_ptr_boundary, q)
                    BY <1>1, <1>10, <2>5, <3>1, <3>4, <4>1, <5>1, FurtherMoved
                <5>3. At(u) = At(m)
                    BY <5>2, AtPeriod
                <5>4. Avail(rx_ptr_appl) = rx_ptr_boundary - 1
                    BY <1>8, <5>1, <5>3, AtMinusOne
                <5> QED
                    BY <5>4 DEF NoData
            <4> QED
                BY <4>1
        <3>6. PICK f \in Int : f = frames - d
            BY <1>1
        <3>7. Further(f, a, rx_ptr_boundary, q)
            BY <1>1, <1>10, <3>1, <3>4, <3>6, FurtherMoved
        <3>8. Slot(f) = Slot(a)
            BY <3>7, SlotPeriod
        <3>9. a <= f
            <4>1. PICK t \in Int : t = rx_ptr_boundary * q
                BY <1>10
            <4>2. e = d + t /\ f = a + t
                BY <3>4, <3>7, <4>1 DEF Further
            <4>3. 0 < e /\ d < rx_ptr_boundary
                BY <1>1, <1>10, <2>4, <3>1, <3>3, Constants
            <4>4. q >= 0
                <5>1. CASE q <= -1
                    <6>1. rx_ptr_boundary * (-1 - q) >= 0
                        BY <1>10, <5>1
                    <6>2. rx_ptr_boundary * (-1 - q) = -(rx_ptr_boundary * q) - rx_ptr_boundary
                        BY <1>10
                    <6> QED
                        BY <1>10, <4>1, <4>2, <4>3, <6>1, <6>2
                <5> QED
                    BY <5>1
            <4>5. t >= 0
                BY <1>10, <4>1, <4>4
            <4> QED
                BY <4>2, <4>5
        <3>10. At(f + 1) = At(a + 1)
            <4>1. PICK u \in Int, v \in Int : u = f + 1 /\ v = a + 1
                OBVIOUS
            <4>2. Further(u, v, rx_ptr_boundary, q)
                BY <1>10, <3>7, <4>1, FurtherMoved
            <4> QED
                BY <4>1, <4>2, AtPeriod
        <3>11. /\ f \in Nat /\ frames - DL_SLOTS < f /\ f < frames /\ settled < f
            BY <1>1, <1>5, <1>10, <3>3, <3>5, <3>6, <3>9
        <3> QED
            BY <3>8, <3>9, <3>10, <3>11
    <2> QED
        BY <2>1, <2>2, <2>4, <2>5
<1> QED
    BY <1>11, <1>12

-----------------------------------------------------------------------------
(* The steps                                                               *)

\* A stream that was just configured.
LEMMA InitOK == Init => DlInv
<1> SUFFICES ASSUME Init PROVE DlInv
    OBVIOUS
<1>1. TypeOK
    <2>1. 0 \in 0 .. MaxFrames /\ -1 \in -1 .. 0
        BY DlAssumption
    <2>2. <<>> \in Seq(Positions) /\ <<>> \in Seq([slot : Slots, frame : Nat])
        OBVIOUS
    <2> QED
        BY <2>1, <2>2 DEF Init, TypeOK
<1>2. Notified = 0
    <2>1. frames = 0
        BY DEF Init
    <2>2. Len(notes) = 0
        BY DEF Init
    <2> QED
        BY <2>1, <2>2 DEF Notified
<1>3. NotesNumbered /\ ApplNumbered /\ HeldNumbered /\ OverrunReported
    BY <1>2 DEF Init, NotesNumbered, ApplNumbered, HeldNumbered, OverrunReported
<1> QED
    BY <1>1, <1>3 DEF DlInv

\* A frame more, and one more notification.
LEMMA ReceiveKeeps == DlInv /\ FrameReceived => DlInv'
<1> SUFFICES ASSUME DlInv, FrameReceived PROVE DlInv'
    OBVIOUS
<1>0. TypeOK /\ NotesNumbered /\ ApplNumbered /\ HeldNumbered /\ OverrunReported
    BY DEF DlInv
<1>1. /\ frames' = frames + 1 /\ notes' = Append(notes, rx_ptr)
      /\ frames < MaxFrames
      /\ UNCHANGED <<rx_ptr_hw, rx_ptr_appl, locked, xrun, held, settled>>
    BY DEF FrameReceived
<1>2. /\ frames \in Nat /\ Len(notes) \in Nat /\ Notified \in Nat
      /\ Notified = frames - Len(notes)
    BY <1>0, Numbers
<1>3. rx_ptr = At(frames) /\ rx_ptr \in Positions
    BY <1>2, AtRange DEF rx_ptr, At, Rest
<1>4. notes \in Seq(Positions)
    BY <1>0 DEF TypeOK
<1>5. notes' \in Seq(Positions) /\ Len(notes') = Len(notes) + 1
    BY <1>1, <1>3, <1>4
<1>6. Notified' = Notified
    BY <1>1, <1>2, <1>5 DEF Notified
<1>7. TypeOK'
    BY <1>0, <1>1, <1>2, <1>5, DlAssumption DEF TypeOK, Positions, Slots
<1>8. NotesNumbered'
    <2>1. \A i \in 1 .. Len(notes') : notes'[i] = At(Notified + i - 1)
        <3> SUFFICES ASSUME NEW i \in 1 .. Len(notes')
                     PROVE  notes'[i] = At(Notified + i - 1)
            OBVIOUS
        <3>1. CASE i \in 1 .. Len(notes)
            BY <1>0, <1>1, <1>4, <3>1 DEF NotesNumbered
        <3>2. CASE i = Len(notes) + 1
            <4>1. notes'[i] = At(frames)
                BY <1>1, <1>3, <1>4, <3>2
            <4>2. Notified + i - 1 = frames
                BY <1>2, <3>2
            <4> QED
                BY <4>1, <4>2
        <3> QED
            BY <1>2, <1>5, <3>1, <3>2
    <2> QED
        BY <1>0, <1>1, <1>2, <1>5, <1>6, <2>1 DEF NotesNumbered, At
<1>9. ApplNumbered'
    <2>1. ASSUME NEW a \in Nat, ApplIs(a) PROVE ApplIs(a)'
        BY <1>1, <1>6, <2>1 DEF ApplIs, At
    <2>2. Notified' > 0 => \E a \in Nat : ApplIs(a)'
        BY <1>0, <1>6, <2>1 DEF ApplNumbered
    <2> QED
        BY <1>0, <1>1, <1>6, <2>2 DEF ApplNumbered
<1>10. HeldNumbered'
    <2>1. \A k \in 1 .. Len(held) : held[k].frame \in Nat
        BY <1>0, Held
    <2> QED
        BY <1>0, <1>1, <1>2, <2>1 DEF HeldNumbered
<1>11. OverrunReported'
    BY <1>0, <1>1, <1>6 DEF OverrunReported, LastOfSlot, ReleaseResult
<1> QED
    BY <1>7, <1>8, <1>9, <1>10, <1>11 DEF DlInv

\* A notification read: what is overrun now is in one of the two slots looked at.
LEMMA NotifyKeeps == DlInv /\ handle_inbound_rx_data_received => DlInv'
<1> SUFFICES ASSUME DlInv, handle_inbound_rx_data_received PROVE DlInv'
    OBVIOUS
<1>0. TypeOK /\ NotesNumbered /\ ApplNumbered /\ HeldNumbered /\ OverrunReported
    BY DEF DlInv
<1>1. /\ notes # <<>> /\ rx_ptr_hw' = Head(notes) /\ notes' = Tail(notes)
      /\ rx_ptr_appl' = IF rx_ptr_appl < 0 THEN Head(notes) ELSE rx_ptr_appl
      /\ xrun' = xrun \cup Overrun(rx_ptr_hw', rx_ptr_appl')
      /\ UNCHANGED <<frames, locked, held, settled>>
    BY DEF handle_inbound_rx_data_received
<1>2. /\ frames \in Nat /\ Len(notes) \in Nat /\ Notified \in Nat
      /\ Notified = frames - Len(notes)
      /\ settled \in Int /\ -1 <= settled
    BY <1>0, Numbers
<1>3. notes \in Seq(Positions)
    BY <1>0 DEF TypeOK
<1>4. /\ Len(notes) > 0 /\ notes' \in Seq(Positions)
      /\ Len(notes') = Len(notes) - 1
      /\ \A i \in 1 .. Len(notes') : notes'[i] = notes[i + 1]
      /\ Head(notes) = notes[1] /\ Head(notes) \in Positions
    BY <1>1, <1>3
<1>5. Notified' = Notified + 1
    BY <1>1, <1>2, <1>4 DEF Notified
<1>6. Head(notes) = At(Notified)
    <2>1. Notified + 1 - 1 = Notified /\ 1 \in 1 .. Len(notes)
        BY <1>2, <1>4
    <2>2. notes[1] = At(Notified + 1 - 1)
        BY <1>0, <2>1 DEF NotesNumbered
    <2> QED
        BY <1>4, <2>1, <2>2
<1>7. rx_ptr_hw' \in Positions /\ rx_ptr_hw' = At(Notified)
    BY <1>1, <1>4, <1>6
<1>8. NotesNumbered'
    <2>1. \A i \in 1 .. Len(notes') : notes'[i] = At(Notified + 1 + i - 1)
        <3> SUFFICES ASSUME NEW i \in 1 .. Len(notes')
                     PROVE  notes'[i] = At(Notified + 1 + i - 1)
            OBVIOUS
        <3>1. i + 1 \in 1 .. Len(notes) /\ Notified + (i + 1) - 1 = Notified + 1 + i - 1
            BY <1>2, <1>4
        <3>2. notes[i + 1] = At(Notified + (i + 1) - 1)
            BY <1>0, <3>1 DEF NotesNumbered
        <3> QED
            BY <1>4, <3>1, <3>2
    <2>2. rx_ptr_hw' = At((Notified + 1) - 1)
        <3>1. (Notified + 1) - 1 = Notified
            BY <1>2
        <3> QED
            BY <1>7, <3>1
    <2>3. Len(notes') <= frames'
        BY <1>0, <1>1, <1>2, <1>4 DEF NotesNumbered
    <2> QED
        BY <1>5, <2>1, <2>2, <2>3 DEF NotesNumbered, At
<1>9. rx_ptr_appl' \in Positions /\ \E a \in Nat : ApplIs(a)'
    <2>1. CASE rx_ptr_appl < 0
        <3>1. Notified = 0 /\ settled = -1
            BY <1>0, <2>1 DEF ApplNumbered
        <3>2. PICK z \in Nat : z = Notified
            BY <1>2
        <3>3. rx_ptr_appl' = At(z) /\ settled' < z /\ z <= Notified'
            BY <1>1, <1>2, <1>5, <1>6, <2>1, <3>1, <3>2
        <3>4. ApplIs(z)'
            BY <3>3 DEF ApplIs, At
        <3> QED
            BY <1>1, <1>4, <2>1, <3>4
    <2>2. CASE ~(rx_ptr_appl < 0)
        <3>1. rx_ptr_appl' = rx_ptr_appl
            BY <1>1, <2>2
        <3>2. Notified > 0
            BY <1>0, <1>2, <2>2 DEF ApplNumbered
        <3>3. PICK a \in Nat : ApplIs(a)
            BY <1>0, <3>2 DEF ApplNumbered
        <3>4. ApplIs(a)'
            BY <1>1, <1>2, <1>5, <3>1, <3>3 DEF ApplIs, At
        <3>5. rx_ptr_appl \in Positions
            BY <1>0, <2>2 DEF TypeOK
        <3> QED
            BY <3>1, <3>4, <3>5
    <2> QED
        BY <2>1, <2>2
<1>10. ApplNumbered'
    <2>1. ~(rx_ptr_appl' < 0)
        BY <1>9, Constants DEF Positions
    <2>2. Notified' > 0 /\ Notified' # 0
        BY <1>2, <1>5
    <2> QED
        BY <1>9, <2>1, <2>2 DEF ApplNumbered
<1>11. Slot(rx_ptr_hw') \in Slots /\ Slot(rx_ptr_hw' + 1) \in Slots
    BY <1>7, Constants, SlotRange DEF Positions
<1>12. TypeOK'
    <2>1. xrun' \subseteq Slots
        BY <1>0, <1>1, <1>11 DEF TypeOK, Overrun
    <2> QED
        BY <1>0, <1>1, <1>4, <1>7, <1>9, <2>1 DEF TypeOK, Positions, Slots
<1>13. HeldNumbered'
    BY <1>0, <1>1 DEF HeldNumbered
<1>14. Slot(rx_ptr_hw' + 1) = Slot(Notified + 1)
    <2>1. PICK n \in Int : n = Notified
        BY <1>2
    <2>2. PICK h \in Int : h = At(n)
        BY AtRange DEF Positions
    <2>3. PICK q \in Int : Further(n, h, rx_ptr_boundary, q)
        BY <2>2, AtRange
    <2>4. PICK u \in Int : u = n + 1
        BY <2>1
    <2>5. PICK v \in Int : v = h + 1
        BY <2>2
    <2>6. rx_ptr_boundary \in Int
        BY Constants
    <2>7. Further(u, v, rx_ptr_boundary, q)
        BY <2>3, <2>4, <2>5, <2>6, FurtherMoved
    <2>8. Slot(u) = Slot(v)
        BY <2>7, SlotPeriod
    <2>9. rx_ptr_hw' = h
        BY <1>7, <2>1, <2>2
    <2> QED
        BY <2>1, <2>4, <2>5, <2>8, <2>9
<1>15. OverrunReported'
    <2> SUFFICES ASSUME NEW k \in 1 .. Len(held), LastOfSlot(k),
                        Notified + 1 >= held[k].frame + DL_SLOTS
                 PROVE  ReleaseResult(held[k].slot)' # "ok"
        BY <1>1, <1>5 DEF OverrunReported, LastOfSlot
    <2>1. held[k].frame \in Nat /\ held[k].slot = Slot(held[k].frame)
        BY <1>0, Held DEF HeldNumbered
    <2>2. CASE Notified >= held[k].frame + DL_SLOTS
        <3>1. ReleaseResult(held[k].slot) # "ok"
            BY <1>0, <2>2 DEF OverrunReported
        <3> QED
            BY <1>1, <3>1 DEF ReleaseResult
    <2>3. CASE Notified + 1 = held[k].frame + DL_SLOTS
        <3>1. held[k].slot = Slot(Notified + 1)
            <4>1. PICK u \in Int : u = Notified + 1
                <5>1. Notified + 1 \in Int
                    BY <1>2
                <5> QED
                    BY <5>1
            <4>2. PICK f \in Int : f = held[k].frame
                BY <2>1
            <4>3. Slot(u) = Slot(f)
                BY <2>3, <4>1, <4>2, NextTurn
            <4> QED
                BY <2>1, <4>1, <4>2, <4>3
        <3>2. held[k].slot \in locked => held[k].slot \in xrun'
            BY <1>1, <1>14, <3>1 DEF Overrun
        <3> QED
            BY <1>1, <3>2 DEF ReleaseResult
    <2>4. DL_SLOTS \in Nat
        BY Constants
    <2>5. \/ Notified >= held[k].frame + DL_SLOTS
          \/ Notified + 1 = held[k].frame + DL_SLOTS
        BY <1>2, <2>1, <2>4
    <2> QED
        BY <2>2, <2>3, <2>5
<1> QED
    BY <1>8, <1>10, <1>12, <1>13, <1>15 DEF DlInv

\* The frame in a slot handed out, and what it means when it is the latest.
LEMMA HandedOutFrame ==
    ASSUME DlInv, NEW x \in Nat, x < Notified,
           NEW f \in Int, f = FrameIn(Slot(x))
    PROVE  /\ f \in Nat /\ f < frames /\ frames <= f + DL_SLOTS
           /\ Slot(f) = Slot(x) /\ Slot(x) \in Slots
           /\ \A g \in Nat : Slot(g) = Slot(x) /\ frames - DL_SLOTS < g /\ g < frames
                     => f = g
<1>1. frames \in Nat /\ Notified \in Nat /\ Notified <= frames
    BY Numbers DEF DlInv
<1>2. DL_SLOTS \in Nat /\ DL_SLOTS >= 2
    BY Constants
<1>3. Slot(x) \in Slots
    BY SlotRange
<1>4. frames - DL_SLOTS <= f /\ f < frames /\ Slot(f) = Slot(x)
    BY <1>1, <1>3, FrameInSlot
<1>5. f \in Nat
    <2>1. CASE f >= 0
        BY <2>1
    <2>2. CASE f < 0
        <3>1. x - f < DL_SLOTS \/ f = x
            <4>1. x <= frames - 1 /\ f >= frames - DL_SLOTS
                BY <1>1, <1>2, <1>4
            <4> QED
                BY <1>1, <1>2, <4>1
        <3>2. f - x < DL_SLOTS
            BY <1>2, <2>2
        <3>3. x = f
            BY <1>4, <3>1, <3>2, SlotWindow
        <3> QED
            BY <3>3
    <2> QED
        BY <2>1, <2>2
<1>6. ASSUME NEW g \in Nat, Slot(g) = Slot(x),
             frames - DL_SLOTS < g, g < frames
      PROVE  f = g
    <2>1. f - g < DL_SLOTS /\ g - f < DL_SLOTS
        BY <1>1, <1>2, <1>4, <1>6
    <2> QED
        BY <1>4, <1>6, <2>1, SlotWindow
<1>7. \A g \in Nat : Slot(g) = Slot(x) /\ frames - DL_SLOTS < g /\ g < frames
                     => f = g
    BY <1>6
<1>8. f \in Nat /\ f < frames /\ frames <= f + DL_SLOTS
    BY <1>1, <1>2, <1>4, <1>5
<1> QED
    BY <1>3, <1>4, <1>7, <1>8

\* What an acquisition does, in frame numbers.
LEMMA AcquireIs ==
    ASSUME DlInv, cmtspeech_dl_buffer_acquire
    PROVE  \E x \in Nat, f \in Nat :
             /\ x < Notified /\ settled <= x
             /\ f < frames /\ Notified < f + DL_SLOTS
             /\ Slot(f) = Slot(x) /\ Slot(x) \in Slots
             /\ notes = <<>> => settled < f /\ frames < f + DL_SLOTS
             /\ rx_ptr_appl >= 0
             /\ rx_ptr_appl' = At(x + 1)
             /\ notes = <<>> => rx_ptr_appl' = At(f + 1)
             /\ locked' = locked \cup {Slot(x)}
             /\ held' = Append(held, [slot |-> Slot(x), frame |-> f])
             /\ settled' = IF notes = <<>> THEN f ELSE settled
             /\ UNCHANGED <<frames, notes, rx_ptr_hw, xrun>>
<1>1. /\ rx_ptr_appl >= 0 /\ ~NoData
      /\ locked' = locked \cup {Slot(HandedOut)}
      /\ held' = Append(held, [slot |-> Slot(HandedOut),
                               frame |-> FrameIn(Slot(HandedOut))])
      /\ settled' = IF notes = <<>> THEN Latest(FrameIn(Slot(HandedOut)), settled)
                    ELSE settled
      /\ rx_ptr_appl' = Bumped(HandedOut)
      /\ UNCHANGED <<frames, notes, rx_ptr_hw, xrun>>
    BY DEF cmtspeech_dl_buffer_acquire
<1>2. PICK x \in Nat :
          /\ HandedOut = At(x) /\ x < Notified /\ settled <= x
          /\ Bumped(HandedOut) = At(x + 1)
          /\ notes = <<>> =>
               \E f \in Nat : /\ Slot(f) = Slot(x)
                              /\ frames - DL_SLOTS < f /\ f < frames
                              /\ settled < f /\ x <= f
                              /\ At(f + 1) = At(x + 1)
    BY <1>1, HandedOutIs
<1>3. Slot(HandedOut) = Slot(x)
    BY <1>2, SlotOfPosition
<1>4. /\ frames \in Nat /\ Notified \in Nat /\ Notified <= frames
      /\ settled \in Int /\ (notes = <<>> <=> Notified = frames)
    BY Numbers DEF DlInv
<1>5. DL_SLOTS \in Nat /\ DL_SLOTS >= 2
    BY Constants
<1>6. PICK f \in Int : f = FrameIn(Slot(x))
    BY <1>4, FrameInSlot, SlotRange
<1>7. /\ f \in Nat /\ f < frames /\ frames <= f + DL_SLOTS
      /\ Slot(f) = Slot(x) /\ Slot(x) \in Slots
      /\ \A g \in Nat : Slot(g) = Slot(x) /\ frames - DL_SLOTS < g /\ g < frames
                     => f = g
    BY <1>2, <1>6, HandedOutFrame
<1>8. ASSUME notes = <<>>
      PROVE  settled < f /\ frames < f + DL_SLOTS /\ At(f + 1) = At(x + 1)
    <2>1. PICK g \in Nat : /\ Slot(g) = Slot(x)
                           /\ frames - DL_SLOTS < g /\ g < frames
                           /\ settled < g /\ x <= g
                           /\ At(g + 1) = At(x + 1)
        BY <1>2, <1>8
    <2>2. f = g
        BY <1>7, <2>1
    <2> QED
        BY <1>4, <1>5, <2>1, <2>2
<1>9. Notified < f + DL_SLOTS
    <2>1. CASE notes = <<>>
        BY <1>4, <1>8, <2>1
    <2>2. CASE notes # <<>>
        BY <1>4, <1>5, <1>7, <2>2
    <2> QED
        BY <2>1, <2>2
<1>10. settled' = IF notes = <<>> THEN f ELSE settled
    BY <1>1, <1>3, <1>6, <1>8 DEF Latest
<1> QED
    BY <1>1, <1>2, <1>3, <1>6, <1>7, <1>8, <1>9, <1>10

\* A buffer handed out is not overrun as far as the library was notified.
LEMMA AcquireKeeps == DlInv /\ cmtspeech_dl_buffer_acquire => DlInv'
<1> SUFFICES ASSUME DlInv, cmtspeech_dl_buffer_acquire PROVE DlInv'
    OBVIOUS
<1>0. TypeOK /\ NotesNumbered /\ ApplNumbered /\ HeldNumbered /\ OverrunReported
    BY DEF DlInv
<1>1. /\ frames \in Nat /\ Len(notes) \in Nat /\ Notified \in Nat
      /\ Notified <= frames /\ Notified = frames - Len(notes)
      /\ settled \in Int /\ -1 <= settled
      /\ (notes = <<>> <=> Notified = frames)
    BY <1>0, Numbers
<1>2. PICK x \in Nat, f \in Nat :
        /\ x < Notified /\ settled <= x
        /\ f < frames /\ Notified < f + DL_SLOTS
        /\ Slot(f) = Slot(x) /\ Slot(x) \in Slots
        /\ notes = <<>> => settled < f /\ frames < f + DL_SLOTS
        /\ rx_ptr_appl >= 0
        /\ rx_ptr_appl' = At(x + 1)
        /\ notes = <<>> => rx_ptr_appl' = At(f + 1)
        /\ locked' = locked \cup {Slot(x)}
        /\ held' = Append(held, [slot |-> Slot(x), frame |-> f])
        /\ settled' = IF notes = <<>> THEN f ELSE settled
        /\ UNCHANGED <<frames, notes, rx_ptr_hw, xrun>>
    BY AcquireIs
<1>3. Notified' = Notified
    BY <1>2 DEF Notified
<1>4. rx_ptr_appl' \in Positions
    BY <1>2, AtRange
<1>5. [slot |-> Slot(x), frame |-> f] \in [slot : Slots, frame : Nat]
    BY <1>2
<1>6. held \in Seq([slot : Slots, frame : Nat])
    BY <1>0 DEF TypeOK
<1>7. /\ held' \in Seq([slot : Slots, frame : Nat])
      /\ Len(held) \in Nat /\ Len(held') = Len(held) + 1
      /\ \A k \in 1 .. Len(held) : held'[k] = held[k]
      /\ held'[Len(held) + 1] = [slot |-> Slot(x), frame |-> f]
    BY <1>2, <1>5, <1>6
<1>8. TypeOK'
    <2>1. settled' \in -1 .. frames'
        BY <1>1, <1>2
    <2>2. locked' \subseteq Slots
        BY <1>0, <1>2 DEF TypeOK
    <2> QED
        BY <1>0, <1>2, <1>4, <1>7, <2>1, <2>2 DEF TypeOK, Positions, Slots
<1>9. NotesNumbered'
    BY <1>0, <1>2, <1>3 DEF NotesNumbered, At
<1>10. ApplNumbered'
    <2>1. \E a \in Nat : rx_ptr_appl' = At(a) /\ settled' < a /\ a <= Notified
        <3>1. CASE notes = <<>>
            <4>1. rx_ptr_appl' = At(f + 1) /\ settled' = f /\ f + 1 <= Notified
                BY <1>1, <1>2, <3>1
            <4> QED
                BY <4>1
        <3>2. CASE notes # <<>>
            <4>1. rx_ptr_appl' = At(x + 1) /\ settled' < x + 1 /\ x + 1 <= Notified
                BY <1>1, <1>2, <3>2
            <4> QED
                BY <4>1
        <3> QED
            BY <3>1, <3>2
    <2>2. \E a \in Nat : ApplIs(a)'
        BY <1>3, <2>1 DEF ApplIs, At
    <2>3. Notified > 0 /\ ~(rx_ptr_appl' < 0)
        <3>1. rx_ptr_boundary \in Nat
            BY Constants
        <3> QED
            BY <1>1, <1>2, <1>4, <3>1 DEF Positions
    <2> QED
        BY <1>1, <1>3, <2>2, <2>3 DEF ApplNumbered
<1>11. HeldNumbered'
    <2> SUFFICES ASSUME NEW k \in 1 .. Len(held')
                 PROVE  held'[k].slot = Slot(held'[k].frame) /\ held'[k].frame < frames'
        BY DEF HeldNumbered
    <2>1. CASE k \in 1 .. Len(held)
        BY <1>0, <1>2, <1>7, <2>1 DEF HeldNumbered
    <2>2. CASE k = Len(held) + 1
        BY <1>2, <1>7, <2>2
    <2> QED
        BY <1>7, <2>1, <2>2
<1>12. OverrunReported'
    <2> SUFFICES ASSUME NEW k \in 1 .. Len(held'), LastOfSlot(k)',
                        Notified >= held'[k].frame + DL_SLOTS
                 PROVE  ReleaseResult(held[k].slot)' # "ok"
        BY <1>3 DEF OverrunReported
    <2>1. k \in 1 .. Len(held)
        <3>1. k # Len(held) + 1
            BY <1>1, <1>2, <1>7, Constants
        <3> QED
            BY <1>7, <3>1
    <2>2. held'[k] = held[k] /\ held[k].frame \in Nat
        BY <1>0, <1>7, <2>1, Held
    <2>3. \A j \in k + 1 .. Len(held') : held'[j].slot # held'[k].slot
        BY DEF LastOfSlot
    <2>4. LastOfSlot(k)
        <3> SUFFICES ASSUME NEW j \in k + 1 .. Len(held)
                     PROVE  held[j].slot # held[k].slot
            BY DEF LastOfSlot
        <3>1. j \in 1 .. Len(held) /\ j \in k + 1 .. Len(held')
            BY <1>7, <2>1
        <3>2. held'[j].slot # held'[k].slot
            BY <2>3, <3>1
        <3> QED
            BY <1>7, <2>2, <3>1, <3>2
    <2>5. held[k].slot # Slot(x)
        <3>1. Len(held) + 1 \in k + 1 .. Len(held')
            BY <1>7, <2>1
        <3>2. held'[Len(held) + 1].slot # held'[k].slot
            BY <2>3, <3>1
        <3> QED
            BY <1>7, <2>2, <3>2
    <2>6. ReleaseResult(held[k].slot) # "ok"
        BY <1>0, <2>1, <2>2, <2>4 DEF OverrunReported
    <2> QED
        BY <1>2, <2>2, <2>5, <2>6 DEF ReleaseResult
<1> QED
    BY <1>8, <1>9, <1>10, <1>11, <1>12 DEF DlInv

\* Without its lock a slot is not released as good again.
LEMMA ReleaseKeeps == DlInv /\ cmtspeech_dl_buffer_release => DlInv'
<1> SUFFICES ASSUME DlInv, cmtspeech_dl_buffer_release PROVE DlInv'
    OBVIOUS
<1>0. TypeOK /\ NotesNumbered /\ ApplNumbered /\ HeldNumbered /\ OverrunReported
    BY DEF DlInv
<1>1. /\ held # <<>> /\ held' = Tail(held)
      /\ locked' = locked \ {Head(held).slot}
      /\ xrun' = IF Head(held).slot \in locked THEN xrun \ {Head(held).slot} ELSE xrun
      /\ UNCHANGED <<frames, notes, rx_ptr_hw, rx_ptr_appl, settled>>
    BY DEF cmtspeech_dl_buffer_release
<1>2. held \in Seq([slot : Slots, frame : Nat])
    BY <1>0 DEF TypeOK
<1>3. /\ held' \in Seq([slot : Slots, frame : Nat])
      /\ Len(held) \in Nat /\ Len(held) > 0 /\ Len(held') = Len(held) - 1
      /\ \A k \in 1 .. Len(held') : held'[k] = held[k + 1]
    BY <1>1, <1>2
<1>4. Notified' = Notified
    BY <1>1 DEF Notified
<1>5. TypeOK'
    BY <1>0, <1>1, <1>3 DEF TypeOK, Positions, Slots
<1>6. NotesNumbered'
    BY <1>0, <1>1, <1>4 DEF NotesNumbered, At
<1>7. ApplNumbered'
    BY <1>0, <1>1, <1>4 DEF ApplNumbered, ApplIs, At
<1>8. HeldNumbered'
    <2> SUFFICES ASSUME NEW k \in 1 .. Len(held')
                 PROVE  held'[k].slot = Slot(held'[k].frame) /\ held'[k].frame < frames'
        BY DEF HeldNumbered
    <2>1. k + 1 \in 1 .. Len(held)
        BY <1>3
    <2> QED
        BY <1>0, <1>1, <1>3, <2>1 DEF HeldNumbered
<1>9. OverrunReported'
    <2> SUFFICES ASSUME NEW k \in 1 .. Len(held'), LastOfSlot(k)',
                        Notified >= held'[k].frame + DL_SLOTS
                 PROVE  ReleaseResult(held[k].slot)' # "ok"
        BY <1>4 DEF OverrunReported
    <2>1. k + 1 \in 1 .. Len(held) /\ held'[k] = held[k + 1]
        BY <1>3
    <2>2. LastOfSlot(k + 1)
        <3> SUFFICES ASSUME NEW j \in (k + 1) + 1 .. Len(held)
                     PROVE  held[j].slot # held[k + 1].slot
            BY DEF LastOfSlot
        <3>1. /\ j - 1 \in k + 1 .. Len(held') /\ j - 1 \in 1 .. Len(held')
              /\ (j - 1) + 1 = j
            BY <1>3
        <3>2. held'[j - 1].slot # held'[k].slot
            BY <3>1 DEF LastOfSlot
        <3>3. held'[j - 1] = held[j]
            BY <1>3, <3>1
        <3> QED
            BY <2>1, <3>2, <3>3
    <2>3. ReleaseResult(held[k + 1].slot) # "ok"
        BY <1>0, <2>1, <2>2 DEF OverrunReported
    <2> QED
        BY <1>1, <2>1, <2>3 DEF ReleaseResult
<1> QED
    BY <1>5, <1>6, <1>7, <1>8, <1>9 DEF DlInv

\* The invariant is inductive.
LEMMA StepKeeps == DlInv /\ [Next]_vars => DlInv'
<1> SUFFICES ASSUME DlInv, [Next]_vars PROVE DlInv'
    OBVIOUS
<1>1. CASE FrameReceived
    BY <1>1, ReceiveKeeps
<1>2. CASE handle_inbound_rx_data_received
    BY <1>2, NotifyKeeps
<1>3. CASE cmtspeech_dl_buffer_acquire
    BY <1>3, AcquireKeeps
<1>4. CASE cmtspeech_dl_buffer_release
    BY <1>4, ReleaseKeeps
<1>5. CASE UNCHANGED vars
    BY <1>5 DEF vars, DlInv, TypeOK, Positions, Slots, NotesNumbered, ApplNumbered,
                ApplIs, At, Notified, HeldNumbered, OverrunReported, LastOfSlot,
                ReleaseResult
<1> QED
    BY <1>1, <1>2, <1>3, <1>4, <1>5 DEF Next

\* It holds in every run.
LEMMA DlInvHolds == Spec => []DlInv
<1>1. Init => DlInv
    BY InitOK
<1>2. DlInv /\ [Next]_vars => DlInv'
    BY StepKeeps
<1> QED
    BY <1>1, <1>2, PTL DEF Spec

-----------------------------------------------------------------------------
(* The theorems                                                            *)

\* The positions of library and driver, the slots and the buffers stay in
\* their ranges, for every number of slots, boundary and length of the stream.
THEOREM DlTypeCorrect == Spec => []TypeOK
<1>1. DlInv => TypeOK
    BY DEF DlInv
<1> QED
    BY <1>1, DlInvHolds, PTL

\* A buffer that the driver may have begun to overwrite is never released as
\* if it had been good once the library was notified, if it is the last the
\* application holds of its slot: cmtspeech_dl_buffer_release answers -EPIPE or
\* -ENOENT.
THEOREM OverrunsAreReported == Spec => []OverrunReported
<1>1. DlInv => OverrunReported
    BY DEF DlInv
<1> QED
    BY <1>1, DlInvHolds, PTL

\* cmtspeech_dl_buffer_acquire gives an application that has read all
\* notifications a whole frame that is later than all it was given before,
\* although the positions it works with have wrapped around.
THEOREM CaughtUpIsNew == Spec => CaughtUpGetsNewFrame
<1>1. ASSUME DlInv, [Next]_vars
      PROVE  [Acquired /\ notes = <<>> => ~Damaged(New.frame) /\ New.frame > settled]_vars
    <2> SUFFICES ASSUME Acquired, notes = <<>>
                 PROVE  ~Damaged(New.frame) /\ New.frame > settled
        OBVIOUS
    <2>1. held \in Seq([slot : Slots, frame : Nat])
        BY <1>1 DEF DlInv, TypeOK
    <2>2. CASE FrameReceived \/ handle_inbound_rx_data_received \/ UNCHANGED vars
        <3>1. held' = held
            BY <2>2 DEF FrameReceived, handle_inbound_rx_data_received, vars
        <3> QED
            BY <2>1, <3>1 DEF Acquired
    <2>3. CASE cmtspeech_dl_buffer_release
        <3>1. held' = Tail(held) /\ held # <<>>
            BY <2>3 DEF cmtspeech_dl_buffer_release
        <3>2. Len(held') = Len(held) - 1 /\ Len(held) \in Nat
            BY <2>1, <3>1
        <3> QED
            BY <3>2 DEF Acquired
    <2>4. CASE cmtspeech_dl_buffer_acquire
        <3>1. PICK x \in Nat, f \in Nat :
                /\ settled < f /\ frames < f + DL_SLOTS
                /\ Slot(x) \in Slots
                /\ held' = Append(held, [slot |-> Slot(x), frame |-> f])
            BY <1>1, <2>4, AcquireIs
        <3>2. New = [slot |-> Slot(x), frame |-> f]
            BY <2>1, <3>1 DEF New
        <3>3. New.frame = f
            BY <3>2
        <3>4. frames \in Nat /\ settled \in Int /\ DL_SLOTS \in Nat
            BY <1>1, Numbers, Constants DEF DlInv
        <3> QED
            BY <3>1, <3>3, <3>4 DEF Damaged
    <2> QED
        BY <1>1, <2>2, <2>3, <2>4 DEF Next
<1> QED
    BY <1>1, DlInvHolds, PTL DEF Spec, CaughtUpGetsNewFrame
=============================================================================
