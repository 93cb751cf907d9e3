-------------------------- MODULE IoBufferTheorems --------------------------
(***************************************************************************)
(* What the operators of IoBuffer do to the sizes of a buffer, for every   *)
(* size and every window.  The proofs about the modules that use buffers   *)
(* cite these lemmas and look no further into the record.                  *)
(***************************************************************************)
EXTENDS IoBuffer, TLAPS

\* The buffers of a size whose window lies inside their memory.
Window(size) ==
  {b \in [size_allocated : {size}, size_used : 0 .. size,
          start_offset : 0 .. size] : b.start_offset <= b.size_used}

LEMMA LeastIsOne ==
  ASSUME NEW m \in Int, NEW n \in Int
  PROVE  Least(m, n) \in {m, n} /\ Least(m, n) <= m /\ Least(m, n) <= n
BY DEF Least

LEMMA EmptyWindow ==
  ASSUME NEW size \in Nat
  PROVE  EmptyBuffer(size) \in Window(size) /\ UnreadSize(EmptyBuffer(size)) = 0
BY DEF EmptyBuffer, Window, UnreadSize

\* The sizes that io.h computes never go below zero, and the tail is part of
\* what is available.
LEMMA WindowSizes ==
  ASSUME NEW size \in Nat, NEW b \in Window(size)
  PROVE  /\ UnreadSize(b) \in 0 .. size
         /\ AvailableSize(b) = size - UnreadSize(b)
         /\ AvailableSize(b) \in 0 .. size
         /\ TailSize(b) \in 0 .. AvailableSize(b)
         /\ IsEmpty(b) <=> UnreadSize(b) = 0
         /\ IsFull(b) <=> UnreadSize(b) = size
BY DEF Window, UnreadSize, AvailableSize, TailSize, IsEmpty, IsFull

\* Filling a part of the tail adds to what is unread.
LEMMA FilledSizes ==
  ASSUME NEW size \in Nat, NEW b \in Window(size), NEW n \in 0 .. TailSize(b)
  PROVE  /\ Filled(b, n) \in Window(size)
         /\ UnreadSize(Filled(b, n)) = UnreadSize(b) + n
BY DEF Window, UnreadSize, TailSize, Filled

\* Consuming takes away from what is unread.
LEMMA ConsumedSizes ==
  ASSUME NEW size \in Nat, NEW b \in Window(size), NEW n \in 0 .. UnreadSize(b)
  PROVE  /\ Consumed(b, n) \in Window(size)
         /\ UnreadSize(Consumed(b, n)) = UnreadSize(b) - n
BY DEF Window, UnreadSize, Consumed

\* Compaction leaves what is unread and turns all that is available into
\* the tail.
LEMMA NoPaddingSizes ==
  ASSUME NEW size \in Nat, NEW b \in Window(size)
  PROVE  /\ NoPadding(b) \in Window(size)
         /\ UnreadSize(NoPadding(b)) = UnreadSize(b)
         /\ TailSize(NoPadding(b)) = AvailableSize(b)
BY DEF Window, UnreadSize, AvailableSize, TailSize, NoPadding

LEMMA ReadRoomSizes ==
  ASSUME NEW size \in Nat, NEW b \in Window(size)
  PROVE  /\ MakeReadRoom(b) \in Window(size)
         /\ UnreadSize(MakeReadRoom(b)) = UnreadSize(b)
         /\ ~IsFull(b) => TailSize(MakeReadRoom(b)) > 0
<1>1. CASE TailSize(b) = 0
  BY <1>1, NoPaddingSizes, WindowSizes DEF MakeReadRoom, IsFull
<1>2. CASE TailSize(b) # 0
  BY <1>2, WindowSizes DEF MakeReadRoom
<1>3. QED
  BY <1>1, <1>2

\* A write of no more than is available fits, after a compaction if need be.
LEMMA TryWriteSizes ==
  ASSUME NEW size \in Nat, NEW b \in Window(size), NEW n \in 0 .. AvailableSize(b)
  PROVE  /\ TryWrite(b, n) \in Window(size)
         /\ UnreadSize(TryWrite(b, n)) = UnreadSize(b) + n
<1>1. CASE TailSize(b) < n
  <2>1. n \in 0 .. TailSize(NoPadding(b))
    BY NoPaddingSizes
  <2>2. QED
    BY <1>1, <2>1, NoPaddingSizes, FilledSizes DEF TryWrite, MakeRoom
<1>2. CASE ~(TailSize(b) < n)
  <2>1. n \in 0 .. TailSize(b)
    BY <1>2, WindowSizes
  <2>2. QED
    BY <1>2, <2>1, FilledSizes DEF TryWrite, MakeRoom
<1>3. QED
  BY <1>1, <1>2

\* The whole items among the unread bytes take no more than there is, and
\* one more would take more.
LEMMA ItemsFit ==
  ASSUME NEW size \in Nat, NEW b \in Window(size), NEW item \in Nat \ {0}
  PROVE  /\ ItemsCount(b, item) \in Nat
         /\ ItemsCount(b, item) * item <= UnreadSize(b)
         /\ UnreadSize(b) < (ItemsCount(b, item) + 1) * item
<1> DEFINE u == UnreadSize(b)
           q == u \div item
           r == u % item
<1>1. u \in Nat
  BY WindowSizes
<1>2. /\ q \in Nat
      /\ r \in 0 .. item - 1
      /\ u = item * q + r
  <2> HIDE DEF u
  <2>1. QED
    BY <1>1
<1>3. ItemsCount(b, item) = q
  BY DEF ItemsCount
<1>4. q * item <= u /\ u < (q + 1) * item
  <2> HIDE DEF u, q, r
  <2>1. q * item = item * q /\ (q + 1) * item = item * q + item
    BY <1>2
  <2>2. item * q \in Nat
    BY <1>2
  <2> DEFINE p == item * q
  <2> HIDE DEF p
  <2>3. p \in Nat /\ q * item = p /\ (q + 1) * item = p + item /\ u = p + r
    BY <1>2, <2>1, <2>2 DEF p
  <2>4. QED
    BY <1>1, <1>2, <2>3
<1> HIDE DEF u, q, r
<1>5. QED
  BY <1>2, <1>3, <1>4 DEF u

\* So do any fewer items.
LEMMA FewerItemsFit ==
  ASSUME NEW size \in Nat, NEW b \in Window(size), NEW item \in Nat \ {0},
         NEW n \in 0 .. ItemsCount(b, item)
  PROVE  n * item \in 0 .. UnreadSize(b)
<1>1. /\ ItemsCount(b, item) \in Nat
      /\ ItemsCount(b, item) * item <= UnreadSize(b)
  BY ItemsFit
<1>6. UnreadSize(b) \in Nat
  BY WindowSizes
<1> DEFINE q == ItemsCount(b, item)
<1>2. q \in Nat /\ n \in Nat /\ n <= q
  BY <1>1
<1> HIDE DEF q
<1>3. PICK d \in Nat : q = n + d
  <2>1. q - n \in Nat /\ q = n + (q - n)
    BY <1>2
  <2>2. QED
    BY <2>1
<1>4. q * item = n * item + d * item /\ n * item \in Nat /\ d * item \in Nat
  BY <1>2, <1>3
<1>5. QED
  BY <1>1, <1>4, <1>6 DEF q
=============================================================================
