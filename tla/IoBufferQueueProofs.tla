------------------------ MODULE IoBufferQueueProofs ------------------------
(***************************************************************************)
(* For every capacity and every set of writes, item sizes and counts: the  *)
(* window of an io_buffer stays inside its memory, and the buffer          *)
(* implements the queue of bytes of module ByteQueue.                      *)
(***************************************************************************)
EXTENDS IoBufferQueue, SequenceTheorems, TLAPS

LEMMA CapacityType == Capacity \in Nat \ {0}
BY BufferAssumption

USE CapacityType DEF Offsets

Window ==
  [size_allocated : {Capacity}, size_used : 0 .. Capacity,
   start_offset : 0 .. Capacity]

\* A buffer whose window is inside the block.
Sane(b) == b \in Window /\ b.start_offset <= b.size_used

Memory == [Offsets -> Byte]

(***************************************************************************)
(* The library: what the operators of IoBuffer return and preserve.        *)
(***************************************************************************)

\* The numbers of a sane buffer, and what filling and consuming make of them.
LEMMA Numbers ==
  ASSUME NEW b, Sane(b)
  PROVE  /\ b.size_allocated = Capacity
         /\ b.start_offset \in 0 .. b.size_used
         /\ b.size_used \in 0 .. Capacity
         /\ UnreadSize(b) \in 0 .. Capacity
         /\ UnreadSize(b) = b.size_used - b.start_offset
BY DEF Sane, Window, UnreadSize

LEMMA FillNumbers ==
  ASSUME NEW b, Sane(b), NEW n \in Nat, n <= TailSize(b)
  PROVE  /\ Sane(Filled(b, n))
         /\ Filled(b, n).start_offset = b.start_offset
         /\ Filled(b, n).size_used = b.size_used + n
         /\ UnreadSize(Filled(b, n)) = UnreadSize(b) + n
         /\ b.size_used + n <= Capacity
BY DEF Sane, Window, UnreadSize, TailSize, Filled

LEMMA ConsumeNumbers ==
  ASSUME NEW b, Sane(b), NEW n \in 0 .. UnreadSize(b)
  PROVE  /\ Sane(Consumed(b, n))
         /\ Consumed(b, n).start_offset = b.start_offset + n
         /\ UnreadSize(Consumed(b, n)) = UnreadSize(b) - n
BY DEF Sane, Window, UnreadSize, Consumed

\* Peek hands out bytes of the window, as many as were asked for.
LEMMA PeekType ==
  ASSUME NEW b, Sane(b), NEW m \in Memory, NEW n \in 0 .. UnreadSize(b)
  PROVE  /\ Peek(b, m, n) \in Seq(Byte)
         /\ Len(Peek(b, m, n)) = n
         /\ DOMAIN Peek(b, m, n) = 1 .. n
         /\ \A i \in 1 .. n : Peek(b, m, n)[i] = m[b.start_offset + i - 1]
BY DEF Sane, Window, Memory, Peek, UnreadSize

LEMMA ContentType ==
  ASSUME NEW b, Sane(b), NEW m \in Memory
  PROVE  /\ Content(b, m) \in Seq(Byte)
         /\ Len(Content(b, m)) = UnreadSize(b)
         /\ \A i \in 1 .. UnreadSize(b) :
              /\ Content(b, m)[i] \in Byte
              /\ Content(b, m)[i] = m[b.start_offset + i - 1]
<1>1. UnreadSize(b) \in 0 .. UnreadSize(b) /\ UnreadSize(b) \in Nat
  BY Numbers
<1> DEFINE u == UnreadSize(b)
<1> HIDE DEF u
<1>2. /\ Peek(b, m, u) \in Seq(Byte)
      /\ Len(Peek(b, m, u)) = u
      /\ \A i \in 1 .. u : Peek(b, m, u)[i] = m[b.start_offset + i - 1]
  BY <1>1, PeekType DEF u
<1>3. \A i \in 1 .. u : Peek(b, m, u)[i] \in Byte
  BY <1>1, <1>2 DEF u
<1> QED
  BY <1>2, <1>3 DEF Content, u

\* Compaction keeps the window inside the block and the unread bytes as
\* they are (io_buffer_no_padding).
LEMMA Compaction ==
  ASSUME NEW b, Sane(b), NEW m \in Memory
  PROVE  /\ Sane(NoPadding(b))
         /\ UnreadSize(NoPadding(b)) = UnreadSize(b)
         /\ TailSize(NoPadding(b)) = AvailableSize(b)
         /\ Memmove(b, m) \in Memory
         /\ Content(NoPadding(b), Memmove(b, m)) = Content(b, m)
<1> DEFINE c == NoPadding(b)
<1>1. Sane(c) /\ UnreadSize(c) = UnreadSize(b) /\ TailSize(c) = AvailableSize(b)
  BY DEF Sane, Window, NoPadding, UnreadSize, TailSize, AvailableSize
<1>2. Memmove(b, m) \in Memory
  BY DEF Sane, Window, Memory, Memmove, UnreadSize
<1>3. \A i \in 1 .. UnreadSize(b) :
        Memmove(b, m)[c.start_offset + i - 1] = m[b.start_offset + i - 1]
  BY DEF Sane, Window, Memory, Memmove, UnreadSize, NoPadding
<1>4. Content(c, Memmove(b, m)) = Content(b, m)
  BY <1>1, <1>3 DEF Content, Peek
<1> QED
  BY <1>1, <1>2, <1>4

\* Both compactions leave a sane buffer with the same content, and enough
\* tail for what follows.
LEMMA Room ==
  ASSUME NEW b, Sane(b), NEW m \in Memory, NEW room,
         room = b \/ room = NoPadding(b)
  PROVE  /\ Sane(room)
         /\ UnreadSize(room) = UnreadSize(b)
         /\ Moved(b, room, m) \in Memory
         /\ Content(room, Moved(b, room, m)) = Content(b, m)
BY Compaction DEF Moved

LEMMA WriteRoom ==
  ASSUME NEW b, Sane(b), NEW n \in Nat, CanWrite(b, n)
  PROVE  n <= TailSize(MakeRoom(b, n))
BY DEF Sane, Window, CanWrite, MakeRoom, NoPadding, TailSize, AvailableSize,
       UnreadSize

\* Filling the tail appends to the content.
LEMMA Appends ==
  ASSUME NEW b, Sane(b), NEW m \in Memory, NEW s \in Seq(Byte),
         Len(s) <= TailSize(b)
  PROVE  /\ Sane(Filled(b, Len(s)))
         /\ Memcpy(b, m, s) \in Memory
         /\ Content(Filled(b, Len(s)), Memcpy(b, m, s)) = Content(b, m) \o s
<1> DEFINE f == Filled(b, Len(s))
           mm == Memcpy(b, m, s)
           u == UnreadSize(b)
           o == b.start_offset
           t == Content(f, mm)
           q == Content(b, m)
<1>1. Len(s) \in Nat
  OBVIOUS
<1>2. /\ Sane(f) /\ f.start_offset = o /\ UnreadSize(f) = u + Len(s)
      /\ u \in Nat /\ o \in Nat /\ b.size_used = o + u
      /\ o + u + Len(s) <= Capacity
  BY <1>1, Numbers, FillNumbers
<1> HIDE DEF f, u, o
<1>3. mm \in Memory
  BY <1>1, <1>2 DEF Memory, Memcpy
<1>4. \A i \in 1 .. u : mm[o + i - 1] = m[o + i - 1]
  BY <1>2 DEF Memory, Memcpy
<1>5. \A i \in 1 .. Len(s) : mm[o + u + i - 1] = s[i]
  <2> SUFFICES ASSUME NEW i \in 1 .. Len(s)
               PROVE  mm[o + u + i - 1] = s[i]
    OBVIOUS
  <2> DEFINE k == o + u + i - 1
  <2>1. k \in Offsets /\ k - b.size_used = i - 1
    BY <1>1, <1>2
  <2>2. \A j \in Offsets : j - b.size_used \in 0 .. Len(s) - 1
                           => mm[j] = s[(j - b.size_used) + 1]
    BY DEF Memory, Memcpy
  <2>3. i - 1 \in 0 .. Len(s) - 1 /\ (i - 1) + 1 = i
    BY <1>1
  <2> HIDE DEF mm, k
  <2>4. mm[k] = s[(k - b.size_used) + 1]
    BY <2>1, <2>2, <2>3
  <2> QED
    BY <2>1, <2>3, <2>4 DEF k
<1>6. q \in Seq(Byte) /\ Len(q) = u /\ \A i \in 1 .. u : q[i] = m[o + i - 1]
  BY ContentType DEF u, o
<1>7. /\ t \in Seq(Byte) /\ Len(t) = u + Len(s)
      /\ \A i \in 1 .. u + Len(s) : t[i] = mm[o + i - 1]
  BY <1>2, <1>3, ContentType
<1> HIDE DEF mm, q, t
<1>8. /\ q \o s \in Seq(Byte) /\ Len(q \o s) = u + Len(s)
      /\ \A i \in 1 .. u : (q \o s)[i] = q[i]
      /\ \A i \in 1 .. Len(s) : (q \o s)[u + i] = s[i]
  <2>1. /\ q \o s \in Seq(Byte) /\ Len(q \o s) = Len(q) + Len(s)
        /\ \A i \in 1 .. Len(q) + Len(s) :
             (q \o s)[i] = IF i <= Len(q) THEN q[i] ELSE s[i - Len(q)]
    BY <1>6, ConcatProperties
  <2>2. ASSUME NEW i \in 1 .. u
        PROVE  (q \o s)[i] = q[i]
    BY <1>1, <1>2, <1>6, <2>1
  <2>3. ASSUME NEW i \in 1 .. Len(s)
        PROVE  (q \o s)[u + i] = s[i]
    <3>1. u + i \in 1 .. u + Len(s) /\ ~(u + i <= u) /\ (u + i) - u = i
      BY <1>1, <1>2
    <3> QED
      BY <1>6, <2>1, <3>1
  <2> QED
    BY <1>6, <2>1, <2>2, <2>3
<1>9. ASSUME NEW i \in 1 .. u + Len(s)
      PROVE  t[i] = (q \o s)[i]
  <2>1. CASE i <= u
    <3>1. i \in 1 .. u
      BY <1>1, <1>2, <2>1
    <3> QED
      BY <1>4, <1>6, <1>7, <1>8, <3>1
  <2>2. CASE i > u
    <3>1. PICK j \in 1 .. Len(s) : i = u + j
      <4>1. i - u \in 1 .. Len(s) /\ i = u + (i - u)
        BY <1>1, <1>2, <2>2
      <4> QED
        BY <4>1
    <3>2. o + i - 1 = o + u + j - 1
      BY <1>1, <1>2, <3>1
    <3> QED
      BY <1>5, <1>7, <1>8, <3>1, <3>2
  <2>3. i \in Int /\ u \in Int
    BY <1>1, <1>2
  <2>4. i <= u \/ i > u
    BY <2>3
  <2> QED
    BY <2>1, <2>2, <2>4
<1>10. t = q \o s
  BY <1>7, <1>8, <1>9, SeqEqual
<1> QED
  BY <1>2, <1>3, <1>10 DEF f, mm, q, t

\* Consuming n bytes cuts them off the front of the content.
LEMMA Cut ==
  ASSUME NEW b, Sane(b), NEW m \in Memory, NEW n \in 0 .. UnreadSize(b)
  PROVE  /\ Sane(Consumed(b, n))
         /\ Peek(b, m, n) = SubSeq(Content(b, m), 1, n)
         /\ Content(Consumed(b, n), m)
              = SubSeq(Content(b, m), n + 1, Len(Content(b, m)))
<1> DEFINE c == Consumed(b, n)
           u == UnreadSize(b)
           o == b.start_offset
           p == Peek(b, m, n)
           q == Content(b, m)
           t == Content(c, m)
<1>1. /\ Sane(c) /\ c.start_offset = o + n /\ UnreadSize(c) = u - n
      /\ u \in Nat /\ o \in Nat /\ n \in 0 .. u
  BY Numbers, ConsumeNumbers
<1>2. /\ q \in Seq(Byte) /\ Len(q) = u
      /\ \A i \in 1 .. u : q[i] \in Byte /\ q[i] = m[o + i - 1]
  BY ContentType
<1>3. /\ p \in Seq(Byte) /\ Len(p) = n
      /\ \A i \in 1 .. n : p[i] = m[o + i - 1]
  BY PeekType
<1>4. /\ t \in Seq(Byte) /\ Len(t) = u - n
      /\ \A i \in 1 .. u - n : t[i] = m[o + n + i - 1]
  <2>1. /\ t \in Seq(Byte) /\ Len(t) = u - n
        /\ \A i \in 1 .. u - n : t[i] = m[(o + n) + i - 1]
    BY <1>1, ContentType
  <2> QED
    BY <1>1, <2>1
<1> HIDE DEF c, u, o, p, q, t
<1>5. p = SubSeq(q, 1, n)
  <2>1. \A i \in 1 .. n : q[i] \in Byte
    BY <1>1, <1>2
  <2>2. /\ SubSeq(q, 1, n) \in Seq(Byte)
        /\ Len(SubSeq(q, 1, n)) = n
        /\ \A i \in 1 .. n : SubSeq(q, 1, n)[i] = q[i]
    BY <1>1, <2>1, SubSeqProperties
  <2>3. \A i \in 1 .. n : p[i] = SubSeq(q, 1, n)[i]
    <3> SUFFICES ASSUME NEW i \in 1 .. n
                 PROVE  p[i] = SubSeq(q, 1, n)[i]
      OBVIOUS
    <3>1. i \in 1 .. u
      BY <1>1
    <3> QED
      BY <1>2, <1>3, <2>2, <3>1
  <2> QED
    BY <1>3, <2>2, <2>3, SeqEqual
<1>6. t = SubSeq(q, n + 1, u)
  <2>1. \A i \in n + 1 .. u : q[i] \in Byte
    BY <1>1, <1>2
  <2>2. /\ SubSeq(q, n + 1, u) \in Seq(Byte)
        /\ Len(SubSeq(q, n + 1, u)) = u - n
        /\ \A i \in 1 .. u - n : SubSeq(q, n + 1, u)[i] = q[n + i]
    BY <1>1, <2>1, SubSeqProperties
  <2>3. \A i \in 1 .. u - n : t[i] = SubSeq(q, n + 1, u)[i]
    <3> SUFFICES ASSUME NEW i \in 1 .. u - n
                 PROVE  t[i] = SubSeq(q, n + 1, u)[i]
      OBVIOUS
    <3>1. n + i \in 1 .. u /\ o + n + i - 1 = o + (n + i) - 1
      BY <1>1
    <3> QED
      BY <1>2, <1>4, <2>2, <3>1
  <2> QED
    BY <1>4, <2>2, <2>3, SeqEqual
<1> QED
  BY <1>1, <1>2, <1>5, <1>6 DEF c, p, q, t

\* Whole items never reach past the window.
LEMMA WholeItems ==
  ASSUME NEW b, Sane(b), NEW size \in Nat \ {0}, NEW count \in Nat
  PROVE  /\ ItemsCount(b, size) * size \in 0 .. UnreadSize(b)
         /\ Least(count, ItemsCount(b, size)) * size \in 0 .. UnreadSize(b)
<1> DEFINE u == UnreadSize(b)
           q == u \div size
           l == Least(count, q)
<1>1. u \in Nat
  BY DEF Sane, Window, UnreadSize
<1>2. q \in Nat /\ q * size <= u /\ l \in Nat /\ l <= q
  <2> HIDE DEF u
  <2> QED  BY <1>1 DEF Least
<1>3. l * size <= q * size /\ l * size \in Nat /\ q * size \in Nat
  <2> HIDE DEF l, q
  <2> QED  BY <1>2
<1> HIDE DEF u
<1>4. q * size \in 0 .. u /\ l * size \in 0 .. u
  <2> HIDE DEF l, q
  <2> QED  BY <1>1, <1>2, <1>3
<1> QED
  BY <1>4 DEF ItemsCount, u
-----------------------------------------------------------------------------
(***************************************************************************)
(* The specification.                                                      *)
(***************************************************************************)
Outcomes == [status : {"ok", "refused", "error"}, bytes : Seq(Byte)]

LEMMA TypeParts == TypeOK <=> Sane(buf) /\ mem \in Memory /\ result \in Outcomes
BY DEF TypeOK, Sane, Window, Memory, Outcomes

LEMMA ResultType ==
  ASSUME NEW status \in {"ok", "refused", "error"}, NEW bytes \in Seq(Byte)
  PROVE  Result(status, bytes) \in Outcomes
BY DEF Result, Outcomes

\* What a client may see of a call: the buffer is sane afterwards, and the
\* queue of its unread bytes took a step of ByteQueue.
Good == TypeOK' /\ Queue!QueueNext

LEMMA InitGood == Init => TypeOK /\ Queue!QueueInit
<1> SUFFICES ASSUME Init
             PROVE  TypeOK /\ Queue!QueueInit
  OBVIOUS
<1>1. Sane(buf) /\ UnreadSize(buf) = 0
  BY DEF Init, Sane, Window, EmptyBuffer, UnreadSize
<1>2. mem \in Memory
  BY BufferAssumption DEF Init, Memory
<1>3. <<>> \in Seq(Byte)
  OBVIOUS
<1>4. result \in Outcomes
  BY <1>3, ResultType DEF Init
<1>5. Content(buf, mem) = <<>>
  BY <1>1, <1>2, ContentType, EmptySeq
<1> QED
  BY <1>1, <1>2, <1>4, <1>5, TypeParts
     DEF Init, Queue!QueueInit, Result, Queue!Result

\* What every client-visible step of the buffer needs of the queue.
LEMMA PopGood ==
  ASSUME TypeOK, NEW STATE n, n \in 0 .. UnreadSize(buf),
         buf' = Consumed(buf, n), mem' = mem,
         result' \in {Result("ok", Peek(buf, mem, n)), Result("ok", <<>>)}
  PROVE  Good
<1>1. Sane(buf) /\ mem \in Memory
  BY TypeParts
<1>2. /\ Sane(buf')
      /\ Peek(buf, mem, n) = SubSeq(Content(buf, mem), 1, n)
      /\ Content(buf', mem')
           = SubSeq(Content(buf, mem), n + 1, Len(Content(buf, mem)))
  BY <1>1, Cut
<1>3. n \in 0 .. Len(Content(buf, mem))
  BY <1>1, ContentType
<1>4. Peek(buf, mem, n) \in Seq(Byte) /\ <<>> \in Seq(Byte)
  BY <1>1, PeekType
<1>5. result' \in Outcomes
  BY <1>4, ResultType
<1>6. TypeOK'
  BY <1>1, <1>2, <1>5 DEF TypeOK, Sane, Window, Memory, Outcomes
<1>7. Queue!Pop(n) \/ Queue!Drop(n)
  BY <1>2 DEF Queue!Pop, Queue!Drop, Result, Queue!Result
<1> QED
  BY <1>3, <1>6, <1>7 DEF Good, Queue!QueueNext

LEMMA LookGood ==
  ASSUME TypeOK, NEW STATE n, n \in 0 .. UnreadSize(buf),
         UNCHANGED <<buf, mem>>, result' = Result("ok", Peek(buf, mem, n))
  PROVE  Good
<1>1. Sane(buf) /\ mem \in Memory
  BY TypeParts
<1>2. Peek(buf, mem, n) = SubSeq(Content(buf, mem), 1, n)
  BY <1>1, Cut
<1>3. n \in 0 .. Len(Content(buf, mem))
  BY <1>1, ContentType
<1>4. result' \in Outcomes
  BY <1>1, PeekType, ResultType
<1>5. TypeOK'
  BY <1>1, <1>4 DEF TypeOK, Sane, Window, Memory, Outcomes
<1>6. Queue!Look(n)
  BY <1>2 DEF Queue!Look, Result, Queue!Result
<1> QED
  BY <1>3, <1>5, <1>6 DEF Good, Queue!QueueNext

\* A call that is refused or fails leaves the content alone.
LEMMA RefuseGood ==
  ASSUME TypeOK, NEW status \in {"refused", "error"},
         Sane(buf'), mem' \in Memory, Content(buf', mem') = Content(buf, mem),
         result' = Result(status, <<>>),
         \/ status = "error"
         \/ \E n \in ItemSizes : n > UnreadSize(buf)
         \/ \E s \in Writes : ~CanWrite(buf, Len(s))
  PROVE  Good
<1>1. Sane(buf) /\ mem \in Memory
  BY TypeParts
<1>2. Len(Content(buf, mem)) = UnreadSize(buf)
  BY <1>1, ContentType
<1>3. result' \in Outcomes
  BY ResultType, EmptySeq
<1>4. TypeOK'
  BY <1>3 DEF TypeOK, Sane, Window, Memory, Outcomes
<1>5. CASE status = "error"
  BY <1>4, <1>5 DEF Good, Queue!QueueNext, Queue!SourceFails, Result, Queue!Result
<1>6. CASE status = "refused" /\ \E n \in ItemSizes : n > UnreadSize(buf)
  BY <1>2, <1>4, <1>6
     DEF Good, Queue!QueueNext, Queue!RefusePop, Result, Queue!Result
<1>7. CASE status = "refused" /\ \E s \in Writes : ~CanWrite(buf, Len(s))
  <2>1. PICK s \in Writes : ~CanWrite(buf, Len(s))
    BY <1>7
  <2>2. Len(s) \in Nat
    BY BufferAssumption
  <2>3. UnreadSize(buf) + Len(s) > Capacity
    BY <1>1, <2>1, <2>2, Numbers DEF CanWrite, AvailableSize
  <2>4. Queue!RefusePush(s)
    BY <1>2, <1>7, <2>3 DEF Queue!RefusePush, Result, Queue!Result
  <2> QED
    BY <1>4, <2>4 DEF Good, Queue!QueueNext
<1> QED
  BY <1>5, <1>6, <1>7

\* The bytes s, appended behind a compaction or without one, were pushed.
LEMMA PushGood ==
  ASSUME TypeOK, NEW s \in Writes \cup {<<>>}, NEW STATE room,
         room = buf \/ room = NoPadding(buf),
         Len(s) <= TailSize(room),
         buf' = Filled(room, Len(s)),
         mem' = Memcpy(room, Moved(buf, room, mem), s),
         result' = Result("ok", <<>>)
  PROVE  Good
<1>1. Sane(buf) /\ mem \in Memory
  BY TypeParts
<1>2. s \in Seq(Byte)
  BY BufferAssumption, EmptySeq
<1>3. /\ Sane(room) /\ Moved(buf, room, mem) \in Memory
      /\ Content(room, Moved(buf, room, mem)) = Content(buf, mem)
  BY <1>1, Room
<1>4. /\ Sane(buf') /\ mem' \in Memory
      /\ Content(buf', mem') = Content(buf, mem) \o s
  <2> DEFINE m == Moved(buf, room, mem)
  <2>1. Sane(room) /\ m \in Memory /\ Content(room, m) = Content(buf, mem)
    BY <1>3
  <2>2. buf' = Filled(room, Len(s)) /\ mem' = Memcpy(room, m, s)
    OBVIOUS
  <2> HIDE DEF m
  <2> QED
    <3>1. /\ Sane(Filled(room, Len(s)))
          /\ Memcpy(room, m, s) \in Memory
          /\ Content(Filled(room, Len(s)), Memcpy(room, m, s))
               = Content(room, m) \o s
      BY <1>2, <2>1, Appends
    <3> QED
      BY <2>1, <2>2, <3>1
<1>5. result' \in Outcomes
  BY ResultType, EmptySeq
<1>6. TypeOK'
  BY <1>4, <1>5 DEF TypeOK, Sane, Window, Memory, Outcomes
<1>7. Len(Content(buf, mem)) + Len(s) <= Capacity
  <2>1. Len(Content(buf, mem)) = UnreadSize(buf) /\ Len(s) \in Nat
    BY <1>1, <1>2, ContentType
  <2>2. UnreadSize(room) = UnreadSize(buf)
    BY <1>1, Room
  <2>3. UnreadSize(room) + Len(s) <= Capacity
    BY <1>3, <2>1, Numbers DEF TailSize
  <2> QED
    BY <2>1, <2>2, <2>3
<1>8. Queue!Push(s)
  BY <1>4, <1>7 DEF Queue!Push, Result, Queue!Result
<1> HIDE DEF Queue!Push
<1> QED
  BY <1>6, <1>8 DEF Good, Queue!QueueNext

\* Every call, from a buffer with a sane window: the window stays sane, and
\* the queue of unread bytes takes one step of ByteQueue.
LEMMA StepGood == TypeOK /\ Next => Good
<1> SUFFICES ASSUME TypeOK, Next
             PROVE  Good
  OBVIOUS
<1>1. Sane(buf) /\ mem \in Memory
  BY TypeParts
<1>2. UnreadSize(buf) \in Nat
  BY <1>1, Numbers
<1>3. ASSUME NEW s \in Writes, io_buffer_try_write(s)
      PROVE  Good
  <2>1. Len(s) \in Nat
    BY BufferAssumption
  <2>2. CASE CanWrite(buf, Len(s))
    <3> DEFINE room == MakeRoom(buf, Len(s))
    <3>1. Len(s) <= TailSize(room)
      BY <1>1, <2>1, <2>2, WriteRoom
    <3>2. room = buf \/ room = NoPadding(buf)
      BY DEF MakeRoom
    <3>3. /\ buf' = Filled(room, Len(s))
          /\ mem' = Memcpy(room, Moved(buf, room, mem), s)
          /\ result' = Result("ok", <<>>)
      BY <1>3, <2>2 DEF io_buffer_try_write, TryWrite
    <3> HIDE DEF room
    <3> QED
      BY <3>1, <3>2, <3>3, PushGood
  <2>3. CASE ~CanWrite(buf, Len(s))
    BY <1>1, <1>3, <2>3, RefuseGood DEF io_buffer_try_write
  <2> QED
    BY <2>2, <2>3
<1>4. ASSUME NEW n \in ItemSizes, io_buffer_try_read(n)
      PROVE  Good
  <2>1. n \in Nat
    BY BufferAssumption
  <2>2. CASE UnreadSize(buf) >= n
    <3>1. n \in 0 .. UnreadSize(buf)
      BY <1>2, <2>1, <2>2
    <3> QED
      BY <1>4, <2>2, <3>1, PopGood DEF io_buffer_try_read
  <2>3. CASE ~(UnreadSize(buf) >= n)
    <3>1. n > UnreadSize(buf)
      BY <1>2, <2>1, <2>3
    <3> QED
      BY <1>1, <1>4, <2>3, <3>1, RefuseGood DEF io_buffer_try_read
  <2> QED
    BY <2>2, <2>3
<1>5. ASSUME NEW n \in ItemSizes, NEW max \in MaxCounts,
             io_buffer_read_array(n, max)
      PROVE  Good
  <2> DEFINE size == Least(max, ItemsCount(buf, n)) * n
  <2>1. size \in 0 .. UnreadSize(buf)
    BY <1>1, WholeItems, BufferAssumption
  <2>2. /\ result' = Result("ok", Peek(buf, mem, size))
        /\ buf' = Consumed(buf, size) /\ mem' = mem
    BY <1>5 DEF io_buffer_read_array
  <2> HIDE DEF size
  <2> QED
    BY <2>1, <2>2, PopGood
<1>6. ASSUME NEW n \in ItemSizes, io_buffer_array_items(n)
      PROVE  Good
  <2> DEFINE size == ItemsCount(buf, n) * n
  <2>1. size \in 0 .. UnreadSize(buf)
    BY <1>1, WholeItems, BufferAssumption
  <2>2. result' = Result("ok", Peek(buf, mem, size)) /\ UNCHANGED <<buf, mem>>
    BY <1>6 DEF io_buffer_array_items
  <2> HIDE DEF size
  <2> QED
    BY <2>1, <2>2, LookGood
<1>7. ASSUME NEW n \in ItemSizes, NEW k \in 0 .. Capacity,
             io_buffer_array_seek(n, k)
      PROVE  Good
  <2> DEFINE size == k * n
  <2>1. n \in Nat
    BY BufferAssumption
  <2>2. size \in Nat
    BY <2>1
  <2>3. /\ size <= UnreadSize(buf) /\ buf' = Consumed(buf, size)
        /\ mem' = mem /\ result' = Result("ok", <<>>)
    BY <1>7 DEF io_buffer_array_seek
  <2> HIDE DEF size
  <2>4. size \in 0 .. UnreadSize(buf)
    BY <1>2, <2>2, <2>3
  <2> QED
    BY <2>3, <2>4, PopGood
<1>8. ASSUME NEW s \in Writes \cup {<<>>}, io_buffer_write_from_read(s)
      PROVE  Good
  <2> DEFINE room == MakeReadRoom(buf)
  <2>1. room = buf \/ room = NoPadding(buf)
    BY DEF MakeReadRoom
  <2>2. TailSize(room) \in Nat /\ MaxRead \in Nat
    <3>1. Sane(room)
      BY <1>1, <2>1, Room
    <3> QED
      BY <3>1, Numbers, BufferAssumption DEF TailSize
  <2>3. Len(s) \in Nat
    BY BufferAssumption, EmptySeq
  <2>4. /\ Len(s) <= Least(MaxRead, TailSize(room))
        /\ buf' = Filled(room, Len(s))
        /\ mem' = Memcpy(room, Moved(buf, room, mem), s)
        /\ result' = Result("ok", <<>>)
    BY <1>8 DEF io_buffer_write_from_read
  <2> HIDE DEF room
  <2>5. Len(s) <= TailSize(room)
    BY <2>2, <2>3, <2>4 DEF Least
  <2> QED
    BY <2>1, <2>4, <2>5, PushGood
<1>9. ASSUME io_buffer_write_from_read_fails
      PROVE  Good
  <2> DEFINE room == MakeReadRoom(buf)
  <2>1. room = buf \/ room = NoPadding(buf)
    BY DEF MakeReadRoom
  <2>2. /\ buf' = room /\ mem' = Moved(buf, room, mem)
        /\ result' = Result("error", <<>>)
    BY <1>9 DEF io_buffer_write_from_read_fails
  <2> HIDE DEF room
  <2>3. /\ Sane(buf') /\ mem' \in Memory
        /\ Content(buf', mem') = Content(buf, mem)
    BY <1>1, <2>1, <2>2, Room
  <2> QED
    BY <2>2, <2>3, RefuseGood
<1> QED
  BY <1>3, <1>4, <1>5, <1>6, <1>7, <1>8, <1>9 DEF Next

LEMMA StutterGood ==
  TypeOK /\ UNCHANGED vars
    => TypeOK' /\ UNCHANGED <<Content(buf, mem), result>>
<1> SUFFICES ASSUME TypeOK, UNCHANGED vars
             PROVE  TypeOK' /\ UNCHANGED <<Content(buf, mem), result>>
  OBVIOUS
<1>1. buf' = buf /\ mem' = mem /\ result' = result
  BY DEF vars
<1> QED
  BY <1>1 DEF TypeOK

\* The window of unread bytes never leaves the block of memory.
THEOREM TypeCorrect == Spec => []TypeOK
<1>1. Init => TypeOK
  BY InitGood
<1>2. TypeOK /\ [Next]_vars => TypeOK'
  BY StepGood, StutterGood DEF Good
<1> QED
  BY <1>1, <1>2, PTL DEF Spec

\* io_buffer implements the bounded queue of bytes: nothing its clients read
\* is lost, repeated, reordered or overwritten by a compaction, and nothing
\* is refused that there is room or are bytes for.
THEOREM BufferIsAQueue == Spec => ImplementsByteQueue
<1>1. Init => Queue!QueueInit
  BY InitGood
<1>2. TypeOK /\ [Next]_vars
        => [Queue!QueueNext]_<<Content(buf, mem), result>>
  BY StepGood, StutterGood DEF Good
<1> QED
  BY <1>1, <1>2, TypeCorrect, PTL
     DEF Spec, ImplementsByteQueue, Queue!QueueSpec
=============================================================================
