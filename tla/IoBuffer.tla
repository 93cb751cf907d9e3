------------------------------ MODULE IoBuffer ------------------------------
(***************************************************************************)
(* struct io_buffer of src/shared_c/io.h and io.c: a window of unread      *)
(* bytes, [start_offset, size_used), that slides right through a block of  *)
(* memory of size_allocated bytes and is moved back to the front when the  *)
(* tail of the block is too short for the next write.                      *)
(*                                                                         *)
(* A library without variables.  The three numbers of the structure are a  *)
(* record; the block of memory is a function from offsets to bytes and is  *)
(* only an argument of the operators of the second part, so that a client  *)
(* that needs just the sizes does not carry the bytes.  size_t never wraps *)
(* here: every result stays between 0 and size_allocated.                  *)
(***************************************************************************)
EXTENDS Integers, Sequences

EmptyBuffer(size) ==
  [size_allocated |-> size, size_used |-> 0, start_offset |-> 0]

(***************************************************************************)
(* Sizes.                                                                  *)
(***************************************************************************)
UnreadSize(b) == b.size_used - b.start_offset

AvailableSize(b) == b.size_allocated - UnreadSize(b)

TailSize(b) == b.size_allocated - b.size_used

IsEmpty(b) == UnreadSize(b) = 0

IsFull(b) == AvailableSize(b) = 0

ItemsCount(b, itemSize) == UnreadSize(b) \div itemSize

Least(m, n) == IF m < n THEN m ELSE n

(***************************************************************************)
(* What each operation does to the three numbers.                          *)
(***************************************************************************)

\* io_buffer_no_padding: the unread bytes move to the front.
NoPadding(b) ==
  [size_allocated |-> b.size_allocated, size_used |-> UnreadSize(b),
   start_offset |-> 0]

BugCanWriteCapacity(b, n) == n <= b.size_allocated

CanWrite(b, n) == n <= AvailableSize(b)

\* The compaction that try_write performs before it copies n bytes.
MakeRoom(b, n) == IF TailSize(b) < n THEN NoPadding(b) ELSE b

\* The compaction that write_from_read performs before it reads.
MakeReadRoom(b) == IF TailSize(b) = 0 THEN NoPadding(b) ELSE b

Filled(b, n) == [b EXCEPT !.size_used = @ + n]

TryWrite(b, n) == Filled(MakeRoom(b, n), n)

Consumed(b, n) == [b EXCEPT !.start_offset = @ + n]

(***************************************************************************)
(* The block of memory: a function on 0 .. size_allocated - 1.             *)
(***************************************************************************)

\* The memmove of io_buffer_no_padding.
BugMemmove(b, mem) == mem

Memmove(b, mem) ==
  [i \in DOMAIN mem |->
     IF i < UnreadSize(b) THEN mem[b.start_offset + i] ELSE mem[i]]

\* memcpy, or read(2), of the bytes s at offset size_used.
Memcpy(b, mem, s) ==
  [i \in DOMAIN mem |->
     IF i - b.size_used \in 0 .. Len(s) - 1
     THEN s[i - b.size_used + 1] ELSE mem[i]]

\* The memory after the compaction of MakeRoom or MakeReadRoom.
Moved(b, room, mem) == IF room = b THEN mem ELSE Memmove(b, mem)

\* The first n unread bytes, from io_buffer_data_start_read on.
Peek(b, mem, n) == [i \in 1 .. n |-> mem[b.start_offset + i - 1]]

Content(b, mem) == Peek(b, mem, UnreadSize(b))
=============================================================================
