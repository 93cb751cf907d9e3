--------------------------- MODULE IoBufferQueue ---------------------------
(***************************************************************************)
(* One io_buffer and its memory under any legal sequence of the calls of   *)
(* src/shared_c/io.c, each call one action.  A call is legal when its      *)
(* assertions hold.  The bytes a call hands out through its **result       *)
(* pointer are recorded in result, so that the module can be compared with *)
(* the queue of bytes its clients take it for (module ByteQueue).          *)
(*                                                                         *)
(* Definitions named Bug... here and in the modules used are seeded        *)
(* faults: each is the definition below it with a mistake in it.           *)
(***************************************************************************)
EXTENDS IoBuffer

CONSTANTS
  Byte,       \* the values of a byte
  ZeroByte,   \* what fresh memory of mmap holds
  Capacity,   \* size_allocated
  Writes,     \* the byte strings clients offer and read(2) returns
  ItemSizes,  \* the item sizes clients use
  MaxCounts,  \* the max_count values of io_buffer_read_array
  MaxRead     \* max_read_size of io_buffer_write_from_read

ASSUME BufferAssumption ==
  /\ Capacity \in Nat \ {0}
  /\ ZeroByte \in Byte
  /\ Writes \subseteq Seq(Byte) \ {<<>>}
  /\ ItemSizes \subseteq Nat \ {0}
  /\ MaxCounts \subseteq Nat \ {0}
  /\ MaxRead \in Nat \ {0}

VARIABLES
  buf,     \* the three numbers of the io_buffer
  mem,     \* the memory at data
  result   \* what the last call returned

vars == <<buf, mem, result>>

Offsets == 0 .. Capacity - 1

Result(status, bytes) == [status |-> status, bytes |-> bytes]

Init ==
  /\ buf = EmptyBuffer(Capacity)
  /\ mem = [i \in Offsets |-> ZeroByte]
  /\ result = Result("ok", <<>>)
-----------------------------------------------------------------------------
(***************************************************************************)
(* The calls.                                                              *)
(***************************************************************************)
io_buffer_try_write(s) ==
  IF CanWrite(buf, Len(s))
  THEN LET room == MakeRoom(buf, Len(s)) IN
       /\ mem' = Memcpy(room, Moved(buf, room, mem), s)
       /\ buf' = TryWrite(buf, Len(s))
       /\ result' = Result("ok", <<>>)
  ELSE /\ result' = Result("refused", <<>>)
       /\ UNCHANGED <<buf, mem>>

io_buffer_try_read(itemSize) ==
  IF UnreadSize(buf) >= itemSize
  THEN /\ result' = Result("ok", Peek(buf, mem, itemSize))
       /\ buf' = Consumed(buf, itemSize)
       /\ UNCHANGED mem
  ELSE /\ result' = Result("refused", <<>>)
       /\ UNCHANGED <<buf, mem>>

io_buffer_read_array(itemSize, maxCount) ==
  LET size == Least(maxCount, ItemsCount(buf, itemSize)) * itemSize IN
  /\ result' = Result("ok", Peek(buf, mem, size))
  /\ buf' = Consumed(buf, size)
  /\ UNCHANGED mem

\* All whole items, left in the buffer.
io_buffer_array_items(itemSize) ==
  /\ result' = Result("ok", Peek(buf, mem, ItemsCount(buf, itemSize) * itemSize))
  /\ UNCHANGED <<buf, mem>>

io_buffer_array_seek(itemSize, itemsCount) ==
  /\ itemsCount * itemSize <= UnreadSize(buf)
  /\ buf' = Consumed(buf, itemsCount * itemSize)
  /\ result' = Result("ok", <<>>)
  /\ UNCHANGED mem

\* s is what read(2) returned, <<>> at the end of the file.  A call that
\* EINTR interrupts starts again and is not seen.
io_buffer_write_from_read(s) ==
  LET room == MakeReadRoom(buf) IN
  /\ ~IsFull(buf)
  /\ Len(s) <= Least(MaxRead, TailSize(room))
  /\ mem' = Memcpy(room, Moved(buf, room, mem), s)
  /\ buf' = Filled(room, Len(s))
  /\ result' = Result("ok", <<>>)

\* read(2) failed: the compaction before it has happened all the same.
io_buffer_write_from_read_fails ==
  LET room == MakeReadRoom(buf) IN
  /\ ~IsFull(buf)
  /\ mem' = Moved(buf, room, mem)
  /\ buf' = room
  /\ result' = Result("error", <<>>)

Next ==
  \/ \E s \in Writes : io_buffer_try_write(s)
  \/ \E itemSize \in ItemSizes : io_buffer_try_read(itemSize)
  \/ \E itemSize \in ItemSizes, maxCount \in MaxCounts :
       io_buffer_read_array(itemSize, maxCount)
  \/ \E itemSize \in ItemSizes : io_buffer_array_items(itemSize)
  \/ \E itemSize \in ItemSizes, itemsCount \in 0 .. Capacity :
       io_buffer_array_seek(itemSize, itemsCount)
  \/ \E s \in Writes \cup {<<>>} : io_buffer_write_from_read(s)
  \/ io_buffer_write_from_read_fails

Spec == Init /\ [][Next]_vars
-----------------------------------------------------------------------------
(***************************************************************************)
(* Properties.                                                             *)
(***************************************************************************)

\* The window of unread bytes stays inside the block of memory, whatever
\* the calls: the unsigned differences size_used - start_offset and
\* size_allocated - size_used of io.h and io.c never wrap around.
TypeOK ==
  /\ buf \in [size_allocated : {Capacity},
              size_used      : 0 .. Capacity,
              start_offset   : 0 .. Capacity]
  /\ buf.start_offset <= buf.size_used
  /\ mem \in [Offsets -> Byte]
  /\ result \in [status : {"ok", "refused", "error"}, bytes : Seq(Byte)]

\* The buffer is the queue of bytes its clients take it for: across
\* compactions, partial reads and failed reads of the file, what comes out
\* is what went in, in order, and an operation is refused only for want of
\* space or of bytes.
Queue == INSTANCE ByteQueue WITH
           queue <- Content(buf, mem), ReadSizes <- ItemSizes

ImplementsByteQueue == Queue!QueueSpec
=============================================================================
