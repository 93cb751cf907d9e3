------------------------------ MODULE RfStream ------------------------------
(***************************************************************************)
(* struct io_rf_stream of src/shared_c/io.h and io.c, the read-forward     *)
(* stream the music comes from, and what is at the other end of its file   *)
(* descriptor: a regular file, or a FIFO into which another process writes *)
(* at its own pace.  The descriptor does not block.                        *)
(*                                                                         *)
(* Bytes are only counted here: that the buffer hands them out in order is *)
(* shown in IoBufferQueue.  The module has no next-state relation of its   *)
(* own; its operators are the parts from which Playback builds its steps.  *)
(* An operator with an argument error is a call that returns that error.   *)
(***************************************************************************)
EXTENDS IoBuffer

CONSTANTS
  FileSizes,  \* how many bytes the file may have, or the writer may write
  SrcAlloc,   \* size_allocated of the stream's buffer
  MaxRead,    \* buffer_max_single_read_size
  Fifo        \* whether the file is a FIFO

ASSUME StreamAssumption ==
  /\ FileSizes \subseteq Nat
  /\ SrcAlloc \in Nat \ {0}
  /\ MaxRead \in Nat \ {0}
  /\ Fifo \in BOOLEAN

VARIABLES
  fd,        \* "open", or "closed" for -1
  src,       \* the buffer
  pos,       \* bytes read(2) has returned
  fileSize,  \* bytes there will be in all
  produced,  \* bytes that exist so far: all of them in a regular file
  writer     \* of the FIFO: "absent", "writing" or "gone"

file == <<fileSize, produced, writer>>
stream == <<fd, src, pos>>

StreamType ==
  /\ fd \in {"open", "closed"}
  /\ src \in [size_allocated : {SrcAlloc}, size_used : 0 .. SrcAlloc,
              start_offset : 0 .. SrcAlloc]
  /\ src.start_offset <= src.size_used
  /\ fileSize \in FileSizes
  /\ produced \in 0 .. fileSize
  /\ pos \in 0 .. produced
  /\ writer \in {"absent", "writing", "gone"}

\* open(2) with O_NONBLOCK succeeds on a FIFO before anybody writes to it.
StreamInit ==
  /\ fd = "open"
  /\ src = EmptyBuffer(SrcAlloc)
  /\ pos = 0
  /\ fileSize \in FileSizes
  /\ IF Fifo THEN produced = 0 /\ writer = "absent"
             ELSE produced = fileSize /\ writer = "gone"
-----------------------------------------------------------------------------
(***************************************************************************)
(* The process that writes to the FIFO.                                    *)
(***************************************************************************)
WriterOpens ==
  /\ writer = "absent"
  /\ writer' = "writing"
  /\ UNCHANGED <<fileSize, produced>>

WriterFeeds ==
  /\ writer = "writing"
  /\ produced' \in produced + 1 .. fileSize
  /\ UNCHANGED <<fileSize, writer>>

WriterCloses ==
  /\ writer = "writing"
  /\ produced = fileSize
  /\ writer' = "gone"
  /\ UNCHANGED <<fileSize, produced>>

WriterNext == WriterOpens \/ WriterFeeds \/ WriterCloses
-----------------------------------------------------------------------------
(***************************************************************************)
(* The stream.                                                             *)
(***************************************************************************)
io_rf_stream_is_eof == fd = "closed"

BugEmptyIsEof == io_rf_stream_is_eof

io_rf_stream_is_empty == io_rf_stream_is_eof /\ IsEmpty(src)

Pending == produced - pos

\* What poll(2) and read(2) find at the other end.
HasInput == ~Fifo \/ Pending > 0
HungUp == Fifo /\ Pending = 0 /\ writer = "gone"
AtEnd == Pending = 0 /\ writer # "writing"

\* io_rf_stream_read_once: one read(2), which closes the descriptor when it
\* returns nothing.
io_rf_stream_read_once(error) ==
  LET room == MakeReadRoom(src)
      n == Least(Least(MaxRead, TailSize(room)), Pending)
  IN
  \/ /\ error = "none"
     /\ n > 0
     /\ src' = Filled(room, n)
     /\ pos' = pos + n
     /\ UNCHANGED fd
  \/ /\ error = "none"
     /\ AtEnd
     /\ fd' = "closed"
     /\ src' = room
     /\ UNCHANGED pos
  \/ /\ \/ error = "eagain" /\ Pending = 0 /\ ~AtEnd
        \/ error = "eio"
     /\ src' = room
     /\ UNCHANGED <<fd, pos>>

\* io_rf_stream_read_with_poll with a timeout, or with -1 to wait for ever.
\* POLLIN is looked at before POLLHUP: what the writer left behind is read
\* before its going away is noticed.
BugHangUpFirst(forever, error) ==
  \/ /\ HasInput /\ ~(Fifo /\ writer = "gone")
     /\ io_rf_stream_read_once(error)
  \/ /\ Fifo /\ writer = "gone"
     /\ error = "none"
     /\ fd' = "closed"
     /\ UNCHANGED <<src, pos>>
  \/ /\ \/ error = "eagain" /\ ~HasInput /\ ~HungUp /\ ~forever
        \/ error = "eio"
     /\ UNCHANGED stream

io_rf_stream_read_with_poll(forever, error) ==
  \/ /\ HasInput
     /\ io_rf_stream_read_once(error)
  \/ /\ HungUp
     /\ error = "none"
     /\ fd' = "closed"
     /\ UNCHANGED <<src, pos>>
  \/ /\ \/ error = "eagain" /\ ~HasInput /\ ~HungUp /\ ~forever
        \/ error = "eio"
     /\ UNCHANGED stream
=============================================================================
