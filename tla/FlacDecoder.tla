---------------------------- MODULE FlacDecoder ----------------------------
(***************************************************************************)
(* Playing a FLAC file: src/shared_c/flac.c between the stream and the     *)
(* decoder's buffer, called from preload_first_period and player_preload   *)
(* of player.c.  What player_write_alsa takes out of the buffer is left to *)
(* chance: Playback shows how the device decides it.                       *)
(*                                                                         *)
(* libFLAC is external.  It is modelled as far as flac.c uses it: it pulls *)
(* bytes through read_callback into a buffer of its own whenever it has    *)
(* parsed all it has, and pushes each block it has completed through       *)
(* write_callback.  In the file the metadata are MetaSize bytes, each      *)
(* encoded block is EncodedSize bytes, and what remains at the end is a    *)
(* block cut short, or a tag, of which libFLAC makes nothing.  A decoded   *)
(* block is BlockSize bytes.  The format of the blocks is that of the      *)
(* metadata, so that write_callback's three checks pass.                   *)
(***************************************************************************)
EXTENDS PcmDecoder

CONSTANTS
  MetaSize,     \* bytes before the first block
  EncodedSize,  \* bytes of an encoded block
  LibAlloc,     \* bytes libFLAC asks for at a time
  Sample,       \* bytes of one sample of one channel
  Period        \* frames_per_period

ASSUME FlacAssumption ==
  /\ MetaSize \in Nat \ {0}
  /\ EncodedSize \in Nat \ {0}
  /\ LibAlloc \in Nat \ {0}
  /\ Sample \in Nat \ {0}
  /\ Period \in Nat \ {0}
  /\ Frame % Sample = 0
  /\ BlockSize % Frame = 0
  /\ BlockSize <= DestAlloc

VARIABLES
  pc,       \* where the program is
  caller,   \* what process_single, or the reading of metadata, returns to
  lib,      \* bytes libFLAC holds and has not parsed
  parsed,   \* bytes of the block, or of the metadata, that it has parsed
  decoded,  \* blocks pushed
  aborted,  \* where a callback has told it to abort, after which it does
            \* nothing: "no", "inside" of a block or "between" two
  taken,    \* bytes player_write_alsa has taken
  error     \* error_r

flac == <<lib, parsed, decoded, aborted>>
vars == <<stream, file, dest, pc, caller, flac, taken, error>>

Init ==
  /\ StreamInit
  /\ dest = EmptyBuffer(DestAlloc)
  /\ pc = "parse"
  /\ caller = "open"
  /\ lib = 0
  /\ parsed = 0
  /\ decoded = 0
  /\ aborted = "no"
  /\ taken = 0
  /\ error = "none"

GoTo(label) == pc' = label /\ UNCHANGED error

FailWith(e) == error' = e /\ pc' = "over"

Wanted == IF caller = "open" THEN MetaSize ELSE EncodedSize
-----------------------------------------------------------------------------
(***************************************************************************)
(* libFLAC and the callbacks, from pcm_validate_flac_content and from      *)
(* pcm_decoder_flac_decode_once.                                           *)
(***************************************************************************)

\* decode_once returns into the loop it was called from.
Returned ==
  IF caller = "preload" /\ ~pcm_decoder_is_source_buffer_empty
  THEN "preload_read" ELSE caller

\* pcm_decoder_flac_open ends: io_buffer_alloc makes the buffer of at least
\* a block.
MetadataDone ==
  /\ pc = "parse" /\ caller = "open"
  /\ parsed + lib >= MetaSize
  /\ lib' = parsed + lib - MetaSize
  /\ parsed' = 0
  /\ GoTo("preload_read")
  /\ UNCHANGED <<stream, file, dest, caller, decoded, aborted, taken>>

\* A callback returns ABORT.
Abort(where) == aborted' = where /\ GoTo("ended")

\* Writes the block sample by sample, as far as there is room.
Room == (AvailableSize(dest) \div Sample) * Sample

BugLastFrameLeft == dest' = TryWrite(dest, Least(Room, BlockSize - Frame))

write_callback == dest' = TryWrite(dest, Least(Room, BlockSize))

BlockDone ==
  /\ pc = "parse" /\ caller # "open"
  /\ parsed + lib >= EncodedSize
  /\ lib' = parsed + lib - EncodedSize
  /\ parsed' = 0
  /\ write_callback
  /\ IF AvailableSize(dest) >= BlockSize
     THEN decoded' = decoded + 1 /\ GoTo(Returned) /\ UNCHANGED aborted
     ELSE UNCHANGED decoded /\ Abort("inside")
  /\ UNCHANGED <<stream, file, caller, taken>>

\* libFLAC has parsed all it has and asks for LibAlloc bytes; it is given
\* what the stream's buffer has of them.
BugGivenAsAsked == LibAlloc

Given == Least(LibAlloc, UnreadSize(src))

read_callback ==
  /\ pc = "parse"
  /\ parsed + lib < Wanted
  /\ lib' = Given
  /\ parsed' = parsed + lib
  /\ src' = Consumed(src, Given)
  /\ GoTo(IF Given > 0 THEN "parse" ELSE "poll")
  /\ UNCHANGED <<fd, pos, file, dest, caller, decoded, aborted, taken>>

\* Nothing was there: it polls until something is, and goes back to try
\* again, or the file has ended.  EAGAIN is tried again.  The poll asserts
\* that the descriptor is open (io.c:353).
PollForMore ==
  /\ pc = "poll"
  /\ IF io_rf_stream_is_eof
     THEN GoTo("crashed") /\ UNCHANGED <<stream, aborted>>
     ELSE \E e \in {"none", "eagain", "eio"} :
          /\ io_rf_stream_read_with_poll(TRUE, e)
          /\ IF e = "eio"
             THEN \E where \in {"between"} \cup (IF parsed > 0 THEN {"inside"} ELSE {}) :
                    Abort(where)
             ELSE /\ GoTo(IF e = "eagain" THEN "poll"
                          ELSE IF fd' = "open" THEN "parse" ELSE "ended")
                  /\ UNCHANGED aborted
  /\ UNCHANGED <<file, dest, caller, lib, parsed, decoded, taken>>

\* libFLAC's call ends without a block.  With the metadata incomplete the
\* open fails.  In decode_once libFLAC returns false inside of a block, and its
\* state tells the end of the stream, which is no error, from an abort; but an
\* abort while it looks for the next block, and each call after that, returns
\* true.
BugEndAssumed == caller = "open"

EndIsError == caller = "open" \/ aborted = "inside"

CallEnded ==
  /\ pc = "ended"
  /\ IF EndIsError THEN FailWith("einval") ELSE GoTo(Returned)
  /\ UNCHANGED <<stream, file, dest, caller, flac, taken>>
-----------------------------------------------------------------------------
(***************************************************************************)
(* The loops of player.c.                                                  *)
(***************************************************************************)
ReadSource(forever, then) ==
  /\ \E e \in {"none", "eagain", "eio"} :
       /\ pcm_decoder_read_source(forever, e)
       /\ IF e = "none" THEN GoTo(then) ELSE FailWith(e)
  /\ UNCHANGED <<file, dest, flac, taken>>

preload_first_period ==
  /\ pc = "preload_read"
  /\ caller' = "preload"
  /\ ReadSource(TRUE, "preload")

player_preload ==
  /\ pc = "read"
  /\ ~io_rf_stream_is_empty
  /\ caller' = "decode"
  /\ ReadSource(pcm_decoder_is_source_buffer_empty, "decode")

DecodeOnce ==
  /\ \/ pc = "preload" /\ MorePreload(Period)
     \/ pc = "decode" /\ MoreDecode
  /\ GoTo(IF aborted # "no" THEN "ended" ELSE "parse")
  /\ UNCHANGED <<stream, file, dest, caller, flac, taken>>

Decoded ==
  /\ \/ pc = "preload" /\ ~MorePreload(Period)
     \/ pc = "decode" /\ ~MoreDecode
     \/ pc = "read" /\ io_rf_stream_is_empty
  /\ GoTo("write")
  /\ UNCHANGED <<stream, file, dest, caller, flac, taken>>

\* player_write_alsa takes none, some or all of the whole frames.  When both
\* ends are empty the device soon runs dry, and play is over.
player_write_alsa ==
  /\ pc = "write"
  /\ \E n \in 0 .. pcm_decoder_get_output_buffer_frames_count :
       /\ dest' = Consumed(dest, n * Frame)
       /\ taken' = taken + n * Frame
  /\ GoTo(IF pcm_decoder_is_source_buffer_empty
             /\ pcm_decoder_is_output_buffer_empty'
          THEN "over" ELSE "read")
  /\ UNCHANGED <<stream, file, caller, flac>>
-----------------------------------------------------------------------------
Program ==
  \/ MetadataDone \/ BlockDone \/ read_callback \/ PollForMore \/ CallEnded
  \/ preload_first_period \/ player_preload \/ DecodeOnce \/ Decoded
  \/ player_write_alsa

Writer ==
  WriterNext /\ UNCHANGED <<stream, dest, pc, caller, flac, taken, error>>

Done == pc \in {"over", "crashed"} /\ UNCHANGED vars

Next == Program \/ Writer \/ Done

Spec == Init /\ [][Next]_vars

\* The program goes on, the FIFO's writer comes, writes and closes, and the
\* device does not stop for ever to take frames.
FairSpec ==
  /\ Spec
  /\ WF_vars(Program) /\ WF_vars(Writer)
  /\ SF_vars(player_write_alsa /\ taken' > taken)
-----------------------------------------------------------------------------
(***************************************************************************)
(* Properties.                                                             *)
(***************************************************************************)

\* Every count stays in its range; both buffers' windows are inside their
\* memory and libFLAC never holds more than it asked for.
TypeOK ==
  /\ StreamType
  /\ DestType
  /\ pc \in {"parse", "poll", "ended", "preload_read", "preload", "read",
             "decode", "write", "over", "crashed"}
  /\ caller \in {"open", "preload", "decode"}
  /\ lib \in 0 .. Least(LibAlloc, pos)
  /\ parsed \in 0 .. Wanted
  /\ decoded \in Nat
  /\ aborted \in {"no", "inside", "between"}
  /\ taken \in Nat
  /\ error \in {"none", "eagain", "eio", "einval"}

Opened == caller # "open" \/ pc = "preload_read"

\* As long as nothing has failed, every byte read is in the metadata, in a
\* block that has been decoded, with libFLAC or in the stream's buffer, and
\* every decoded byte was taken or is in the decoder's buffer: across the
\* polls inside read_callback and the blocks inside one another's reads.
BlocksAccountedFor ==
  error = "none" /\ aborted # "inside" =>
    /\ pos = (IF Opened THEN MetaSize + decoded * EncodedSize ELSE 0)
               + parsed + lib + UnreadSize(src)
    /\ decoded * BlockSize = taken + UnreadSize(dest)

\* Each call of libFLAC for a block has room for all of it: no block is
\* torn (flac.c:126-130) and no assertion of decode_once fails (flac.c:193),
\* in the preload, which does not ask whether there is room, as in the loop.
BlocksFit == pc = "parse" /\ caller # "open" => AvailableSize(dest) >= BlockSize

TotalBlocks ==
  IF fileSize < MetaSize THEN 0 ELSE (fileSize - MetaSize) \div EncodedSize

\* When play ends without an error, every block of the file has been decoded
\* and taken, but for what libFLAC had read ahead when the source ran out.
OnlyReadAheadIsLost ==
  pc = "over" /\ error = "none" =>
    /\ decoded + lib \div EncodedSize = TotalBlocks
    /\ taken = decoded * BlockSize

\* read_callback polls a stream that has ended, which fails an assertion
\* (io.c:353), only for what a file has after its last whole block: a block
\* cut short, a tag, or metadata that are not all there.  By then every whole
\* block is in the output, and nothing but the remainder is with libFLAC.
OnlyRemainderCrashes ==
  pc = "crashed" =>
    /\ parsed > 0 /\ lib = 0
    /\ fileSize >= MetaSize => decoded = TotalBlocks
    /\ fileSize = (IF Opened THEN MetaSize + decoded * EncodedSize ELSE 0) + parsed

\* However the reads inside libFLAC's calls end, with data, at the end of
\* the stream or aborted in the middle of a block (flac.c:64), play comes to
\* its end: decode_once is not called for ever for a block that never comes,
\* unless a read has failed between two blocks, which libFLAC does not tell
\* decode_once (flac.c:195).
EndsUnlessBetween == <>(pc \in {"over", "crashed"} \/ aborted = "between")
=============================================================================
