----------------------------- MODULE PcmDecoder -----------------------------
(***************************************************************************)
(* What both decoders have in common, struct pcm_decoder and the inline    *)
(* functions of src/shared_c/pcm.h: a stream to read from, a buffer of     *)
(* decoded bytes to write to, and the tests by which player.c decides      *)
(* whether to read, to decode or to write.  The decoders themselves are in *)
(* Playback (WAV) and FlacDecoder.                                         *)
(***************************************************************************)
EXTENDS RfStream

CONSTANTS
  DestAlloc,  \* size_allocated of the decoder's buffer
  Frame,      \* pcm_frame_size
  BlockSize   \* block_size, the most that one decode_once adds by itself

ASSUME DecoderAssumption ==
  /\ DestAlloc \in Nat \ {0}
  /\ Frame \in Nat \ {0}
  /\ BlockSize \in Nat \ {0}

VARIABLE dest   \* the decoder's buffer

DestType ==
  /\ dest \in [size_allocated : {DestAlloc}, size_used : 0 .. DestAlloc,
               start_offset : 0 .. DestAlloc]
  /\ dest.start_offset <= dest.size_used

pcm_decoder_is_source_buffer_ready_to_read == UnreadSize(src) > 0

\* The buffer counts as empty only together with the file.
pcm_decoder_is_source_buffer_empty == io_rf_stream_is_empty

BugOutputEmpty == IsEmpty(dest)

pcm_decoder_is_output_buffer_empty == UnreadSize(dest) < Frame

BugOutputNeverFull == FALSE

pcm_decoder_is_output_buffer_full == AvailableSize(dest) < BlockSize

pcm_decoder_get_output_buffer_frames_count == ItemsCount(dest, Frame)

pcm_decoder_read_source(forever, error) ==
  IF ~io_rf_stream_is_eof /\ ~IsFull(src)
  THEN io_rf_stream_read_with_poll(forever, error)
  ELSE error = "none" /\ UNCHANGED stream

\* The two conditions under which player.c decodes once more: in
\* preload_first_period, until a period is there, and in player_preload.
MorePreload(period) ==
  /\ pcm_decoder_is_source_buffer_ready_to_read
  /\ pcm_decoder_get_output_buffer_frames_count < period

BugDecodeIfRoom == ~pcm_decoder_is_output_buffer_full

MoreDecode ==
  /\ pcm_decoder_is_source_buffer_ready_to_read
  /\ ~pcm_decoder_is_output_buffer_full
=============================================================================
