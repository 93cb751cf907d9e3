------------------------------ MODULE Playback ------------------------------
(***************************************************************************)
(* Playing one WAV file: player_open, the loop of play in                  *)
(* src/bridge/main.c and player_process_once of src/shared_c/player.c,     *)
(* with the decoder of src/shared_c/pcm.c between two buffers, the stream  *)
(* of RfStream at one end and the PCM handle of AlsaPcm at the other.      *)
(*                                                                         *)
(* The program is one thread.  pc is the call it makes next; what it does  *)
(* between two calls that look at or change the file or the device is one  *)
(* step with the second of them, so that the writer of a FIFO and the      *)
(* device can act between any two calls.  Bytes and frames are counted.    *)
(* The header of the file is taken to be valid and HeaderSize long; the    *)
(* program checks it in three reads, here it is one item.  The usleep of   *)
(* player_process_once takes time and changes nothing, and so, whatever it *)
(* reads, does the flag has_been_waiting that decides it.                  *)
(***************************************************************************)
EXTENDS PcmDecoder, AlsaPcm

CONSTANTS
  HeaderSize,  \* bytes before the samples
  FaultKinds,  \* the calls that may fail, and "suspend"
  MaxFaults    \* how often that may happen

ASSUME PlaybackAssumption ==
  /\ HeaderSize \in 1 .. SrcAlloc
  /\ BlockSize = Frame
  /\ FaultKinds \subseteq {"read", "again", "prepare", "resume", "suspend"}
  /\ MaxFaults \in Nat

VARIABLES
  pc,        \* where the program is
  written,   \* written_frames
  offer,     \* avail_count, the frames player_write_alsa is about to write
  reported,  \* the position play last printed, in frames
  error,     \* error_r of play_file
  faults     \* failures so far

player == <<dest, written, offer, reported>>
vars == <<stream, file, device, player, pc, error, faults>>

Init ==
  /\ StreamInit
  /\ DeviceInit
  /\ pc = "open"
  /\ dest = EmptyBuffer(DestAlloc)
  /\ written = 0
  /\ offer = 0
  /\ reported = 0
  /\ error = "none"
  /\ faults = 0

Fault(kind) ==
  /\ kind \in FaultKinds
  /\ faults < MaxFaults
  /\ faults' = faults + 1

NoFault == UNCHANGED faults

GoTo(label) == pc' = label /\ UNCHANGED error

\* The loop of play ends, or is not reached, and play_file cleans up.
FailWith(e) == error' = e /\ pc' = "release"

\* Only a read or a poll that fails outright is a fault; EAGAIN is the
\* answer of a FIFO whose writer is slow.
ReadOutcome(e) == IF e = "eio" THEN Fault("read") ELSE NoFault

ReadErrors == {"none", "eagain", "eio"}
-----------------------------------------------------------------------------
\* Takes what is unread, at most the space at the other side.
BugDecodeAll ==
  /\ dest' = TryWrite(dest, UnreadSize(src))
  /\ src' = Consumed(src, UnreadSize(src))

pcm_decoder_wav_decode_once ==
  LET count == Least(AvailableSize(dest), UnreadSize(src)) IN
  /\ dest' = TryWrite(dest, count)
  /\ src' = Consumed(src, count)
-----------------------------------------------------------------------------
(***************************************************************************)
(* Opening: the header, player_open and preload_first_period.              *)
(***************************************************************************)

\* io_rf_stream_read, which does not poll.  A decoder that was not opened
\* is released through a null pointer.
ReadHeader ==
  /\ pc = "open"
  /\ UnreadSize(src) < HeaderSize
  /\ ~io_rf_stream_is_eof
  /\ \E e \in ReadErrors :
       /\ io_rf_stream_read_once(e)
       /\ ReadOutcome(e)
       /\ error' = e
       /\ pc' = IF e = "none" THEN "open" ELSE "crashed"
  /\ UNCHANGED <<file, device, player>>

HeaderMissing ==
  /\ pc = "open"
  /\ UnreadSize(src) < HeaderSize
  /\ io_rf_stream_is_eof
  /\ error' = "eio"
  /\ pc' = "crashed"
  /\ UNCHANGED <<stream, file, device, player, faults>>

player_open ==
  /\ pc = "open"
  /\ UnreadSize(src) >= HeaderSize
  /\ src' = Consumed(src, HeaderSize)
  /\ snd_pcm_open
  /\ GoTo("preload_read")
  /\ UNCHANGED <<fd, pos, file, player, faults>>

PreloadRead ==
  /\ pc = "preload_read"
  /\ \E e \in ReadErrors :
       /\ pcm_decoder_read_source(TRUE, e)
       /\ ReadOutcome(e)
       /\ error' = e
       /\ pc' = IF e = "none" THEN "preload_decode" ELSE "open_failed"
  /\ UNCHANGED <<file, device, player>>

PreloadDecode ==
  /\ pc = "preload_decode"
  /\ MorePreload(Period)
  /\ UNCHANGED <<fd, pos>>
  /\ pcm_decoder_wav_decode_once
  /\ GoTo(IF pcm_decoder_is_source_buffer_empty' THEN "preload_decode"
                                                 ELSE "preload_read")
  /\ UNCHANGED <<file, device, written, offer, reported, faults>>

Preloaded ==
  /\ pc = "preload_decode"
  /\ ~MorePreload(Period)
  /\ GoTo("eof")
  /\ UNCHANGED <<stream, file, device, player, faults>>

\* player_open closes the handle, but leaves its caller with the player.
player_open_fails ==
  /\ pc = "open_failed"
  /\ snd_pcm_drain_and_close
  /\ GoTo("close_again")
  /\ UNCHANGED <<stream, file, player, faults>>

\* play_file closes the closed handle: nothing can be said of the outcome.
CloseAgain ==
  /\ pc = "close_again"
  /\ \/ fd' = "closed" /\ GoTo("released")
     \/ UNCHANGED fd /\ GoTo("crashed")
  /\ UNCHANGED <<src, pos, file, device, player, faults>>
-----------------------------------------------------------------------------
(***************************************************************************)
(* One round of play.                                                      *)
(***************************************************************************)
BugEofBeforeDrained ==
  pcm_decoder_is_source_buffer_empty /\ pcm_decoder_is_output_buffer_empty

player_is_eof ==
  /\ pcm_decoder_is_source_buffer_empty
  /\ pcm_decoder_is_output_buffer_empty
  /\ pcm = "XRUN"

TestEof ==
  /\ pc = "eof"
  /\ GoTo(IF player_is_eof THEN "release"
          ELSE IF io_rf_stream_is_empty THEN "write" ELSE "read")
  /\ UNCHANGED <<stream, file, device, player, faults>>

\* The read of player_preload.  It would wait for ever if the source buffer
\* were empty, but then the stream is empty too and there is no read.
Read ==
  /\ pc = "read"
  /\ \E e \in ReadErrors :
       /\ pcm_decoder_read_source(pcm_decoder_is_source_buffer_empty, e)
       /\ ReadOutcome(e)
       /\ IF e = "none" THEN GoTo("decode") ELSE FailWith(e)
  /\ UNCHANGED <<file, device, player>>

Decode ==
  /\ pc = "decode"
  /\ MoreDecode
  /\ pcm_decoder_wav_decode_once
  /\ GoTo("decode")
  /\ UNCHANGED <<fd, pos, file, device, written, offer, reported, faults>>

Decoded ==
  /\ pc = "decode"
  /\ ~MoreDecode
  /\ GoTo("write")
  /\ UNCHANGED <<stream, file, device, player, faults>>

\* player_write_alsa up to snd_pcm_avail.  A negative answer, cast to an
\* unsigned size, is larger than any count.
player_write_alsa ==
  LET count == pcm_decoder_get_output_buffer_frames_count IN
  /\ pc = "write"
  /\ IF pcm_decoder_is_output_buffer_empty \/ (Usable /\ snd_pcm_avail = 0)
     THEN UNCHANGED offer /\ GoTo("status")
     ELSE /\ offer' = IF Usable THEN Least(snd_pcm_avail, count) ELSE count
          /\ GoTo("writei")
  /\ UNCHANGED <<stream, file, device, dest, written, reported, faults>>

\* Seeks by what was to be written instead of by what was.
BugSeekOffer(n) ==
  /\ dest' = Consumed(dest, offer * Frame)
  /\ written' = written + n

Accepted(n) ==
  /\ dest' = Consumed(dest, n * Frame)
  /\ written' = written + n

WriteAccepted ==
  /\ pc = "writei"
  /\ \E n \in 1 .. offer :
       /\ snd_pcm_writei(n)
       /\ Accepted(n)
  /\ GoTo("status")
  /\ UNCHANGED <<stream, file, offer, reported, faults>>

WriteAgain ==
  /\ pc = "writei"
  /\ Usable
  /\ Fault("again")
  /\ GoTo("write")
  /\ UNCHANGED <<stream, file, device, player>>

WriteFails ==
  /\ pc = "writei"
  /\ ~Usable
  /\ GoTo(IF pcm = "XRUN" THEN "prepare" ELSE "resume")
  /\ UNCHANGED <<stream, file, device, player, faults>>

\* The two halves of xrun_recovery.  While snd_pcm_resume returns EAGAIN
\* the program sleeps and tries again, which changes nothing here.
Resume ==
  /\ pc = "resume"
  /\ \/ snd_pcm_resume /\ NoFault /\ GoTo("status")
     \/ UNCHANGED device /\ Fault("resume") /\ GoTo("prepare")
  /\ UNCHANGED <<stream, file, player>>

DeviceError == IF pcm = "XRUN" THEN "epipe" ELSE "estrpipe"

Prepare ==
  /\ pc = "prepare"
  /\ \/ snd_pcm_prepare /\ NoFault /\ GoTo("status")
     \/ UNCHANGED device /\ Fault("prepare") /\ FailWith(DeviceError)
  /\ UNCHANGED <<stream, file, player>>

\* player_get_playback_status: snd_pcm_delay is the fill of the ring, or
\* an error when the device has stopped.
BugStatusAddsDelay == written + ring

Position == written - ring

Status ==
  /\ pc = "status"
  /\ IF Usable
     THEN reported' = Position /\ GoTo("eof")
     ELSE UNCHANGED reported /\ FailWith(DeviceError)
  /\ UNCHANGED <<stream, file, device, dest, written, offer, faults>>

\* player_release, the decoder's release and io_rf_stream_free.
Release ==
  /\ pc = "release"
  /\ snd_pcm_drain_and_close
  /\ fd' = "closed"
  /\ GoTo("released")
  /\ UNCHANGED <<src, pos, file, player, faults>>
-----------------------------------------------------------------------------
Over == pc \in {"released", "crashed"}

Program ==
  \/ ReadHeader \/ HeaderMissing \/ player_open
  \/ PreloadRead \/ PreloadDecode \/ Preloaded
  \/ player_open_fails \/ CloseAgain
  \/ TestEof \/ Read \/ Decode \/ Decoded
  \/ player_write_alsa \/ WriteAccepted \/ WriteAgain \/ WriteFails
  \/ Resume \/ Prepare \/ Status \/ Release

Writer == WriterNext /\ UNCHANGED <<stream, device, player, pc, error, faults>>

Plays ==
  /\ DevicePlays
  /\ UNCHANGED <<stream, file, player, pc, error, faults>>

Suspends ==
  /\ DeviceSuspends
  /\ Fault("suspend")
  /\ UNCHANGED <<stream, file, player, pc, error>>

Done == Over /\ UNCHANGED vars

Next == Program \/ Writer \/ Plays \/ Suspends \/ Done

Spec == Init /\ [][Next]_vars

\* The program runs, a device that runs plays, and whoever writes to the
\* FIFO goes on writing.
FairSpec ==
  Spec /\ WF_vars(Program) /\ WF_vars(Plays) /\ WF_vars(Writer)
-----------------------------------------------------------------------------
(***************************************************************************)
(* Properties.                                                             *)
(***************************************************************************)
Labels ==
  {"open", "preload_read", "preload_decode", "open_failed", "close_again",
   "eof", "read", "decode", "write", "writei", "resume", "prepare", "status",
   "release", "released", "crashed"}

\* Every count stays in its range: the windows of both buffers inside their
\* memory, the ring within its size, the printed position not below zero.
TypeOK ==
  /\ StreamType
  /\ DeviceType
  /\ DestType
  /\ pc \in Labels
  /\ written \in Nat
  /\ offer \in Nat
  /\ reported \in Nat
  /\ error \in {"none", "eagain", "eio", "epipe", "estrpipe"}
  /\ faults \in 0 .. MaxFaults

\* No byte is lost or doubled between the file and the device, and no frame
\* inside the device, whatever reads are short, writes partial, buffers
\* compacted and streams recovered (io.c, pcm.c, player_write_alsa): the
\* bytes read are the header, what both buffers hold and what was written;
\* the frames written are those heard, queued or thrown away.
ConservesBytes ==
  /\ pos = (IF pcm = "NONE" THEN 0 ELSE HeaderSize)
             + UnreadSize(src) + UnreadSize(dest) + Frame * written
  /\ written = heard + ring + dropped

\* Once the header is read, the stream counts as ended only when its writer
\* is gone and every byte it wrote has been read (io.c, POLLIN before
\* POLLHUP).
EofMeansEverythingRead ==
  fd = "closed" /\ error = "none" /\ pcm # "NONE"
    => writer = "gone" /\ pos = fileSize

\* The assertions the program runs into on this path: the decoder finds
\* room (pcm.c:207), there is a frame to write (player.c:688), and what was
\* written is skipped within what was unread (io.c:146).
AssertionsHold ==
  /\ pc = "preload_decode" /\ MorePreload(Period) => ~IsFull(dest)
  /\ pc = "writei" => offer \in 1 .. ItemsCount(dest, Frame)

\* The position play prints never goes back, across underruns and suspends
\* too (player_get_playback_status).
ReportedNeverGoesBack == [][reported' >= reported]_vars

\* What the listener is promised: see PlaybackPromise.
TotalFrames ==
  IF fileSize < HeaderSize THEN 0 ELSE (fileSize - HeaderSize) \div Frame

Outcome ==
  IF ~Over THEN "playing"
  ELSE IF pc = "released" /\ error = "none" THEN "complete" ELSE "failed"

Promise == INSTANCE PlaybackPromise WITH
             total <- TotalFrames, lost <- dropped, trouble <- faults > 0,
             outcome <- Outcome

KeepsPromise == Promise!PromiseSpec

\* The last frames never reach the start threshold: the device does not
\* start, so it never runs dry, which is what player_is_eof waits for.
Starved ==
  /\ pcm = "PREPARED" /\ ring < Period
  /\ io_rf_stream_is_empty /\ pcm_decoder_is_output_buffer_empty

\* That is the one way in which playing a file does not come to an end.
EndsOrStarves == <>Over \/ <>[]Starved

(***************************************************************************)
(* What the repository says and the program does not do.                   *)
(***************************************************************************)

\* src/README.md:15: the bridge is used to "select a file to play it via ALSA";
\* playing any file comes to an end.
Ends == <>Over

\* player.c:656-659: "fill up the buffer if possible with give read timeout;
\* if source is empty hope for the best", that is, without a timeout: no
\* play fails with EAGAIN while the source buffer is empty.
EmptySourceWaits == pc = "release" /\ error = "eagain" => ~IsEmpty(src)
=============================================================================
