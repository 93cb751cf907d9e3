------------------------------ MODULE PlayFile ------------------------------
(***************************************************************************)
(* What play_file of src/bridge/main.c acquires and gives back: the stream *)
(* of io.c, the decoder of pcm.c or flac.c, the player of player.c.  Each  *)
(* of the open functions acquires several things in a row and may fail     *)
(* after any of them; play_file then releases everything in the opposite   *)
(* order, also what it does not have.  How a header is read and how the    *)
(* open player plays are the subjects of SampleFormat, Playback and        *)
(* FlacDecoder; here they succeed, fail, or end the program where one of   *)
(* those modules has an assertion that does not hold.                      *)
(***************************************************************************)
EXTENDS Integers, Sequences

CONSTANT Extensions   \* the extensions of the file, "wav" and "flac" among them

VARIABLES
  pc,       \* the call of play_file that is next
  format,   \* config->pcm_format, "unset" for 0
  ext,      \* the extension of the file
  alive,    \* what has been acquired and not given back
  decoder,  \* whether play_file's decoder pointer is set
  player,   \* whether its player pointer is set
  failed,   \* history: the call that has set error_r, "none" if none has
  odd       \* what the file and the device have that ends the program

vars == <<pc, format, ext, alive, decoder, player, failed, odd>>

error == failed # "none"

\* "header": numbers that the checks of a header divide by or assert
\* something of (SampleFormat!Odd).  "remainder": bytes after the last whole
\* block of a FLAC file (FlacDecoder!OnlyRemainderCrashes).  "long period": a
\* device all of whose periods are longer than the buffer of the decoder,
\* against PlayerSetup!PeriodFits, so that the preload asks for too much.
Oddities == {"header", "remainder", "long period"}

\* What a call that reads decoded or encoded sound may meet.
Remainder == IF format = "flac" THEN {"remainder"} ELSE {}

StreamParts == {"fd", "buffer", "name"}

DecoderParts == {"struct decoder", "dest buffer", "native decoder"}

Resources ==
  StreamParts \cup DecoderParts \cup {"pcm handle", "struct player", "output"}

Init ==
  /\ pc = "guess"
  /\ format \in {"unset", "wav", "flac"}
  /\ ext \in Extensions
  /\ alive = {}
  /\ decoder = FALSE
  /\ player = FALSE
  /\ failed = "none"
  /\ odd \in SUBSET Oddities

\* The step after an attempt that succeeded, or failed, leaving alive.
Succeed(label, left) == pc' = label /\ alive' = left /\ UNCHANGED failed

Fail(left) == pc' = "player_release" /\ alive' = left /\ failed' = pc

\* An assertion, or a division by zero.
EndsProgram(kinds, left) ==
  odd \cap kinds # {} /\ pc' = "crashed" /\ alive' = left /\ UNCHANGED failed

\* The things acquired when a function that acquires them in this order
\* fails: any of them, up to the one that could not be had.
Partly(order) == {{order[i] : i \in 1 .. n} : n \in 0 .. Len(order)}

\* Reading to the end of the file closes its descriptor.
MaybeRead(left) == {left, left \ {"fd"}}
-----------------------------------------------------------------------------
pcm_guess_format ==
  /\ pc = "guess"
  /\ format' = IF format = "unset" /\ ext \in {"wav", "flac"} THEN ext ELSE format
  /\ IF format' = "unset" THEN Fail(alive) ELSE Succeed("stream_open", alive)
  /\ UNCHANGED <<ext, decoder, player, odd>>

\* What io_rf_stream_open_file gives back when it fails.
StreamUndo == {"fd", "buffer"}

io_rf_stream_open_file ==
  /\ pc = "stream_open"
  /\ \/ Succeed("decoder_open", alive \cup StreamParts)
     \/ \E got \in Partly(<<"fd", "buffer">>) : Fail(alive \cup (got \ StreamUndo))
  /\ UNCHANGED <<format, ext, decoder, player, odd>>

\* The release functions of both decoders; FLAC's deletes its native
\* decoder as well.
BugDecoderRelease == {"struct decoder", "dest buffer"}

DecoderRelease ==
  IF format = "flac" THEN DecoderParts ELSE {"struct decoder", "dest buffer"}

DecoderOrder ==
  IF format = "flac" THEN <<"struct decoder", "native decoder", "dest buffer">>
                     ELSE <<"struct decoder", "dest buffer">>

\* WAV reads the header when it has everything, FLAC the metadata before it
\* has the buffer.
HeaderReader ==
  IF format = "flac" THEN "native decoder" ELSE "dest buffer"

\* pcm_decoder_wav_open and pcm_decoder_flac_open.
pcm_decoder_open ==
  LET all == {DecoderOrder[i] : i \in DOMAIN DecoderOrder} IN
  /\ pc = "decoder_open"
  /\ \E got \in Partly(DecoderOrder) :
     \E left \in IF HeaderReader \in got THEN MaybeRead(alive) ELSE {alive} :
       \/ /\ got = all
          /\ Succeed("player_open", left \cup got)
          /\ decoder' = TRUE
       \/ /\ got # all \/ format = "wav"
          /\ Fail(left \cup (got \ DecoderRelease))
          /\ UNCHANGED decoder
       \/ /\ HeaderReader \in got
          /\ EndsProgram({"header"} \cup Remainder, left \cup got)
          /\ UNCHANGED decoder
  /\ UNCHANGED <<format, ext, player, odd>>

\* Without the handle, or the memory, or the parameters, the pointer of
\* play_file is not set.  When the preload fails it is, although the handle
\* has been closed by then.  The output that ALSA dumps to and the struct
\* player are never freed.
Kept == {"output", "struct player"}

player_open ==
  /\ pc = "player_open"
  /\ \/ /\ \E got \in Partly(<<"output", "struct player">>) : Fail(alive \cup got)
        /\ UNCHANGED player
     \/ /\ player' = TRUE
        /\ \E left \in MaybeRead(alive) :
             \/ Fail(left \cup Kept)
             \/ Succeed("play", left \cup Kept \cup {"pcm handle"})
             \/ EndsProgram({"long period"} \cup Remainder, left \cup Kept \cup {"pcm handle"})
  /\ UNCHANGED <<format, ext, decoder, odd>>

play ==
  /\ pc = "play"
  /\ \E left \in MaybeRead(alive) :
       \/ Fail(left)
       \/ Succeed("player_release", left)
       \/ EndsProgram(Remainder, left)
  /\ UNCHANGED <<format, ext, decoder, player, odd>>

BugHandleRelease == {}

HandleRelease == {"pcm handle"}

\* A handle that player_open has closed is closed again: nothing can be
\* said of the outcome.
player_release ==
  /\ pc = "player_release"
  /\ alive' = alive \ HandleRelease
  /\ player' = FALSE
  /\ \/ pc' = "decoder_release"
     \/ player /\ "pcm handle" \notin alive /\ pc' = "crashed"
  /\ UNCHANGED <<format, ext, decoder, failed, odd>>

\* pcm_decoder_decode_release calls through the pointer without a look.
pcm_decoder_decode_release ==
  /\ pc = "decoder_release"
  /\ IF decoder
     THEN pc' = "stream_free" /\ decoder' = FALSE /\ alive' = alive \ DecoderRelease
     ELSE pc' = "crashed" /\ UNCHANGED <<decoder, alive>>
  /\ UNCHANGED <<format, ext, player, failed, odd>>

\* A stream without a name is one that was not opened.
io_rf_stream_free ==
  /\ pc = "stream_free"
  /\ pc' = "returned"
  /\ alive' = IF "name" \in alive THEN alive \ StreamParts ELSE alive
  /\ UNCHANGED <<format, ext, decoder, player, failed, odd>>

play_file ==
  \/ pcm_guess_format \/ io_rf_stream_open_file \/ pcm_decoder_open
  \/ player_open \/ play \/ player_release \/ pcm_decoder_decode_release
  \/ io_rf_stream_free

Done == pc \in {"returned", "crashed"} /\ UNCHANGED vars

Next == play_file \/ Done

Spec == Init /\ [][Next]_vars
-----------------------------------------------------------------------------
(***************************************************************************)
(* Properties.                                                             *)
(***************************************************************************)

\* A play_file that returns has given back what any of its steps acquired,
\* at whichever point it failed; only the struct player (player_release,
\* player.c:595-604) and ALSA's output (player.c:547) are never freed.
NothingIsLeft == pc = "returned" => alive \subseteq Kept

\* What is in use outlives its user: an open handle is fed from a decoder
\* that is whole, and a decoder reads from a stream whose buffer is there
\* (the pointers player->decoder and decoder->src).
UsersGoFirst ==
  /\ "pcm handle" \in alive => {"struct decoder", "dest buffer"} \subseteq alive
  /\ alive \cap DecoderParts # {} => {"buffer", "name"} \subseteq alive

\* main.c:303-306: the program logs "Finished with error %d (%s)"; a play
\* that fails gets that far.
FailureIsReported == error => pc # "crashed"
=============================================================================
