---------------------------- MODULE SampleFormat ----------------------------
(***************************************************************************)
(* A file from its header to its sound: WavHeader, or the metadata of a    *)
(* FLAC file, then the samples, which Playback and FlacDecoder only count. *)
(* The decoders of src/shared_c/pcm.c and flac.c leave samples in the      *)
(* buffer, and get_pcm_format of player.c tells ALSA in which format to    *)
(* read them.  The two are chosen in different places, from the pcm_spec   *)
(* in between.                                                             *)
(*                                                                         *)
(* A frame is a sequence of samples, one per channel.  The file is what    *)
(* its author recorded; libFLAC and ALSA are external.                     *)
(***************************************************************************)
EXTENDS WavHeader, Sequences, SequencesExt

CONSTANTS
  HalfByte,   \* half the number of values of a byte
  Values(_),  \* the samples of so many bytes that there are in the files
  DestAlloc,  \* bytes of the decoder's buffer
  MaxFrames   \* bound on the frames a file has

Byte == 2 * HalfByte

\* What each byte of a sample counts for; one that is played has four at most.
Weight == <<1, Byte, Byte * Byte, Byte * Byte * Byte>>

\* Half the range of a sample of n bytes.
Half(n) == HalfByte * Weight[n]

ASSUME SampleAssumption ==
  /\ DestAlloc \in Nat /\ MaxFrames \in Nat
  /\ HalfByte \in Nat \ {0} /\ HalfByte = 2 ^ (ByteBits - 1)
  /\ \A n \in 1 .. 4 : Values(n) \subseteq -Half(n) .. Half(n) - 1

VARIABLES
  format,    \* the snd_pcm_format_t that ALSA was given
  recorded,  \* history: the frames that have been decoded, as recorded
  dest,      \* the decoder's buffer: the bytes in it
  heard      \* history: the frames that ALSA made of them

samples == <<recorded, dest, heard>>
vars == <<pc, file, header, spec, error, format, samples>>

Init ==
  /\ HeaderInit
  /\ pc = IF file.codec = "wav" THEN "riff" ELSE "metadata"
  /\ format = [bytes |-> 0, big |-> FALSE, signed |-> FALSE]
  /\ recorded = <<>> /\ dest = <<>> /\ heard = <<>>
-----------------------------------------------------------------------------
(***************************************************************************)
(* Samples and bytes.                                                      *)
(***************************************************************************)
\* Where the byte that counts for Weight[k] is in memory, of n, and the reverse.
Place(k, n, big) == IF big THEN n - k + 1 ELSE k

\* The n bytes of a number, in memory order.
Bytes(v, n, big) == [k \in 1 .. n |-> (v \div Weight[Place(k, n, big)]) % Byte]

Number(bytes, big) ==
  LET n == Len(bytes)
      digit(k) == IF k \in 1 .. n THEN bytes[Place(k, n, big)] * Weight[k] ELSE 0
  IN  digit(1) + digit(2) + digit(3) + digit(4)

\* Samples of n bytes, one behind the other.
Joined(all, n) ==
  [k \in 1 .. Len(all) * n |-> all[(k - 1) \div n + 1][((k - 1) % n) + 1]]

\* The sample ALSA makes of bytes in its format.
Heard(bytes) ==
  LET n == Number(bytes, format.big)
      half == Half(Len(bytes))
  IN  IF ~format.signed THEN n - half
      ELSE IF n < half THEN n ELSE n - 2 * half

RecordedFrames == [1 .. file.channels -> Values(file.bits \div ByteBits)]

\* A WAV file holds samples of one byte as offsets, others as two's
\* complement, and those of a RIFX file have the big end first.
WavBytes(sample) ==
  LET n == file.bits \div ByteBits
  IN  Bytes(IF n = 1 THEN sample + Half(n) ELSE sample, n,
            file.riff = "RIFX")
-----------------------------------------------------------------------------
(***************************************************************************)
(* Opening: the spec, the format.                                          *)
(***************************************************************************)
OpenWav ==
  /\ file.codec = "wav"
  /\ pcm_validate_wav_content
  /\ UNCHANGED <<format, samples>>

\* The STREAMINFO block.  pcm_frame_size asserts whole bytes (pcm.h:18).
metadata_callback ==
  /\ pc = "metadata"
  /\ spec' = [spec EXCEPT !.bits = file.bits, !.channels = file.channels,
                          !.rate = file.rate, !.signed = IsSigned(file.bits)]
  /\ pc' = IF file.bits % ByteBits = 0 THEN "opened" ELSE "crashed"
  /\ UNCHANGED <<file, header, error, format, samples>>

BugLittleEndian ==
  /\ pc = "opened"
  /\ IF spec.bits \in {n * ByteBits : n \in 1 .. 4}
     THEN /\ Accept("play")
          /\ format' = [bytes |-> spec.bits \div ByteBits, big |-> FALSE,
                        signed |-> spec.signed]
     ELSE Fail("einval") /\ UNCHANGED format
  /\ UNCHANGED <<file, header, spec, samples>>

get_pcm_format ==
  /\ pc = "opened"
  /\ IF spec.bits \in {n * ByteBits : n \in 1 .. 4}
     THEN /\ Accept("play")
          /\ format' = [bytes |-> spec.bits \div ByteBits,
                        big |-> spec.big, signed |-> spec.signed]
     ELSE Fail("einval") /\ UNCHANGED format
  /\ UNCHANGED <<file, header, spec, samples>>
-----------------------------------------------------------------------------
(***************************************************************************)
(* Decoding and playing.                                                   *)
(***************************************************************************)
SampleSize == spec.bits \div ByteBits

\* As many of the samples as there is room for.
Fitting(all) ==
  LET room == (DestAlloc - Len(dest)) \div SampleSize
  IN  IF Len(all) <= room THEN all ELSE SubSeq(all, 1, room)

pcm_decoder_wav_decode_once ==
  /\ pc = "play" /\ file.codec = "wav"
  /\ Len(recorded) < MaxFrames
  /\ DestAlloc - Len(dest) >= pcm_frame_size
  /\ \E frame \in RecordedFrames :
       /\ recorded' = Append(recorded, frame)
       /\ dest' = dest \o Joined([c \in 1 .. file.channels |-> WavBytes(frame[c])], SampleSize)
  /\ UNCHANGED <<pc, file, header, spec, error, format, heard>>

\* Every channel of a frame is written from buffer[0][i].
Interleaved(block) ==
  [k \in 1 .. Len(block) * spec.channels |->
     Bytes(block[(k - 1) \div spec.channels + 1][1], SampleSize, FALSE)]

\* libFLAC has decoded a block.  One in another format than the metadata
\* promised, and one that does not fit, end the decoding.
write_callback ==
  /\ pc = "play" /\ file.codec = "flac"
  /\ \E n \in 1 .. MaxFrames - Len(recorded), same \in BOOLEAN :
     \E block \in [1 .. n -> RecordedFrames] :
       IF same
       THEN LET all == Interleaved(block) IN
            /\ dest' = dest \o Joined(Fitting(all), SampleSize)
            /\ recorded' = recorded \o block
            /\ IF Fitting(all) = all THEN Accept("play") ELSE Fail("einval")
       ELSE Fail("einval") /\ UNCHANGED <<dest, recorded>>
  /\ UNCHANGED <<file, header, spec, format, heard>>

\* player_write_alsa gives ALSA whole frames.
player_write_alsa ==
  /\ pc = "play"
  /\ Len(dest) >= pcm_frame_size
  /\ LET sample(c) == SubSeq(dest, (c - 1) * SampleSize + 1, c * SampleSize)
     IN  heard' = Append(heard, [c \in 1 .. spec.channels |-> Heard(sample(c))])
  /\ dest' = SubSeq(dest, pcm_frame_size + 1, Len(dest))
  /\ UNCHANGED <<pc, file, header, spec, error, format, recorded>>

Next ==
  \/ OpenWav \/ metadata_callback \/ get_pcm_format
  \/ pcm_decoder_wav_decode_once \/ write_callback \/ player_write_alsa

Spec == Init /\ [][Next]_vars
-----------------------------------------------------------------------------
(***************************************************************************)
(* Properties; the first two are those of WavHeader.                       *)
(***************************************************************************)

\* What can be heard of a file: all of it or, in the blocks of FLAC, the
\* first channel.
Audible(frame) ==
  IF file.codec = "wav" THEN frame ELSE [c \in DOMAIN frame |-> frame[1]]

\* Width, sign and byte order are the same where the samples are written and
\* where ALSA is told of them, through every size of sample and both orders:
\* the frames heard are those recorded, in order, but for the channels of a
\* FLAC and the sign of one-byte FLAC samples.  A WAV file that is heard may
\* have a header that is not proper, but none whose numbers are misread.
HeardIsAudible ==
  ~file.big /\ (file.codec = "wav" \/ file.bits > ByteBits) =>
    IsPrefix(heard, [i \in DOMAIN recorded |-> Audible(recorded[i])])

\* A file whose numbers, read in the machine's order whatever the file's is,
\* say that its samples are not whole bytes, that its frames have none, or
\* that its format chunk is longer than the source buffer.
Odd ==
  IF file.codec = "flac" THEN file.bits % ByteBits # 0
  ELSE \/ Read16(file.bits) % ByteBits # 0
       \/ (Read16(file.channels) * Read16(file.bits)) \div ByteBits = 0
       \/ Read32(file.fmt_length) > SrcAlloc

\* What the file says is asserted, and divided by, before it is looked at
\* (pcm.c:170, pcm.h:18, flac.c:31, io.c:327).  The only files that end the
\* program so, where EINVAL was meant, are those that are odd as they are
\* read, be it that their author made them so or, with the numbers of a RIFX
\* file, the reading; all others are opened or refused.
OnlyOddFilesCrash == pc = "crashed" => Odd
-----------------------------------------------------------------------------
(***************************************************************************)
(* What the repository says and the program does not do.                   *)
(***************************************************************************)

\* src/README.md:15: a file is played: its samples are heard.
HeardIsRecorded == IsPrefix(heard, recorded)
=============================================================================
