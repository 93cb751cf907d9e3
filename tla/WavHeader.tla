------------------------------ MODULE WavHeader ------------------------------
(***************************************************************************)
(* pcm_validate_wav_content of src/shared_c/pcm.c: the header of a WAV     *)
(* file is read in three parts, each one io_rf_stream_read, and checked    *)
(* field by field; what it says goes into the decoder's pcm_spec.          *)
(* SampleFormat goes on from there.                                        *)
(*                                                                         *)
(* The file is a record of what its author wrote.  A byte has ByteBits     *)
(* bits where the code has 8.  An unsigned short has two digits and a      *)
(* uint32_t four, in base Digit, where the code has 256.  A RIFX file has  *)
(* the most significant one first, and the code, which looks at the        *)
(* structs in memory, takes it for the least.                              *)
(***************************************************************************)
EXTENDS Integers

CONSTANTS
  ByteBits,  \* bits of a byte
  Digit,     \* base of the numbers of the header
  SrcAlloc,  \* size_allocated of the stream's buffer
  Files      \* the files there are

\* sizeof of the three structs.
RiffSize == 20
FmtSize == 16
DataSize == 8

Short == 0 .. Digit ^ 2 - 1
Int32 == Digit ^ 4

FileType ==
  [codec : {"wav", "flac"},                        \* of FLAC only what it says
   riff : {"RIFF", "RIFX", "other"},               \*   of its samples counts
   big : BOOLEAN,                                  \* byte order of its numbers
   wave : BOOLEAN, fmt : BOOLEAN, data : BOOLEAN,  \* whether a marker is right
   fmt_length : Nat, format_type : Short, channels : Short, rate : Nat,
   avg : Nat, align : Short, bits : Short, data_size : Nat,
   size : Nat]                                     \* bytes there are

ASSUME HeaderAssumption ==
  /\ ByteBits \in Nat \ {0}
  /\ Digit \in Nat \ {0}
  /\ SrcAlloc \in Nat /\ SrcAlloc >= 40  \* it is mebibytes (main.c:51)
  /\ \A f \in Files :
       /\ f \in FileType
       /\ {f.fmt_length, f.rate, f.avg, f.data_size} \subseteq 0 .. Int32 - 1
       /\ f.codec = "flac" => f.channels > 0  \* libFLAC has read it less one

VARIABLES
  pc,          \* the part that is next; "failed" and "crashed" are ends
  file,
  at,          \* bytes of the file consumed
  fmt_length,
  spec,        \* pcm_spec
  error        \* error_r

header == <<at, fmt_length>>

HeaderInit ==
  /\ file \in Files
  /\ at = 0
  /\ fmt_length = 0
  /\ spec = [big |-> FALSE, channels |-> 0, rate |-> 0, bits |-> 0,
             signed |-> FALSE, samples |-> 0]
  /\ error = "none"

Fail(e) == pc' = "failed" /\ error' = e

Accept(label) == pc' = label /\ UNCHANGED error

\* What a field of two or of four digits looks like in memory.
Swapped(v) == (v % Digit) * Digit + v \div Digit

Read16(v) == IF file.big THEN Swapped(v) ELSE v

Read32(v) ==
  IF file.big
  THEN Swapped(v % Digit ^ 2) * Digit ^ 2 + Swapped(v \div Digit ^ 2)
  ELSE v

BugTooLarge(size) == size >= SrcAlloc

TooLarge(size) == size > SrcAlloc

\* io_rf_stream_read of an item, then the checks of it.  An item larger than
\* the buffer fails the assertion, a read may fail and the file may end.
io_rf_stream_read(size, Checks) ==
  IF TooLarge(size)
  THEN pc' = "crashed" /\ UNCHANGED <<at, fmt_length, spec, error>>
  ELSE \/ Fail("eio") /\ UNCHANGED <<at, fmt_length, spec>>
       \/ file.size - at >= size /\ at' = at + size /\ Checks
-----------------------------------------------------------------------------
(***************************************************************************)
(* The three parts.                                                        *)
(***************************************************************************)
validate_wav_header ==
  LET Checks ==
        IF file.riff \in {"RIFF", "RIFX"} /\ file.wave /\ file.fmt
        THEN /\ Accept("fmt")
             /\ fmt_length' = Read32(file.fmt_length)
             /\ spec' = [spec EXCEPT !.big = file.riff = "RIFX"]
        ELSE Fail("einval") /\ UNCHANGED <<fmt_length, spec>>
  IN  pc = "riff" /\ io_rf_stream_read(RiffSize, Checks) /\ UNCHANGED file

\* What the sizes of the format chunk should be; unsigned int has 32 bits.
ExpectedAvg(rate, channels, bits) == ((rate * channels * bits) % Int32) \div ByteBits

BugNoAlign(channels, bits) == Read16(file.align)

ExpectedAlign(channels, bits) == (channels * bits) \div ByteBits

BugFmtLength == fmt_length <= FmtSize

TooShort == fmt_length < FmtSize

validate_wav_fmt_chunk_header ==
  LET channels == Read16(file.channels)
      rate == Read32(file.rate)
      bits == Read16(file.bits)
      Checks ==
        /\ IF /\ Read16(file.format_type) = 1
              /\ Read32(file.avg) = ExpectedAvg(rate, channels, bits)
              /\ Read16(file.align) = ExpectedAlign(channels, bits)
           THEN Accept("data") ELSE Fail("einval")
        /\ IF Read16(file.format_type) = 1
           THEN spec' = [spec EXCEPT !.channels = channels, !.rate = rate, !.bits = bits]
           ELSE UNCHANGED spec
        /\ UNCHANGED fmt_length
  IN  /\ pc = "fmt"
      /\ IF TooShort THEN Fail("einval") /\ UNCHANGED <<at, fmt_length, spec>>
                     ELSE io_rf_stream_read(fmt_length, Checks)
      /\ UNCHANGED file

\* pcm_spec.is_signed, in both decoders.
IsSigned(bits) == bits > ByteBits

pcm_frame_size == (spec.channels * spec.bits) \div ByteBits

\* pcm_frame_size asserts whole bytes, and a frame of none divides by zero.
validate_wav_data_chunk_header ==
  LET size == Read32(file.data_size)
      Checks ==
        IF ~file.data THEN Fail("einval") /\ UNCHANGED <<fmt_length, spec>>
        ELSE IF spec.bits % ByteBits # 0 \/ pcm_frame_size = 0
        THEN pc' = "crashed" /\ UNCHANGED <<fmt_length, spec, error>>
        ELSE IF size % pcm_frame_size # 0
        THEN Fail("einval") /\ UNCHANGED <<fmt_length, spec>>
        ELSE /\ Accept("opened")
             /\ spec' = [spec EXCEPT !.samples = size \div pcm_frame_size,
                                     !.signed = IsSigned(spec.bits)]
             /\ UNCHANGED fmt_length
  IN  pc = "data" /\ io_rf_stream_read(DataSize, Checks) /\ UNCHANGED file

pcm_validate_wav_content ==
  \/ validate_wav_header
  \/ validate_wav_fmt_chunk_header
  \/ validate_wav_data_chunk_header
-----------------------------------------------------------------------------
(***************************************************************************)
(* Properties.                                                             *)
(***************************************************************************)

\* A PCM file as the comments of the structs describe it (pcm.c:14-31), whose
\* data rate is small enough to be computed in 32 bits.
Proper ==
  /\ file.riff \in {"RIFF", "RIFX"} /\ file.wave /\ file.fmt /\ file.data
  /\ file.fmt_length \in {16, 18, 40}
  /\ file.format_type = 1
  /\ file.channels > 0 /\ file.rate > 0
  /\ file.bits \in {n * ByteBits : n \in 1 .. 4}
  /\ file.rate * file.channels * file.bits < Int32
  /\ file.align = file.channels * (file.bits \div ByteBits)
  /\ file.avg = file.rate * file.align
  /\ file.data_size % file.align = 0

Refused == error = "einval" \/ pc = "crashed"

\* No file that is a proper one, with its numbers in the machine's order, is
\* refused at any of the three parts, with any length of format chunk that
\* the format knows.
ProperIsAccepted == file.codec = "wav" /\ Proper /\ ~file.big => ~Refused

\* The spec that the rest of the program divides by and reads samples with
\* is what the file says, and its parts agree: whole bytes, a frame that is
\* not empty, the file's own block size, and whole frames; and the stream is
\* at the first sample, behind whatever the format chunk had in excess.
AcceptedIsConsistent ==
  pc \in {"opened", "play"} /\ file.codec = "wav" /\ ~file.big =>
    /\ spec.channels = file.channels /\ spec.rate = file.rate
    /\ spec.bits = file.bits /\ spec.bits % ByteBits = 0
    /\ pcm_frame_size > 0 /\ pcm_frame_size = file.align
    /\ spec.samples * pcm_frame_size = file.data_size
    /\ at = RiffSize + file.fmt_length + DataSize
==============================================================================
