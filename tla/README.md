# altPlayer, specified

altPlayer is a small music player for Linux: a command, `altBridge`, that reads
a WAV or FLAC file (or a FIFO), decodes it and hands the samples to ALSA.  This
directory holds a TLA+ specification of it, the TLC runs that check the
specification on small instances, and proofs for TLAPS.

Source paths below are relative to `src/` of the repository.

## The system

| Component | Source | State | Operations |
|---|---|---|---|
| io_buffer | `shared_c/io.c`, `io.h` | `size_allocated`, `size_used`, `start_offset`, a block of memory | alloc, try_write, try_read, read_array, array_items, array_seek, write_from_read, free |
| io_rf_stream | `shared_c/io.c`, `io.h` | descriptor, io_buffer, name, size of a single read | open_file, read, read_with_poll, read_array, free |
| WAV decoder | `shared_c/pcm.c`, `pcm.h` | the stream, the sample format, the output io_buffer | open (header), decode_once, release, the `is_..._empty/full` predicates |
| FLAC decoder | `shared_c/flac.c` | as above, and libFLAC's decoder | open (metadata), decode_once with its callbacks, release |
| player | `shared_c/player.c` | the decoder, ALSA's handle, the period, `written_frames` | open (parameters, preload), process_once, is_eof, get_playback_status, release |
| play loop, play_file | `bridge/main.c` | the three objects, `error_r` | play, play_file |
| configuration | `bridge/main.c` | `struct bridge_config` | argp_parser, bridge_config_defaults, bridge_config_free |
| sound cards | `shared_c/player.c`, `bridge/main.c` | an index and five strings | list_sound_cards, soundc_get_next_info, soundc_release |
| time | `shared_c/timer.c`, `pcm.c`, `io.c` | the statistics of a stream | sums and differences of timespecs, frames to time |
| log | `shared_c/log.c` | the output stream, the verbose flag | opening, writing, freeing |

The program is one thread.  `play_file` opens the stream, the decoder on it and
the player on that, runs `play`, and releases them in the opposite order.
`play` goes round in a loop: is this the end (`player_is_eof`); read some bytes
of the file into the stream's buffer, with a poll (`player_preload`); decode
into the decoder's buffer while there is room; offer the whole frames there to
ALSA (`player_write_alsa`); ask for the delay and print the position
(`player_get_playback_status`).

Concurrency comes from both ends.  The file may be a FIFO, written by another
process at its own pace, and the ALSA device plays on its own: between any two
calls of the program the writer may write, close or not have come yet, and the
device may play a frame, run dry (`XRUN`) or be suspended.  That is where the
hard behaviour is:

* short reads, partial writes, and buffers that are compacted at a distance
  from where they are filled and emptied: is every byte played, once, in order;
* what `poll`, `read`, `snd_pcm_avail` and `snd_pcm_state` answered is old when
  the program uses it;
* recovery throws frames away, and the accounts must survive that;
* the end of a file is recognised by an underrun, so that ending depends on the
  device, on the start threshold and on the last partial frame;
* any of the calls may fail, and `play_file` then releases objects it has not
  got.

The rest is sequential, and hard for another reason: it takes numbers from a
file, a command line and a device, which nobody has made agree.  The fields of
a header are multiplied and divided by one another in 32 bits; sizes, counts and
times are cut to the width of the field they are put in; the width, sign and
byte order of a sample are decided in one place and used in two others; options
come twice, in any order, or are refused half way.

What makes each component correct:

| Component | Property |
|---|---|
| io_buffer | its window stays in its memory; it is a queue of bytes |
| io_rf_stream | no byte is lost or read twice; the end is the end of the file |
| WAV decoder | a proper header is accepted, an accepted one is consistent; samples are what was recorded |
| FLAC decoder | every byte is in a block, every block whole and in the output; decoding ends |
| player | each frame is heard once, in order, or accounted for; the position is in the past; the period fits |
| play loop, play_file | play ends; everything is given back, users first |
| configuration, log | the last option counts; verbose lines go where they should; strings are freed |
| sound cards | the good cards are listed, once, in order; the list ends |
| time | sums are exact, nothing is counted twice, the position is right |

The full list, at the lines where it bites, is `hazards` in `PROJECT.json`.

## The modules

The buffers and the loop of `play`:

    IoBuffer ---- RfStream        AlsaPcm
       |             |               |
       |         PcmDecoder          |
       |          /      \           |
       |   FlacDecoder   Playback ---+   ==> PlaybackPromise
       |        |           |
       |   FlacProofs    PlaybackProofs
       |
    IoBufferQueue   ==> ByteQueue
       |
    IoBufferQueueProofs

The program around it:

    CommandLine   PlayFile   SoundCards
           \         |         /
            \        |        /
             +---- Bridge ---+
                     |
                BridgeProofs

The parts that the loop gets its numbers from:

    PlayerSetup     TimeSpan          WavHeader
         |             |                  |
    SetupProofs   TimeSpanProofs     SampleFormat
                                          |
                                     SampleProofs

(`==>` is "implements"; PlaybackProofs and FlacProofs use `IoBufferTheorems`.)

There are two compositions.  Playback and FlacDecoder are the loop of `play`,
with everything it touches; Bridge is the program around it, from the command
line to the end of the process, in which `play` is one step.  The modules of the
last picture share no variables with either: each is a part of the program that is
over before the loop begins, or that the loop only uses for its numbers.  They
meet in constants.  CommandLine ends with the numbers PlayerSetup begins with,
WavHeader with the spec that SampleFormat and PlayerSetup go on from, and
PlayerSetup with the `Period`, `RingFrames` and `DestAlloc` of Playback:
`PeriodFits` is the condition under which `AssertionsNeverFail` is proved.

**IoBuffer** is a library: the three numbers of `struct io_buffer` as a record,
what each function of `io.c` does to them, and the block of memory as a function
from offsets to bytes.  `UnreadSize`, `AvailableSize` and so on are the inline
functions of `io.h`.

**IoBufferQueue** is one buffer with its memory, each call of `io.c` an action
whose guard is what the call asserts.  The bytes that a call hands out through
its `void **result` are kept in `result`.  **ByteQueue** is what the clients of
a buffer take it for: a bounded queue of bytes.

**RfStream** is the stream and the other end of its descriptor.  `src` is the
buffer (only its numbers: that bytes keep their order is the matter of the
previous module), `fd` the descriptor, `pos` the bytes read so far; `fileSize`,
`produced` and `writer` are the file, or the FIFO with the process that writes
to it.  **AlsaPcm** is the PCM handle as `player.c` sees it, an external
component: its state, the fill of its ring, and two counters that say what
became of frames no longer in the ring, `heard` and `dropped`.

**PcmDecoder** is what the two decoders have in common, `struct pcm_decoder`:
`dest`, the buffer of decoded bytes, and the inline functions of `pcm.h` that
`player.c` asks whether to read, to decode or to write.

**Playback** composes them for a WAV file.  `pc` is the next call the program makes; what the
code does between two calls that look at or change the file or the device is
one step with the second of the two.  The labels are those of the code in order:

| `pc` | Code |
|---|---|
| open | `io_rf_stream_read` for the header, `player_open` up to the preload |
| preload_read, preload_decode | `preload_first_period` |
| open_failed, close_again | `player_open` releasing, then `play_file` releasing what was released |
| eof | `player_is_eof`, and `pcm_decoder_is_source_empty` of `player_preload` |
| read, decode | the rest of `player_preload` |
| write, writei | `player_write_alsa` before and at `snd_pcm_writei` |
| resume, prepare | `xrun_recovery` |
| status | `player_get_playback_status` |
| release | the end of `play_file` |
| released, crashed | the end of the process |

`written` is `written_frames`, `offer` is
`avail_count`, `reported` the frames behind the position last printed, `error`
is `error_r`.

**FlacDecoder** is the same loop with `flac.c` in the place of the WAV decoder,
and without the device, which is Playback's matter: `player_write_alsa` takes as
much of the output as it pleases.  libFLAC is external and modelled as `flac.c`
uses it: it asks `read_callback` for bytes when it has parsed all it holds
(`lib`; `parsed` of the block at hand), and hands over each completed block to
`write_callback` (`decoded`).  A call of libFLAC is not one step: `pc = "parse"`
is inside of it, `poll` inside `read_callback` inside of it, and `caller` tells
which loop it returns to.  That is where the FIFO's writer comes in between.

A call that ends without a block sets `pc = "ended"`; `CallEnded` is where
`decode_once` asks libFLAC's state whether it was the end of the stream or an
abort.  It asks only if libFLAC's call has returned false.  `aborted` is where a
callback has returned ABORT: inside of a block, in which case the call returns
false, or between two, while libFLAC looks for the next one; then this call and
every later one returns true.  An abort with nothing parsed is always between
two blocks, one with a part parsed may be either, since libFLAC decides what it
takes for the beginning of a block.

**PlaybackPromise** is what a listener is promised, without buffers, files or
recoveries: the frames of the file are heard in one pass, none twice; a play
that ends without an error has let all of them be heard but those the device
threw away; frames are only thrown away after something has failed, or when play
itself fails; when play is over nothing more is heard.

**PlayFile** is about resources.  `alive` is the set of what has been acquired
and not given back; each open function acquires its parts in the order of the
code and may fail after any of them.  `failed` is the call that has set
`error_r`.  What a file or a device has in it that ends the program is `odd`, and
each open function, and `play`, may crash on what it gets to of it: numbers of a
header, bytes after the last block of a FLAC file, a device with long periods
only.  Those are the assertions that SampleFormat, FlacDecoder and Playback have
in detail; here they meet what has been acquired by then.

**WavHeader** is `pcm_validate_wav_content`: three reads and the checks of each.
The file is a record of fields, some right and some wrong.  Numbers keep their
width, in a smaller base: `Read16` and `Read32` are what a number of a RIFX file
looks like to code that takes it as it lies in memory.

**SampleFormat** composes it with what comes after: the metadata of a FLAC in
the place of the header, and the samples that Playback and FlacDecoder only
count.  Each format is decided when the decoder opens (`spec`), turned into
ALSA's by `get_pcm_format`, and met by the bytes that
`pcm_decoder_wav_decode_once` copies or `write_callback` writes.  `recorded` is
what the author of the file recorded, `heard` what ALSA makes of the bytes it is
given.

**PlayerSetup** goes from the numbers of the command line through
`bridge_config_defaults`, the size of the decoder's buffer and `player_open` to
the four groups of calls in `player_set_params`.  A device is a record of the
rates, periods and rings it has; a call for a value near to one gets the nearest
of them, any of two as near.  Products and quotients are cut to the widths the
code has (`SizeT`, `Unsigned`, `UShort`).

**TimeSpan** is `timer.c`, the statistics `io.c` keeps with it, and
`pcm_spec_get_samples_time`.  Beside each timespec there is the exact number of
nanoseconds (`exact`), in integers that do not wrap or carry.

**SoundCards** is `list_sound_cards` and `soundc_get_next_info`, whose recursion
is a loop here since it is the last thing the function does.  A card is good or
fails at one of three places, and some allocations find no memory.

**CommandLine** is `main` with its options and the log: an option is a pair of a
name and what its argument is worth, `given` those that have been taken so far,
`log` which kinds of lines have gone to each of the three places a line can go
to.

**Bridge** composes these two and PlayFile into the program: options are taken
until `main` calls `play_file` or `list_sound_cards`, which one being decided by
the configuration; the steps of that are the program's until it returns, with or
without an error, or the process crashes; then `main` frees what it holds.
Besides the configuration and the error the two parts share the terminal:
`snd_pcm_dump` is what `player_open` has ALSA write there when the log is verbose.

The modules whose names begin with MC give the constants that a `.cfg` cannot
write.  The definitions named `Bug...` are seeded faults: each is the definition
below it with the mistake one would fear in that code, and the property it must
break is listed under `mutants`.

## The runs

| Run | Question | Answer |
|---|---|---|
| io_buffer | Does a buffer stay inside its memory, and is it a queue? | `TypeOK`, `ImplementsByteQueue` hold |
| playback_file | Regular files of every interesting length, with failing calls and suspends: are bytes and frames accounted for, does the position ever go back, does the listener get what was promised? | `TypeOK`, `ConservesBytes`, `ReportedNeverGoesBack`, `KeepsPromise` hold |
| playback_fifo | A FIFO whose writer is as slow as it likes: is the end of the stream ever taken too early, can an assertion fail, does play end? | `EofMeansEverythingRead`, `AssertionsHold`, `EndsOrStarves` hold |
| flac_fifo | A FLAC stream from a slow FIFO, with failing reads: is a byte or a block lost, is a block torn, what is missing at the end, when does an assertion fail, when does it come to an end? | `TypeOK`, `BlocksAccountedFor`, `BlocksFit`, `OnlyReadAheadIsLost`, `OnlyRemainderCrashes`, `EndsUnlessBetween` hold |
| sample_format | Headers with any field right or wrong, samples of every width, sign and order: are proper files accepted, is what is accepted consistent and heard as recorded, which files end the program? | `ProperIsAccepted`, `AcceptedIsConsistent`, `HeardIsAudible`, `OnlyOddFilesCrash` hold |
| player_setup | From command line, file and device to a period and a ring: does the period fit, is anything divided by zero, is the read timeout short enough, is the ring long enough? | `PeriodFits`, `NothingIsDividedByZero`, `ReadsFitIntoPeriod`, `RingHoldsSixteen` hold |
| time_span | Are times measured across any border added up exactly, and is the position right? | `TotalsAreExact`, `TimesFitTheClock`, `PositionIsExact` hold |
| bridge | The whole program, options in any order, twice or refused, files that fail to open anywhere, cards that fail in any way, memory that runs out: is everything given back and in the right order, what reaches the terminal beside a log file, what counts of the command line, are the good cards listed, what can end in a crash, and does it end? | `NothingIsLeft`, `UsersGoFirst`, `OnlyDumpIsAstray`, `NumbersAsGiven`, `StringsAreFreed`, `GoodCardsAreListed`, `CrashesHaveACause`, `ProgramEnds` hold |
| short_file | Does every file come to an end? | no |
| slow_fifo | Does the read wait when there is nothing to play? | no |
| missing_file | Is every failure reported? | no |
| stereo_flac | Is a stereo FLAC heard as recorded? | no |

What the four runs with "no" show, and the lines they contradict, is under `findings` in
`PROJECT.json`:

* A file with fewer frames than a period never reaches the start threshold
  (`player.c:441-444`); the device never starts, never underruns, and
  `player_is_eof` never becomes true.  `EndsOrStarves` says that this is the
  only way in which play does not end.
* `pcm_decoder_is_source_buffer_empty` asks whether the stream has ended, so
  that the infinite timeout of `player_preload` is never chosen.
* `play_file` releases a decoder that may not exist.
* `write_callback` writes the first channel's sample for every channel.

There is more in the code that is not what its comments say.  These have no run
of their own; the models have them as they are, and, but for the defaults of
the help, a property that holds says how far they go:

* `player_is_eof` waits for the underrun that `player_get_playback_status`
  reports as an error, and which of the two sees it first is a race
  (`player.c:640`, `739`).  By `KeepsPromise` an end without an error is still a
  complete one.
* With a period longer than the decoder's buffer the preload decodes into a full
  one (`player.c:504`, `pcm.c:207`); `PeriodFits` says which devices spare us
  that, and `AssertionsNeverFail` is proved from it.
* `player_preload` takes an empty stream for the end of the decoding, while
  libFLAC still holds what it has read ahead (`player.c:648`).
  `OnlyReadAheadIsLost` says that nothing else is missing.
* `read_callback` polls when it finds the buffer empty, open stream or not
  (`flac.c:56`): a tag, or a block cut short, at the end of a FLAC file runs into
  the assertion of `io.c:353`.  `OnlyRemainderCrashes` says that nothing else
  does, and that everything before has been decoded.
* When a poll fails while libFLAC looks for the next block, libFLAC's call
  returns true without a block, now and ever after, and `decode_once` looks at its
  state only when it returns false (`flac.c:195`): the loop of `player_preload`
  goes round for ever.  `EndsUnlessBetween` says that no other failure does this.
* One-byte FLAC samples, which have a sign, are announced as having none
  (`flac.c:30`).  `HeardIsAudible` is what is left: everything else, and the first
  channel of every FLAC, is heard as recorded.
* The numbers of a RIFX header are read in the order of the machine
  (`pcm.c:103`): the 16 of a proper file is read as 0x10000000, and the
  assertion of `io.c:327`, that an item is no longer than the source buffer,
  ends the program.
* The help promises verbose diagnostics only in the log file (`main.c:265-267`),
  but ALSA's dump of the device's parameters goes to stdout, log file or not
  (`player.c:547`, `584-586`).  `OnlyDumpIsAstray` says that nothing of `log.c`
  does.
* The help says that 1024 is the default count of periods (`main.c:248`); it is
  64 (`main.c:62`).  In the same way 16 kB and 128 are the two sizes of a period
  (`main.c:240`, `56`).
* A count of periods is cut to 16 bits after it has been checked (`player.h:40`),
  and the time of a ring to 32 (`pcm.h:22`); 65536 periods are none, and the ring
  is asked for with 16.  `RingHoldsSixteen` is what is left: a ring whose time
  fits is never asked for with less.
* Numbers of a header that make no channels, samples that are not whole bytes,
  in FLAC too, or a format chunk longer than the source buffer run into a
  division or an assertion instead of `EINVAL`.  `OnlyOddFilesCrash` says that
  these are all, for the numbers as they are read: a RIFX file is odd when its
  numbers, turned round, are, which is how a proper one ends the program.
  `AcceptedIsConsistent` says that what does get through is right.
* The strings of a sound card are not checked and then asserted (`player.c:76`,
  `173`), and `--log-output` twice fails an assertion (`log.c:48`).
  `CrashesHaveACause` says that the program ends in this way only for one of four
  reasons: these two, an open that failed, after which what was not opened is
  released, and, when nothing has failed, an odd file or device (the header of the
  item above, what follows the last block of a FLAC file, a device with long
  periods only).  A card that cannot be used, the order of the options, and a
  `play` that fails are none.

### Bounds

* io_buffer: a capacity of 4 bytes with writes of up to 5 different bytes covers
  every position of the window, every compaction, refusals and items that do not
  divide the capacity (sizes 1, 2, 3).
* playback: a header of 3 bytes, a source buffer of 6, reads of at most 4, an
  output buffer of 8, frames of 2 bytes, a period of 2 frames in a ring of 4.
  Sizes are chosen not to divide each other, so that reads are short, the last
  frame partial and both buffers are compacted with bytes in them.  The file has
  2 (no header), 5 (less than a period), 8, 11, 14 or 19 bytes: enough to go
  round the loop several times and to fill each buffer and the ring.
  At most `MaxFaults` calls fail (two for the file, one for the FIFO); after one
  the code either recovers to a state it has been in or ends, so that the second
  meets every state the first can leave behind.
* flac: metadata of 2 bytes, blocks of 3 that decode into 6 (three frames), an
  output of 8, so that one block fits and two do not; libFLAC asks for 4 bytes,
  more than a block and not a multiple of it, so that it reads ahead and is left
  with part of a block.  Files end in the metadata (1), on a block (5, 14), and
  within one (9, 15), after up to four blocks.  As in Playback the period must fit into
  the output: in the preload nobody asks whether a block has room.
* bridge: one path of each known extension and one of another; two options, which
  is two of a kind in either order or one that undoes another; the number 8 is
  zero in an `unsigned` of 3 bits, 11 is not.  Up to three cards of four kinds, so
  that bad ones come first, last and next to one another, and one allocation
  that fails, anywhere.  Any of the three oddities may come with any file.
* sample_format: a byte has 2 bits, so that every sample of up to five bytes can
  be taken at its extremes, at zero and on both sides of it.  (`HalfByte` and `Values`
  are these numbers as constants: the theorems have them at any width.)  One frame at a time
  is enough for the values, and two for their order; an output of 9 bytes tears
  blocks that do not fit.  The digits of the header's numbers have 32 values, so
  that a short goes to 1023 and a `uint32_t` to 2^20 - 1, and the product of rate,
  channels and bits wraps with a rate of 100000.  One field in turn is wrong by
  one, one marker in turn is wrong; channels, rate and bits are also zero; the
  format chunk is too short, of each known length, as long as the buffer (64
  bytes) and longer.
* player_setup: 2 bytes to the kilobyte, 10 microseconds to the millisecond,
  `unsigned short` of 8 bits, `unsigned` up to 30000 and `size_t` up to 1000000:
  the counts 256 and 300 are cut, the larger rings' times wrap, the largest
  periods are longer than the devices have.  The devices have periods of all
  lengths, only long ones, only one, or gaps between them.
* time_span: 3 milliseconds of 2 nanoseconds to the second, an `unsigned` of 3
  bits, a clock that goes to 16, which is almost three seconds: each call begins
  and ends anywhere in them, and the sums carry more than once.

### Fairness

`FairSpec` of Playback assumes weak fairness of three things.  The program: it is
one process, and none of its own steps waits for anything but a call that
returns.  The device: one that runs plays its frames.  The writer of the FIFO: it
comes, writes and closes; without it `poll` with an infinite timeout, in the
preload, may wait for ever, and rightly.  Nothing is assumed of suspends and
failures.

`FairSpec` of FlacDecoder assumes the same of the program and the writer.  In
the place of the device it has strong fairness of a `player_write_alsa` that
takes something: the loop comes back to it again and again, and a device that
plays has room again.  `EndsUnlessBetween` then says that the loop is held up by
libFLAC only after a read that failed between two blocks.

`BridgeSpec` assumes that the program goes on: what it calls returns.  Of `play`
that is a simplification: `EndsOrStarves` and `EndsUnlessBetween` say when it does, and
short_file when not.  `ProgramEnds` is about what surrounds it.

## What is proved

`IoBufferQueueProofs`, for every capacity, set of writes, item sizes and counts:

* `TypeCorrect`: `Spec => []TypeOK`.  `TypeOK` is inductive.
* `BufferIsAQueue`: `Spec => ImplementsByteQueue`.  The abstract queue is
  `Content(buf, mem)`, the bytes of the window.  The lemmas say what happens to
  it: compaction leaves it alone (`Compaction`), a write after making room
  appends (`Appends`), consuming cuts a prefix (`Cut`).  Every action is then
  one of Push, Pop, Look, Drop or a refusal (`StepGood`).

`PlaybackProofs`, for every set of file lengths, size of the buffers, frame,
period and ring, any pace of the FIFO's writer and any number of failures:

* `Invariance`: `Spec => []IInv`, from which the others follow.
* `TypeCorrect`: `Spec => []TypeOK`.
* `BytesConserved`: `Spec => []ConservesBytes`.
* `PositionNeverGoesBack`: `Spec => ReportedNeverGoesBack`.
* `AssertionsNeverFail`: `Spec => []AssertionsHold` if `Period * Frame <=
  DestAlloc`, that is, if the decoder's buffer can hold a period; without
  it the assertion of `pcm.c:207` fails in the preload.

`TypeOK` is not inductive: that the ring does not overflow depends on the offer,
which was computed from an older `snd_pcm_avail`, and that the position does not
go below zero on the accounts of the frames.  `IInv` is `TypeOK`,
`ConservesBytes` and five more parts: what state the device can be in at each
label (`Stages`), that nothing is written before it is open (`Unopened`), how
the ring and the state go together (`RingHolds`: a device that runs has a frame
to play, one in an underrun has none), that an offer made remains good while the
device plays on (`OfferFits`), and that what was printed is in the past
(`ReportedIsPast`).  There is one lemma per action; actions that only read, only
decode, only move `pc` or only change the device share `ReadingStep`,
`DecodingStep`, `QuietStep` and `DeviceStep`.  `IoBufferTheorems` has the facts
about the three numbers of a buffer that these rest on.

In its second part, under the same assumptions:

* `EndIsTheEnd`: `Spec => []EofMeansEverythingRead`.
* `PromiseKept`: `Spec => KeepsPromise`, the refinement of PlaybackPromise.

The invariant there, `BothEnds`, is `IInv` and what is known of the two ends of a play:
the writer's state and how much there is to read (`WriterKnown`), where an error
may be set (`ErrorsEnd`), why the descriptor is closed (`ClosedAtEnd`; a FIFO
opened before its writer reads as ended, but then the header is missing), that
play without an error is left through `player_is_eof` only (`CompleteAtEnd`),
and that a suspended device means a failure (`SuspendsAreFaults`).  From
`player_is_eof` at the release follows, with the accounts of `ConservesBytes`,
that less than a frame of the file was not written (`WrittenIsInFile`), and that
the ring is empty: every frame was heard or thrown away.  Then each step of
Playback is one of PlaybackPromise or changes nothing it speaks of (the lemmas
whose names end in `KeepsPromise`).  With the accounts, `written <= TotalFrames`
is also what keeps a frame from being heard twice.

`FlacProofs`, for every file, size of block, of metadata and of libFLAC's
buffer, any pace of the writer and any reads that fail:

* `TypeCorrect`: `Spec => []TypeOK`.
* `BlocksAreAccountedFor`: `Spec => []BlocksAccountedFor`.
* `OnlyReadAheadLost`: `Spec => []OnlyReadAheadIsLost`.
* `BlocksAlwaysFit`: `Spec => []BlocksFit` under `RoomAhead`: a block is at least
  a period, or the output has room for a block beside a period that is not
  complete.  In the loop the code asks for room itself (`MoreDecode`); the
  condition is about the preload, which decodes until it has a period without
  asking.  With the output that `main.c` asks for, two periods or a block,
  whichever is more, and the period that was asked for, one of the two sides
  holds; a device that chooses a longer period can break both.
* `OnlyRemaindersCrash`: `Spec => []OnlyRemainderCrashes`, with no condition.

The invariant `IInv` adds to `TypeOK` and `BlocksAccountedFor`: which of the
callers of libFLAC is waiting at which label (`Callers`), that an error ends
play and an abort a call (`ErrorsEnd`), that a block is left unfinished only
when libFLAC holds no more bytes (`Unfinished`), what is known of the FIFO's
other end (`SourceKnown`), that play without an error is over only when the
file has been read (`EndIsReached`), and that only whole frames are taken
(`WholeFramesTaken`).  `OnlyReadAheadLost` then is a division: what was read is
metadata, whole blocks and less than one block, plus what libFLAC holds.
`OnlyRemaindersCrash` needs one thing more, `CallInv`: a call of libFLAC that goes
on after the stream has ended has bytes left to parse, so that a poll with an
empty buffer is made for what libFLAC has parsed a part of, which is less than a
block, or than the metadata.

`SetupProofs`, for every command line, file, device and widths of the integers:

* `PeriodAlwaysFits`: `Spec => []PeriodFits`.  The period asked for is turned
  into a time, which rounds down and may wrap, and the device takes the period
  nearest to that time.  If it has one no longer than was asked for, of P frames,
  then one of more than 2P is further away than that one from any time up to
  that of P, wherever the rounding has put it; so what is chosen has at most 2P
  frames, and the decoder's buffer has twice the bytes of P.  With
  `AssertionsNeverFail` this means that the assertion
  can only fail with a device whose shortest period is longer than was asked for.
* `NothingDividesByZero`: `Spec => []NothingIsDividedByZero`.  What is divided by
  comes from the spec of the file; a rate of zero is none that a device has, and
  bits of zero are none of its formats (`SupportedDivides`); the channels of what a
  decoder announces are positive (`AcceptedIsConsistent`).
* `ReadsAlwaysFit`: `Spec => []ReadsFitIntoPeriod`, by `ThirdsFit`: the time of a
  period rounds down, is cut, and is divided by three and by a thousand.
* `RingIsLong`: `Spec => []RingHoldsSixteen`.  The bytes of a period are whole
  frames, so that dividing those of all periods by a frame gives back the frames
  (`Divided`), and a time that fits is not cut (`Uncut`).

The last three rest on `NumbersKnown`, which follows each number through the
labels: the count from the command line to `periods_per_buffer`, where it is cut
(`CountKnown`), the spec past the refusal (`Divisible`), the period in frames and in
bytes (`PeriodKnown`) and the time of the ring (`TimeKnown`).

`SampleProofs`, for every set of files, size of the source and the decoder's
buffer, number of bits in a byte, and for any samples the files may have:

* `ProperFilesAreOpened`: `Spec => []ProperIsAccepted`.
* `SpecIsConsistent`: `Spec => []AcceptedIsConsistent`.
* `OtherFilesAreRead`: `Spec => []OnlyOddFilesCrash`.
* `HeardAsRecorded`: `Spec => []HeardIsAudible`.

For the first three, the invariant `IInv` says at which byte of the file each part of the header begins, what
of it has been stored by then (`LengthKnown`, `SpecKnown`) and what has been asserted
of it (`FramesKnown`).  The lemmas are about division: that it undoes a
multiplication (`Undone`), so that the rate and the alignment which a proper header
gives are those the code computes, as long as the product has not wrapped
(`ProperSizes`).

What is heard is not an invariant of its own: that the next frame is right depends
on every byte that is still in the buffer.  `Sound` adds to it what the decoder and
ALSA have each been told of the samples (`SpecRead`, `FormatFits`), and that the
buffer is a window of the bytes of all frames recorded (`BufferKnown`): with h frames
heard, `Holds` says of its k-th byte which byte of which channel of which frame it
is.  Four groups of lemmas lead there.

* Numbers: there is one way to divide (`OneQuotient`), which also holds below zero,
  where `\div` rounds down; and `v % (w * b)` is `v % w` and one digit more
  (`NextDigit`).
* Bytes: the digits of a number add up to it modulo its range, at any base and in
  either order (`NumberOfBytes`).  A sample is played with four bytes at most, so
  these are four terms and no induction is needed.  Hence ALSA makes of the bytes of
  a sample that sample again, of two's complement with a signed format, of an offset
  with one that is not (`HeardOfBytes`).
* Layouts: appending the samples of some frames to a window makes it one of the
  longer recording (`BlockHeld`), whose earlier bytes stay (`ByteStays`) and whose
  later ones are counted from there (`ByteFollows`); taking a frame from its front
  gives the samples of the next frame and leaves the window of those that follow
  (`FrameTaken`).
* Steps: what `pcm_decoder_wav_decode_once` and `write_callback` append is a block so
  written (`DecodeWavSound`, `DecodeFlacSound`), and what `player_write_alsa` takes is
  heard as it was recorded (`PlaySound`), because the format is signed exactly if a
  sample has more than a byte and has its big end first exactly in a RIFX file.

`TimeSpanProofs`, for every length of a second, rate and width of an unsigned:

* `TotalsExact`, `NothingCountedTwice`, `PositionExact`: `TotalsAreExact`,
  `TimesFitTheClock` and `PositionIsExact` are invariants.  The lemmas say that
  `timespec_elapsed_between` and the addition are exact on normalised timespecs,
  that they leave them normalised, and what a product of quotients is.

`BridgeProofs`, first of `play_file`, for every set of extensions:

* `NothingIsLeftOver`: `Spec => []NothingIsLeft`.
* `UsersAreFirst`: `Spec => []UsersGoFirst`.

The invariant says which parts are alive at each label of `play_file`, for each
kind of file and each place where an open may have failed.  Then of the program,
for any number of options, cards and allocations that fail:

* `EveryCrashHasACause`: `BridgeSpec => []CrashesHaveACause`.
* `OnlyDumpsStray`: `BridgeSpec => []OnlyDumpIsAstray`.
* `ProgramLeavesNothing`: `BridgeSpec => [](NothingIsLeft /\ UsersGoFirst)`.

`ProgramInv` adds to the invariant of `play_file`, of which nothing runs before
the options are taken (`Unstarted`), what precedes a crash in each part: a play
that has not failed in one of its opens has its handle and its decoder until they
are released, and if nothing has failed the crash is that of something odd
(`FailedFirst`); a card about to be printed has all its strings unless memory was
short (`CardsKnown`), a log that is open was given (`LogKnown`).  The last also
says that with a log file given the log is open until `main` frees it, so that
`log_verbose` stays off the terminal; the lemmas before it say of each function of
`log.c` which lines it can add (`Quieter`) and that none of them is a dump
(`Undumped`).  A dump is made when the output and the struct player have been
acquired, and neither is given back (`DumpKnown`).

`StoresKnown` is the invariant of what the program stores, and gives three more:

* `LastNumbersCount`: `BridgeSpec => []NumbersAsGiven`.
* `EveryStringIsFreed`: `BridgeSpec => []StringsAreFreed`.
* `EveryGoodCardIsListed`: `BridgeSpec => []GoodCardsAreListed`.

Of the command line (`ConfigKnown`) it says that each number is that of the last
option with its name, and that the strings which have been copied are those the
configuration holds and those that a later copy replaced.  A copy more replaces all
of its kind before it, of which only the last was not replaced already
(`OneCopyMore`): that keeps the count.  Of the cards (`ListKnown`) it says that the
list is the good cards up to one that can be told at each label (`ListedSoFar`), when
a struct holds strings (`CardHeld`), and what the two headlines are said of
(`SaidKnown`).

The assumptions are those of the `ASSUME`s in the modules, which TLC evaluates
in every run: sizes are positive, the source buffer has room for the header and
for the longest format chunk that the format knows (it is mebibytes), no path is
the null pointer, the default count of periods fits into its field, a
block is whole frames of whole samples that fit into the output, the samples of a
file are in the range of their width, and a FLAC has a channel (libFLAC has read
their number less one).

Every safety invariant and action property of the runs is stated by one of these
theorems.  Only model-checked are the liveness properties `EndsOrStarves`,
`EndsUnlessBetween` and `ProgramEnds`, which need fairness and are beyond the prover.

## What is not modelled

* libFLAC beyond what `flac.c` asks of it: a stream on which it loses
  synchronisation, a block whose checksum is wrong, one longer than the metadata
  announce (`write_callback` then runs out of room and aborts, as SampleFormat
  has it).  This is why the FLAC decoder is listed as partly modelled.
* Playback takes the header of a WAV file for valid and reads it as one item;
  WavHeader has the three of them, and FlacDecoder takes the format of the blocks
  for that of the metadata; SampleFormat has the checks.
* argp: `--help`, `--version` and what is no option end the program in one step.
* A size in kilobytes or megabytes that wraps when it is multiplied
  (`main.c:51`): the product wraps in PlayerSetup, but what a buffer of that size
  does is `mmap`'s matter, and a failure of PlayFile's open steps.
* The text of what is logged and printed, with the session id, which is drawn
  from a seed that nobody sets (`log.c:20-26`); the listing of the system;
  `usleep`.  The flag
  `has_been_waiting` is read before anything has written it
  (`player.c:714-719`); it decides only whether to sleep.
* That the struct player, the `snd_output_t` of `player_open` and the
  `struct sound_card_info` are never freed is not held against the program: they
  live until the process ends.  `NothingIsLeft` is about everything else.
* A `poll` interrupted by a signal: the program installs no handlers.

## The plan

The core came first: IoBuffer and IoBufferQueue with their proofs, RfStream,
AlsaPcm, Playback, PlaybackPromise and its refinement, PlayFile, PcmDecoder and
FlacDecoder.  Then the parts around it: WavHeader and SampleFormat, PlayerSetup,
TimeSpan, SoundCards and CommandLine; Bridge, which makes a program of them;
liveness for the FLAC decoder and the program; and the proofs of FlacDecoder,
Bridge, TimeSpan, PlayerSetup and SampleFormat.

What would add most from here:

1. libFLAC on a damaged stream, as far as `error_callback` and the states that
   `decode_once` looks at tell.
2. The composition of FlacDecoder with AlsaPcm, in the place of a
   `player_write_alsa` that takes what it pleases.
