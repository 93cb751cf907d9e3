--------------------------- MODULE PlaybackProofs ---------------------------
(***************************************************************************)
(* Invariants of Playback for every file, every size of the buffers, the   *)
(* period and the ring, and any number of failures.                        *)
(*                                                                         *)
(* The type invariant is not inductive: that the ring does not overflow    *)
(* depends on the offer, the offer on the recoveries, and that the printed *)
(* position is not below zero on the accounts of the frames.  IInv adds    *)
(* what is known of the program at each label and of the device in each    *)
(* state; the accounts of ConservesBytes are part of it.  The second part, *)
(* on the two ends of a play, shows that Playback keeps PlaybackPromise.   *)
(***************************************************************************)
EXTENDS Playback, IoBufferTheorems

LEMMA Constants ==
  /\ FileSizes \subseteq Nat
  /\ SrcAlloc \in Nat \ {0}
  /\ MaxRead \in Nat \ {0}
  /\ Fifo \in BOOLEAN
  /\ DestAlloc \in Nat \ {0}
  /\ Frame \in Nat \ {0}
  /\ Period \in Nat \ {0}
  /\ RingFrames \in Nat
  /\ Period <= RingFrames
  /\ HeaderSize \in 1 .. SrcAlloc
  /\ MaxFaults \in Nat
BY StreamAssumption, DecoderAssumption, RingAssumption, PlaybackAssumption

\* Where the program is, and what the device is then.
Early == {"preload_read", "preload_decode", "open_failed"}

Playing == {"eof", "read", "decode", "write", "writei", "status"}

Ended == {"close_again", "released"}

Stages ==
  /\ pc = "open" => pcm = "NONE"
  /\ pc \in Early => pcm = "PREPARED" /\ ring = 0
  /\ pc \in Playing => pcm \in {"PREPARED", "RUNNING", "XRUN", "SUSPENDED"}
  /\ pc = "resume" => pcm = "SUSPENDED"
  /\ pc = "prepare" => pcm \in {"XRUN", "SUSPENDED"}
  /\ pc = "release" => pcm \in {"PREPARED", "RUNNING", "XRUN", "SUSPENDED"}
  /\ pc \in Ended => pcm = "CLOSED"
  /\ pc = "crashed" => pcm \in {"NONE", "CLOSED"}

\* Before the device is opened nothing has been decoded or written.
Unopened ==
  pcm = "NONE" => UnreadSize(dest) = 0 /\ written = 0

\* What the ring holds in each state of the device.
RingHolds ==
  /\ pcm \in {"RUNNING", "SUSPENDED"} => ring > 0
  /\ pcm \in {"NONE", "XRUN", "CLOSED"} => ring = 0

\* What is about to be written is there, and there is room for it as long as
\* the device can take it: it only makes more room meanwhile.
OfferFits ==
  pc = "writei" =>
    /\ offer \in 1 .. ItemsCount(dest, Frame)
    /\ Usable => offer <= RingFrames - ring

\* What was reported has been heard or thrown away.
ReportedIsPast == reported <= heard + dropped

IInv ==
  /\ TypeOK
  /\ ConservesBytes
  /\ Stages
  /\ Unopened
  /\ RingHolds
  /\ OfferFits
  /\ ReportedIsPast
-----------------------------------------------------------------------------
(***************************************************************************)
(* The two buffers.                                                        *)
(***************************************************************************)
LEMMA Buffers ==
  ASSUME TypeOK
  PROVE  src \in Window(SrcAlloc) /\ dest \in Window(DestAlloc)
BY DEF TypeOK, StreamType, DestType, Window

\* What a call that reads does, whatever it returns: the buffer grows by the
\* bytes that were read, and there were so many.
Reads ==
  /\ fd' \in {"open", "closed"}
  /\ src' \in Window(SrcAlloc)
  /\ pos' \in pos .. produced
  /\ UnreadSize(src') - UnreadSize(src) = pos' - pos

LEMMA ReadOnceReads ==
  ASSUME TypeOK, NEW e, io_rf_stream_read_once(e)
  PROVE  Reads
<1> DEFINE room == MakeReadRoom(src)
           n == Least(Least(MaxRead, TailSize(room)), Pending)
<1>1. /\ src \in Window(SrcAlloc)
      /\ room \in Window(SrcAlloc)
      /\ UnreadSize(room) = UnreadSize(src)
      /\ TailSize(room) \in Nat
  BY Buffers, Constants, ReadRoomSizes, WindowSizes
<1>2. pos \in Nat /\ produced \in Nat /\ pos <= produced /\ Pending = produced - pos
  BY Constants DEF TypeOK, StreamType, Pending
<1>3. UnreadSize(src) \in Nat
  BY <1>1, Constants, WindowSizes
<1>4. n <= TailSize(room) /\ n <= Pending /\ n \in Int
  BY <1>1, <1>2, Constants DEF Least
<1>5. fd \in {"open", "closed"}
  BY DEF TypeOK, StreamType
<1>6. CASE n > 0 /\ src' = Filled(room, n) /\ pos' = pos + n /\ UNCHANGED fd
  <2>1. n \in 0 .. TailSize(room)
    BY <1>1, <1>4, <1>6
  <2> HIDE DEF n, room
  <2>2. src' \in Window(SrcAlloc) /\ UnreadSize(src') = UnreadSize(src) + n
    BY <2>1, <1>1, <1>6, FilledSizes, Constants
  <2>3. QED
    BY <2>2, <1>2, <1>3, <1>4, <1>5, <1>6 DEF Reads
<1>7. CASE fd' \in {fd, "closed"} /\ src' = room /\ UNCHANGED pos
  <2> HIDE DEF n, room
  <2>1. QED
    BY <1>7, <1>1, <1>2, <1>3, <1>5 DEF Reads
<1>8. QED
  BY <1>6, <1>7 DEF io_rf_stream_read_once

LEMMA NoReadReads ==
  ASSUME TypeOK, fd' \in {fd, "closed"}, UNCHANGED <<src, pos>>
  PROVE  Reads
<1>1. src \in Window(SrcAlloc) /\ UnreadSize(src) \in Nat
  BY Buffers, Constants, WindowSizes
<1>2. pos \in Nat /\ produced \in Nat /\ pos <= produced /\ fd \in {"open", "closed"}
  BY Constants DEF TypeOK, StreamType
<1>3. QED
  BY <1>1, <1>2 DEF Reads

LEMMA SourceReads ==
  ASSUME TypeOK, NEW forever, NEW e, pcm_decoder_read_source(forever, e)
  PROVE  Reads
<1>1. CASE io_rf_stream_read_once(e)
  BY <1>1, ReadOnceReads
<1>2. CASE fd' \in {fd, "closed"} /\ UNCHANGED <<src, pos>>
  BY <1>2, NoReadReads
<1>3. QED
  BY <1>1, <1>2
     DEF pcm_decoder_read_source, io_rf_stream_read_with_poll, stream

\* What decoding moves from one buffer to the other.
LEMMA DecodeMoves ==
  ASSUME TypeOK, pcm_decoder_wav_decode_once
  PROVE  /\ src' \in Window(SrcAlloc)
         /\ dest' \in Window(DestAlloc)
         /\ UnreadSize(src') + UnreadSize(dest') = UnreadSize(src) + UnreadSize(dest)
<1> DEFINE count == Least(AvailableSize(dest), UnreadSize(src))
<1>1. src \in Window(SrcAlloc) /\ dest \in Window(DestAlloc)
  BY Buffers
<1>2. /\ UnreadSize(src) \in Nat
      /\ UnreadSize(dest) \in Nat
      /\ AvailableSize(dest) \in Nat
  BY <1>1, Constants, WindowSizes
<1>3. count \in 0 .. AvailableSize(dest) /\ count \in 0 .. UnreadSize(src)
  BY <1>2 DEF Least
<1>4. src' = Consumed(src, count) /\ dest' = TryWrite(dest, count)
  BY DEF pcm_decoder_wav_decode_once
<1> HIDE DEF count
<1>5. src' \in Window(SrcAlloc) /\ UnreadSize(src') = UnreadSize(src) - count
  BY <1>1, <1>3, <1>4, Constants, ConsumedSizes
<1>6. dest' \in Window(DestAlloc) /\ UnreadSize(dest') = UnreadSize(dest) + count
  BY <1>1, <1>3, <1>4, Constants, TryWriteSizes
<1>7. QED
  BY <1>2, <1>3, <1>5, <1>6

\* Reading keeps the type of the stream.
LEMMA StreamTypeKept ==
  ASSUME TypeOK, Reads, UNCHANGED file
  PROVE  StreamType'
<1>1. /\ src' \in [size_allocated : {SrcAlloc}, size_used : 0 .. SrcAlloc,
                   start_offset : 0 .. SrcAlloc]
      /\ src'.start_offset <= src'.size_used
  BY DEF Reads, Window
<1>2. pos' \in 0 .. produced'
  BY Constants DEF Reads, TypeOK, StreamType, file
<1>3. QED
  BY <1>1, <1>2 DEF Reads, TypeOK, StreamType, file

\* The bytes written to the device, and what is unread, are numbers.
LEMMA Counts ==
  ASSUME TypeOK
  PROVE  /\ UnreadSize(src) \in Nat
         /\ UnreadSize(dest) \in Nat
         /\ written \in Nat
         /\ Frame * written \in Nat
         /\ pos \in Nat
<1>1. UnreadSize(src) \in Nat /\ UnreadSize(dest) \in Nat
  BY Buffers, Constants, WindowSizes
<1>2. written \in Nat /\ pos \in Nat
  BY Constants DEF TypeOK, StreamType
<1>3. QED
  BY <1>1, <1>2, Constants

\* A step that reads, and leaves the device and the player alone, keeps the
\* accounts.
LEMMA ReadingConserves ==
  ASSUME TypeOK, ConservesBytes, Reads, UNCHANGED <<device, player>>
  PROVE  ConservesBytes'
<1>1. /\ pcm' = pcm /\ dest' = dest /\ written' = written
      /\ heard' = heard /\ ring' = ring /\ dropped' = dropped
  BY DEF device, player
<1>2. UnreadSize(dest') = UnreadSize(dest)
  BY <1>1
<1>3. UnreadSize(src') \in Nat /\ pos' \in Nat
  BY Constants, WindowSizes, Counts DEF Reads, TypeOK, StreamType
<1> DEFINE w == Frame * written
<1>4. w \in Nat /\ Frame * written' = w
  BY <1>1, Counts
<1> HIDE DEF w
<1> DEFINE h == IF pcm = "NONE" THEN 0 ELSE HeaderSize
<1>5. h \in Nat
  BY Constants
<1>6. pos = h + UnreadSize(src) + UnreadSize(dest) + w
  BY DEF ConservesBytes, w
<1>7. UnreadSize(src') - UnreadSize(src) = pos' - pos
  BY DEF Reads
<1> HIDE DEF h
<1>8. pos' = h + UnreadSize(src') + UnreadSize(dest) + w
  BY <1>3, <1>4, <1>5, <1>6, <1>7, Counts
<1>9. QED
  BY <1>1, <1>2, <1>4, <1>8 DEF ConservesBytes, h

LEMMA InitInvariant == Init => IInv
<1> SUFFICES ASSUME Init PROVE IInv
  OBVIOUS
<1> USE Constants
<1>1. /\ src \in Window(SrcAlloc) /\ UnreadSize(src) = 0
      /\ dest \in Window(DestAlloc) /\ UnreadSize(dest) = 0
  BY EmptyWindow DEF Init, StreamInit
<1>2. TypeOK
  <2>1. StreamType
    BY <1>1 DEF Init, StreamInit, StreamType, Window
  <2>2. DeviceType
    BY DEF Init, DeviceInit, DeviceType
  <2>3. DestType
    BY <1>1 DEF DestType, Window
  <2>4. QED
    BY <2>1, <2>2, <2>3 DEF Init, TypeOK, Labels
<1>3. ConservesBytes
  BY <1>1 DEF Init, StreamInit, DeviceInit, ConservesBytes
<1>4. QED
  BY <1>1, <1>2, <1>3
     DEF Init, DeviceInit, IInv, Stages, Early, Playing, Ended, Unopened,
         RingHolds, OfferFits, ReportedIsPast

\* Steps that read, or fail to, and go on elsewhere.
LEMMA ReadingStep ==
  ASSUME IInv, Reads, UNCHANGED <<file, device, player>>,
         pc' \in Labels, pc' # "writei", faults' \in 0 .. MaxFaults,
         error' \in {"none", "eagain", "eio", "epipe", "estrpipe"},
         Stages'
  PROVE  IInv'
<1>1. StreamType' /\ ConservesBytes'
  BY StreamTypeKept, ReadingConserves DEF IInv
<1>2. QED
  BY <1>1
     DEF IInv, TypeOK, DeviceType, DestType, device, player, Unopened, RingHolds,
         OfferFits, ReportedIsPast

LEMMA FaultsType ==
  ASSUME TypeOK, NEW kind, Fault(kind) \/ NoFault
  PROVE  faults' \in 0 .. MaxFaults
BY Constants DEF TypeOK, Fault, NoFault

LEMMA ReadHeaderKeeps == ASSUME IInv, ReadHeader PROVE IInv'
<1>1. PICK e \in ReadErrors :
        /\ io_rf_stream_read_once(e)
        /\ ReadOutcome(e)
        /\ error' = e
        /\ pc' = IF e = "none" THEN "open" ELSE "crashed"
  BY DEF ReadHeader
<1>2. Reads
  BY <1>1, ReadOnceReads DEF IInv
<1>3. faults' \in 0 .. MaxFaults
  BY <1>1, FaultsType DEF IInv, ReadOutcome
<1>4. Stages'
  BY <1>1 DEF IInv, ReadHeader, Stages, Early, Playing, Ended, device
<1>5. QED
  BY <1>1, <1>2, <1>3, <1>4, ReadingStep DEF ReadHeader, Labels, ReadErrors

LEMMA PreloadReadKeeps == ASSUME IInv, PreloadRead PROVE IInv'
<1>1. PICK e \in ReadErrors :
        /\ pcm_decoder_read_source(TRUE, e)
        /\ ReadOutcome(e)
        /\ error' = e
        /\ pc' = IF e = "none" THEN "preload_decode" ELSE "open_failed"
  BY DEF PreloadRead
<1>2. Reads
  BY <1>1, SourceReads DEF IInv
<1>3. faults' \in 0 .. MaxFaults
  BY <1>1, FaultsType DEF IInv, ReadOutcome
<1>4. Stages'
  BY <1>1 DEF IInv, PreloadRead, Stages, Early, Playing, Ended, device
<1>5. QED
  BY <1>1, <1>2, <1>3, <1>4, ReadingStep DEF PreloadRead, Labels, ReadErrors

LEMMA ReadKeeps == ASSUME IInv, Read PROVE IInv'
<1>1. PICK e \in ReadErrors :
        /\ pcm_decoder_read_source(pcm_decoder_is_source_buffer_empty, e)
        /\ ReadOutcome(e)
        /\ IF e = "none" THEN GoTo("decode") ELSE FailWith(e)
  BY DEF Read
<1>2. Reads
  BY <1>1, SourceReads DEF IInv
<1>3. faults' \in 0 .. MaxFaults
  BY <1>1, FaultsType DEF IInv, ReadOutcome
<1>4. /\ pc' \in {"decode", "release"}
      /\ error' \in {"none", "eagain", "eio", "epipe", "estrpipe"}
  BY <1>1 DEF GoTo, FailWith, ReadErrors, IInv, TypeOK
<1>5. Stages'
  BY <1>4 DEF IInv, Read, Stages, Early, Playing, Ended, device
<1>6. QED
  BY <1>2, <1>3, <1>4, <1>5, ReadingStep DEF Read, Labels

\* Steps of the program that move no data.
LEMMA QuietStep ==
  ASSUME IInv, fd' \in {fd, "closed"}, UNCHANGED <<src, pos, file, device, player>>,
         pc' \in Labels, pc' # "writei", faults' \in 0 .. MaxFaults,
         error' \in {"none", "eagain", "eio", "epipe", "estrpipe"},
         Stages'
  PROVE  IInv'
<1>1. Reads
  BY NoReadReads DEF IInv
<1>2. QED
  BY <1>1, ReadingStep

LEMMA HeaderMissingKeeps == ASSUME IInv, HeaderMissing PROVE IInv'
<1>1. Stages'
  BY DEF HeaderMissing, IInv, Stages, Early, Playing, Ended, device
<1>2. QED
  BY <1>1, QuietStep DEF HeaderMissing, Labels, stream, IInv, TypeOK

LEMMA PreloadedKeeps == ASSUME IInv, Preloaded PROVE IInv'
<1>1. Stages'
  BY DEF Preloaded, GoTo, IInv, Stages, Early, Playing, Ended, device
<1>2. QED
  BY <1>1, QuietStep DEF Preloaded, GoTo, Labels, stream, IInv, TypeOK

LEMMA CloseAgainKeeps == ASSUME IInv, CloseAgain PROVE IInv'
<1>1. pc' \in {"released", "crashed"} /\ error' = error
  BY DEF CloseAgain, GoTo
<1>2. Stages'
  BY <1>1 DEF CloseAgain, IInv, Stages, Early, Playing, Ended, device
<1>3. QED
  BY <1>1, <1>2, QuietStep DEF CloseAgain, Labels, IInv, TypeOK

LEMMA TestEofKeeps == ASSUME IInv, TestEof PROVE IInv'
<1>1. pc' \in {"release", "write", "read"} /\ error' = error
  BY DEF TestEof, GoTo
<1>2. Stages'
  BY <1>1 DEF TestEof, IInv, Stages, Early, Playing, Ended, device
<1>3. QED
  BY <1>1, <1>2, QuietStep DEF TestEof, Labels, stream, IInv, TypeOK

LEMMA DecodedKeeps == ASSUME IInv, Decoded PROVE IInv'
<1>1. Stages'
  BY DEF Decoded, GoTo, IInv, Stages, Early, Playing, Ended, device
<1>2. QED
  BY <1>1, QuietStep DEF Decoded, GoTo, Labels, stream, IInv, TypeOK

LEMMA WriteAgainKeeps == ASSUME IInv, WriteAgain PROVE IInv'
<1>1. Stages'
  BY DEF WriteAgain, GoTo, IInv, Stages, Early, Playing, Ended, device
<1>2. faults' \in 0 .. MaxFaults
  BY FaultsType DEF WriteAgain, IInv
<1>3. QED
  BY <1>1, <1>2, QuietStep DEF WriteAgain, GoTo, Labels, stream, IInv, TypeOK

\* The device does not get better by itself: whoever could not write finds
\* it in an underrun or suspended.
LEMMA WriteFailsKeeps == ASSUME IInv, WriteFails PROVE IInv'
<1>1. pc' = (IF pcm = "XRUN" THEN "prepare" ELSE "resume") /\ error' = error
  BY DEF WriteFails, GoTo
<1>2. pcm \in {"XRUN", "SUSPENDED"}
  BY DEF WriteFails, IInv, Stages, Playing, Usable
<1>3. Stages'
  BY <1>1, <1>2 DEF WriteFails, Stages, Early, Playing, Ended, device
<1>4. QED
  BY <1>1, <1>3, QuietStep DEF WriteFails, Labels, stream, IInv, TypeOK

\* Steps that decode.
LEMMA DecodingStep ==
  ASSUME IInv, pcm_decoder_wav_decode_once, pcm # "NONE",
         UNCHANGED <<fd, pos, file, device, written, offer, reported, faults, error>>,
         pc' \in Labels, pc' # "writei", Stages'
  PROVE  IInv'
<1>1. /\ src' \in Window(SrcAlloc)
      /\ dest' \in Window(DestAlloc)
      /\ UnreadSize(src') + UnreadSize(dest') = UnreadSize(src) + UnreadSize(dest)
  BY DecodeMoves DEF IInv
<1>2. UnreadSize(src') \in Nat /\ UnreadSize(dest') \in Nat
  BY <1>1, Constants, WindowSizes
<1>3. TypeOK'
  BY <1>1 DEF Window, IInv, TypeOK, StreamType, DeviceType, DestType, file, device
<1>4. ConservesBytes'
  <2> DEFINE w == Frame * written
  <2>1. w \in Nat /\ Frame * written' = w
    BY Counts DEF IInv
  <2>2. pos = HeaderSize + UnreadSize(src) + UnreadSize(dest) + w
    BY DEF IInv, ConservesBytes
  <2> HIDE DEF w
  <2>3. pos = HeaderSize + UnreadSize(src') + UnreadSize(dest') + w
    BY <1>1, <1>2, <2>1, <2>2, Counts, Constants DEF IInv
  <2>4. QED
    BY <2>1, <2>3 DEF IInv, ConservesBytes, device
<1>5. QED
  BY <1>3, <1>4
     DEF IInv, Unopened, RingHolds, OfferFits, ReportedIsPast, device

LEMMA PreloadDecodeKeeps == ASSUME IInv, PreloadDecode PROVE IInv'
<1>1. pc' \in {"preload_decode", "preload_read"} /\ error' = error
  BY DEF PreloadDecode, GoTo
<1>2. pcm # "NONE"
  BY DEF PreloadDecode, IInv, Stages, Early
<1>3. Stages'
  BY <1>1 DEF PreloadDecode, IInv, Stages, Early, Playing, Ended, device
<1>4. QED
  BY <1>1, <1>2, <1>3, DecodingStep DEF PreloadDecode, Labels

LEMMA DecodeKeeps == ASSUME IInv, Decode PROVE IInv'
<1>1. pc' = "decode" /\ error' = error
  BY DEF Decode, GoTo
<1>2. pcm # "NONE"
  BY DEF Decode, IInv, Stages, Playing
<1>3. Stages'
  BY <1>1 DEF Decode, IInv, Stages, Early, Playing, Ended, device
<1>4. QED
  BY <1>1, <1>2, <1>3, DecodingStep DEF Decode, Labels
-----------------------------------------------------------------------------
(***************************************************************************)
(* The steps that touch the device.                                        *)
(***************************************************************************)

\* The header is taken out of the source, and counts as such from now on.
LEMMA OpenKeeps == ASSUME IInv, player_open PROVE IInv'
<1>1. /\ src \in Window(SrcAlloc)
      /\ HeaderSize \in 0 .. UnreadSize(src)
  BY Buffers, Counts, Constants DEF player_open, IInv
<1>2. src' \in Window(SrcAlloc) /\ UnreadSize(src') = UnreadSize(src) - HeaderSize
  BY <1>1, ConsumedSizes, Constants DEF player_open
<1>3. pcm = "NONE" /\ pcm' = "PREPARED" /\ pc' = "preload_read"
  BY DEF player_open, snd_pcm_open, GoTo, IInv, Stages
<1>4. TypeOK'
  BY <1>2, <1>3
     DEF Window, player_open, snd_pcm_open, GoTo, IInv, TypeOK, StreamType, DeviceType,
         DestType, Labels, file, player
<1>5. ConservesBytes'
  <2> DEFINE w == Frame * written
  <2>1. w \in Nat /\ Frame * written' = w
    BY Counts DEF IInv, player_open, player
  <2>2. pos = UnreadSize(src) + UnreadSize(dest) + w
    BY <1>3, Counts DEF IInv, ConservesBytes
  <2>3. dest' = dest /\ pos' = pos
    BY DEF player_open, player
  <2> HIDE DEF w
  <2>4. pos' = HeaderSize + UnreadSize(src') + UnreadSize(dest') + w
    BY <1>1, <1>2, <2>1, <2>2, <2>3, Counts, Constants DEF IInv
  <2>5. QED
    BY <1>3, <2>1, <2>4
       DEF IInv, ConservesBytes, player_open, snd_pcm_open, player
<1>6. ring = 0
  BY <1>3 DEF IInv, RingHolds
<1>7. QED
  BY <1>3, <1>4, <1>5, <1>6
     DEF IInv, player_open, snd_pcm_open, player, Stages, Early, Playing, Ended,
         Unopened, RingHolds, OfferFits, ReportedIsPast

\* Every frame written is accounted for afterwards, and no less has been
\* heard or thrown away.
AccountsKept ==
  /\ written = heard' + ring' + dropped'
  /\ reported <= heard' + dropped'

LEMMA Accounts ==
  ASSUME IInv
  PROVE  /\ ring \in Nat /\ heard \in Nat /\ dropped \in Nat /\ reported \in Nat
         /\ written = heard + ring + dropped
         /\ reported <= heard + dropped
BY Constants DEF IInv, TypeOK, DeviceType, ConservesBytes, ReportedIsPast

\* Steps of the program that move frames out of the ring or give up, and
\* leave the buffers alone.
LEMMA DeviceStep ==
  ASSUME IInv, fd' \in {fd, "closed"}, UNCHANGED <<src, pos, file, player>>,
         pcm # "NONE", pcm' # "NONE",
         DeviceType',
         AccountsKept,
         RingHolds',
         Stages', pc' \in Labels, pc' # "writei", faults' \in 0 .. MaxFaults,
         error' \in {"none", "eagain", "eio", "epipe", "estrpipe"}
  PROVE  IInv'
<1>1. TypeOK'
  BY DEF IInv, TypeOK, StreamType, DestType, file, player
<1>2. ConservesBytes'
  <2>1. /\ UnreadSize(src') = UnreadSize(src) /\ UnreadSize(dest') = UnreadSize(dest)
        /\ written' = written /\ pos' = pos
    BY DEF player
  <2>2. QED
    BY <2>1, Zenon DEF IInv, ConservesBytes, AccountsKept
<1>3. ReportedIsPast'
  BY DEF AccountsKept, ReportedIsPast, player
<1>4. QED
  BY <1>1, <1>2, <1>3 DEF IInv, Unopened, OfferFits

LEMMA OpenFailsKeeps == ASSUME IInv, player_open_fails PROVE IInv'
<1>1. /\ pc' = "close_again" /\ error' = error /\ faults' = faults
      /\ pcm' = "CLOSED" /\ ring' = 0 /\ heard' = heard /\ dropped' = dropped + ring
  BY DEF player_open_fails, snd_pcm_drain_and_close, GoTo
<1>2. pcm = "PREPARED" /\ ring \in Nat /\ heard \in Nat /\ dropped \in Nat
  BY Constants DEF player_open_fails, IInv, Stages, Early, TypeOK, DeviceType
<1>3. DeviceType' /\ RingHolds' /\ Stages' /\ AccountsKept
  BY <1>1, <1>2, Accounts, Constants
     DEF AccountsKept, DeviceType, RingHolds, Stages, Early, Playing, Ended
<1>4. QED
  BY <1>1, <1>2, <1>3, DeviceStep
     DEF player_open_fails, Labels, stream, IInv, TypeOK

LEMMA ReleaseKeeps == ASSUME IInv, Release PROVE IInv'
<1>1. /\ pc' = "released" /\ error' = error /\ faults' = faults /\ fd' = "closed"
      /\ pcm' = "CLOSED" /\ ring' = 0 /\ heard' = heard /\ dropped' = dropped + ring
  BY DEF Release, snd_pcm_drain_and_close, GoTo
<1>2. pcm # "NONE" /\ ring \in Nat /\ heard \in Nat /\ dropped \in Nat
  BY Constants DEF Release, IInv, Stages, TypeOK, DeviceType
<1>3. DeviceType' /\ RingHolds' /\ Stages' /\ AccountsKept
  BY <1>1, <1>2, Accounts, Constants
     DEF AccountsKept, DeviceType, RingHolds, Stages, Early, Playing, Ended
<1>4. QED
  BY <1>1, <1>2, <1>3, DeviceStep DEF Release, Labels, IInv, TypeOK

LEMMA PrepareKeeps == ASSUME IInv, Prepare PROVE IInv'
<1>1. CASE snd_pcm_prepare /\ NoFault /\ GoTo("status")
  <2>1. /\ pc' = "status" /\ error' = error /\ faults' = faults
        /\ pcm' = "PREPARED" /\ ring' = 0 /\ heard' = heard /\ dropped' = dropped + ring
    BY <1>1 DEF snd_pcm_prepare, NoFault, GoTo
  <2>2. pcm # "NONE" /\ ring \in Nat /\ heard \in Nat /\ dropped \in Nat
    BY Constants DEF Prepare, IInv, Stages, TypeOK, DeviceType
  <2>3. DeviceType' /\ RingHolds' /\ Stages' /\ AccountsKept
    BY <2>1, <2>2, Accounts, Constants
       DEF AccountsKept, DeviceType, RingHolds, Stages, Early, Playing, Ended
  <2>4. QED
    BY <2>1, <2>2, <2>3, DeviceStep DEF Prepare, Labels, stream, IInv, TypeOK
<1>2. CASE UNCHANGED device /\ Fault("prepare") /\ FailWith(DeviceError)
  <2>1. /\ pc' = "release" /\ error' \in {"epipe", "estrpipe"}
        /\ faults' \in 0 .. MaxFaults
    BY <1>2, FaultsType DEF FailWith, DeviceError, IInv
  <2>2. Stages'
    BY <1>2, <2>1 DEF Prepare, IInv, Stages, Early, Playing, Ended, device
  <2>3. QED
    BY <1>2, <2>1, <2>2, QuietStep DEF Prepare, Labels, stream
<1>3. QED
  BY <1>1, <1>2 DEF Prepare

LEMMA ResumeKeeps == ASSUME IInv, Resume PROVE IInv'
<1>1. CASE snd_pcm_resume /\ NoFault /\ GoTo("status")
  <2>1. /\ pc' = "status" /\ error' = error /\ faults' = faults
        /\ pcm' = "RUNNING" /\ ring' = ring /\ heard' = heard /\ dropped' = dropped
    BY <1>1 DEF snd_pcm_resume, NoFault, GoTo
  <2>2. pcm = "SUSPENDED" /\ ring \in Nat /\ heard \in Nat /\ dropped \in Nat /\ ring > 0
    BY Constants DEF Resume, IInv, Stages, RingHolds, TypeOK, DeviceType
  <2>3. DeviceType' /\ RingHolds' /\ Stages' /\ AccountsKept
    BY <2>1, <2>2, Accounts
       DEF IInv, TypeOK, AccountsKept, DeviceType, RingHolds, Stages, Early, Playing, Ended
  <2>4. QED
    BY <2>1, <2>2, <2>3, DeviceStep DEF Resume, Labels, stream, IInv, TypeOK
<1>2. CASE UNCHANGED device /\ Fault("resume") /\ GoTo("prepare")
  <2>1. pc' = "prepare" /\ error' = error /\ faults' \in 0 .. MaxFaults
    BY <1>2, FaultsType DEF GoTo, IInv
  <2>2. Stages'
    BY <1>2, <2>1 DEF Resume, IInv, Stages, Early, Playing, Ended, device
  <2>3. QED
    BY <1>2, <2>1, <2>2, QuietStep DEF Resume, Labels, stream, IInv, TypeOK
<1>3. QED
  BY <1>1, <1>2 DEF Resume

\* The offer is not more than the frames at hand, nor than the room in the
\* ring if the device is usable; one of each is there.
LEMMA OfferKeeps == ASSUME IInv, player_write_alsa PROVE IInv'
<1> DEFINE count == pcm_decoder_get_output_buffer_frames_count
<1>1. UNCHANGED <<stream, file, device, dest, written, reported, faults, error>>
  BY DEF player_write_alsa, GoTo
<1>2. CASE UNCHANGED offer /\ pc' = "status"
  <2>1. Stages'
    BY <1>1, <1>2 DEF player_write_alsa, IInv, Stages, Early, Playing, Ended, device
  <2>2. QED
    BY <1>1, <1>2, <2>1, QuietStep DEF Labels, stream, player, IInv, TypeOK
<1>3. CASE /\ ~(pcm_decoder_is_output_buffer_empty \/ (Usable /\ snd_pcm_avail = 0))
           /\ offer' = IF Usable THEN Least(snd_pcm_avail, count) ELSE count
           /\ pc' = "writei"
  <2>1. dest \in Window(DestAlloc)
    BY Buffers DEF IInv
  <2>2. /\ count \in Nat
        /\ UnreadSize(dest) < (count + 1) * Frame
    BY <2>1, ItemsFit, Constants DEF pcm_decoder_get_output_buffer_frames_count
  <2>3. UnreadSize(dest) >= Frame
    BY <1>3, Counts, Constants DEF pcm_decoder_is_output_buffer_empty, IInv
  <2>4. count >= 1
    <3>1. count # 0
      BY <2>2, <2>3, Counts, Constants DEF IInv
    <3>2. QED
      BY <2>2, <3>1
  <2>5. ring \in 0 .. RingFrames
    BY DEF IInv, TypeOK, DeviceType
  <2>6. ItemsCount(dest, Frame) = count
    BY DEF pcm_decoder_get_output_buffer_frames_count
  <2> HIDE DEF count
  <2>7. offer' \in 1 .. count /\ (Usable => offer' <= RingFrames - ring)
    <3>1. CASE Usable
      <4>1. snd_pcm_avail = RingFrames - ring /\ snd_pcm_avail \in Nat \ {0}
        BY <1>3, <2>5, <3>1, Constants DEF snd_pcm_avail
      <4>2. QED
        BY <1>3, <2>2, <2>4, <3>1, <4>1 DEF Least
    <3>2. CASE ~Usable
      BY <1>3, <2>2, <2>4, <3>2
    <3>3. QED
      BY <3>1, <3>2
  <2>8. OfferFits'
    BY <1>1, <2>6, <2>7 DEF OfferFits, Usable, device, ItemsCount, UnreadSize
  <2>9. TypeOK'
    BY <1>1, <1>3, <2>2, <2>7
       DEF IInv, TypeOK, StreamType, DeviceType, DestType, Labels, stream, file, device
  <2>10. ConservesBytes'
    BY <1>1 DEF IInv, ConservesBytes, UnreadSize, stream, device
  <2>11. QED
    BY <1>1, <1>3, <2>8, <2>9, <2>10
       DEF player_write_alsa, IInv, Stages, Early, Playing, Ended, Unopened, RingHolds,
           ReportedIsPast, UnreadSize, device
<1>4. QED
  BY <1>2, <1>3 DEF player_write_alsa, GoTo

\* What the device accepts moves from the buffer to the ring.
LEMMA AcceptedKeeps == ASSUME IInv, WriteAccepted PROVE IInv'
<1>1. PICK n \in 1 .. offer : snd_pcm_writei(n) /\ Accepted(n)
  BY DEF WriteAccepted
<1>2. /\ pc' = "status" /\ error' = error
      /\ UNCHANGED <<stream, file, offer, reported, faults>>
  BY DEF WriteAccepted, GoTo
<1>3. /\ Usable
      /\ offer \in 1 .. ItemsCount(dest, Frame)
      /\ offer <= RingFrames - ring
  BY <1>1 DEF WriteAccepted, snd_pcm_writei, IInv, OfferFits
<1>4. dest \in Window(DestAlloc)
  BY Buffers DEF IInv
<1>5. ItemsCount(dest, Frame) \in Nat
  BY <1>4, ItemsFit, Constants
<1>6. n \in 0 .. ItemsCount(dest, Frame) /\ n \in Nat \ {0} /\ n <= RingFrames - ring
  BY <1>3, <1>5, Constants DEF IInv, TypeOK, DeviceType
<1>7. n * Frame \in 0 .. UnreadSize(dest)
  BY <1>4, <1>6, FewerItemsFit, Constants
<1>8. /\ dest' \in Window(DestAlloc)
      /\ UnreadSize(dest') = UnreadSize(dest) - n * Frame
  BY <1>1, <1>4, <1>7, ConsumedSizes, Constants DEF Accepted
<1>9. /\ ring' = ring + n /\ heard' = heard /\ dropped' = dropped
      /\ pcm' \in {"RUNNING", pcm}
      /\ ring + n >= Period => pcm' = "RUNNING"
      /\ written' = written + n
  BY <1>1 DEF snd_pcm_writei, Accepted
<1>10. ring' \in 1 .. RingFrames
  BY <1>6, <1>9, Constants DEF IInv, TypeOK, DeviceType
<1>11. pcm \in {"PREPARED", "RUNNING"} /\ pcm' \in {"PREPARED", "RUNNING"}
  BY <1>3, <1>9 DEF Usable
<1>12. TypeOK'
  BY <1>2, <1>6, <1>8, <1>9, <1>10, <1>11
     DEF Window, IInv, TypeOK, StreamType, DeviceType, DestType, Labels, stream, file
<1>13. ConservesBytes'
  <2> DEFINE w == Frame * written
             k == n * Frame
  <2>1. w \in Nat /\ k \in Nat /\ Frame * written' = w + k
    BY <1>6, <1>9, Counts, Constants DEF IInv
  <2>2. pos = HeaderSize + UnreadSize(src) + UnreadSize(dest) + w
    BY <1>11 DEF IInv, ConservesBytes
  <2>3. UnreadSize(dest') = UnreadSize(dest) - k /\ UnreadSize(dest') \in Nat
    BY <1>8, Constants, WindowSizes
  <2>4. src' = src /\ pos' = pos
    BY <1>2 DEF stream
  <2> HIDE DEF w, k
  <2>5. pos = HeaderSize + UnreadSize(src) + UnreadSize(dest') + (w + k)
    BY <2>1, <2>2, <2>3, Counts, Constants DEF IInv
  <2>6. written' = heard' + ring' + dropped'
    BY <1>6, <1>9 DEF IInv, ConservesBytes, TypeOK, DeviceType
  <2>7. QED
    BY <1>11, <2>1, <2>4, <2>5, <2>6 DEF ConservesBytes
<1>14. QED
  BY <1>2, <1>9, <1>10, <1>11, <1>12, <1>13
     DEF IInv, Stages, Early, Playing, Ended, Unopened, RingHolds, OfferFits, ReportedIsPast

\* The printed position: what was written less what is in the ring has been
\* heard or thrown away.
LEMMA PositionIsPast ==
  ASSUME IInv
  PROVE  Position = heard + dropped /\ Position \in Nat
BY Constants DEF IInv, ConservesBytes, TypeOK, DeviceType, Position

LEMMA StatusKeeps == ASSUME IInv, Status PROVE IInv'
<1>1. CASE Usable
  <2>1. /\ pc' = "eof" /\ error' = error /\ reported' = heard + dropped
        /\ reported' \in Nat
        /\ UNCHANGED <<stream, file, device, dest, written, offer, faults>>
    BY <1>1, PositionIsPast DEF Status, GoTo
  <2>2. TypeOK'
    BY <2>1 DEF IInv, TypeOK, StreamType, DeviceType, DestType, Labels, stream, file, device
  <2>3. ConservesBytes'
    BY <2>1 DEF IInv, ConservesBytes, UnreadSize, stream, device
  <2>4. QED
    BY <2>1, <2>2, <2>3
       DEF Status, IInv, TypeOK, DeviceType, Stages, Early, Playing, Ended, Unopened,
           RingHolds, OfferFits, ReportedIsPast, UnreadSize, device
<1>2. CASE ~Usable
  <2>1. pc' = "release" /\ error' \in {"epipe", "estrpipe"}
    BY <1>2 DEF Status, FailWith, DeviceError
  <2>2. UNCHANGED <<stream, file, device, player, faults>>
    BY <1>2 DEF Status, player
  <2>3. Stages'
    BY <2>1, <2>2 DEF Status, IInv, Stages, Early, Playing, Ended, device
  <2>4. QED
    BY <2>1, <2>2, <2>3, QuietStep DEF Labels, stream, IInv, TypeOK
<1>3. QED
  BY <1>1, <1>2
-----------------------------------------------------------------------------
(***************************************************************************)
(* The others.                                                             *)
(***************************************************************************)
LEMMA WriterKeeps == ASSUME IInv, Writer PROVE IInv'
<1>1. UNCHANGED <<stream, device, player, pc, error, faults>>
  BY DEF Writer
<1>2. /\ fileSize' = fileSize
      /\ produced' \in produced .. fileSize
      /\ writer' \in {"absent", "writing", "gone"}
  BY Constants
     DEF Writer, WriterNext, WriterOpens, WriterFeeds, WriterCloses, IInv, TypeOK,
         StreamType
<1>3. StreamType'
  BY <1>1, <1>2, Constants DEF IInv, TypeOK, StreamType, stream
<1>4. TypeOK'
  BY <1>1, <1>3 DEF IInv, TypeOK, DeviceType, DestType, device, player
<1>5. QED
  BY <1>1, <1>4
     DEF IInv, ConservesBytes, Stages, Unopened, RingHolds, OfferFits, ReportedIsPast,
         UnreadSize, ItemsCount, Usable, stream, device, player

\* A frame played makes room in the ring; the last one is the underrun.
LEMMA PlaysKeeps == ASSUME IInv, Plays PROVE IInv'
<1>1. /\ UNCHANGED <<stream, file, player, pc, error, faults>>
      /\ pcm = "RUNNING" /\ ring' = ring - 1 /\ heard' = heard + 1 /\ dropped' = dropped
      /\ pcm' = IF ring = 1 THEN "XRUN" ELSE "RUNNING"
  BY DEF Plays, DevicePlays
<1>2. ring \in 1 .. RingFrames /\ heard \in Nat /\ dropped \in Nat
  BY <1>1, Constants DEF IInv, RingHolds, TypeOK, DeviceType
<1>3. TypeOK'
  BY <1>1, <1>2, Constants
     DEF IInv, TypeOK, StreamType, DeviceType, DestType, stream, file, player
<1>4. ConservesBytes'
  BY <1>1, <1>2 DEF IInv, ConservesBytes, UnreadSize, stream, player
<1>5. Stages'
  BY <1>1 DEF IInv, Stages, Early, Playing, Ended
<1>6. OfferFits'
  BY <1>1, <1>2, Constants
     DEF IInv, OfferFits, Usable, ItemsCount, UnreadSize, player, TypeOK
<1>7. ReportedIsPast' /\ RingHolds' /\ Unopened'
  BY <1>1, <1>2 DEF IInv, TypeOK, ReportedIsPast, RingHolds, Unopened, player
<1>8. QED
  BY <1>3, <1>4, <1>5, <1>6, <1>7 DEF IInv

LEMMA SuspendsKeeps == ASSUME IInv, Suspends PROVE IInv'
<1>1. /\ UNCHANGED <<stream, file, player, pc, error, ring, heard, dropped>>
      /\ pcm = "RUNNING" /\ pcm' = "SUSPENDED"
  BY DEF Suspends, DeviceSuspends
<1>2. faults' \in 0 .. MaxFaults
  BY FaultsType DEF Suspends, IInv
<1>3. QED
  BY <1>1, <1>2
     DEF IInv, TypeOK, StreamType, DeviceType, DestType, ConservesBytes, Stages, Early,
         Playing, Ended, Unopened, RingHolds, OfferFits, ReportedIsPast, Usable,
         ItemsCount, UnreadSize, stream, file, player

LEMMA StutterKeeps == ASSUME IInv, UNCHANGED vars PROVE IInv'
BY DEF IInv, TypeOK, StreamType, DeviceType, DestType, ConservesBytes, Stages, Unopened,
       RingHolds, OfferFits, ReportedIsPast, Usable, ItemsCount, UnreadSize, vars, stream,
       file, device, player

LEMMA ProgramKeeps == ASSUME IInv, Program PROVE IInv'
BY ReadHeaderKeeps, HeaderMissingKeeps, OpenKeeps, PreloadReadKeeps, PreloadDecodeKeeps,
   PreloadedKeeps, OpenFailsKeeps, CloseAgainKeeps, TestEofKeeps, ReadKeeps, DecodeKeeps,
   DecodedKeeps, OfferKeeps, AcceptedKeeps, WriteAgainKeeps, WriteFailsKeeps,
   ResumeKeeps, PrepareKeeps, StatusKeeps, ReleaseKeeps
   DEF Program

LEMMA StepKeeps == ASSUME IInv, [Next]_vars PROVE IInv'
BY ProgramKeeps, WriterKeeps, PlaysKeeps, SuspendsKeeps, StutterKeeps DEF Next, Done

\* IInv holds throughout.
THEOREM Invariance == Spec => []IInv
<1>1. IInv /\ [Next]_vars => IInv'
  BY StepKeeps
<1>2. QED
  BY InitInvariant, <1>1, PTL DEF Spec

-----------------------------------------------------------------------------
(***************************************************************************)
(* What follows for the properties of Playback.                            *)
(***************************************************************************)

\* Both buffers stay inside their memory, the ring within its size and the
\* printed position above zero, whatever the file and the sizes (io.c,
\* pcm.c, player.c).
THEOREM TypeCorrect == Spec => []TypeOK
<1>1. IInv => TypeOK
  BY DEF IInv
<1>2. QED
  BY <1>1, Invariance, PTL

\* No byte is lost or doubled between read(2) and snd_pcm_writei, and no
\* frame in the device, through short reads, partial writes, underruns,
\* suspends and failures (io.c, pcm.c, player_write_alsa).
THEOREM BytesConserved == Spec => []ConservesBytes
<1>1. IInv => ConservesBytes
  BY DEF IInv
<1>2. QED
  BY <1>1, Invariance, PTL

\* The position that play prints never goes back
\* (player_get_playback_status), although an underrun empties the ring.
THEOREM PositionNeverGoesBack == Spec => ReportedNeverGoesBack
<1>1. ASSUME IInv, [Next]_vars
      PROVE  [reported' >= reported]_vars
  <2>1. reported \in Nat
    BY <1>1 DEF IInv, TypeOK
  <2>2. CASE Status
    <3>1. reported' = reported \/ reported' = Position
      BY <2>2 DEF Status
    <3>2. reported <= Position /\ Position \in Nat
      BY <1>1, PositionIsPast DEF IInv, ReportedIsPast
    <3>3. QED
      BY <2>1, <3>1, <3>2
  <2>3. CASE Program /\ ~Status
    <3>1. reported' = reported
      BY <2>3
         DEF Program, ReadHeader, HeaderMissing, player_open, PreloadRead,
             PreloadDecode, Preloaded, player_open_fails, CloseAgain, TestEof, Read,
             Decode, Decoded, player_write_alsa, WriteAccepted, WriteAgain,
             WriteFails, Resume, Prepare, Release, player
    <3>2. QED
      BY <2>1, <3>1
  <2>4. CASE Writer \/ Plays \/ Suspends \/ UNCHANGED vars
    <3>1. reported' = reported
      BY <2>4 DEF Writer, Plays, Suspends, vars, player
    <3>2. QED
      BY <2>1, <3>1
  <2>5. QED
    BY <1>1, <2>2, <2>3, <2>4 DEF Next, Done
<1>2. QED
  BY <1>1, Invariance, PTL DEF Spec, ReportedNeverGoesBack

\* The assertions on the way of the samples hold (pcm.c:207, player.c:688,
\* io.c:146) as long as the decoder's buffer can hold a period, which is what
\* preload_first_period fills it with.
THEOREM AssertionsNeverFail ==
  ASSUME Period * Frame <= DestAlloc
  PROVE  Spec => []AssertionsHold
<1>1. ASSUME IInv, MorePreload(Period)
      PROVE  ~IsFull(dest)
  <2> DEFINE items == ItemsCount(dest, Frame)
  <2>1. dest \in Window(DestAlloc)
    BY <1>1, Buffers DEF IInv
  <2>2. items \in Nat /\ UnreadSize(dest) < (items + 1) * Frame
    BY <2>1, ItemsFit, Constants
  <2>3. items < Period
    BY <1>1 DEF MorePreload, pcm_decoder_get_output_buffer_frames_count
  <2>4. UnreadSize(dest) \in Nat /\ (IsFull(dest) <=> UnreadSize(dest) = DestAlloc)
    BY <2>1, WindowSizes, Constants
  <2> HIDE DEF items
  <2>5. (items + 1) * Frame <= Period * Frame
    BY <2>2, <2>3, Constants
  <2> DEFINE a == (items + 1) * Frame
             p == Period * Frame
  <2>6. a \in Nat /\ p \in Nat
    BY <2>2, Constants
  <2>7. UnreadSize(dest) < a /\ a <= p /\ p <= DestAlloc
    BY <2>2, <2>5
  <2> HIDE DEF a, p
  <2>8. QED
    BY <2>4, <2>6, <2>7, Constants
<1>2. IInv => AssertionsHold
  BY <1>1 DEF AssertionsHold, IInv, OfferFits
<1>3. QED
  BY <1>2, Invariance, PTL
-----------------------------------------------------------------------------
(***************************************************************************)
(* The two ends of a play: when the descriptor may be closed, when play    *)
(* may end without an error, and that the device is not suspended without  *)
(* a failure.  With the accounts they give what PlaybackPromise says, and  *)
(* that the end of a stream is not taken too early.                        *)
(***************************************************************************)
\* A regular file is complete; a FIFO is when its writer has gone, and empty
\* until it comes.
WriterKnown ==
  /\ ~Fifo => writer = "gone"
  /\ writer = "gone" => produced = fileSize
  /\ writer = "absent" => produced = 0

\* There is an error exactly where the program is on its way out with one.
ErrorsEnd ==
  /\ pc \notin {"open_failed", "close_again", "release", "released", "crashed"}
       => error = "none"
  /\ pc \in {"open_failed", "close_again"} => error # "none"

\* A FIFO that nobody has opened yet reads as ended, but only before the
\* header has been read.
ClosedAtEnd ==
  fd = "closed" =>
    \/ error # "none"
    \/ writer = "gone" /\ pos = fileSize
    \/ pos = 0 /\ pcm = "NONE"

CompleteAtEnd == pc = "release" /\ error = "none" => player_is_eof

SuspendsAreFaults == pcm = "SUSPENDED" => faults > 0

EndsKnown ==
  /\ WriterKnown
  /\ ErrorsEnd
  /\ ClosedAtEnd
  /\ CompleteAtEnd
  /\ SuspendsAreFaults

BothEnds == IInv /\ EndsKnown
-----------------------------------------------------------------------------
LEMMA InitEnds == Init => BothEnds
<1>1. Init => EndsKnown
  BY Constants
     DEF Init, StreamInit, DeviceInit, EndsKnown, WriterKnown, ErrorsEnd, ClosedAtEnd,
         CompleteAtEnd, SuspendsAreFaults
<1>2. QED
  BY <1>1, InitInvariant DEF BothEnds

\* A call that reads and meets no failure closes the descriptor at the end
\* only, or, without a poll, before the writer has come.
LEMMA ClosingRead ==
  ASSUME BothEnds, NEW e, io_rf_stream_read_once(e), fd' # fd
  PROVE  fd' = "closed" /\ pos' = pos /\ Pending = 0 /\ writer # "writing"
BY DEF io_rf_stream_read_once, AtEnd

LEMMA EndOfFile ==
  ASSUME BothEnds, Pending = 0
  PROVE  /\ writer = "gone" => pos = fileSize
         /\ writer = "absent" => pos = 0
BY Constants
   DEF BothEnds, EndsKnown, WriterKnown, IInv, TypeOK, StreamType, Pending

LEMMA ClosingSource ==
  ASSUME BothEnds, NEW forever, NEW e, pcm_decoder_read_source(forever, e), fd' # fd
  PROVE  fd' = "closed" /\ writer = "gone" /\ pos' = fileSize
<1>1. io_rf_stream_read_with_poll(forever, e)
  BY DEF pcm_decoder_read_source, stream
<1>2. CASE HasInput /\ io_rf_stream_read_once(e)
  <2>1. fd' = "closed" /\ pos' = pos /\ Pending = 0 /\ writer # "writing"
    BY <1>2, ClosingRead
  <2>2. ~Fifo
    BY <1>2, <2>1 DEF HasInput
  <2>3. writer = "gone"
    BY <2>2 DEF BothEnds, EndsKnown, WriterKnown
  <2>4. QED
    BY <2>1, <2>3, EndOfFile
<1>3. CASE HungUp /\ fd' = "closed" /\ UNCHANGED <<src, pos>>
  BY <1>3, EndOfFile DEF HungUp
<1>4. QED
  BY <1>1, <1>2, <1>3 DEF io_rf_stream_read_with_poll, stream

\* Once the descriptor is closed a call that reads leaves it and the
\* position alone.
LEMMA ClosedStays ==
  ASSUME NEW forever, NEW e, pcm_decoder_read_source(forever, e), fd = "closed"
  PROVE  fd' = fd /\ pos' = pos
BY DEF pcm_decoder_read_source, io_rf_stream_is_eof, stream

\* Steps that leave the file alone, but for reading it.
LEMMA EndsStep ==
  ASSUME BothEnds, UNCHANGED file,
         ErrorsEnd', ClosedAtEnd', CompleteAtEnd', SuspendsAreFaults', IInv'
  PROVE  BothEnds'
BY DEF BothEnds, EndsKnown, WriterKnown, file

LEMMA SourceStep ==
  ASSUME BothEnds, NEW forever, NEW e, pcm_decoder_read_source(forever, e),
         error = "none", pcm # "NONE", UNCHANGED file
  PROVE  ClosedAtEnd'
<1>1. CASE fd' # fd
  BY <1>1, ClosingSource DEF ClosedAtEnd, file
<1>2. CASE fd' = fd
  BY <1>2, ClosedStays DEF BothEnds, EndsKnown, ClosedAtEnd, file
<1>3. QED
  BY <1>1, <1>2

LEMMA ReadHeaderEnds == ASSUME BothEnds, ReadHeader PROVE BothEnds'
<1>1. PICK e \in ReadErrors :
        /\ io_rf_stream_read_once(e)
        /\ ReadOutcome(e)
        /\ error' = e
        /\ pc' = IF e = "none" THEN "open" ELSE "crashed"
  BY DEF ReadHeader
<1>2. pcm = "NONE" /\ pcm' = pcm /\ UNCHANGED file /\ fd # "closed"
  BY DEF ReadHeader, BothEnds, IInv, Stages, device, io_rf_stream_is_eof
<1>3. writer \in {"absent", "writing", "gone"}
  BY DEF BothEnds, IInv, TypeOK, StreamType
<1>4. ClosedAtEnd'
  <2>1. CASE fd' # fd
    BY <1>1, <1>2, <1>3, <2>1, ClosingRead, EndOfFile DEF ClosedAtEnd, file
  <2>2. CASE fd' = fd
    BY <1>2, <2>2 DEF ClosedAtEnd
  <2>3. QED
    BY <2>1, <2>2
<1>5. ErrorsEnd' /\ CompleteAtEnd' /\ SuspendsAreFaults'
  BY <1>1, <1>2 DEF ErrorsEnd, CompleteAtEnd, SuspendsAreFaults
<1>6. QED
  BY <1>2, <1>4, <1>5, EndsStep, ReadHeaderKeeps DEF BothEnds

LEMMA FaultsGrow ==
  ASSUME TypeOK, NEW kind, Fault(kind) \/ NoFault
  PROVE  faults' >= faults /\ faults' \in Nat
BY Constants DEF TypeOK, Fault, NoFault

LEMMA PreloadReadEnds == ASSUME BothEnds, PreloadRead PROVE BothEnds'
<1>1. PICK e \in ReadErrors :
        /\ pcm_decoder_read_source(TRUE, e)
        /\ error' = e
        /\ pc' = IF e = "none" THEN "preload_decode" ELSE "open_failed"
  BY DEF PreloadRead
<1>2. pcm = "PREPARED" /\ pcm' = pcm /\ UNCHANGED file /\ error = "none"
  BY DEF PreloadRead, BothEnds, EndsKnown, ErrorsEnd, IInv, Stages, Early, device
<1>3. ClosedAtEnd'
  BY <1>1, <1>2, SourceStep
<1>4. ErrorsEnd' /\ CompleteAtEnd' /\ SuspendsAreFaults'
  BY <1>1, <1>2 DEF ErrorsEnd, CompleteAtEnd, SuspendsAreFaults
<1>5. QED
  BY <1>2, <1>3, <1>4, EndsStep, PreloadReadKeeps DEF BothEnds

LEMMA ReadEnds == ASSUME BothEnds, Read PROVE BothEnds'
<1>1. PICK e \in ReadErrors :
        /\ pcm_decoder_read_source(pcm_decoder_is_source_buffer_empty, e)
        /\ ReadOutcome(e)
        /\ IF e = "none" THEN GoTo("decode") ELSE FailWith(e)
  BY DEF Read
<1>2. /\ pcm' = pcm /\ UNCHANGED file /\ error = "none"
      /\ pcm # "NONE"
  BY DEF Read, BothEnds, EndsKnown, ErrorsEnd, IInv, Stages, Playing, device
<1>3. ClosedAtEnd'
  BY <1>1, <1>2, SourceStep
<1>4. \/ pc' = "decode" /\ error' = "none"
      \/ pc' = "release" /\ error' # "none"
  BY <1>1, <1>2 DEF GoTo, FailWith
<1>5. SuspendsAreFaults'
  <2>1. faults' >= faults /\ faults' \in Nat /\ faults \in Nat
    BY <1>1, FaultsGrow, Constants DEF BothEnds, IInv, ReadOutcome, TypeOK
  <2>2. QED
    BY <1>2, <2>1 DEF BothEnds, EndsKnown, SuspendsAreFaults
<1>6. ErrorsEnd' /\ CompleteAtEnd'
  BY <1>4 DEF ErrorsEnd, CompleteAtEnd
<1>7. QED
  BY <1>2, <1>3, <1>5, <1>6, EndsStep, ReadKeeps DEF BothEnds

\* Steps that neither read nor close, and enter no way out unless with an
\* error.
LEMMA DownstreamStep ==
  ASSUME BothEnds, UNCHANGED <<fd, pos, file>>, IInv',
         pc \notin {"open_failed", "close_again", "release", "released", "crashed"},
         pcm # "NONE",
         \/ /\ error' = error
            /\ pc' \notin {"open_failed", "close_again", "release", "released", "crashed"}
         \/ error' # "none" /\ pc' = "release",
         SuspendsAreFaults'
  PROVE  BothEnds'
<1>1. error = "none"
  BY DEF BothEnds, EndsKnown, ErrorsEnd
<1>2. ErrorsEnd' /\ CompleteAtEnd'
  BY <1>1 DEF ErrorsEnd, CompleteAtEnd
<1>3. ClosedAtEnd'
  BY <1>1 DEF BothEnds, EndsKnown, ClosedAtEnd, file
<1>4. QED
  BY <1>2, <1>3, EndsStep

\* Steps of the program that touch neither the file nor the device.
LEMMA InnerEnds ==
  ASSUME BothEnds,
         PreloadDecode \/ Preloaded \/ Decode \/ Decoded \/ player_write_alsa \/ WriteFails
  PROVE  BothEnds'
<1>1. /\ UNCHANGED <<fd, pos, file, device, error, faults>>
      /\ pc \in {"preload_decode", "decode", "write", "writei"}
      /\ pc' \in {"preload_decode", "preload_read", "eof", "decode", "write", "status",
                  "writei", "prepare", "resume"}
  BY DEF PreloadDecode, Preloaded, Decode, Decoded, player_write_alsa, WriteFails, GoTo,
         stream
<1>2. pcm # "NONE"
  BY <1>1 DEF BothEnds, IInv, Stages, Early, Playing
<1>3. SuspendsAreFaults'
  BY <1>1 DEF BothEnds, EndsKnown, SuspendsAreFaults, device
<1>4. IInv'
  BY PreloadDecodeKeeps, PreloadedKeeps, DecodeKeeps, DecodedKeeps, OfferKeeps,
     WriteFailsKeeps DEF BothEnds
<1>5. QED
  BY <1>1, <1>2, <1>3, <1>4, DownstreamStep

\* Steps of the program that call the device.
LEMMA WriteEnds ==
  ASSUME BothEnds, WriteAccepted \/ WriteAgain \/ Status
  PROVE  BothEnds'
<1>1. /\ UNCHANGED <<fd, pos, file>>
      /\ pc \in {"writei", "status"}
      /\ \/ error' = error /\ pc' \in {"status", "write", "eof"}
         \/ error' # "none" /\ pc' = "release"
  BY DEF WriteAccepted, WriteAgain, Status, GoTo, FailWith, DeviceError, stream
<1>2. pcm # "NONE"
  BY <1>1 DEF BothEnds, IInv, Stages, Playing
<1>3. SuspendsAreFaults'
  <2>1. CASE WriteAccepted
    BY <2>1 DEF WriteAccepted, snd_pcm_writei, Usable, SuspendsAreFaults
  <2>2. CASE WriteAgain
    BY <2>2 DEF WriteAgain, Usable, device, SuspendsAreFaults
  <2>3. CASE Status
    BY <2>3 DEF Status, BothEnds, EndsKnown, device, SuspendsAreFaults
  <2>4. QED
    BY <2>1, <2>2, <2>3
<1>4. IInv'
  BY AcceptedKeeps, WriteAgainKeeps, StatusKeeps DEF BothEnds
<1>5. QED
  BY <1>1, <1>2, <1>3, <1>4, DownstreamStep

LEMMA RecoveryEnds == ASSUME BothEnds, Resume \/ Prepare PROVE BothEnds'
<1>1. /\ UNCHANGED <<fd, pos, file>>
      /\ pc \in {"resume", "prepare"}
      /\ \/ error' = error /\ pc' \in {"status", "prepare"}
         \/ error' # "none" /\ pc' = "release"
  BY DEF Resume, Prepare, GoTo, FailWith, DeviceError, stream
<1>2. pcm # "NONE"
  BY <1>1 DEF BothEnds, IInv, Stages
<1>3. SuspendsAreFaults'
  <2>1. CASE UNCHANGED device
    <3>1. faults' >= faults /\ faults' \in Nat /\ faults \in Nat
      BY FaultsGrow, Constants DEF BothEnds, IInv, Resume, Prepare, TypeOK
    <3>2. QED
      BY <2>1, <3>1 DEF BothEnds, EndsKnown, SuspendsAreFaults, device
  <2>2. CASE pcm' \in {"PREPARED", "RUNNING"}
    BY <2>2 DEF SuspendsAreFaults
  <2>3. QED
    BY <2>1, <2>2 DEF Resume, Prepare, snd_pcm_resume, snd_pcm_prepare
<1>4. IInv'
  BY ResumeKeeps, PrepareKeeps DEF BothEnds
<1>5. QED
  BY <1>1, <1>2, <1>3, <1>4, DownstreamStep

\* With the header in the buffer the stream is not at its beginning.
LEMMA OpenEnds == ASSUME BothEnds, player_open PROVE BothEnds'
<1>1. /\ UNCHANGED <<fd, pos, file, dest, written, error>> /\ pcm' = "PREPARED"
      /\ pc' = "preload_read" /\ pc = "open" /\ UnreadSize(src) >= HeaderSize
  BY DEF player_open, snd_pcm_open, GoTo, player
<1>2. pos # 0
  <2>1. pos = UnreadSize(src) + UnreadSize(dest) + Frame * written
    BY <1>1, Counts DEF BothEnds, IInv, ConservesBytes, Stages
  <2> DEFINE w == Frame * written
  <2>2. w \in Nat
    BY Counts DEF BothEnds, IInv
  <2> HIDE DEF w
  <2>3. pos = UnreadSize(src) + UnreadSize(dest) + w
    BY <2>1 DEF w
  <2>4. QED
    BY <1>1, <2>2, <2>3, Counts, Constants DEF BothEnds, IInv
<1>3. ClosedAtEnd'
  BY <1>1, <1>2 DEF BothEnds, EndsKnown, ClosedAtEnd, file
<1>4. ErrorsEnd' /\ CompleteAtEnd' /\ SuspendsAreFaults'
  BY <1>1 DEF BothEnds, EndsKnown, ErrorsEnd, CompleteAtEnd, SuspendsAreFaults
<1>5. QED
  BY <1>1, <1>3, <1>4, EndsStep, OpenKeeps DEF BothEnds

LEMMA TestEofEnds == ASSUME BothEnds, TestEof PROVE BothEnds'
<1>1. /\ UNCHANGED <<stream, file, device, player, error, faults>>
      /\ pc = "eof"
      /\ pc' = IF player_is_eof THEN "release"
               ELSE IF io_rf_stream_is_empty THEN "write" ELSE "read"
  BY DEF TestEof, GoTo
<1>2. player_is_eof' = player_is_eof
  BY <1>1
     DEF player_is_eof, pcm_decoder_is_source_buffer_empty, io_rf_stream_is_empty,
         io_rf_stream_is_eof, pcm_decoder_is_output_buffer_empty, IsEmpty, UnreadSize,
         stream, device, player
<1>3. ErrorsEnd' /\ CompleteAtEnd' /\ ClosedAtEnd' /\ SuspendsAreFaults'
  BY <1>1, <1>2
     DEF BothEnds, EndsKnown, ErrorsEnd, CompleteAtEnd, ClosedAtEnd, SuspendsAreFaults,
         stream, file, device
<1>4. QED
  BY <1>1, <1>3, EndsStep, TestEofKeeps DEF BothEnds

\* The ways out.
LEMMA WayOutEnds ==
  ASSUME BothEnds, HeaderMissing \/ player_open_fails \/ CloseAgain
  PROVE  BothEnds'
<1>1. /\ UNCHANGED file /\ error' # "none"
      /\ pc' \in {"crashed", "close_again", "released"}
      /\ pcm' = pcm \/ pcm' = "CLOSED"
      /\ faults' = faults
  BY DEF HeaderMissing, player_open_fails, CloseAgain, GoTo, snd_pcm_drain_and_close,
         device, BothEnds, EndsKnown, ErrorsEnd
<1>2. ErrorsEnd' /\ CompleteAtEnd' /\ ClosedAtEnd' /\ SuspendsAreFaults'
  BY <1>1
     DEF BothEnds, EndsKnown, ErrorsEnd, CompleteAtEnd, ClosedAtEnd, SuspendsAreFaults
<1>3. QED
  BY <1>1, <1>2, EndsStep, HeaderMissingKeeps, OpenFailsKeeps, CloseAgainKeeps
     DEF BothEnds

LEMMA ReleaseEnds == ASSUME BothEnds, Release PROVE BothEnds'
<1>1. /\ UNCHANGED <<pos, file, error, faults>> /\ fd' = "closed" /\ pcm' = "CLOSED"
      /\ pc = "release" /\ pc' = "released"
  BY DEF Release, GoTo, snd_pcm_drain_and_close
<1>2. pcm # "NONE"
  BY <1>1 DEF BothEnds, IInv, Stages
<1>3. ClosedAtEnd'
  <2>1. CASE error = "none"
    <3>1. fd = "closed"
      BY <1>1, <2>1
         DEF BothEnds, EndsKnown, CompleteAtEnd, player_is_eof, io_rf_stream_is_empty,
             pcm_decoder_is_source_buffer_empty, io_rf_stream_is_eof
    <3>2. QED
      BY <1>1, <1>2, <2>1, <3>1 DEF BothEnds, EndsKnown, ClosedAtEnd, file
  <2>2. CASE error # "none"
    BY <1>1, <2>2 DEF ClosedAtEnd
  <2>3. QED
    BY <2>1, <2>2
<1>4. ErrorsEnd' /\ CompleteAtEnd' /\ SuspendsAreFaults'
  BY <1>1 DEF ErrorsEnd, CompleteAtEnd, SuspendsAreFaults
<1>5. QED
  BY <1>1, <1>3, <1>4, EndsStep, ReleaseKeeps DEF BothEnds

\* The writer of a FIFO does nothing after it has gone, and the tests of the
\* program do not look at it.
LEMMA WriterEnds == ASSUME BothEnds, Writer PROVE BothEnds'
<1>1. /\ UNCHANGED <<stream, device, player, pc, error, faults, fileSize>>
      /\ writer # "gone" /\ writer' # "absent"
      /\ writer' = "gone" => produced' = fileSize
  BY DEF Writer, WriterNext, WriterOpens, WriterFeeds, WriterCloses
<1>2. WriterKnown'
  BY <1>1 DEF BothEnds, EndsKnown, WriterKnown
<1>3. CompleteAtEnd'
  BY <1>1
     DEF BothEnds, EndsKnown, CompleteAtEnd, player_is_eof,
         pcm_decoder_is_source_buffer_empty, io_rf_stream_is_empty,
         io_rf_stream_is_eof, pcm_decoder_is_output_buffer_empty, IsEmpty, UnreadSize,
         stream, device, player
<1>4. ErrorsEnd' /\ ClosedAtEnd' /\ SuspendsAreFaults'
  BY <1>1
     DEF BothEnds, EndsKnown, ErrorsEnd, ClosedAtEnd, SuspendsAreFaults, stream, device
<1>5. QED
  BY <1>2, <1>3, <1>4, WriterKeeps DEF BothEnds, EndsKnown

\* The device only acts while it runs, and it does not when play has ended.
LEMMA DeviceEnds == ASSUME BothEnds, Plays \/ Suspends PROVE BothEnds'
<1>1. /\ UNCHANGED <<stream, file, pc, error>> /\ pcm = "RUNNING"
      /\ \/ pcm' \in {"RUNNING", "XRUN"}
         \/ faults' = faults + 1
      /\ pcm' # "NONE"
  BY DEF Plays, DevicePlays, Suspends, DeviceSuspends, Fault
<1>2. CompleteAtEnd'
  <2>1. ~(pc = "release" /\ error = "none")
    BY <1>1 DEF BothEnds, EndsKnown, CompleteAtEnd, player_is_eof
  <2>2. QED
    BY <1>1, <2>1 DEF CompleteAtEnd
<1>3. SuspendsAreFaults'
  BY <1>1, Constants DEF BothEnds, IInv, TypeOK, SuspendsAreFaults
<1>4. ErrorsEnd' /\ ClosedAtEnd'
  BY <1>1 DEF BothEnds, EndsKnown, ErrorsEnd, ClosedAtEnd, stream, file
<1>5. QED
  BY <1>1, <1>2, <1>3, <1>4, EndsStep, PlaysKeeps, SuspendsKeeps DEF BothEnds

LEMMA StutterEnds == ASSUME BothEnds, UNCHANGED vars PROVE BothEnds'
<1>1. EndsKnown'
  BY DEF BothEnds, EndsKnown, WriterKnown, ErrorsEnd, ClosedAtEnd, CompleteAtEnd,
         SuspendsAreFaults, player_is_eof, pcm_decoder_is_source_buffer_empty,
         io_rf_stream_is_empty, io_rf_stream_is_eof,
         pcm_decoder_is_output_buffer_empty, IsEmpty, UnreadSize,
         vars, stream, file, device, player
<1>2. QED
  BY <1>1, StutterKeeps DEF BothEnds

LEMMA StepEnds == ASSUME BothEnds, [Next]_vars PROVE BothEnds'
BY ReadHeaderEnds, PreloadReadEnds, ReadEnds, InnerEnds, WriteEnds, RecoveryEnds, OpenEnds,
   TestEofEnds, WayOutEnds, ReleaseEnds, WriterEnds, DeviceEnds, StutterEnds
   DEF Next, Program, Done

\* BothEnds holds throughout.
THEOREM BothEndsInvariance == Spec => []BothEnds
<1>1. BothEnds /\ [Next]_vars => BothEnds'
  BY StepEnds
<1>2. QED
  BY InitEnds, <1>1, PTL DEF Spec

\* Once the header is read, a stream counts as ended only when all its writer
\* wrote has been read (io.c:349-395, POLLIN before POLLHUP), also when the
\* FIFO was opened before its writer came.
THEOREM EndIsTheEnd == Spec => []EofMeansEverythingRead
<1>1. BothEnds => EofMeansEverythingRead
  BY DEF BothEnds, EndsKnown, ClosedAtEnd, EofMeansEverythingRead, IInv, Stages
<1>2. QED
  BY <1>1, BothEndsInvariance, PTL
-----------------------------------------------------------------------------
(***************************************************************************)
(* The promise.                                                            *)
(***************************************************************************)

\* So many whole frames fit into n bytes, and all of them if less than a
\* frame is left.
LEMMA WholeFrames ==
  ASSUME NEW n \in Nat, NEW f \in Nat \ {0}, NEW w \in Nat, NEW left \in Nat,
         n = f * w + left
  PROVE  /\ n \div f \in Nat
         /\ w <= n \div f
         /\ left < f => w = n \div f
<1> DEFINE q == n \div f
           r == n % f
<1>1. q \in Nat /\ r \in 0 .. f - 1 /\ n = f * q + r
  OBVIOUS
<1> HIDE DEF q, r
<1>2. w <= q
  <2>1. SUFFICES ASSUME w > q PROVE FALSE
    BY <1>1
  <2>2. PICK d \in Nat : w = q + 1 + d
    <3>1. w - (q + 1) \in Nat /\ w = q + 1 + (w - (q + 1))
      BY <1>1, <2>1
    <3>2. QED
      BY <3>1
  <2> DEFINE p == f * q
             e == f * d
  <2>3. f * w = p + f + e /\ p \in Nat /\ e \in Nat
    BY <1>1, <2>2
  <2>4. n = p + r
    BY <1>1
  <2> HIDE DEF p, e
  <2>5. QED
    BY <1>1, <2>3, <2>4
<1>3. ASSUME left < f PROVE w = q
  <2>1. SUFFICES ASSUME w < q PROVE FALSE
    BY <1>1, <1>2
  <2>2. PICK d \in Nat : q = w + 1 + d
    <3>1. q - (w + 1) \in Nat /\ q = w + 1 + (q - (w + 1))
      BY <1>1, <2>1
    <3>2. QED
      BY <3>1
  <2> DEFINE p == f * w
             e == f * d
  <2>3. f * q = p + f + e /\ p \in Nat /\ e \in Nat
    BY <1>1, <2>2
  <2>4. n = p + left
    OBVIOUS
  <2> HIDE DEF p, e
  <2>5. QED
    BY <1>1, <1>3, <2>3, <2>4
<1>4. QED
  BY <1>1, <1>2, <1>3 DEF q

LEMMA TotalIsNat == ASSUME BothEnds PROVE TotalFrames \in Nat
<1>1. fileSize \in Nat
  BY Constants DEF BothEnds, IInv, TypeOK, StreamType
<1>2. CASE fileSize < HeaderSize
  BY <1>2 DEF TotalFrames
<1>3. CASE fileSize >= HeaderSize
  <2> DEFINE n == fileSize - HeaderSize
  <2>1. n \in Nat
    BY <1>1, <1>3, Constants
  <2>2. TotalFrames = n \div Frame
    BY <1>1, <1>3, Constants DEF TotalFrames
  <2> HIDE DEF n
  <2>3. n \div Frame \in Nat
    BY <2>1, Constants
  <2>4. QED
    BY <2>2, <2>3
<1>4. QED
  BY <1>1, <1>2, <1>3, Constants

\* What was written is part of the file, and, at the end, all of it.
LEMMA WrittenIsInFile ==
  ASSUME BothEnds
  PROVE  /\ written <= TotalFrames
         /\ pcm # "NONE" /\ player_is_eof /\ error = "none" => written = TotalFrames
<1>1. CASE pcm = "NONE"
  BY <1>1, TotalIsNat DEF BothEnds, IInv, Unopened
<1>2. CASE pcm # "NONE"
  <2> DEFINE w == Frame * written
             n == fileSize - HeaderSize
             left == (fileSize - pos) + UnreadSize(src) + UnreadSize(dest)
  <2>1. /\ pos \in Nat /\ fileSize \in Nat /\ pos <= fileSize
        /\ UnreadSize(src) \in Nat /\ UnreadSize(dest) \in Nat
        /\ w \in Nat /\ HeaderSize \in Nat
    BY Counts, Constants DEF BothEnds, IInv, TypeOK, StreamType
  <2>2. pos = HeaderSize + UnreadSize(src) + UnreadSize(dest) + w
    BY <1>2 DEF BothEnds, IInv, ConservesBytes
  <2>3. n \in Nat /\ left \in Nat /\ n = w + left /\ fileSize >= HeaderSize
    <3> HIDE DEF w
    <3>1. QED
      BY <2>1, <2>2
  <2>4. TotalFrames = n \div Frame
    BY <2>1, <2>3 DEF TotalFrames
  <2>5. player_is_eof /\ error = "none" => left < Frame
    <3>1. SUFFICES ASSUME player_is_eof, error = "none" PROVE left < Frame
      OBVIOUS
    <3>2. fd = "closed" /\ UnreadSize(src) = 0 /\ UnreadSize(dest) < Frame
      BY <3>1
         DEF player_is_eof, pcm_decoder_is_source_buffer_empty, io_rf_stream_is_empty,
             io_rf_stream_is_eof, pcm_decoder_is_output_buffer_empty, IsEmpty
    <3>3. pos = fileSize
      BY <1>2, <3>1, <3>2 DEF BothEnds, EndsKnown, ClosedAtEnd
    <3>4. left = UnreadSize(dest)
      BY <2>1, <3>2, <3>3
    <3> HIDE DEF left
    <3>5. QED
      BY <3>2, <3>4
  <2>6. written \in Nat
    BY Counts DEF BothEnds, IInv
  <2> HIDE DEF n, left
  <2>7. n = Frame * written + left
    BY <2>3
  <2>8. /\ written <= n \div Frame
        /\ left < Frame => written = n \div Frame
    BY <2>3, <2>6, <2>7, WholeFrames, Constants
  <2>9. QED
    BY <2>4, <2>5, <2>8
<1>3. QED
  BY <1>1, <1>2

\* The numbers the promise speaks of.
LEMMA PromiseCounts ==
  ASSUME BothEnds
  PROVE  /\ TotalFrames \in Nat
         /\ ring \in Nat /\ heard \in Nat /\ dropped \in Nat /\ faults \in Nat
         /\ heard + ring + dropped <= TotalFrames
<1>1. /\ ring \in Nat /\ heard \in Nat /\ dropped \in Nat /\ faults \in Nat
      /\ written = heard + ring + dropped
  BY Accounts, Constants DEF BothEnds, IInv, TypeOK
<1>2. QED
  BY <1>1, TotalIsNat, WrittenIsInFile

\* Play goes on and nothing is heard or lost: at most it gets into trouble.
LEMMA GoesOn ==
  ASSUME BothEnds, ~Over, ~Over', UNCHANGED <<fileSize, heard, dropped>>,
         faults' >= faults, faults' \in Nat
  PROVE  [Promise!PromiseNext]_(Promise!promise)
<1>1. TotalFrames' = TotalFrames
  BY DEF TotalFrames
<1>2. Outcome = "playing" /\ Outcome' = "playing"
  BY DEF Outcome
<1>3. faults \in Nat
  BY PromiseCounts
<1>4. CASE (faults' > 0) = (faults > 0)
  BY <1>1, <1>2, <1>4 DEF Promise!promise
<1>5. CASE (faults' > 0) # (faults > 0)
  <2>1. faults' > 0
    BY <1>3, <1>5
  <2>2. Promise!Trouble
    BY <1>1, <1>2, <2>1 DEF Promise!Trouble
  <2>3. QED
    BY <2>2 DEF Promise!PromiseNext
<1>6. QED
  BY <1>4, <1>5

\* Play fails, and what was in the ring may be lost.
LEMMA Fails ==
  ASSUME BothEnds, ~Over, Over', Outcome' = "failed", UNCHANGED <<fileSize, heard>>,
         dropped' \in {dropped, dropped + ring}, faults' >= faults, faults' \in Nat
  PROVE  Promise!PromiseNext
<1>1. TotalFrames' = TotalFrames
  BY DEF TotalFrames
<1>2. Outcome = "playing"
  BY DEF Outcome
<1>3. dropped' \in dropped .. TotalFrames - heard
  BY PromiseCounts
<1>4. faults > 0 => faults' > 0
  BY PromiseCounts
<1>5. Promise!Fail
  BY <1>1, <1>2, <1>3, <1>4 DEF Promise!Fail
<1>6. QED
  BY <1>5 DEF Promise!PromiseNext

LEMMA FaultsNeverFewer ==
  ASSUME BothEnds, [Next]_vars
  PROVE  faults' >= faults /\ faults' \in Nat
<1>1. faults \in Nat
  BY PromiseCounts
<1>2. faults' = faults \/ faults' = faults + 1
  BY DEF Next, Program, ReadHeader, HeaderMissing, player_open, PreloadRead,
         PreloadDecode, Preloaded, player_open_fails, CloseAgain, TestEof, Read, Decode,
         Decoded, player_write_alsa, WriteAccepted, WriteAgain, WriteFails, Resume,
         Prepare, Status, Release, Writer, Plays, Suspends, Done, vars, ReadOutcome,
         Fault, NoFault
<1>3. QED
  BY <1>1, <1>2

\* The steps in which play goes on.
LEMMA ReadingKeepsPromise ==
  ASSUME BothEnds, [Next]_vars, player_open \/ PreloadRead \/ Read
  PROVE  [Promise!PromiseNext]_(Promise!promise)
<1>1. UNCHANGED <<fileSize, heard, dropped>> /\ ~Over /\ ~Over'
  BY DEF player_open, snd_pcm_open, PreloadRead, Read, GoTo, FailWith, Over, file, device
<1>2. QED
  BY <1>1, FaultsNeverFewer, GoesOn

LEMMA InnerKeepsPromise ==
  ASSUME BothEnds, [Next]_vars,
         PreloadDecode \/ Preloaded \/ TestEof \/ Decode \/ Decoded
  PROVE  [Promise!PromiseNext]_(Promise!promise)
<1>1. UNCHANGED <<fileSize, heard, dropped>> /\ ~Over /\ ~Over'
  BY DEF PreloadDecode, Preloaded, TestEof, Decode, Decoded, GoTo, Over, file, device
<1>2. QED
  BY <1>1, FaultsNeverFewer, GoesOn

LEMMA WritingKeepsPromise ==
  ASSUME BothEnds, [Next]_vars,
         \/ player_write_alsa \/ WriteAccepted \/ WriteAgain \/ WriteFails
         \/ Resume \/ Status
  PROVE  [Promise!PromiseNext]_(Promise!promise)
<1>1. UNCHANGED <<fileSize, heard, dropped>> /\ ~Over /\ ~Over'
  BY DEF player_write_alsa, WriteAccepted, snd_pcm_writei, WriteAgain, WriteFails, Resume,
         snd_pcm_resume, Status, GoTo, FailWith, Over, file, device
<1>2. QED
  BY <1>1, FaultsNeverFewer, GoesOn

LEMMA OpenFailsKeepsPromise ==
  ASSUME BothEnds, [Next]_vars, player_open_fails
  PROVE  [Promise!PromiseNext]_(Promise!promise)
<1>1. UNCHANGED <<fileSize, heard>> /\ dropped' = dropped + ring /\ ~Over /\ ~Over'
  BY DEF player_open_fails, snd_pcm_drain_and_close, GoTo, Over, file
<1>2. ring = 0
  BY DEF player_open_fails, BothEnds, IInv, Stages, Early
<1>3. dropped' = dropped
  BY <1>1, <1>2, PromiseCounts
<1>4. QED
  BY <1>1, <1>3, FaultsNeverFewer, GoesOn

\* snd_pcm_prepare throws frames away only after a suspend, which is trouble;
\* after an underrun there are none.
LEMMA PrepareKeepsPromise ==
  ASSUME BothEnds, [Next]_vars, Prepare
  PROVE  [Promise!PromiseNext]_(Promise!promise)
<1>1. UNCHANGED <<fileSize, heard>> /\ ~Over /\ ~Over'
      /\ dropped' \in {dropped, dropped + ring}
  BY DEF Prepare, snd_pcm_prepare, GoTo, FailWith, Over, file, device
<1>2. CASE dropped' = dropped
  BY <1>1, <1>2, FaultsNeverFewer, GoesOn
<1>3. CASE dropped' # dropped
  <2>1. dropped' = dropped + ring /\ ring > 0
    BY <1>1, <1>3, PromiseCounts
  <2>2. pcm = "SUSPENDED"
    BY <2>1 DEF Prepare, BothEnds, IInv, Stages, RingHolds
  <2>3. faults > 0
    BY <2>2 DEF BothEnds, EndsKnown, SuspendsAreFaults
  <2>4. faults' > 0
    BY <2>3, FaultsNeverFewer, PromiseCounts
  <2>5. dropped' \in dropped + 1 .. TotalFrames - heard
    BY <2>1, PromiseCounts
  <2>6. Promise!Lose
    BY <1>1, <2>3, <2>4, <2>5 DEF Promise!Lose, Outcome, TotalFrames
  <2>7. QED
    BY <2>6 DEF Promise!PromiseNext
<1>4. QED
  BY <1>2, <1>3

\* The steps in which play ends.
LEMMA FailingKeepsPromise ==
  ASSUME BothEnds, [Next]_vars, HeaderMissing \/ CloseAgain
  PROVE  [Promise!PromiseNext]_(Promise!promise)
<1>1. /\ UNCHANGED <<fileSize, heard, dropped>> /\ ~Over /\ Over'
      /\ error' # "none"
  BY DEF HeaderMissing, CloseAgain, GoTo, Over, file, device, BothEnds, EndsKnown,
         ErrorsEnd
<1>2. Outcome' = "failed"
  BY <1>1 DEF Outcome
<1>3. QED
  BY <1>1, <1>2, FaultsNeverFewer, Fails

LEMMA ReadHeaderKeepsPromise ==
  ASSUME BothEnds, [Next]_vars, ReadHeader
  PROVE  [Promise!PromiseNext]_(Promise!promise)
<1>1. /\ UNCHANGED <<fileSize, heard, dropped>> /\ pc = "open"
      /\ pc' \in {"open", "crashed"}
  BY DEF ReadHeader, file, device
<1>2. CASE pc' = "open"
  BY <1>1, <1>2, FaultsNeverFewer, GoesOn DEF Over
<1>3. CASE pc' = "crashed"
  <2>1. Outcome' = "failed" /\ ~Over /\ Over'
    BY <1>1, <1>3 DEF Outcome, Over
  <2>2. QED
    BY <1>1, <2>1, FaultsNeverFewer, Fails
<1>4. QED
  BY <1>1, <1>2, <1>3

\* Without an error play ends after the last frame; with one, the frames in
\* the ring are lost.
LEMMA ReleaseKeepsPromise ==
  ASSUME BothEnds, [Next]_vars, Release
  PROVE  [Promise!PromiseNext]_(Promise!promise)
<1>1. /\ UNCHANGED <<fileSize, heard, error, faults>> /\ dropped' = dropped + ring
      /\ pc = "release" /\ pc' = "released"
  BY DEF Release, snd_pcm_drain_and_close, GoTo, file
<1>2. ~Over /\ Over' /\ Outcome = "playing"
  BY <1>1 DEF Over, Outcome
<1>3. CASE error = "none"
  <2>1. player_is_eof
    BY <1>1, <1>3 DEF BothEnds, EndsKnown, CompleteAtEnd
  <2>2. pcm = "XRUN" /\ ring = 0
    BY <2>1 DEF player_is_eof, BothEnds, IInv, RingHolds
  <2>3. written = TotalFrames
    BY <1>3, <2>1, <2>2, WrittenIsInFile
  <2>4. heard + dropped = TotalFrames /\ dropped' = dropped
    BY <1>1, <2>2, <2>3, Accounts, PromiseCounts DEF BothEnds
  <2>5. Outcome' = "complete"
    BY <1>1, <1>3 DEF Outcome, Over
  <2>6. Promise!Complete
    BY <1>1, <1>2, <2>4, <2>5 DEF Promise!Complete, TotalFrames
  <2>7. QED
    BY <2>6 DEF Promise!PromiseNext
<1>4. CASE error # "none"
  <2>1. Outcome' = "failed"
    BY <1>1, <1>4 DEF Outcome, Over
  <2>2. QED
    BY <1>1, <1>2, <2>1, FaultsNeverFewer, Fails
<1>5. QED
  BY <1>3, <1>4

\* The steps of the others.
LEMMA PlaysKeepsPromise ==
  ASSUME BothEnds, [Next]_vars, Plays
  PROVE  [Promise!PromiseNext]_(Promise!promise)
<1>1. /\ UNCHANGED <<fileSize, pc, error, faults, dropped>>
      /\ heard' = heard + 1 /\ pcm = "RUNNING"
  BY DEF Plays, DevicePlays, file
<1>2. ~Over /\ ~Over' /\ ring > 0
  BY <1>1 DEF BothEnds, IInv, Stages, Ended, RingHolds, Over
<1>3. heard + dropped < TotalFrames
  BY <1>2, PromiseCounts
<1>4. Promise!Hear
  BY <1>1, <1>2, <1>3 DEF Promise!Hear, Outcome, TotalFrames
<1>5. QED
  BY <1>4 DEF Promise!PromiseNext

LEMMA SuspendsKeepsPromise ==
  ASSUME BothEnds, [Next]_vars, Suspends
  PROVE  [Promise!PromiseNext]_(Promise!promise)
<1>1. UNCHANGED <<fileSize, pc, heard, dropped>> /\ pcm = "RUNNING"
  BY DEF Suspends, DeviceSuspends, file
<1>2. ~Over /\ ~Over'
  BY <1>1 DEF BothEnds, IInv, Stages, Ended, Over
<1>3. QED
  BY <1>1, <1>2, FaultsNeverFewer, GoesOn

LEMMA IdleKeepsPromise ==
  ASSUME Writer \/ UNCHANGED vars
  PROVE  UNCHANGED Promise!promise
<1>1. UNCHANGED <<fileSize, pc, error, heard, dropped, faults>>
  BY DEF Writer, WriterNext, WriterOpens, WriterFeeds, WriterCloses, vars, device, file
<1>2. QED
  BY <1>1 DEF Promise!promise, TotalFrames, Outcome, Over

LEMMA InitKeepsPromise == Init => Promise!PromiseInit
<1> SUFFICES ASSUME Init PROVE Promise!PromiseInit
  OBVIOUS
<1>1. TotalFrames \in Nat
  BY InitEnds, TotalIsNat
<1>2. heard = 0 /\ dropped = 0 /\ faults = 0 /\ pc = "open"
  BY DEF Init, DeviceInit
<1>3. QED
  BY <1>1, <1>2 DEF Promise!PromiseInit, Outcome, Over

\* The frames of the file are heard in one pass, none twice, all of them if
\* play ends without an error, but for those the device threw away after it
\* was suspended; nothing is heard after the end (player.c, main.c:80-165).
THEOREM PromiseKept == Spec => KeepsPromise
<1>1. BothEnds /\ [Next]_vars => [Promise!PromiseNext]_(Promise!promise)
  BY ReadingKeepsPromise, InnerKeepsPromise, WritingKeepsPromise, OpenFailsKeepsPromise,
     PrepareKeepsPromise, FailingKeepsPromise, ReadHeaderKeepsPromise,
     ReleaseKeepsPromise, PlaysKeepsPromise, SuspendsKeepsPromise, IdleKeepsPromise
     DEF Next, Program, Done
<1>2. QED
  BY <1>1, InitKeepsPromise, BothEndsInvariance, PTL
     DEF Spec, KeepsPromise, Promise!PromiseSpec
=============================================================================
