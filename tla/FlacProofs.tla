----------------------------- MODULE FlacProofs -----------------------------
(***************************************************************************)
(* Invariants of FlacDecoder for every file, every size of the buffers, of *)
(* the metadata, of encoded and decoded blocks and of libFLAC's reads, and *)
(* any pace of the FIFO's writer.                                          *)
(***************************************************************************)
EXTENDS FlacDecoder, IoBufferTheorems

LEMMA Constants ==
  /\ FileSizes \subseteq Nat
  /\ SrcAlloc \in Nat \ {0}
  /\ MaxRead \in Nat \ {0}
  /\ Fifo \in BOOLEAN
  /\ DestAlloc \in Nat \ {0}
  /\ Frame \in Nat \ {0}
  /\ BlockSize \in Nat \ {0}
  /\ MetaSize \in Nat \ {0}
  /\ EncodedSize \in Nat \ {0}
  /\ LibAlloc \in Nat \ {0}
  /\ Sample \in Nat \ {0}
  /\ Period \in Nat \ {0}
  /\ BlockSize <= DestAlloc
BY StreamAssumption, DecoderAssumption, FlacAssumption

\* Calls of libFLAC, the inside of one.
InCall == {"parse", "poll", "ended"}

\* Where each of the callers of libFLAC is.
Callers ==
  /\ caller = "open" => decoded = 0 /\ pc \in InCall \cup {"preload_read", "over", "crashed"}
  /\ pc = "preload_read" /\ caller = "open" => parsed = 0
  /\ pc \in InCall \cup {"preload_read"} /\ caller # "decode" => taken = 0
  /\ pc = "preload" => caller = "preload" /\ taken = 0
  /\ pc = "preload_read" => caller # "decode"
  /\ pc = "decode" => caller = "decode"

\* There is an error only when play is over, and after an abort.
ErrorsEnd ==
  /\ pc # "over" => error = "none"
  /\ aborted = "inside" => pc \in {"ended", "over"} /\ (pc = "over" => error # "none")

\* Inside the read that libFLAC waits for it holds nothing; a block is left
\* unfinished only when it holds nothing either, and so it stays after an
\* abort between two blocks.
Unfinished ==
  /\ pc \in {"poll", "ended"} /\ aborted # "inside" => lib = 0 /\ parsed < Wanted
  /\ pc \notin InCall /\ aborted # "inside" => parsed = 0 \/ (lib = 0 /\ parsed < Wanted)
  /\ aborted = "between" =>
       /\ pc \notin {"parse", "poll"} /\ lib = 0 /\ parsed < Wanted
       /\ caller = "open" => pc \in {"ended", "over"}

\* What is known of the other end of the descriptor.
SourceKnown ==
  /\ ~Fifo => writer = "gone"
  /\ writer = "gone" => produced = fileSize
  /\ fd = "closed" => writer = "gone" /\ pos = fileSize

EndIsReached ==
  pc = "over" /\ error = "none" =>
    /\ fd = "closed" /\ UnreadSize(src) = 0
    /\ UnreadSize(dest) < Frame
    /\ caller # "open"

\* player_write_alsa takes whole frames.
WholeFramesTaken == \E k \in Nat : taken = k * Frame

IInv ==
  /\ TypeOK
  /\ BlocksAccountedFor
  /\ Callers
  /\ ErrorsEnd
  /\ Unfinished
  /\ SourceKnown
  /\ EndIsReached
  /\ WholeFramesTaken
-----------------------------------------------------------------------------
(***************************************************************************)
(* Numbers.                                                                *)
(***************************************************************************)
LEMMA Quotient ==
  ASSUME NEW n \in Nat, NEW d \in Nat \ {0}
  PROVE  /\ n \div d \in Nat /\ n % d \in 0 .. d - 1
         /\ n = d * (n \div d) + (n % d)
OBVIOUS

LEMMA Products ==
  ASSUME NEW a \in Nat, NEW b \in Nat
  PROVE  /\ a * b \in Nat /\ b * a = a * b
         /\ (a + 1) * b = a * b + b
OBVIOUS

LEMMA GrowingProduct ==
  ASSUME NEW a \in Nat, NEW b \in Nat, NEW c \in Nat, a <= b
  PROVE  a * c <= b * c
<1>1. PICK d \in Nat : b = a + d
  <2>1. b - a \in Nat /\ b = a + (b - a)
    OBVIOUS
  <2>2. QED
    BY <2>1
<1>2. b * c = a * c + d * c /\ a * c \in Nat /\ d * c \in Nat
  BY <1>1
<1>3. QED
  BY <1>2

\* d * q + r, with a remainder below d, has the quotient q.
LEMMA QuotientOf ==
  ASSUME NEW q \in Nat, NEW d \in Nat \ {0}, NEW r \in 0 .. d - 1
  PROVE  (d * q + r) \div d = q
<1> DEFINE n == d * q + r
           k == n \div d
<1>1. n \in Nat
  OBVIOUS
<1> HIDE DEF n
<1>2. k \in Nat /\ n % d \in 0 .. d - 1 /\ n = d * k + (n % d)
  BY <1>1, Quotient
<1>3. /\ d * q = q * d /\ d * k = k * d /\ q * d \in Nat /\ k * d \in Nat
      /\ (q + 1) * d = q * d + d /\ (k + 1) * d = k * d + d
  BY <1>2, Products
<1>4. n = q * d + r
  BY <1>3 DEF n
<1> HIDE DEF k
<1>5. q + 1 <= k => (q + 1) * d <= k * d
  BY <1>2, GrowingProduct
<1>6. k + 1 <= q => (k + 1) * d <= q * d
  BY <1>2, GrowingProduct
<1>7. ~(q + 1 <= k) /\ ~(k + 1 <= q)
  BY <1>2, <1>3, <1>4, <1>5, <1>6
<1>8. QED
  BY <1>2, <1>7 DEF k, n

\* A block is whole frames, and whole samples.
LEMMA BlockParts ==
  /\ \E b \in Nat : BlockSize = b * Frame
  /\ \E c \in Nat : BlockSize = c * Sample
<1>0. \A n \in Nat, d \in Nat \ {0} : n % d = 0 => \E k \in Nat : n = k * d
  <2>1. SUFFICES ASSUME NEW n \in Nat, NEW d \in Nat \ {0}, n % d = 0
                 PROVE  \E k \in Nat : n = k * d
    OBVIOUS
  <2> DEFINE k == n \div d
  <2>2. k \in Nat /\ n = d * k + (n % d)
    BY Quotient
  <2> HIDE DEF k
  <2>3. n = k * d
    BY <2>1, <2>2, Products
  <2>4. QED
    BY <2>2, <2>3
<1>1. PICK b \in Nat : BlockSize = b * Frame
  BY <1>0, Constants, FlacAssumption
<1>2. PICK s \in Nat : Frame = s * Sample
  BY <1>0, Constants, FlacAssumption
<1>3. b * (s * Sample) = (b * s) * Sample /\ b * s \in Nat
  BY <1>1, <1>2, Constants, SMT
<1>4. QED
  BY <1>1, <1>2, <1>3

LEMMA Buffers ==
  ASSUME TypeOK
  PROVE  /\ src \in Window(SrcAlloc) /\ dest \in Window(DestAlloc)
         /\ UnreadSize(src) \in 0 .. SrcAlloc
         /\ UnreadSize(dest) \in 0 .. DestAlloc
         /\ AvailableSize(dest) = DestAlloc - UnreadSize(dest)
<1>1. src \in Window(SrcAlloc) /\ dest \in Window(DestAlloc)
  BY DEF TypeOK, StreamType, DestType, Window
<1>2. QED
  BY <1>1, WindowSizes, Constants

LEMMA Counts ==
  ASSUME TypeOK
  PROVE  /\ {pos, produced, fileSize, lib, parsed, decoded, taken} \subseteq Nat
         /\ lib <= LibAlloc /\ lib <= pos /\ pos <= produced /\ parsed <= Wanted
         /\ Wanted \in Nat
<1>1. fileSize \in Nat
  BY Constants DEF TypeOK, StreamType
<1>2. produced \in Nat /\ pos \in Nat /\ pos <= produced
  BY <1>1 DEF TypeOK, StreamType
<1>3. Wanted \in Nat
  BY Constants DEF Wanted
<1>4. QED
  BY <1>1, <1>2, <1>3, Constants DEF TypeOK, Least

\* What write_callback writes has room, and is the whole block if that has.
LEMMA RoomFits ==
  ASSUME TypeOK
  PROVE  /\ Least(Room, BlockSize) \in 0 .. AvailableSize(dest)
         /\ AvailableSize(dest) >= BlockSize => Least(Room, BlockSize) = BlockSize
<1> DEFINE a == AvailableSize(dest)
           q == a \div Sample
<1>1. a \in Nat
  BY Buffers, Constants
<1>2. Room = q * Sample
  BY DEF Room
<1> HIDE DEF a
<1>3. q \in Nat /\ a % Sample \in 0 .. Sample - 1 /\ a = Sample * q + (a % Sample)
  BY <1>1, Constants, Quotient
<1>4. PICK c \in Nat : BlockSize = c * Sample
  BY BlockParts
<1> HIDE DEF q
<1>5. q * Sample = Sample * q /\ q * Sample \in Nat /\ (q + 1) * Sample = q * Sample + Sample
  BY <1>3, Constants, Products
<1>6. Room \in Nat /\ Room <= a
  BY <1>1, <1>2, <1>3, <1>5, Constants
<1>7. ASSUME a >= BlockSize PROVE Room >= BlockSize
  <2>1. CASE c <= q
    BY <1>2, <1>3, <1>4, <2>1, Constants, GrowingProduct
  <2>2. CASE q + 1 <= c
    <3>1. (q + 1) * Sample <= c * Sample
      BY <1>3, <1>4, <2>2, Constants, GrowingProduct
    <3>2. QED
      BY <1>1, <1>3, <1>4, <1>5, <1>7, <3>1, Constants
  <2>3. QED
    BY <1>3, <1>4, <2>1, <2>2
<1>8. QED
  BY <1>1, <1>6, <1>7, Constants DEF Least, a
-----------------------------------------------------------------------------
(***************************************************************************)
(* Reading.                                                                *)
(***************************************************************************)

\* What every read does to the stream, whatever comes of it.
Reads ==
  /\ StreamType'
  /\ SourceKnown'
  /\ pos' >= pos
  /\ pos' - pos = UnreadSize(src') - UnreadSize(src)

LEMMA SameStreamReads ==
  ASSUME TypeOK, SourceKnown, UNCHANGED <<stream, file>>
  PROVE  Reads
BY Buffers, Counts, Constants DEF Reads, TypeOK, StreamType, SourceKnown, stream, file

LEMMA ReadOnceReads ==
  ASSUME TypeOK, SourceKnown, fd = "open", HasInput,
         NEW e, io_rf_stream_read_once(e), UNCHANGED file
  PROVE  Reads
<1> DEFINE room == MakeReadRoom(src)
           n == Least(Least(MaxRead, TailSize(room)), Pending)
<1>1. /\ room \in Window(SrcAlloc) /\ UnreadSize(room) = UnreadSize(src)
      /\ TailSize(room) \in Nat /\ UnreadSize(src) \in Nat
  BY Buffers, Constants, ReadRoomSizes, WindowSizes
<1>2. pos \in Nat /\ produced \in Nat /\ pos <= produced /\ Pending = produced - pos
  BY Counts DEF Pending
<1>3. n <= TailSize(room) /\ n <= Pending /\ n \in Int
  BY <1>1, <1>2, Constants DEF Least
<1>4. CASE n > 0 /\ src' = Filled(room, n) /\ pos' = pos + n /\ UNCHANGED fd
  <2>1. n \in 0 .. TailSize(room)
    BY <1>1, <1>3, <1>4
  <2> HIDE DEF n, room
  <2>2. src' \in Window(SrcAlloc) /\ UnreadSize(src') = UnreadSize(src) + n
    BY <1>1, <1>4, <2>1, FilledSizes, Constants
  <2>3. pos' \in 0 .. produced
    BY <1>2, <1>3, <1>4
  <2>4. QED
    BY <1>1, <1>2, <1>3, <1>4, <2>2, <2>3
       DEF Reads, TypeOK, StreamType, SourceKnown, Window, file
<1>5. CASE AtEnd /\ fd' = "closed" /\ src' = room /\ UNCHANGED pos
  <2> HIDE DEF n, room
  <2>1. writer = "gone" /\ pos = fileSize
    BY <1>2, <1>5 DEF AtEnd, HasInput, SourceKnown
  <2>2. QED
    BY <1>1, <1>2, <1>5, <2>1 DEF Reads, TypeOK, StreamType, SourceKnown, Window, file
<1>6. CASE src' = room /\ UNCHANGED <<fd, pos>>
  <2> HIDE DEF n, room
  <2>1. QED
    BY <1>1, <1>2, <1>6 DEF Reads, TypeOK, StreamType, SourceKnown, Window, file
<1>7. QED
  BY <1>4, <1>5, <1>6 DEF io_rf_stream_read_once

LEMMA PollReads ==
  ASSUME TypeOK, SourceKnown, fd = "open",
         NEW forever, NEW e, io_rf_stream_read_with_poll(forever, e), UNCHANGED file
  PROVE  Reads
<1>1. CASE HasInput /\ io_rf_stream_read_once(e)
  BY <1>1, ReadOnceReads
<1>2. CASE HungUp /\ fd' = "closed" /\ UNCHANGED <<src, pos>>
  <2>1. pos = fileSize
    BY <1>2, Counts DEF HungUp, Pending, SourceKnown
  <2>2. QED
    BY <1>2, <2>1, Buffers, Counts, Constants
       DEF Reads, TypeOK, StreamType, SourceKnown, HungUp, file
<1>3. CASE UNCHANGED stream
  BY <1>3, SameStreamReads
<1>4. QED
  BY <1>1, <1>2, <1>3 DEF io_rf_stream_read_with_poll

-----------------------------------------------------------------------------
(***************************************************************************)
(* The steps.                                                              *)
(***************************************************************************)

\* The bytes that are in the metadata and in decoded blocks.
Parsed == IF Opened THEN MetaSize + decoded * EncodedSize ELSE 0

\* BlocksAccountedFor with its products closed.
Accounts ==
  /\ pos = Parsed + parsed + lib + UnreadSize(src)
  /\ decoded * BlockSize = taken + UnreadSize(dest)

LEMMA AccountsAre ==
  /\ TypeOK => Parsed \in Nat /\ decoded * BlockSize \in Nat
  /\ BlocksAccountedFor <=> (error = "none" /\ aborted # "inside" => Accounts)
BY Counts, Products, Constants DEF Parsed, BlocksAccountedFor, Accounts

LEMMA AccountsAreNext ==
  BlocksAccountedFor' <=> (error' = "none" /\ aborted' # "inside" => Accounts')
BY DEF Parsed, BlocksAccountedFor, Accounts

\* A program that has not failed has the accounts right.
LEMMA Going ==
  ASSUME IInv, pc # "over", pc # "ended"
  PROVE  error = "none" /\ aborted # "inside" /\ Accounts
BY AccountsAre DEF IInv, ErrorsEnd, TypeOK

LEMMA InitInvariant == Init => IInv
<1> SUFFICES ASSUME Init PROVE IInv
  OBVIOUS
<1> USE Constants
<1>1. /\ src \in Window(SrcAlloc) /\ UnreadSize(src) = 0
      /\ dest \in Window(DestAlloc) /\ UnreadSize(dest) = 0
  BY EmptyWindow DEF Init, StreamInit
<1>2. TypeOK
  <2>1. fileSize \in FileSizes /\ produced \in 0 .. fileSize /\ pos = 0
    BY DEF Init, StreamInit
  <2>2. StreamType /\ DestType
    BY <1>1, <2>1 DEF Init, StreamInit, StreamType, DestType, Window
  <2>3. lib \in 0 .. Least(LibAlloc, pos) /\ parsed \in 0 .. Wanted
    <3>1. Least(LibAlloc, pos) \in Nat /\ Wanted \in Nat
      BY <2>1 DEF Init, Least, Wanted
    <3>2. QED
      BY <3>1 DEF Init
  <2>4. QED
    BY <2>2, <2>3 DEF Init, TypeOK
<1>3. Accounts
  <2>1. Parsed = 0 /\ decoded * BlockSize = 0
    BY DEF Init, Parsed, Opened
  <2>2. QED
    BY <1>1, <2>1 DEF Init, StreamInit, Accounts
<1>4. Callers /\ ErrorsEnd /\ Unfinished /\ EndIsReached
  BY DEF Init, Callers, InCall, ErrorsEnd, Unfinished, EndIsReached
<1>5. SourceKnown
  BY DEF Init, StreamInit, SourceKnown
<1>6. WholeFramesTaken
  <2>1. 0 = 0 * Frame
    OBVIOUS
  <2>2. QED
    BY <2>1 DEF Init, WholeFramesTaken
<1>7. QED
  BY <1>2, <1>3, <1>4, <1>5, <1>6, AccountsAre DEF IInv

LEMMA MetadataDoneKeeps == ASSUME IInv, MetadataDone PROVE IInv'
<1>1. /\ pc = "parse" /\ caller = "open" /\ parsed + lib >= MetaSize
      /\ lib' = parsed + lib - MetaSize /\ parsed' = 0
      /\ pc' = "preload_read" /\ error' = error
      /\ UNCHANGED <<stream, file, dest, caller, decoded, aborted, taken>>
  BY DEF MetadataDone, GoTo
<1>2. error = "none" /\ aborted # "inside" /\ Accounts /\ decoded = 0
  BY <1>1, Going DEF IInv, Callers
<1>3. Parsed = 0 /\ parsed <= MetaSize /\ {lib, parsed, pos} \subseteq Nat
  BY <1>1, Counts DEF IInv, Parsed, Opened, Wanted
<1>4. lib' \in Nat /\ lib' <= lib
  BY <1>1, <1>3, Constants
<1>5. TypeOK'
  <2>1. lib' \in 0 .. Least(LibAlloc, pos')
    BY <1>1, <1>3, <1>4, Counts, Constants DEF IInv, Least, stream
  <2>2. StreamType' /\ DestType'
    BY <1>1 DEF IInv, TypeOK, StreamType, DestType, stream, file
  <2>3. QED
    BY <1>1, <2>1, <2>2, Constants DEF IInv, TypeOK, Wanted
<1>6. Accounts'
  <2>1. Parsed' = MetaSize + 0 /\ decoded' * BlockSize = decoded * BlockSize
    BY <1>1, <1>2, Constants DEF Parsed, Opened
  <2>2. UnreadSize(src') = UnreadSize(src) /\ UnreadSize(dest') = UnreadSize(dest)
        /\ pos' = pos /\ taken' = taken
    BY <1>1 DEF stream
  <2>3. pos = 0 + parsed + lib + UnreadSize(src)
    BY <1>2, <1>3 DEF Accounts
  <2>4. decoded' * BlockSize = taken' + UnreadSize(dest')
    BY <1>2, <2>1, <2>2 DEF Accounts
  <2>5. UnreadSize(src) \in Nat
    BY Buffers, Constants DEF IInv
  <2>6. pos' = Parsed' + parsed' + lib' + UnreadSize(src')
    BY <1>1, <1>3, <2>1, <2>2, <2>3, <2>5, Constants
  <2>7. QED
    BY <2>4, <2>6 DEF Accounts
<1>7. Callers' /\ ErrorsEnd' /\ Unfinished' /\ SourceKnown' /\ EndIsReached'
      /\ WholeFramesTaken'
  BY <1>1, <1>2
     DEF IInv, Callers, InCall, ErrorsEnd, Unfinished, SourceKnown, EndIsReached,
         WholeFramesTaken, stream, file
<1>8. QED
  BY <1>5, <1>6, <1>7, AccountsAreNext DEF IInv

LEMMA BlockDoneKeeps == ASSUME IInv, BlockDone PROVE IInv'
<1> DEFINE n == Least(Room, BlockSize)
<1>1. /\ pc = "parse" /\ caller # "open" /\ parsed + lib >= EncodedSize
      /\ lib' = parsed + lib - EncodedSize /\ parsed' = 0
      /\ dest' = TryWrite(dest, n)
      /\ UNCHANGED <<stream, file, caller, taken>>
  BY DEF BlockDone, write_callback
<1>2. \/ /\ AvailableSize(dest) >= BlockSize
         /\ decoded' = decoded + 1 /\ pc' = Returned /\ error' = error
         /\ aborted' = aborted
      \/ decoded' = decoded /\ aborted' = "inside" /\ pc' = "ended" /\ error' = error
  BY DEF BlockDone, Abort, GoTo
<1>3. error = "none" /\ aborted # "inside" /\ Accounts
  BY <1>1, Going
<1>4. parsed <= EncodedSize /\ {lib, parsed, pos, decoded, taken} \subseteq Nat
  BY <1>1, Counts DEF IInv, Wanted
<1>5. lib' \in Nat /\ lib' <= lib
  BY <1>1, <1>4, Constants
<1>6. n \in 0 .. AvailableSize(dest) /\ (AvailableSize(dest) >= BlockSize => n = BlockSize)
  BY RoomFits DEF IInv
<1> HIDE DEF n
<1>7. dest' \in Window(DestAlloc) /\ UnreadSize(dest') = UnreadSize(dest) + n
  BY <1>1, <1>6, Buffers, TryWriteSizes, Constants DEF IInv
<1>8. pc' \in {"preload_read", "preload", "decode", "ended"}
      /\ (pc' = "preload_read" => caller = "preload")
      /\ (pc' \in {"preload", "decode"} => caller = pc')
  BY <1>1, <1>2 DEF Returned, IInv, TypeOK
<1>9. TypeOK'
  <2>1. lib' \in 0 .. Least(LibAlloc, pos')
    BY <1>1, <1>4, <1>5, Counts, Constants DEF IInv, Least, stream
  <2>2. StreamType' /\ DestType'
    BY <1>1, <1>7 DEF IInv, TypeOK, StreamType, DestType, Window, stream, file
  <2>3. parsed' \in 0 .. Wanted' /\ decoded' \in Nat
    BY <1>1, <1>2, <1>4, Constants DEF Wanted
  <2>4. QED
    BY <1>1, <1>2, <1>3, <1>8, <2>1, <2>2, <2>3 DEF IInv, TypeOK
<1>10. aborted' # "inside" => Accounts'
  <2> SUFFICES ASSUME aborted' # "inside" PROVE Accounts'
    OBVIOUS
  <2>1. decoded' = decoded + 1 /\ n = BlockSize
    BY <1>2, <1>6
  <2>2. /\ (decoded + 1) * EncodedSize = decoded * EncodedSize + EncodedSize
        /\ (decoded + 1) * BlockSize = decoded * BlockSize + BlockSize
        /\ decoded * EncodedSize \in Nat /\ decoded * BlockSize \in Nat
    BY <1>4, Constants, Products
  <2>3. /\ Parsed = MetaSize + decoded * EncodedSize
        /\ Parsed' = MetaSize + decoded' * EncodedSize
    BY <1>1 DEF Parsed, Opened
  <2> DEFINE e == decoded * EncodedSize
             b == decoded * BlockSize
  <2>4. e \in Nat /\ b \in Nat /\ Parsed = MetaSize + e
        /\ Parsed' = MetaSize + (e + EncodedSize) /\ decoded' * BlockSize = b + BlockSize
        /\ b = taken + UnreadSize(dest)
        /\ pos = Parsed + parsed + lib + UnreadSize(src)
    BY <1>3, <2>1, <2>2, <2>3 DEF Accounts
  <2> HIDE DEF e, b
  <2>5. UnreadSize(src) \in Nat /\ UnreadSize(dest) \in Nat
    BY Buffers, Constants DEF IInv
  <2>6. /\ pos' = Parsed' + parsed' + lib' + UnreadSize(src')
        /\ decoded' * BlockSize = taken' + UnreadSize(dest')
    BY <1>1, <1>4, <1>7, <2>1, <2>4, <2>5, Constants DEF stream
  <2>7. QED
    BY <2>6 DEF Accounts
<1>11. ErrorsEnd' /\ EndIsReached'
  BY <1>2, <1>3, <1>8 DEF ErrorsEnd, EndIsReached
<1>12. Callers' /\ Unfinished'
  <2>1. caller # "decode" => taken = 0
    BY <1>1 DEF IInv, Callers, InCall
  <2>2. caller' = caller /\ taken' = taken /\ caller # "open" /\ parsed' = 0
    BY <1>1
  <2>3. Callers'
    BY <1>8, <2>1, <2>2 DEF Callers, InCall
  <2>4. pc' = "ended" => aborted' = "inside"
    BY <1>2, <1>8, <2>2 DEF Returned, IInv, TypeOK
  <2>5. Unfinished'
    BY <1>1, <1>2, <1>8, <2>2, <2>4 DEF IInv, Unfinished, InCall
  <2>6. QED
    BY <2>3, <2>5
<1>13. SourceKnown' /\ WholeFramesTaken'
  BY <1>1 DEF IInv, SourceKnown, WholeFramesTaken, stream, file
<1>14. QED
  BY <1>9, <1>10, <1>11, <1>12, <1>13, AccountsAreNext DEF IInv

\* What every step has to show that reads, or leaves the stream alone, and
\* does nothing to libFLAC's bytes nor to the decoder's buffer.
LEMMA ReadingKeeps ==
  ASSUME IInv, Reads, UNCHANGED <<dest, lib, parsed, decoded, taken>>,
         error = "none" /\ aborted # "inside" /\ Accounts,
         Opened' = Opened
  PROVE  /\ StreamType' /\ DestType' /\ SourceKnown' /\ WholeFramesTaken'
         /\ lib' \in 0 .. Least(LibAlloc, pos')
         /\ Accounts'
<1>1. StreamType' /\ SourceKnown' /\ pos' >= pos
      /\ pos' - pos = UnreadSize(src') - UnreadSize(src)
  BY DEF Reads
<1>2. DestType' /\ WholeFramesTaken'
  BY DEF IInv, TypeOK, DestType, WholeFramesTaken
<1>3. pos \in Nat /\ pos' \in Nat /\ UnreadSize(src) \in Nat /\ UnreadSize(src') \in Nat
  <2>1. fileSize' \in Nat /\ src' \in Window(SrcAlloc)
    BY <1>1, Constants DEF StreamType, Window
  <2>2. QED
    BY <1>1, <2>1, Counts, Buffers, WindowSizes, Constants DEF IInv, StreamType
<1>4. lib' \in 0 .. Least(LibAlloc, pos')
  BY <1>1, <1>3, Counts, Constants DEF IInv, Least
<1>5. Parsed' = Parsed /\ Parsed \in Nat /\ {parsed, lib} \subseteq Nat
  BY Counts, AccountsAre DEF IInv, Parsed
<1>6. Accounts'
  <2>1. pos' = Parsed' + parsed' + lib' + UnreadSize(src')
    BY <1>1, <1>3, <1>5 DEF Accounts
  <2>2. QED
    BY <2>1 DEF Accounts
<1>7. QED
  BY <1>1, <1>2, <1>4, <1>6

LEMMA ReadCallbackKeeps == ASSUME IInv, read_callback PROVE IInv'
<1>1. /\ pc = "parse" /\ parsed + lib < Wanted
      /\ lib' = Given /\ parsed' = parsed + lib /\ src' = Consumed(src, Given)
      /\ UNCHANGED <<fd, pos, file, dest, caller, decoded, aborted, taken>>
      /\ error' = error /\ pc' = (IF Given > 0 THEN "parse" ELSE "poll")
  BY DEF read_callback, GoTo
<1>2. error = "none" /\ aborted # "inside" /\ Accounts
  BY <1>1, Going
<1>3. /\ {lib, parsed, pos, Wanted, Parsed} \subseteq Nat
      /\ UnreadSize(src) \in Nat
  BY Counts, Buffers, AccountsAre, Constants DEF IInv
<1>4. Given \in 0 .. UnreadSize(src) /\ Given <= LibAlloc
  BY <1>3, Constants DEF Given, Least
<1>5. src' \in Window(SrcAlloc) /\ UnreadSize(src') = UnreadSize(src) - Given
  BY <1>1, <1>4, Buffers, ConsumedSizes, Constants DEF IInv
<1>6. Parsed' = Parsed /\ Wanted' = Wanted
  BY <1>1 DEF Parsed, Opened, Wanted
<1>7. Accounts'
  <2>1. pos' = Parsed' + parsed' + lib' + UnreadSize(src')
    BY <1>1, <1>2, <1>3, <1>4, <1>5, <1>6 DEF Accounts
  <2>2. QED
    BY <1>1, <1>2, <2>1 DEF Accounts
<1>8. TypeOK'
  <2>1. lib' \in 0 .. Least(LibAlloc, pos')
    <3>1. UnreadSize(src) <= pos
      BY <1>2, <1>3 DEF Accounts
    <3>2. QED
      BY <1>1, <1>3, <1>4, <3>1, Constants DEF Least
  <2>2. parsed' \in 0 .. Wanted'
    BY <1>1, <1>3, <1>6
  <2>3. StreamType' /\ DestType'
    BY <1>1, <1>5 DEF IInv, TypeOK, StreamType, DestType, Window, file
  <2>4. QED
    BY <1>1, <2>1, <2>2, <2>3 DEF IInv, TypeOK
<1>9. Unfinished'
  BY <1>1, <1>3, <1>4, <1>6 DEF IInv, Unfinished, InCall
<1>10. Callers' /\ ErrorsEnd' /\ EndIsReached'
  BY <1>1, <1>2 DEF IInv, Callers, InCall, ErrorsEnd, EndIsReached
<1>11. SourceKnown' /\ WholeFramesTaken'
  BY <1>1 DEF IInv, SourceKnown, WholeFramesTaken, file
<1>12. QED
  BY <1>7, <1>8, <1>9, <1>10, <1>11, AccountsAreNext DEF IInv

LEMMA PollForMoreKeeps == ASSUME IInv, PollForMore PROVE IInv'
<1>1. /\ pc = "poll" /\ UNCHANGED <<file, dest, caller, lib, parsed, decoded, taken>>
  BY DEF PollForMore
<1>2. error = "none" /\ aborted # "inside" /\ Accounts
  BY <1>1, Going
<1>3. /\ Reads /\ error' = error /\ aborted' \in {"no", "inside", "between"}
      /\ \/ pc' = "crashed" /\ aborted' = aborted
         \/ pc' \in {"poll", "parse", "ended"} /\ aborted' = aborted
         \/ pc' = "ended" /\ aborted' \in {"inside", "between"}
  <2>1. CASE io_rf_stream_is_eof
    BY <1>1, <1>2, <2>1, SameStreamReads DEF IInv, TypeOK, PollForMore, GoTo
  <2>2. CASE ~io_rf_stream_is_eof
    <3>1. fd = "open"
      BY <2>2 DEF IInv, TypeOK, StreamType, io_rf_stream_is_eof
    <3>2. PICK e \in {"none", "eagain", "eio"} :
            /\ io_rf_stream_read_with_poll(TRUE, e)
            /\ IF e = "eio" THEN \E where \in {"inside", "between"} : Abort(where)
               ELSE /\ GoTo(IF e = "eagain" THEN "poll"
                            ELSE IF fd' = "open" THEN "parse" ELSE "ended")
                    /\ UNCHANGED aborted
      BY <2>2 DEF PollForMore
    <3>3. Reads
      BY <1>1, <3>1, <3>2, PollReads DEF IInv
    <3>4. QED
      BY <1>2, <3>2, <3>3 DEF IInv, TypeOK, Abort, GoTo
  <2>3. QED
    BY <2>1, <2>2
<1>4. pc' \in {"crashed", "poll", "parse", "ended"}
      /\ (aborted' # "no" => pc' = "ended")
      /\ aborted' \in {"no", "inside", "between"}
  BY <1>1, <1>2, <1>3 DEF IInv, TypeOK, Unfinished
<1>5. Opened' = Opened
  BY <1>1, <1>4 DEF Opened
<1>6. /\ StreamType' /\ DestType' /\ SourceKnown' /\ WholeFramesTaken'
      /\ lib' \in 0 .. Least(LibAlloc, pos') /\ Accounts'
  BY <1>1, <1>2, <1>3, <1>5, ReadingKeeps
<1>7. lib = 0 /\ parsed < Wanted /\ Wanted' = Wanted
  BY <1>1, <1>2 DEF IInv, Unfinished, Wanted
<1>8. TypeOK'
  BY <1>1, <1>3, <1>4, <1>6, <1>7 DEF IInv, TypeOK
<1>9. Unfinished'
  BY <1>1, <1>4, <1>7 DEF Unfinished
<1>10. ErrorsEnd' /\ EndIsReached'
  BY <1>2, <1>3, <1>4 DEF ErrorsEnd, EndIsReached
<1>11. Callers'
  BY <1>1, <1>4 DEF IInv, Callers, InCall
<1>12. QED
  BY <1>6, <1>8, <1>9, <1>10, <1>11, AccountsAreNext DEF IInv

LEMMA CallEndedKeeps == ASSUME IInv, CallEnded PROVE IInv'
<1>1. pc = "ended" /\ UNCHANGED <<stream, file, dest, caller, flac, taken>>
  BY DEF CallEnded
<1>2. error = "none"
  BY <1>1 DEF IInv, ErrorsEnd
<1>3. \/ pc' = "over" /\ error' = "einval"
      \/ /\ caller # "open" /\ aborted # "inside" /\ error' = error /\ pc' = Returned
  BY DEF CallEnded, EndIsError, FailWith, GoTo
<1>4. /\ pc' \in {"over", "preload_read", "preload", "decode"}
      /\ (pc' = "preload_read" => caller = "preload")
      /\ (pc' \in {"preload", "decode"} => caller = pc')
      /\ (pc' = "over" => error' # "none")
      /\ (pc' # "over" => caller # "open" /\ aborted # "inside" /\ error' = "none")
  BY <1>2, <1>3 DEF IInv, TypeOK, Returned
<1>5. TypeOK'
  BY <1>1, <1>2, <1>3, <1>4
     DEF IInv, TypeOK, StreamType, DestType, Wanted, stream, file, flac
<1>6. error' = "none" /\ aborted' # "inside" => Accounts'
  <2> SUFFICES ASSUME error' = "none", aborted' # "inside" PROVE Accounts'
    OBVIOUS
  <2>1. caller # "open" /\ aborted # "inside" /\ pc' # "over"
    BY <1>4
  <2>2. Accounts
    BY <1>2, <2>1, AccountsAre DEF IInv
  <2>3. Parsed' = Parsed
    BY <1>1, <2>1 DEF Parsed, Opened, flac
  <2>4. /\ pos' = pos /\ src' = src /\ dest' = dest /\ taken' = taken
        /\ lib' = lib /\ parsed' = parsed /\ decoded' = decoded
    BY <1>1 DEF stream, flac
  <2>5. QED
    BY <2>2, <2>3, <2>4 DEF Accounts
<1>7. Callers'
  <2>1. caller # "decode" => taken = 0
    BY <1>1 DEF IInv, Callers, InCall
  <2>2. caller' = caller /\ taken' = taken /\ decoded' = decoded
    BY <1>1 DEF flac
  <2>3. caller = "open" => decoded = 0
    BY DEF IInv, Callers
  <2>4. QED
    BY <1>4, <2>1, <2>2, <2>3 DEF Callers, InCall
<1>8. ErrorsEnd' /\ EndIsReached'
  <2>1. aborted' = aborted
    BY <1>1 DEF flac
  <2>2. QED
    BY <1>4, <2>1 DEF ErrorsEnd, EndIsReached
<1>9. Unfinished'
  <2>1. aborted # "inside" => lib = 0 /\ parsed < Wanted
    BY <1>1 DEF IInv, Unfinished
  <2>2. lib' = lib /\ parsed' = parsed /\ aborted' = aborted /\ Wanted' = Wanted
    BY <1>1 DEF Wanted, flac
  <2>3. pc' \notin {"poll", "ended", "parse"} /\ caller' = caller
        /\ (caller = "open" => pc' = "over")
    BY <1>1, <1>3, <1>4
  <2>4. QED
    BY <2>1, <2>2, <2>3 DEF IInv, Unfinished
<1>10. SourceKnown' /\ WholeFramesTaken'
  BY <1>1 DEF IInv, SourceKnown, WholeFramesTaken, stream, file
<1>11. QED
  BY <1>5, <1>6, <1>7, <1>8, <1>9, <1>10, AccountsAreNext DEF IInv

\* What the two loops of player.c do before they decode.
LEMMA ReadSourceKeeps ==
  ASSUME IInv, NEW forever, NEW then \in {"preload", "decode"}, ReadSource(forever, then),
         pc \in {"preload_read", "read"}, caller' = then,
         then = "preload" => taken = 0
  PROVE  IInv'
<1>1. error = "none" /\ aborted # "inside" /\ Accounts
  BY Going
<1>2. UNCHANGED <<file, dest, lib, parsed, decoded, aborted, taken>>
  BY DEF ReadSource, flac
<1>3. PICK e \in {"none", "eagain", "eio"} :
        /\ pcm_decoder_read_source(forever, e)
        /\ IF e = "none" THEN GoTo(then) ELSE FailWith(e)
  BY DEF ReadSource
<1>4. Reads
  <2>1. CASE ~io_rf_stream_is_eof /\ ~IsFull(src)
    <3>1. fd = "open" /\ io_rf_stream_read_with_poll(forever, e)
      BY <1>3, <2>1
         DEF IInv, TypeOK, StreamType, io_rf_stream_is_eof, pcm_decoder_read_source
    <3>2. QED
      BY <1>2, <3>1, PollReads DEF IInv
  <2>2. CASE ~(~io_rf_stream_is_eof /\ ~IsFull(src))
    BY <1>2, <1>3, <2>2, SameStreamReads DEF IInv, pcm_decoder_read_source
  <2>3. QED
    BY <2>1, <2>2
<1>5. \/ pc' = then /\ error' = "none"
      \/ pc' = "over" /\ error' \in {"eagain", "eio"}
  BY <1>1, <1>3 DEF GoTo, FailWith
<1>6. Opened /\ Opened'
  BY DEF IInv, Callers, InCall, Opened
<1>7. /\ StreamType' /\ DestType' /\ SourceKnown' /\ WholeFramesTaken'
      /\ lib' \in 0 .. Least(LibAlloc, pos') /\ Accounts'
  BY <1>1, <1>2, <1>4, <1>6, ReadingKeeps
<1>8. /\ parsed \in 0 .. EncodedSize
      /\ parsed = 0 \/ (lib = 0 /\ parsed < EncodedSize)
      /\ Wanted' = EncodedSize
  <2>1. Wanted' = EncodedSize
    BY DEF Wanted
  <2>2. CASE caller = "open"
    BY <2>1, <2>2, Constants DEF IInv, Callers, InCall
  <2>3. CASE caller # "open"
    BY <1>1, <2>1, <2>3 DEF IInv, TypeOK, Unfinished, InCall, Wanted
  <2>4. QED
    BY <2>2, <2>3, <2>1
<1>9. TypeOK'
  BY <1>1, <1>2, <1>5, <1>7, <1>8 DEF IInv, TypeOK
<1>10. Callers' /\ Unfinished'
  <2>1. /\ lib' = lib /\ parsed' = parsed /\ aborted' = aborted /\ taken' = taken
        /\ decoded' = decoded /\ caller' = then /\ pc' \in {then, "over"}
    BY <1>2, <1>5
  <2>2. Callers'
    BY <2>1 DEF Callers, InCall
  <2>3. aborted = "between" => lib = 0 /\ parsed < EncodedSize
    BY <1>8 DEF IInv, Unfinished, Wanted
  <2>4. Unfinished'
    BY <1>8, <2>1, <2>3 DEF Unfinished, InCall
  <2>5. QED
    BY <2>2, <2>4
<1>11. ErrorsEnd' /\ EndIsReached'
  BY <1>1, <1>2, <1>5 DEF ErrorsEnd, EndIsReached
<1>12. QED
  BY <1>7, <1>9, <1>10, <1>11, AccountsAreNext DEF IInv

LEMMA PreloadReadKeeps == ASSUME IInv, preload_first_period PROVE IInv'
<1>1. pc = "preload_read" /\ caller' = "preload" /\ ReadSource(TRUE, "preload")
  BY DEF preload_first_period
<1>2. taken = 0
  BY <1>1 DEF IInv, Callers
<1>3. QED
  BY <1>1, <1>2, ReadSourceKeeps

LEMMA PlayerPreloadKeeps == ASSUME IInv, player_preload PROVE IInv'
<1>1. /\ pc = "read" /\ caller' = "decode"
      /\ ReadSource(pcm_decoder_is_source_buffer_empty, "decode")
  BY DEF player_preload
<1>2. QED
  BY <1>1, ReadSourceKeeps

\* Steps that only go on with the loop.
LEMMA LoopStepKeeps ==
  ASSUME IInv, pc \in {"preload", "decode", "read"}, pc' \in {"parse", "ended", "write"},
         pc' = "parse" => pc # "read" /\ aborted # "between",
         pc' = "ended" => pc # "read" /\ aborted = "between",
         UNCHANGED <<stream, file, dest, caller, flac, taken, error>>
  PROVE  IInv'
<1>1. error = "none" /\ aborted # "inside" /\ Accounts
  BY Going
<1>2. /\ fd' = fd /\ src' = src /\ pos' = pos /\ dest' = dest
      /\ caller' = caller /\ lib' = lib /\ parsed' = parsed /\ decoded' = decoded
      /\ aborted' = aborted /\ taken' = taken /\ error' = error
  BY DEF stream, flac
<1>3. caller # "open"
  BY DEF IInv, Callers, InCall
<1>4. Accounts'
  <2>1. Parsed' = Parsed
    BY <1>2, <1>3 DEF Parsed, Opened
  <2>2. QED
    BY <1>1, <1>2, <2>1 DEF Accounts
<1>5. TypeOK'
  BY <1>2 DEF IInv, TypeOK, StreamType, DestType, Wanted, file
<1>6. Callers'
  <2>1. pc' \in {"parse", "ended"} /\ caller # "decode" => taken = 0
    BY DEF IInv, Callers
  <2>2. QED
    BY <1>2, <1>3, <2>1 DEF Callers, InCall
<1>7. Unfinished'
  <2>1. parsed = 0 \/ (lib = 0 /\ parsed < Wanted)
    BY <1>1 DEF IInv, Unfinished, InCall
  <2>2. QED
    BY <1>2, <1>3, <2>1 DEF IInv, Unfinished, InCall, Wanted
<1>8. ErrorsEnd' /\ EndIsReached' /\ SourceKnown' /\ WholeFramesTaken'
  BY <1>1, <1>2 DEF IInv, ErrorsEnd, EndIsReached, SourceKnown, WholeFramesTaken, file
<1>9. QED
  BY <1>4, <1>5, <1>6, <1>7, <1>8, AccountsAreNext DEF IInv

LEMMA DecodeOnceKeeps == ASSUME IInv, DecodeOnce PROVE IInv'
<1>1. pc \in {"preload", "decode"}
  BY DEF DecodeOnce
<1>2. /\ pc' = (IF aborted # "no" THEN "ended" ELSE "parse")
      /\ UNCHANGED <<stream, file, dest, caller, flac, taken, error>>
  BY DEF DecodeOnce, GoTo
<1>3. aborted \in {"no", "between"}
  BY <1>1, Going DEF IInv, TypeOK
<1>4. QED
  BY <1>1, <1>2, <1>3, LoopStepKeeps

LEMMA DecodedKeeps == ASSUME IInv, Decoded PROVE IInv'
<1>1. /\ pc \in {"preload", "decode", "read"} /\ pc' = "write"
      /\ UNCHANGED <<stream, file, dest, caller, flac, taken, error>>
  BY DEF Decoded, GoTo
<1>2. QED
  BY <1>1, LoopStepKeeps

LEMMA WriteKeeps == ASSUME IInv, player_write_alsa PROVE IInv'
<1>1. pc = "write" /\ UNCHANGED <<stream, file, caller, flac, error>>
  BY DEF player_write_alsa, GoTo
<1>2. error = "none" /\ aborted # "inside" /\ Accounts
  BY <1>1, Going
<1>3. PICK n \in 0 .. pcm_decoder_get_output_buffer_frames_count :
        dest' = Consumed(dest, n * Frame) /\ taken' = taken + n * Frame
  BY DEF player_write_alsa
<1>4. /\ fd' = fd /\ src' = src /\ pos' = pos /\ caller' = caller /\ lib' = lib
      /\ parsed' = parsed /\ decoded' = decoded /\ aborted' = aborted /\ error' = error
  BY <1>1 DEF stream, flac
<1>5. \/ pc' = "read"
      \/ /\ pc' = "over" /\ fd = "closed" /\ UnreadSize(src) = 0
         /\ UnreadSize(dest') < Frame
  BY DEF player_write_alsa, GoTo, pcm_decoder_is_source_buffer_empty,
         pcm_decoder_is_output_buffer_empty, io_rf_stream_is_empty,
         io_rf_stream_is_eof, IsEmpty
<1>6. n \in Nat /\ n * Frame \in 0 .. UnreadSize(dest)
  <2>1. dest \in Window(DestAlloc) /\ ItemsCount(dest, Frame) \in Nat
    BY Buffers, ItemsFit, Constants DEF IInv
  <2>2. n \in 0 .. ItemsCount(dest, Frame) /\ n \in Nat
    BY <2>1 DEF pcm_decoder_get_output_buffer_frames_count
  <2>3. QED
    BY <2>1, <2>2, FewerItemsFit, Constants
<1>7. dest' \in Window(DestAlloc) /\ UnreadSize(dest') = UnreadSize(dest) - n * Frame
  BY <1>3, <1>6, Buffers, ConsumedSizes, Constants DEF IInv
<1>8. taken \in Nat /\ taken' \in Nat /\ UnreadSize(dest) \in Nat
      /\ taken' + UnreadSize(dest') = taken + UnreadSize(dest)
  <2> DEFINE m == n * Frame
  <2>1. m \in Nat /\ taken' = taken + m /\ UnreadSize(dest') = UnreadSize(dest) - m
    BY <1>3, <1>6, <1>7, Buffers DEF IInv
  <2> HIDE DEF m
  <2>2. taken \in Nat /\ UnreadSize(dest) \in Nat
    BY Counts, Buffers, Constants DEF IInv
  <2>3. QED
    BY <2>1, <2>2
<1>9. caller # "open"
  BY <1>1 DEF IInv, Callers, InCall
<1>10. Accounts'
  <2>1. Parsed' = Parsed
    BY <1>4, <1>9 DEF Parsed, Opened
  <2>2. QED
    BY <1>2, <1>4, <1>8, <2>1 DEF Accounts
<1>11. TypeOK'
  <2>1. DestType'
    BY <1>7 DEF DestType, Window
  <2>2. QED
    BY <1>1, <1>4, <1>5, <1>8, <2>1 DEF IInv, TypeOK, StreamType, Wanted, file
<1>12. Callers' /\ ErrorsEnd' /\ EndIsReached'
  BY <1>2, <1>4, <1>5, <1>9 DEF Callers, InCall, ErrorsEnd, EndIsReached
<1>13. Unfinished'
  <2>1. parsed = 0 \/ (lib = 0 /\ parsed < Wanted)
    BY <1>1, <1>2 DEF IInv, Unfinished, InCall
  <2>2. QED
    BY <1>1, <1>4, <1>5, <2>1 DEF IInv, Callers, Unfinished, InCall, Wanted
<1>14. SourceKnown'
  BY <1>1, <1>4 DEF IInv, SourceKnown, file
<1>15. WholeFramesTaken'
  <2>1. PICK k \in Nat : taken = k * Frame
    BY DEF IInv, WholeFramesTaken
  <2>2. (k + n) * Frame = k * Frame + n * Frame /\ k + n \in Nat
    BY <1>6, <2>1, Constants
  <2>3. QED
    BY <1>3, <2>1, <2>2 DEF WholeFramesTaken
<1>16. QED
  BY <1>10, <1>11, <1>12, <1>13, <1>14, <1>15, AccountsAreNext DEF IInv

LEMMA WriterKeeps == ASSUME IInv, Writer PROVE IInv'
<1>1. /\ UNCHANGED <<stream, dest, pc, caller, flac, taken, error>>
      /\ fileSize' = fileSize
      /\ writer \in {"absent", "writing"} /\ writer' \in {"writing", "gone"}
      /\ writer' = "gone" => produced' = fileSize
      /\ produced' \in produced .. fileSize
  <2>1. produced \in 0 .. fileSize /\ fileSize \in Nat
    BY Constants DEF IInv, TypeOK, StreamType
  <2>2. QED
    BY <2>1 DEF Writer, WriterNext, WriterOpens, WriterFeeds, WriterCloses
<1>2. /\ fd' = fd /\ src' = src /\ pos' = pos /\ dest' = dest /\ pc' = pc
      /\ caller' = caller /\ lib' = lib /\ parsed' = parsed /\ decoded' = decoded
      /\ aborted' = aborted /\ taken' = taken /\ error' = error
  BY <1>1 DEF stream, flac
<1>3. StreamType' /\ SourceKnown'
  <2>1. pos' \in 0 .. produced' /\ produced' \in 0 .. fileSize'
    BY <1>1, <1>2, Counts DEF IInv
  <2>2. QED
    BY <1>1, <1>2, <2>1 DEF IInv, TypeOK, StreamType, SourceKnown
<1>4. TypeOK'
  BY <1>2, <1>3 DEF IInv, TypeOK, DestType, Wanted
<1>5. Callers' /\ ErrorsEnd' /\ Unfinished' /\ EndIsReached' /\ WholeFramesTaken'
  BY <1>2 DEF IInv, Callers, ErrorsEnd, Unfinished, EndIsReached, WholeFramesTaken, Wanted
<1>6. BlocksAccountedFor'
  BY <1>2 DEF IInv, BlocksAccountedFor, Opened
<1>7. QED
  BY <1>3, <1>4, <1>5, <1>6 DEF IInv

LEMMA StutterKeeps == ASSUME IInv, UNCHANGED vars PROVE IInv'
<1>1. /\ fd' = fd /\ src' = src /\ pos' = pos /\ dest' = dest /\ pc' = pc
      /\ caller' = caller /\ lib' = lib /\ parsed' = parsed /\ decoded' = decoded
      /\ aborted' = aborted /\ taken' = taken /\ error' = error
      /\ fileSize' = fileSize /\ produced' = produced /\ writer' = writer
  BY DEF vars, stream, flac, file
<1>2. TypeOK' /\ SourceKnown'
  BY <1>1 DEF IInv, TypeOK, StreamType, DestType, SourceKnown, Wanted
<1>3. Callers' /\ ErrorsEnd' /\ Unfinished' /\ EndIsReached' /\ WholeFramesTaken'
  BY <1>1 DEF IInv, Callers, ErrorsEnd, Unfinished, EndIsReached, WholeFramesTaken, Wanted
<1>4. BlocksAccountedFor'
  BY <1>1 DEF IInv, BlocksAccountedFor, Opened
<1>5. QED
  BY <1>2, <1>3, <1>4 DEF IInv

LEMMA StepKeeps == ASSUME IInv, [Next]_vars PROVE IInv'
BY MetadataDoneKeeps, BlockDoneKeeps, ReadCallbackKeeps, PollForMoreKeeps,
   CallEndedKeeps, PreloadReadKeeps, PlayerPreloadKeeps, DecodeOnceKeeps,
   DecodedKeeps, WriteKeeps, WriterKeeps, StutterKeeps
   DEF Next, Program, Done

THEOREM Invariance == Spec => []IInv
BY InitInvariant, StepKeeps, PTL DEF Spec
-----------------------------------------------------------------------------
(***************************************************************************)
(* What follows.                                                           *)
(***************************************************************************)

\* In every reachable state the variables are of their types: both windows
\* lie inside their memory and libFLAC holds no more than it asked for.
THEOREM TypeCorrect == Spec => []TypeOK
<1>1. IInv => TypeOK
  BY DEF IInv
<1>2. QED
  BY <1>1, Invariance, PTL

\* No byte read is lost or counted twice, in whatever call of libFLAC the
\* reads, the polls and the blocks fall (flac.c:35-71, 83-133).
THEOREM BlocksAreAccountedFor == Spec => []BlocksAccountedFor
<1>1. IInv => BlocksAccountedFor
  BY DEF IInv
<1>2. QED
  BY <1>1, Invariance, PTL

\* At the end what the file held is in blocks, in libFLAC's hands, or less
\* than a block.
LEMMA BlocksOfFile ==
  ASSUME IInv, pc = "over", error = "none"
  PROVE  decoded + lib \div EncodedSize = TotalBlocks
<1> DEFINE q == lib \div EncodedSize
           m == lib % EncodedSize
           p == decoded * EncodedSize
           rest == fileSize - MetaSize
<1>1. /\ aborted # "inside" /\ fd = "closed" /\ UnreadSize(src) = 0 /\ caller # "open"
      /\ pos = fileSize
  BY DEF IInv, ErrorsEnd, EndIsReached, SourceKnown, TypeOK
<1>2. {lib, parsed, decoded, fileSize} \subseteq Nat
  BY Counts DEF IInv
<1>3. p \in Nat /\ p = EncodedSize * decoded
  BY <1>2, Constants, Products
<1>4. fileSize = MetaSize + p + parsed + lib
  <2>1. Accounts /\ Parsed = MetaSize + p
    BY <1>1, AccountsAre DEF IInv, Parsed, Opened
  <2> HIDE DEF p
  <2>2. QED
    BY <1>1, <1>2, <1>3, <2>1, Constants DEF Accounts
<1>5. q \in Nat /\ m \in 0 .. EncodedSize - 1 /\ lib = EncodedSize * q + m
  BY <1>2, Constants, Quotient
<1>6. parsed = 0 \/ (lib = 0 /\ parsed < EncodedSize)
  BY <1>1 DEF IInv, Unfinished, InCall, Wanted
<1> HIDE DEF p, q, m
<1>7. TotalBlocks = rest \div EncodedSize /\ rest = p + parsed + lib
  BY <1>2, <1>3, <1>4, Constants DEF TotalBlocks
<1> HIDE DEF rest
<1>8. CASE parsed = 0
  <2>1. EncodedSize * (decoded + q) = EncodedSize * decoded + EncodedSize * q
        /\ EncodedSize * q \in Nat
    BY <1>2, <1>5, Constants
  <2>2. rest = EncodedSize * (decoded + q) + m
    <3> DEFINE a == EncodedSize * (decoded + q)
               b == EncodedSize * q
    <3>1. a = p + b /\ lib = b + m /\ b \in Nat /\ m \in Nat
      BY <1>3, <1>5, <2>1, Constants
    <3> HIDE DEF a, b
    <3>2. rest = a + m
      BY <1>2, <1>3, <1>7, <1>8, <3>1
    <3>3. QED
      BY <3>2 DEF a
  <2>3. decoded + q \in Nat
    BY <1>2, <1>5
  <2>4. rest \div EncodedSize = decoded + q
    BY <1>5, <2>2, <2>3, Constants, QuotientOf
  <2>5. QED
    BY <1>7, <2>4 DEF q
<1>9. CASE lib = 0 /\ parsed < EncodedSize
  <2>1. rest = EncodedSize * decoded + parsed /\ parsed \in 0 .. EncodedSize - 1
    BY <1>2, <1>3, <1>7, <1>9, Constants
  <2>2. rest \div EncodedSize = decoded
    BY <1>2, <2>1, Constants, QuotientOf
  <2>3. 0 \div EncodedSize = 0
    BY Constants
  <2>4. QED
    BY <1>2, <1>7, <1>9, <2>2, <2>3
<1>10. QED
  BY <1>6, <1>8, <1>9

\* Less than a frame is left of whole blocks after whole frames: nothing.
LEMMA NothingIsLeftOfBlocks ==
  ASSUME IInv, pc = "over", error = "none"
  PROVE  taken = decoded * BlockSize
<1> DEFINE u == UnreadSize(dest)
<1>1. aborted # "inside" /\ u < Frame
  BY DEF IInv, ErrorsEnd, EndIsReached, TypeOK
<1>2. decoded \in Nat /\ taken \in Nat /\ u \in Nat
  BY Counts, Buffers, Constants DEF IInv
<1>3. decoded * BlockSize = taken + u
  BY <1>1, AccountsAre DEF IInv, Accounts
<1>4. PICK b \in Nat : BlockSize = b * Frame
  BY BlockParts
<1>5. PICK k \in Nat : taken = k * Frame
  BY DEF IInv, WholeFramesTaken
<1> DEFINE c == decoded * b
<1>6. c \in Nat /\ decoded * (b * Frame) = Frame * c
  BY <1>2, <1>4, Constants, SMT
<1> HIDE DEF c, u
<1>7. k * Frame = Frame * k /\ Frame * k \in Nat /\ Frame * c \in Nat
  BY <1>5, <1>6, Constants, Products
<1>8. Frame * c + 0 = Frame * k + u
  BY <1>2, <1>3, <1>4, <1>5, <1>6, <1>7
<1>9. (Frame * c + 0) \div Frame = c
  <2>1. 0 \in 0 .. Frame - 1
    BY Constants
  <2>2. QED
    BY <1>6, <2>1, Constants, QuotientOf
<1>10. (Frame * k + u) \div Frame = k
  <2>1. u \in 0 .. Frame - 1
    BY <1>1, <1>2, Constants
  <2>2. QED
    BY <1>5, <2>1, Constants, QuotientOf
<1>11. c = k
  BY <1>8, <1>9, <1>10
<1>12. QED
  BY <1>4, <1>5, <1>6, <1>7, <1>11

\* When play ends without an error every block of the file was decoded and
\* taken, whatever its length and the pace of its writer, but for the blocks
\* in libFLAC's buffer at the end of the source: those are what is lost, and
\* nothing else.
THEOREM OnlyReadAheadLost == Spec => []OnlyReadAheadIsLost
<1>1. IInv => OnlyReadAheadIsLost
  BY BlocksOfFile, NothingIsLeftOfBlocks DEF OnlyReadAheadIsLost
<1>2. QED
  BY <1>1, Invariance, PTL
-----------------------------------------------------------------------------
(***************************************************************************)
(* What is left when the poll of an ended stream fails its assertion.      *)
(***************************************************************************)

\* libFLAC is only called while there is something to parse; when it waits
\* there is nothing in the stream's buffer, and a crash leaves it so.
CallInv ==
  /\ pc \in {"parse", "poll"} /\ fd = "closed" => parsed + lib + UnreadSize(src) > 0
  /\ pc = "poll" => UnreadSize(src) = 0
  /\ pc = "crashed" => /\ fd = "closed" /\ UnreadSize(src) = 0
                       /\ lib = 0 /\ parsed > 0 /\ parsed < Wanted

LEMMA CallKept == ASSUME IInv, CallInv, [Next]_vars PROVE CallInv'
<1>1. /\ {lib, parsed, pos, UnreadSize(src)} \subseteq Nat
      /\ src \in Window(SrcAlloc)
  BY Buffers, Counts, Constants DEF IInv
<1>2. CASE read_callback
  <2>1. /\ pc = "parse" /\ fd' = fd /\ lib' = Given /\ parsed' = parsed + lib
        /\ src' = Consumed(src, Given) /\ pc' = (IF Given > 0 THEN "parse" ELSE "poll")
    BY <1>2 DEF read_callback, GoTo
  <2>2. Given \in 0 .. UnreadSize(src) /\ (Given = 0 => UnreadSize(src) = 0)
    BY <1>1, Constants DEF Given, Least
  <2>3. UnreadSize(src') = UnreadSize(src) - Given
    BY <1>1, <2>1, <2>2, ConsumedSizes, Constants
  <2> HIDE DEF Given
  <2>4. QED
    BY <1>1, <2>1, <2>2, <2>3 DEF CallInv
<1>3. CASE PollForMore
  <2>1. /\ pc = "poll" /\ UNCHANGED <<file, caller, lib, parsed>>
        /\ UnreadSize(src) = 0 /\ lib = 0 /\ parsed < Wanted /\ Wanted' = Wanted
    <3>1. pc = "poll" /\ UNCHANGED <<file, caller, lib, parsed>>
      BY <1>3 DEF PollForMore
    <3>2. aborted # "inside"
      BY <3>1, Going
    <3>3. QED
      BY <3>1, <3>2 DEF CallInv, IInv, Unfinished, Wanted
  <2>2. CASE io_rf_stream_is_eof
    <3>1. pc' = "crashed" /\ UNCHANGED stream /\ fd = "closed"
      BY <1>3, <2>2 DEF PollForMore, GoTo, io_rf_stream_is_eof
    <3>2. fd' = fd /\ src' = src /\ lib' = lib /\ parsed' = parsed
      BY <2>1, <3>1 DEF stream
    <3>3. parsed > 0
      BY <1>1, <2>1, <3>1 DEF CallInv
    <3>4. QED
      BY <2>1, <3>1, <3>2, <3>3 DEF CallInv
  <2>3. CASE ~io_rf_stream_is_eof
    <3>1. fd = "open"
      BY <2>3 DEF IInv, TypeOK, StreamType, io_rf_stream_is_eof
    <3>2. PICK e \in {"none", "eagain", "eio"} :
            /\ io_rf_stream_read_with_poll(TRUE, e)
            /\ IF e = "eio" THEN \E where \in {"inside", "between"} : Abort(where)
               ELSE GoTo(IF e = "eagain" THEN "poll"
                         ELSE IF fd' = "open" THEN "parse" ELSE "ended")
      BY <1>3, <2>3 DEF PollForMore
    <3>3. Reads
      BY <2>1, <3>1, <3>2, PollReads DEF IInv
    <3>4. CASE e = "eagain"
      <4>1. pc' = "poll" /\ fd' = fd /\ pos' = pos
        BY <3>2, <3>4
           DEF GoTo, io_rf_stream_read_with_poll, io_rf_stream_read_once, stream
      <4>2. pos' - pos = UnreadSize(src') - 0
        BY <2>1, <3>3 DEF Reads
      <4>3. UnreadSize(src') = 0
        <5>1. UnreadSize(src') \in Int
          BY <3>3, Constants DEF Reads, StreamType, UnreadSize
        <5>2. QED
          BY <1>1, <4>1, <4>2, <5>1
      <4>4. QED
        BY <3>1, <4>1, <4>3 DEF CallInv
    <3>5. CASE e = "none"
      <4>1. pc' = "ended" \/ (pc' = "parse" /\ fd' = "open")
        BY <3>2, <3>5 DEF GoTo
      <4>2. QED
        BY <4>1 DEF CallInv
    <3>6. CASE e = "eio"
      BY <3>2, <3>6 DEF CallInv, Abort, GoTo
    <3>7. QED
      BY <3>4, <3>5, <3>6
  <2>4. QED
    BY <2>2, <2>3
<1>4. CASE DecodeOnce
  <2>1. /\ pc' \in {"parse", "ended"} /\ UnreadSize(src) > 0
        /\ UNCHANGED <<stream, flac>>
    BY <1>4 DEF DecodeOnce, GoTo, MorePreload, MoreDecode,
                pcm_decoder_is_source_buffer_ready_to_read
  <2>2. fd' = fd /\ src' = src /\ lib' = lib /\ parsed' = parsed
    BY <2>1 DEF stream, flac
  <2>3. QED
    BY <1>1, <2>1, <2>2 DEF CallInv
<1>5. CASE BlockDone \/ CallEnded
  <2>1. pc' \notin {"parse", "poll", "crashed"}
    BY <1>5 DEF BlockDone, CallEnded, EndIsError, FailWith, Abort, GoTo, Returned, IInv, TypeOK
  <2>2. QED
    BY <2>1 DEF CallInv
<1>6. CASE preload_first_period \/ player_preload
  <2>1. pc' \notin {"parse", "poll", "crashed"}
    BY <1>6 DEF preload_first_period, player_preload, ReadSource, GoTo, FailWith
  <2>2. QED
    BY <2>1 DEF CallInv
<1>7. CASE MetadataDone \/ Decoded \/ player_write_alsa
  <2>1. pc' \notin {"parse", "poll", "crashed"}
    BY <1>7 DEF MetadataDone, Decoded, player_write_alsa, GoTo
  <2>2. QED
    BY <2>1 DEF CallInv
<1>8. CASE Writer \/ UNCHANGED vars
  <2>1. /\ pc' = pc /\ fd' = fd /\ src' = src /\ lib' = lib /\ parsed' = parsed
        /\ caller' = caller
    BY <1>8 DEF Writer, vars, stream, flac
  <2>2. QED
    BY <2>1 DEF CallInv, Wanted
<1>9. QED
  BY <1>2, <1>3, <1>4, <1>5, <1>6, <1>7, <1>8 DEF Next, Program, Done

\* The accounts of a file that was read to its end, when nothing is left of
\* it but what libFLAC has parsed of a block.
LEMMA RemainderIsAll ==
  ASSUME IInv, CallInv, pc = "crashed"
  PROVE  OnlyRemainderCrashes
<1> DEFINE p == decoded * EncodedSize
<1>1. /\ fd = "closed" /\ UnreadSize(src) = 0 /\ lib = 0 /\ parsed > 0
      /\ parsed < Wanted /\ pos = fileSize
  BY DEF CallInv, IInv, SourceKnown
<1>2. {parsed, decoded, fileSize} \subseteq Nat
  BY Counts DEF IInv
<1>3. Accounts
  BY Going
<1>4. p \in Nat /\ p = EncodedSize * decoded /\ MetaSize \in Nat
  BY <1>2, Constants, Products
<1>5. Parsed = IF caller # "open" THEN MetaSize + p ELSE 0
  BY DEF Parsed, Opened
<1> HIDE DEF p
<1>6. fileSize = Parsed + parsed
  BY <1>1, <1>2, <1>3, <1>4, <1>5 DEF Accounts
<1>7. fileSize >= MetaSize => decoded = TotalBlocks
  <2>1. SUFFICES ASSUME fileSize >= MetaSize PROVE decoded = TotalBlocks
    OBVIOUS
  <2>2. caller # "open"
    BY <1>1, <1>2, <1>5, <1>6, <2>1, Constants DEF Wanted
  <2>3. parsed \in 0 .. EncodedSize - 1
    BY <1>1, <1>2, <2>2, Constants DEF Wanted
  <2>4. fileSize - MetaSize = EncodedSize * decoded + parsed
    <3>1. fileSize = MetaSize + p + parsed
      BY <1>5, <1>6, <2>2
    <3>2. fileSize - MetaSize = p + parsed
      BY <1>2, <1>4, <3>1
    <3>3. QED
      BY <1>4, <3>2
  <2>5. (EncodedSize * decoded + parsed) \div EncodedSize = decoded
    BY <1>2, <2>3, Constants, QuotientOf
  <2>6. TotalBlocks = (fileSize - MetaSize) \div EncodedSize
    BY <1>2, <2>1, Constants DEF TotalBlocks
  <2>7. QED
    BY <2>4, <2>5, <2>6
<1>8. QED
  BY <1>1, <1>6, <1>7 DEF OnlyRemainderCrashes, Parsed

\* The assertion of the poll (io.c:353) fails only with a remainder of the
\* file in libFLAC's hands, when every whole block is in the output: for
\* every file and every pace of its writer.
THEOREM OnlyRemaindersCrash == Spec => []OnlyRemainderCrashes
<1>1. Init => IInv /\ CallInv
  BY InitInvariant DEF Init, StreamInit, CallInv
<1>2. (IInv /\ CallInv) /\ [Next]_vars => (IInv /\ CallInv)'
  BY StepKeeps, CallKept
<1>3. IInv /\ CallInv => OnlyRemainderCrashes
  BY RemainderIsAll DEF OnlyRemainderCrashes
<1>4. QED
  BY <1>1, <1>2, <1>3, PTL DEF Spec
-----------------------------------------------------------------------------
(***************************************************************************)
(* Room for blocks.                                                        *)
(***************************************************************************)

\* A block is not shorter than a period, or the buffer takes both.  This is
\* so whenever the buffer takes two periods, for which main.c:127 asks.
RoomAhead ==
  \/ BlockSize >= Period * Frame
  \/ Period * Frame + BlockSize <= DestAlloc

\* BlocksFit holds through the polls inside a call.
FitInv ==
  pc \in {"parse", "poll"} /\ caller # "open" => AvailableSize(dest) >= BlockSize

\* While the preload goes on there is less than a period in the buffer,
\* either nothing or a block at least.
LEMMA PreloadHasRoom ==
  ASSUME IInv, RoomAhead, pc = "preload", MorePreload(Period)
  PROVE  AvailableSize(dest) >= BlockSize
<1> DEFINE u == UnreadSize(dest)
           i == ItemsCount(dest, Frame)
           all == Period * Frame
<1>1. u \in Nat /\ AvailableSize(dest) = DestAlloc - u /\ all \in Nat
  BY Buffers, Constants, Products DEF IInv
<1>2. i \in Nat /\ u < (i + 1) * Frame /\ i + 1 <= Period
  <2>1. i \in Nat /\ u < (i + 1) * Frame
    BY Buffers, ItemsFit, Constants DEF IInv
  <2>2. i < Period
    BY DEF MorePreload, pcm_decoder_get_output_buffer_frames_count
  <2> HIDE DEF i
  <2>3. QED
    BY <2>1, <2>2, Constants
<1>3. u < all
  <2> HIDE DEF i
  <2>1. (i + 1) * Frame <= Period * Frame
    BY <1>2, Constants, GrowingProduct
  <2>2. (i + 1) * Frame \in Nat
    BY <1>2, Constants, Products
  <2> DEFINE j == (i + 1) * Frame
  <2> HIDE DEF u, j
  <2>3. QED
    BY <1>1, <1>2, <2>1, <2>2 DEF j
<1>4. decoded \in Nat /\ u = decoded * BlockSize
  <2>1. Accounts /\ taken = 0
    BY Going DEF IInv, Callers
  <2>2. decoded \in Nat
    BY Counts DEF IInv
  <2> HIDE DEF u
  <2>3. QED
    BY <1>1, <2>1, <2>2 DEF Accounts, u
<1> HIDE DEF u, i, all
<1>5. CASE BlockSize >= all
  <2>1. decoded = 0
    <3>1. decoded >= 1 => 1 * BlockSize <= decoded * BlockSize
      BY <1>4, Constants, GrowingProduct
    <3>2. 1 * BlockSize = BlockSize
      BY Constants
    <3>3. QED
      BY <1>1, <1>3, <1>4, <1>5, <3>1, <3>2, Constants
  <2>2. u = 0
    BY <1>4, <2>1, Constants
  <2>3. QED
    BY <1>1, <2>2, Constants
<1>6. CASE all + BlockSize <= DestAlloc
  BY <1>1, <1>3, <1>6, Constants
<1>7. QED
  BY <1>5, <1>6 DEF RoomAhead, all

LEMMA FitKept == ASSUME IInv, RoomAhead, FitInv, [Next]_vars PROVE FitInv'
<1>1. CASE DecodeOnce
  <2>1. dest' = dest
    BY <1>1 DEF DecodeOnce
  <2>2. AvailableSize(dest) >= BlockSize
    <3>1. CASE pc = "preload" /\ MorePreload(Period)
      BY <3>1, PreloadHasRoom
    <3>2. CASE pc = "decode" /\ MoreDecode
      <4>1. AvailableSize(dest) \in Int
        BY Buffers, Constants DEF IInv
      <4>2. QED
        BY <3>2, <4>1, Constants DEF MoreDecode, pcm_decoder_is_output_buffer_full
    <3>3. QED
      BY <1>1, <3>1, <3>2 DEF DecodeOnce
  <2>3. QED
    BY <2>1, <2>2 DEF FitInv
<1>2. CASE read_callback
  BY <1>2 DEF FitInv, read_callback, GoTo
<1>3. CASE PollForMore
  <2>1. pc = "poll" /\ dest' = dest /\ caller' = caller
    BY <1>3 DEF PollForMore
  <2>2. QED
    BY <2>1 DEF FitInv
<1>4. CASE BlockDone \/ CallEnded
  <2>1. caller # "open" => pc' \notin {"parse", "poll"}
    BY <1>4 DEF BlockDone, CallEnded, EndIsError, FailWith, Abort, GoTo, Returned, IInv, TypeOK
  <2>2. caller' = caller
    BY <1>4 DEF BlockDone, CallEnded
  <2>3. QED
    BY <2>1, <2>2 DEF FitInv
<1>5. CASE preload_first_period \/ player_preload
  <2>1. pc' \notin {"parse", "poll"}
    BY <1>5 DEF preload_first_period, player_preload, ReadSource, GoTo, FailWith
  <2>2. QED
    BY <2>1 DEF FitInv
<1>6. CASE MetadataDone \/ Decoded \/ player_write_alsa
  <2>1. pc' \notin {"parse", "poll"}
    BY <1>6 DEF MetadataDone, Decoded, player_write_alsa, GoTo
  <2>2. QED
    BY <2>1 DEF FitInv
<1>7. CASE Writer \/ UNCHANGED vars
  <2>1. pc' = pc /\ caller' = caller /\ dest' = dest
    BY <1>7 DEF Writer, vars
  <2>2. QED
    BY <2>1 DEF FitInv
<1>8. QED
  BY <1>1, <1>2, <1>3, <1>4, <1>5, <1>6, <1>7 DEF Next, Program, Done

\* If the buffer has room ahead then no block is torn in write_callback
\* (flac.c:126-130) and no assertion of decode_once fails (flac.c:193), for
\* every file and every pace of its writer.
THEOREM BlocksAlwaysFit ==
  ASSUME RoomAhead
  PROVE  Spec => []BlocksFit
<1>1. Init => IInv /\ FitInv
  BY InitInvariant DEF Init, FitInv
<1>2. (IInv /\ FitInv) /\ [Next]_vars => (IInv /\ FitInv)'
  BY StepKeeps, FitKept
<1>3. IInv /\ FitInv => BlocksFit
  BY DEF FitInv, BlocksFit
<1>4. QED
  BY <1>1, <1>2, <1>3, PTL DEF Spec
=============================================================================
