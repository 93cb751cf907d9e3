---------------------------- MODULE SampleProofs ----------------------------
(***************************************************************************)
(* What the header of a file leads to, and what is heard of its samples,   *)
(* for every file, every size of the buffers and every width of a byte:    *)
(* which files are opened, what the pcm_spec then says, which files end    *)
(* the program, and that the frames heard are those recorded.              *)
(*                                                                         *)
(* IInv is what is known of the header, and Sound of the samples: in the   *)
(* decoder's buffer are, from its first byte to its last, the bytes of the *)
(* frames that have been recorded and not yet heard.                       *)
(***************************************************************************)
EXTENDS SampleFormat, SequenceTheorems, TLAPS

\* A WAV file whose numbers are in the machine's order.
Plain == file.codec = "wav" /\ ~file.big

\* At which part of which file it is.
PartsKnown ==
  /\ pc \in {"riff", "fmt", "data"} => file.codec = "wav"
  /\ pc = "metadata" => file.codec = "flac"
  /\ pc = "riff" => at = 0

\* The length that has been read of the format chunk.
LengthKnown == pc = "fmt" /\ Plain => at = RiffSize /\ fmt_length = file.fmt_length

\* What has been read from the format chunk, and where the stream is then.
SpecKnown ==
  pc \in {"data", "opened", "play"} /\ Plain =>
    /\ spec.channels = file.channels /\ spec.rate = file.rate /\ spec.bits = file.bits
    /\ pcm_frame_size = file.align
    /\ at = RiffSize + file.fmt_length + IF pc = "data" THEN 0 ELSE DataSize

\* What has been asserted of the spec when there is one.
FramesKnown ==
  pc \in {"opened", "play"} /\ Plain =>
    /\ spec.bits % ByteBits = 0 /\ pcm_frame_size > 0
    /\ spec.samples * pcm_frame_size = file.data_size

\* The numbers that may end the program, as they have been read of any file.
NumbersRead ==
  /\ pc = "fmt" => fmt_length = Read32(file.fmt_length)
  /\ pc = "data" => /\ spec.channels = Read16(file.channels)
                    /\ spec.bits = Read16(file.bits)

IInv ==
  /\ file \in Files
  /\ DOMAIN spec = {"big", "channels", "rate", "bits", "signed", "samples"}
  /\ PartsKnown
  /\ LengthKnown
  /\ SpecKnown
  /\ FramesKnown
  /\ NumbersRead
  /\ ProperIsAccepted
  /\ OnlyOddFilesCrash
-----------------------------------------------------------------------------
(***************************************************************************)
(* How samples lie in memory.  The layout l says whether they are those    *)
(* of a WAV file, with their big end first, how many bytes each has and    *)
(* how many of them make a frame.                                          *)
(***************************************************************************)
\* The bytes of the sample of a channel, in the file or as libFLAC leaves it.
Written(l, frame, c) ==
  IF l.wav
  THEN Bytes(IF l.size = 1 THEN frame[c] + Half(1) ELSE frame[c], l.size, l.big)
  ELSE Bytes(frame[1], l.size, FALSE)

\* The byte at an offset from the first one of all the frames.
ByteAt(l, frames, p) ==
  LET s == p \div l.size
  IN  Written(l, frames[(s \div l.channels) + 1], (s % l.channels) + 1)[(p % l.size) + 1]

\* The bytes of a frame.
FrameBytes(l) == l.channels * l.size

\* A layout of samples that can be played.
IsLayout(l) == l.size \in Nat \ {0} /\ l.channels \in Nat \ {0}

\* The bytes are those of the frames that follow the first h.
Holds(l, frames, h, bytes) ==
  /\ bytes \in Seq(Int)
  /\ Len(bytes) = (Len(frames) - h) * FrameBytes(l)
  /\ \A k \in 1 .. Len(bytes) :
       bytes[k] = ByteAt(l, frames, h * FrameBytes(l) + (k - 1))

\* The samples of a block of frames, channel by channel.
IsWritten(l, block, all) ==
  /\ all \in Seq([1 .. l.size -> Int])
  /\ Len(all) = Len(block) * l.channels
  /\ \A s \in 0 .. Len(all) - 1 :
       all[s + 1] = Written(l, block[(s \div l.channels) + 1], (s % l.channels) + 1)

\* The files of which HeardIsAudible speaks.
Promised == ~file.big /\ (file.codec = "wav" \/ file.bits > ByteBits)

Layout == [wav |-> file.codec = "wav", big |-> file.riff = "RIFX",
           size |-> SampleSize, channels |-> spec.channels]

\* What has been read of how the samples are written.
SpecRead ==
  /\ pc \notin {"riff", "failed", "crashed"} =>
       spec.big = (file.codec = "wav" /\ file.riff = "RIFX")
  /\ pc \in {"opened", "play"} =>
       /\ spec.channels = file.channels /\ spec.channels \in Nat \ {0}
       /\ spec.bits = file.bits /\ spec.signed = IsSigned(file.bits)

\* What ALSA has been told of it.
FormatFits ==
  pc = "play" =>
    /\ SampleSize \in 1 .. 4 /\ spec.bits = SampleSize * ByteBits
    /\ format.big = spec.big /\ format.signed = spec.signed

NothingYet == pc \notin {"play", "failed"} => recorded = <<>> /\ dest = <<>> /\ heard = <<>>

Frames == [1 .. file.channels -> Int]

\* The frames that have been heard are the first of those recorded.
HeardKnown ==
  /\ recorded \in Seq(Frames) /\ heard \in Seq(Frames)
  /\ Len(heard) <= Len(recorded)
  /\ \A i \in 1 .. Len(heard) : heard[i] = Audible(recorded[i])

\* The buffer holds the bytes of those that have not been heard.
BufferKnown ==
  pc = "play" =>
    /\ \A i \in 1 .. Len(recorded) : \A c \in 1 .. file.channels :
         recorded[i][c] \in -Half(SampleSize) .. Half(SampleSize) - 1
    /\ Holds(Layout, recorded, Len(heard), dest)

Sound == Promised => SpecRead /\ FormatFits /\ NothingYet /\ HeardKnown /\ BufferKnown
-----------------------------------------------------------------------------
(***************************************************************************)
(* Numbers.                                                                *)
(***************************************************************************)
\* Division of any number, also of one below zero, which it rounds down.
LEMMA Divided ==
  ASSUME NEW v \in Int, NEW d \in Nat \ {0}
  PROVE  v \div d \in Int /\ v % d \in 0 .. d - 1 /\ v = (v \div d) * d + (v % d)
OBVIOUS

\* There is one way to divide.
LEMMA OneQuotient ==
  ASSUME NEW d \in Nat \ {0}, NEW v \in Int, NEW q \in Int, NEW r \in 0 .. d - 1,
         v = q * d + r
  PROVE  v \div d = q /\ v % d = r
<1> DEFINE p == v \div d
           s == v % d
<1>1. p \in Int /\ s \in 0 .. d - 1 /\ v = p * d + s
  BY Divided
<1> HIDE DEF p, s
<1>2. PICK k \in Int : p = q + k
  <2>1. p - q \in Int /\ p = q + (p - q)
    BY <1>1
  <2>2. QED
    BY <2>1
<1> DEFINE m == k * d
           n == q * d
<1>3. p * d = n + m
  BY <1>2
<1>4. m = r - s
  <2>1. m \in Int /\ n \in Int /\ n + r = n + m + s /\ r \in Int /\ s \in Int
    BY <1>1, <1>2, <1>3
  <2> HIDE DEF m, n
  <2>2. QED
    BY <2>1
<1>5. k >= 1 => m >= d
  BY <1>2
<1>6. k <= -1 => m <= -d
  BY <1>2
<1>7. k = 0
  <2> HIDE DEF m
  <2>1. QED
    BY <1>1, <1>2, <1>4, <1>5, <1>6
<1>8. QED
  BY <1>1, <1>2, <1>4, <1>7 DEF p, s

\* Dividing undoes multiplying.
LEMMA Undone ==
  ASSUME NEW n \in Nat, NEW d \in Nat \ {0}
  PROVE  (n * d) \div d = n /\ (n * d) % d = 0
<1> DEFINE p == n * d
<1>1. p \in Int /\ p = n * d + 0 /\ 0 \in 0 .. d - 1
  OBVIOUS
<1> HIDE DEF p
<1>2. p \div d = n /\ p % d = 0
  BY <1>1, OneQuotient
<1>3. QED
  BY <1>2 DEF p

\* Multiples are left as they are.
LEMMA Shifted ==
  ASSUME NEW d \in Nat \ {0}, NEW j \in Int, NEW t \in Int
  PROVE  (j * d + t) \div d = j + t \div d /\ (j * d + t) % d = t % d
<1> DEFINE q == t \div d
           r == t % d
           v == j * d + t
<1>1. q \in Int /\ r \in 0 .. d - 1 /\ t = q * d + r
  BY Divided
<1> HIDE DEF q, r
<1>2. v \in Int /\ v = (j + q) * d + r
  BY <1>1
<1> HIDE DEF v
<1>3. v \div d = j + q /\ v % d = r
  BY <1>1, <1>2, OneQuotient
<1>4. QED
  BY <1>3 DEF v, q, r

\* What is in front of a multiple.
LEMMA Before ==
  ASSUME NEW d \in Nat \ {0}, NEW m \in Nat, NEW v \in 0 .. m * d - 1
  PROVE  v \div d \in 0 .. m - 1 /\ v % d \in 0 .. d - 1
<1> DEFINE q == v \div d
           r == v % d
           e == m * d
<1>1. q \in Int /\ r \in 0 .. d - 1 /\ v = q * d + r /\ v \in Nat /\ v < e
  <2>1. v \in Int /\ v \in Nat /\ v < e
    BY DEF e
  <2>2. QED
    BY <2>1, Divided
<1> HIDE DEF q, r
<1>2. q <= -1 => q * d <= -d
  BY <1>1
<1>3. q >= 0
  <2> DEFINE x == q * d
  <2>1. x \in Int /\ v = x + r /\ (q <= -1 => x <= -d)
    BY <1>1, <1>2
  <2> HIDE DEF x
  <2>2. QED
    BY <1>1, <2>1
<1>4. q >= m => q * d >= m * d
  BY <1>1
<1>5. q < m
  <2> DEFINE x == q * d
  <2>1. x \in Int /\ e \in Int /\ v = x + r /\ (q >= m => x >= e)
    BY <1>1, <1>4
  <2> HIDE DEF x, e
  <2>2. QED
    BY <1>1, <2>1
<1>6. QED
  BY <1>1, <1>3, <1>5 DEF q, r

\* A digit more of a number.
LEMMA NextDigit ==
  ASSUME NEW v \in Int, NEW w \in Nat \ {0}, NEW b \in Nat \ {0}
  PROVE  /\ v % (w * b) = (v % w) + ((v \div w) % b) * w
         /\ v \div (w * b) = (v \div w) \div b
<1> DEFINE q == v \div w
           r == v % w
<1>1. q \in Int /\ r \in 0 .. w - 1 /\ v = q * w + r
  BY Divided
<1> HIDE DEF q, r
<1> DEFINE p == q \div b
           s == q % b
<1>2. p \in Int /\ s \in 0 .. b - 1 /\ q = p * b + s
  BY <1>1, Divided
<1> HIDE DEF p, s
<1> DEFINE d == w * b
           t == r + s * w
<1>3. d \in Nat \ {0}
  OBVIOUS
<1>4. v = p * d + t
  <2>1. q * w = p * d + s * w
    <3>1. (p * b + s) * w = p * (w * b) + s * w
      BY <1>2
    <3>2. QED
      BY <1>2, <3>1
  <2>2. p * d \in Int /\ s * w \in Int /\ r \in Int
    BY <1>1, <1>2
  <2>3. QED
    BY <1>1, <2>1, <2>2
<1>5. t \in 0 .. d - 1
  <2>1. s * w \in Nat /\ s * w <= (b - 1) * w
    BY <1>2
  <2>2. (b - 1) * w = d - w
    OBVIOUS
  <2> DEFINE x == s * w
  <2>3. x \in Nat /\ x <= d - w /\ r \in Nat /\ r <= w - 1 /\ d \in Nat
    BY <1>1, <1>3, <2>1, <2>2
  <2> HIDE DEF d, x
  <2>4. r + x \in 0 .. d - 1
    BY <2>3
  <2>5. QED
    BY <2>4 DEF x
<1> HIDE DEF d, t
<1>6. v \div d = p /\ v % d = t
  BY <1>2, <1>3, <1>4, <1>5, OneQuotient
<1>7. QED
  BY <1>6 DEF d, t, p, s, q, r
-----------------------------------------------------------------------------
(***************************************************************************)
(* A number and its bytes.                                                 *)
(***************************************************************************)
\* What each byte of a sample counts for.
LEMMA Weights ==
  /\ Byte \in Nat \ {0}
  /\ Weight[1] = 1 /\ Weight[2] = Byte /\ Weight[3] = Byte * Byte
  /\ Weight[4] = Byte * Byte * Byte
  /\ \A n \in 1 .. 4 : Weight[n] \in Nat \ {0}
  /\ \A n \in 1 .. 3 : Weight[n + 1] = Weight[n] * Byte
<1>1. Byte \in Nat \ {0}
  BY SampleAssumption DEF Byte
<1>2. /\ Weight[1] = 1 /\ Weight[2] = Byte /\ Weight[3] = Byte * Byte
      /\ Weight[4] = Byte * Byte * Byte
  BY DEF Weight
<1>3. Byte * Byte \in Nat \ {0} /\ Byte * Byte * Byte \in Nat \ {0}
  <2>1. \A x, y \in Nat \ {0} : x * y \in Nat \ {0}
    OBVIOUS
  <2>2. QED
    BY <1>1, <2>1
<1>4. \A n \in 1 .. 4 : n = 1 \/ n = 2 \/ n = 3 \/ n = 4
  OBVIOUS
<1>5. \A n \in 1 .. 4 : Weight[n] \in Nat \ {0}
  BY <1>1, <1>2, <1>3, <1>4
<1>6. \A n \in 1 .. 3 : n = 1 \/ n = 2 \/ n = 3
  OBVIOUS
<1>7. Weight[1 + 1] = Weight[1] * Byte /\ Weight[2 + 1] = Weight[2] * Byte
      /\ Weight[3 + 1] = Weight[3] * Byte
  BY <1>1, <1>2
<1>8. QED
  BY <1>1, <1>2, <1>5, <1>6, <1>7

\* Half the range of n bytes is half of what n bytes can be.
LEMMA Halves ==
  ASSUME NEW n \in 1 .. 4
  PROVE  Half(n) \in Nat \ {0} /\ 2 * Half(n) = Weight[n] * Byte
<1>1. HalfByte \in Nat \ {0} /\ Weight[n] \in Nat \ {0}
  BY SampleAssumption, Weights
<1>2. QED
  BY <1>1 DEF Half, Byte

\* The digits of a number add up to it, but for what they have no room for.
LEMMA DigitsAddUp ==
  ASSUME NEW v \in Int, NEW n \in 1 .. 4
  PROVE  LET digit(k) == IF k \in 1 .. n THEN ((v \div Weight[k]) % Byte) * Weight[k]
                                          ELSE 0
         IN  digit(1) + digit(2) + digit(3) + digit(4) = v % (Weight[n] * Byte)
<1> DEFINE term(k) == ((v \div Weight[k]) % Byte) * Weight[k]
           digit(k) == IF k \in 1 .. n THEN term(k) ELSE 0
           rest(k) == v % (Weight[k] * Byte)
<1>1. \A k \in 1 .. 4 : term(k) \in Int /\ rest(k) \in Int
  <2>1. TAKE k \in 1 .. 4
  <2>2. Weight[k] \in Nat \ {0} /\ Byte \in Nat \ {0} /\ Weight[k] * Byte \in Nat \ {0}
    BY Weights
  <2>3. (v \div Weight[k]) \in Int
    BY <2>2, Divided
  <2>4. ((v \div Weight[k]) % Byte) \in Int
    BY <2>2, <2>3, Divided
  <2>5. v % (Weight[k] * Byte) \in Int
    <3> DEFINE d == Weight[k] * Byte
    <3>1. d \in Nat \ {0}
      BY <2>2
    <3> HIDE DEF d
    <3>2. v % d \in Int
      BY <3>1, Divided
    <3>3. QED
      BY <3>2 DEF d
  <2>6. QED
    BY <2>2, <2>4, <2>5
<1>2. rest(1) = term(1)
  <2>1. v % 1 = 0
    OBVIOUS
  <2>2. v % (Weight[1] * Byte) = (v % Weight[1]) + ((v \div Weight[1]) % Byte) * Weight[1]
    BY Weights, NextDigit
  <2>3. Weight[1] = 1 /\ term(1) \in Int
    BY <1>1, Weights
  <2>4. QED
    BY <2>1, <2>2, <2>3
<1>3. \A k \in 1 .. 3 : rest(k + 1) = rest(k) + term(k + 1)
  <2>1. TAKE k \in 1 .. 3
  <2>2. Weight[k + 1] \in Nat \ {0} /\ Byte \in Nat \ {0} /\ Weight[k + 1] = Weight[k] * Byte
    BY Weights
  <2>3. v % (Weight[k + 1] * Byte) = (v % Weight[k + 1]) + term(k + 1)
    BY <2>2, NextDigit
  <2>4. QED
    BY <2>2, <2>3
<1>4. rest(2) = rest(1) + term(2) /\ rest(3) = rest(2) + term(3) /\ rest(4) = rest(3) + term(4)
  <2>1. rest(1 + 1) = rest(1) + term(1 + 1) /\ rest(2 + 1) = rest(2) + term(2 + 1)
        /\ rest(3 + 1) = rest(3) + term(3 + 1)
    BY <1>3
  <2> HIDE DEF rest, term
  <2>2. QED
    BY <2>1
<1>5. digit(1) + digit(2) + digit(3) + digit(4) = rest(n)
  <2>1. term(1) \in Int /\ term(2) \in Int /\ term(3) \in Int /\ term(4) \in Int
    BY <1>1
  <2> HIDE DEF rest, term
  <2>2. CASE n = 1
    BY <1>2, <2>1, <2>2
  <2>3. CASE n = 2
    BY <1>2, <1>4, <2>1, <2>3
  <2>4. CASE n = 3
    BY <1>2, <1>4, <2>1, <2>4
  <2>5. CASE n = 4
    BY <1>2, <1>4, <2>1, <2>5
  <2>6. QED
    BY <2>2, <2>3, <2>4, <2>5
<1>6. QED
  BY <1>5

\* A number is read from its bytes in the order in which they were written.
LEMMA NumberOfBytes ==
  ASSUME NEW v \in Int, NEW n \in 1 .. 4, NEW big \in BOOLEAN
  PROVE  Number(Bytes(v, n, big), big) = v % (Weight[n] * Byte)
<1> DEFINE bytes == Bytes(v, n, big)
           digit(k) == IF k \in 1 .. n THEN ((v \div Weight[k]) % Byte) * Weight[k] ELSE 0
           read(k) == IF k \in 1 .. n THEN bytes[Place(k, n, big)] * Weight[k] ELSE 0
<1>1. Len(bytes) = n
  BY DEF Bytes
<1>2. \A k \in 1 .. n : Place(k, n, big) \in 1 .. n /\ Place(Place(k, n, big), n, big) = k
  BY DEF Place
<1>3. \A k \in 1 .. n : bytes[Place(k, n, big)] = (v \div Weight[k]) % Byte
  BY <1>2 DEF Bytes
<1>4. read(1) = digit(1) /\ read(2) = digit(2) /\ read(3) = digit(3) /\ read(4) = digit(4)
  BY <1>3
<1>5. Number(bytes, big) = read(1) + read(2) + read(3) + read(4)
  BY <1>1 DEF Number
<1>6. digit(1) + digit(2) + digit(3) + digit(4) = v % (Weight[n] * Byte)
  BY DigitsAddUp
<1> HIDE DEF bytes, read, digit
<1>7. QED
  BY <1>4, <1>5, <1>6 DEF bytes

\* What is left of a number in the range of n bytes, with a sign.
LEMMA Wrapped ==
  ASSUME NEW half \in Nat \ {0}, NEW v \in -half .. half - 1
  PROVE  v % (2 * half) = IF v < 0 THEN v + 2 * half ELSE v
<1>1. CASE v < 0
  <2>1. v = (-1) * (2 * half) + (v + 2 * half) /\ v + 2 * half \in 0 .. 2 * half - 1
    BY <1>1
  <2>2. QED
    BY <1>1, <2>1, OneQuotient
<1>2. CASE v >= 0
  <2>1. v = 0 * (2 * half) + v /\ v \in 0 .. 2 * half - 1
    BY <1>2
  <2>2. QED
    BY <1>2, <2>1, OneQuotient
<1>3. QED
  BY <1>1, <1>2

\* ALSA makes of the bytes of a sample that sample: of two's complement with a
\* signed format, of an offset with one that is not.
LEMMA HeardOfBytes ==
  ASSUME NEW n \in 1 .. 4, NEW v \in -Half(n) .. Half(n) - 1, format.big \in BOOLEAN
  PROVE  Heard(Bytes(IF format.signed THEN v ELSE v + Half(n), n, format.big)) = v
<1> DEFINE h == Half(n)
           w == IF format.signed THEN v ELSE v + h
           bytes == Bytes(w, n, format.big)
           m == Number(bytes, format.big)
<1>1. h \in Nat \ {0} /\ 2 * h = Weight[n] * Byte
  BY Halves
<1>2. v \in -h .. h - 1 /\ w \in Int
  BY <1>1
<1>3. Len(bytes) = n
  BY DEF Bytes
<1>4. m = w % (2 * h)
  <2> HIDE DEF w, h
  <2>1. QED
    BY <1>1, <1>2, NumberOfBytes
<1>5. Heard(bytes) = IF ~format.signed THEN m - h ELSE IF m < h THEN m ELSE m - 2 * h
  BY <1>3 DEF Heard
<1> HIDE DEF m, bytes, h
<1>6. CASE format.signed
  <2>1. m = IF v < 0 THEN v + 2 * h ELSE v
    BY <1>1, <1>2, <1>4, <1>6, Wrapped
  <2>2. Heard(bytes) = v
    BY <1>1, <1>2, <1>5, <1>6, <2>1
  <2>3. QED
    BY <2>2 DEF bytes, h
<1>7. CASE ~format.signed
  <2>1. w = 0 * (2 * h) + w /\ w \in 0 .. 2 * h - 1 /\ w = v + h
    BY <1>1, <1>2, <1>7
  <2>2. m = v + h
    <3>1. 2 * h \in Nat \ {0}
      BY <1>1
    <3> HIDE DEF w
    <3>2. w % (2 * h) = w
      BY <1>2, <2>1, <3>1, OneQuotient
    <3>3. QED
      BY <1>4, <2>1, <3>2
  <2>3. Heard(bytes) = v
    BY <1>1, <1>2, <1>5, <1>7, <2>2
  <2>4. QED
    BY <2>3 DEF bytes, h
<1>8. QED
  BY <1>6, <1>7
-----------------------------------------------------------------------------
(***************************************************************************)
(* The bytes of a layout.                                                  *)
(***************************************************************************)
\* Where a byte of a frame is.
LEMMA Located ==
  ASSUME NEW n \in Nat \ {0}, NEW C \in Nat \ {0}, NEW j \in Int, NEW k \in Int
  PROVE  /\ (j * (C * n) + k) % n = k % n
         /\ ((j * (C * n) + k) \div n) \div C = j + (k \div n) \div C
         /\ ((j * (C * n) + k) \div n) % C = (k \div n) % C
<1> DEFINE t == k \div n
           m == j * C
           p == j * (C * n) + k
<1>1. p = m * n + k /\ m \in Int
  OBVIOUS
<1>2. t \in Int
  BY Divided
<1> HIDE DEF m, t, p
<1>3. p \div n = m + t /\ p % n = k % n
  BY <1>1, Shifted DEF t
<1>4. (j * C + t) \div C = j + t \div C /\ (j * C + t) % C = t % C
  BY <1>2, Shifted
<1>5. QED
  BY <1>3, <1>4 DEF t, m, p

\* Samples that are joined are found where they were put.
LEMMA JoinedBytes ==
  ASSUME NEW n \in Nat \ {0}, NEW all \in Seq([1 .. n -> Int])
  PROVE  /\ Joined(all, n) \in Seq(Int)
         /\ Len(Joined(all, n)) = Len(all) * n
         /\ \A k \in 1 .. Len(all) * n :
              /\ Joined(all, n)[k] = all[((k - 1) \div n) + 1][((k - 1) % n) + 1]
              /\ ((k - 1) \div n) + 1 \in 1 .. Len(all)
<1> DEFINE len == Len(all)
           total == len * n
           byte(k) == all[((k - 1) \div n) + 1][((k - 1) % n) + 1]
<1>1. len \in Nat /\ total \in Nat
  OBVIOUS
<1>2. \A k \in 1 .. total : /\ ((k - 1) \div n) + 1 \in 1 .. len
                            /\ ((k - 1) % n) + 1 \in 1 .. n
  <2>1. TAKE k \in 1 .. total
  <2> DEFINE v == k - 1
             q == v \div n
             r == v % n
  <2>2. v \in 0 .. total - 1
    BY <1>1
  <2> HIDE DEF v
  <2>3. q \in 0 .. len - 1 /\ r \in 0 .. n - 1
    <3> HIDE DEF len
    <3>1. QED
      BY <1>1, <2>2, Before
  <2> HIDE DEF q, r
  <2>4. q + 1 \in 1 .. len /\ r + 1 \in 1 .. n
    <3> HIDE DEF len
    <3>1. QED
      BY <1>1, <2>3
  <2>5. QED
    BY <2>4 DEF q, r, v
<1>3. \A k \in 1 .. total : byte(k) \in Int
  BY <1>2
<1>4. Joined(all, n) = [k \in 1 .. total |-> byte(k)]
  BY DEF Joined
<1> HIDE DEF total, byte
<1>5. [k \in 1 .. total |-> byte(k)] \in Seq(Int) /\ Len([k \in 1 .. total |-> byte(k)]) = total
  BY <1>1, <1>3
<1>6. QED
  BY <1>2, <1>4, <1>5 DEF total, byte

\* The sample and the frame of a byte.
LEMMA FrameOf ==
  ASSUME NEW n \in Nat \ {0}, NEW C \in Nat \ {0}, NEW a \in Nat,
         NEW v \in 0 .. a * (C * n) - 1
  PROVE  /\ v \div n \in 0 .. a * C - 1
         /\ (v \div n) \div C \in 0 .. a - 1
<1> DEFINE m == a * C
           q == v \div n
<1>1. m \in Nat
  OBVIOUS
<1>2. v \in 0 .. m * n - 1
  BY a * (C * n) = (a * C) * n
<1>3. q \in 0 .. m - 1
  <2> HIDE DEF m
  <2>1. QED
    BY <1>1, <1>2, Before
<1> HIDE DEF q
<1>4. q \div C \in 0 .. a - 1
  BY <1>3, Before
<1>5. QED
  BY <1>3, <1>4 DEF q

\* Neither part of a layout is empty.
LEMMA Layouts ==
  ASSUME NEW l, IsLayout(l)
  PROVE  /\ l.size \in Nat \ {0} /\ l.channels \in Nat \ {0}
         /\ FrameBytes(l) = l.channels * l.size /\ FrameBytes(l) \in Nat \ {0}
<1>1. l.size \in Nat \ {0} /\ l.channels \in Nat \ {0}
  BY DEF IsLayout
<1>2. \A x, y \in Nat \ {0} : x * y \in Nat \ {0}
  OBVIOUS
<1>3. QED
  BY <1>1, <1>2 DEF FrameBytes

\* The same of the bytes of a layout.
LEMMA LayoutFrame ==
  ASSUME NEW l, IsLayout(l), NEW a \in Nat, NEW v \in 0 .. a * FrameBytes(l) - 1
  PROVE  /\ v \in Nat
         /\ v \div l.size \in 0 .. a * l.channels - 1
         /\ (v \div l.size) \div l.channels \in 0 .. a - 1
<1> DEFINE e == a * FrameBytes(l)
<1>1. e \in Nat /\ v \in 0 .. e - 1
  BY Layouts
<1>2. v \in Nat
  <2> HIDE DEF e
  <2>1. QED
    BY <1>1
<1>3. v \in 0 .. a * (l.channels * l.size) - 1
  BY Layouts
<1>4. QED
  BY <1>2, <1>3, Layouts, FrameOf

\* Where a byte of a layout is.
LEMMA LayoutLocated ==
  ASSUME NEW l, IsLayout(l), NEW a \in Nat, NEW v \in Nat
  PROVE  LET p == a * FrameBytes(l) + v
         IN  /\ p % l.size = v % l.size
             /\ (p \div l.size) \div l.channels = a + (v \div l.size) \div l.channels
             /\ (p \div l.size) % l.channels = (v \div l.size) % l.channels
<1> DEFINE n == l.size
           C == l.channels
<1>1. n \in Nat \ {0} /\ C \in Nat \ {0} /\ FrameBytes(l) = C * n /\ a \in Int /\ v \in Int
  BY Layouts
<1> HIDE DEF n, C
<1>2. LET p == a * (C * n) + v
      IN  /\ p % n = v % n
          /\ (p \div n) \div C = a + (v \div n) \div C
          /\ (p \div n) % C = (v \div n) % C
  BY <1>1, Located
<1>3. QED
  BY <1>1, <1>2 DEF n, C

\* The bytes of the first frames are not moved by those that follow,
LEMMA ByteStays ==
  ASSUME NEW l, IsLayout(l), NEW S, NEW frames \in Seq(S), NEW block \in Seq(S),
         NEW v \in 0 .. Len(frames) * FrameBytes(l) - 1
  PROVE  ByteAt(l, frames \o block, v) = ByteAt(l, frames, v)
<1> DEFINE d == (v \div l.size) \div l.channels
           a == Len(frames)
<1>1. a \in Nat
  BY LenProperties
<1>2. d \in 0 .. a - 1
  BY <1>1, LayoutFrame
<1> HIDE DEF d
<1>3. d + 1 \in 1 .. a
  <2> HIDE DEF a
  <2>1. QED
    BY <1>1, <1>2
<1>4. (frames \o block)[d + 1] = frames[d + 1]
  BY <1>3, ConcatProperties
<1>5. QED
  BY <1>4 DEF ByteAt, d

\* and the bytes of those are where they would be alone, counted from there.
LEMMA ByteFollows ==
  ASSUME NEW l, IsLayout(l), NEW S, NEW frames \in Seq(S), NEW block \in Seq(S),
         NEW v \in 0 .. Len(block) * FrameBytes(l) - 1
  PROVE  ByteAt(l, frames \o block, Len(frames) * FrameBytes(l) + v) = ByteAt(l, block, v)
<1> DEFINE a == Len(frames)
           b == Len(block)
           d == (v \div l.size) \div l.channels
           p == a * FrameBytes(l) + v
<1>1. a \in Nat /\ b \in Nat
  BY LenProperties
<1>2. d \in 0 .. b - 1 /\ v \in Nat
  BY <1>1, LayoutFrame
<1>3. /\ p % l.size = v % l.size
      /\ (p \div l.size) \div l.channels = a + d
      /\ (p \div l.size) % l.channels = (v \div l.size) % l.channels
  <2> HIDE DEF a
  <2>1. QED
    BY <1>1, <1>2, LayoutLocated
<1>4. (frames \o block)[(a + d) + 1] = block[d + 1]
  <2>1. \A i \in 1 .. a + b :
          (frames \o block)[i] = IF i <= a THEN frames[i] ELSE block[i - a]
    BY ConcatProperties
  <2> HIDE DEF a, b, d
  <2> DEFINE e == (a + d) + 1
  <2>2. e \in 1 .. a + b /\ ~(e <= a) /\ e - a = d + 1
    BY <1>1, <1>2
  <2> HIDE DEF e
  <2>3. (frames \o block)[e] = block[d + 1]
    BY <2>1, <2>2
  <2>4. QED
    BY <2>3 DEF e
<1> HIDE DEF d, p
<1>5. ByteAt(l, frames \o block, p) = ByteAt(l, block, v)
  BY <1>3, <1>4 DEF ByteAt, d
<1>6. QED
  BY <1>5 DEF p

\* What the samples of a block are as bytes.
LEMMA BlockBytes ==
  ASSUME NEW l, IsLayout(l), NEW block, Len(block) \in Nat, NEW all, IsWritten(l, block, all)
  PROVE  /\ Joined(all, l.size) \in Seq(Int)
         /\ Len(Joined(all, l.size)) = Len(block) * FrameBytes(l)
         /\ \A k \in 1 .. Len(block) * FrameBytes(l) :
              Joined(all, l.size)[k] = ByteAt(l, block, k - 1)
<1> DEFINE n == l.size
           b == Len(block)
           e == b * FrameBytes(l)
<1>1. all \in Seq([1 .. n -> Int]) /\ Len(all) = b * l.channels
  BY DEF IsWritten
<1>2. (b * l.channels) * n = e /\ e \in Nat /\ n \in Nat \ {0}
  <2>1. b \in Nat
    OBVIOUS
  <2> HIDE DEF b
  <2>2. n \in Nat \ {0} /\ l.channels \in Nat \ {0} /\ FrameBytes(l) = l.channels * n
    BY Layouts
  <2> HIDE DEF n
  <2>3. QED
    BY <2>1, <2>2
<1>3. /\ Joined(all, n) \in Seq(Int) /\ Len(Joined(all, n)) = Len(all) * n
      /\ \A k \in 1 .. Len(all) * n :
           Joined(all, n)[k] = all[((k - 1) \div n) + 1][((k - 1) % n) + 1]
  <2> HIDE DEF n
  <2>1. QED
    BY <1>1, <1>2, JoinedBytes
<1>4. Len(all) * n = e
  BY <1>1, <1>2
<1>5. ASSUME NEW k \in 1 .. e
      PROVE  Joined(all, n)[k] = ByteAt(l, block, k - 1)
  <2> DEFINE v == k - 1
             s == v \div n
  <2>1. Joined(all, n)[k] = all[s + 1][(v % n) + 1]
    BY <1>3, <1>4
  <2>2. v \in 0 .. e - 1
    <3> HIDE DEF e
    <3>1. QED
      BY <1>2
  <2> HIDE DEF v
  <2>3. s \in 0 .. b * l.channels - 1
    BY <2>2, LayoutFrame
  <2> HIDE DEF s
  <2>4. all[s + 1] = Written(l, block[(s \div l.channels) + 1], (s % l.channels) + 1)
    BY <1>1, <2>3 DEF IsWritten
  <2>5. QED
    BY <2>1, <2>4 DEF ByteAt, s, v
<1>6. QED
  BY <1>3, <1>4, <1>5

\* A block of frames is held by the buffer when its bytes have been appended.
LEMMA BlockHeld ==
  ASSUME NEW l, IsLayout(l), NEW S, NEW frames \in Seq(S), NEW block \in Seq(S),
         NEW h \in 0 .. Len(frames), NEW bytes, Holds(l, frames, h, bytes),
         NEW all, IsWritten(l, block, all)
  PROVE  Holds(l, frames \o block, h, bytes \o Joined(all, l.size))
<1> DEFINE F == FrameBytes(l)
           a == Len(frames)
           b == Len(block)
           both == frames \o block
           more == Joined(all, l.size)
           new == bytes \o more
           old == Len(bytes)
           gone == h * F
<1>1. F \in Nat \ {0} /\ a \in Nat /\ b \in Nat /\ h \in Nat
  <2>1. a \in Nat /\ b \in Nat
    BY LenProperties
  <2>2. QED
    BY <2>1, Layouts
<1>2. more \in Seq(Int) /\ Len(more) = b * F
      /\ \A k \in 1 .. b * F : more[k] = ByteAt(l, block, k - 1)
  BY <1>1, BlockBytes
<1>3. /\ bytes \in Seq(Int) /\ old = (a - h) * F
      /\ \A k \in 1 .. old : bytes[k] = ByteAt(l, frames, gone + (k - 1))
  BY DEF Holds
<1>4. Len(both) = a + b
  BY ConcatProperties
<1>5. /\ new \in Seq(Int) /\ Len(new) = old + Len(more)
      /\ \A k \in 1 .. old + Len(more) :
           new[k] = IF k <= old THEN bytes[k] ELSE more[k - old]
  BY <1>2, <1>3, ConcatProperties
<1>6. old \in Nat /\ Len(more) \in Nat
  BY <1>2, <1>3, LenProperties
<1> DEFINE size == Len(more)
           last == a * F
<1>7. gone + old = last /\ gone \in Nat /\ last \in Nat /\ old + size = (Len(both) - h) * F
  <2> HIDE DEF F, a, b, old, size
  <2>1. h * F + (a - h) * F = a * F /\ h * F \in Nat /\ a * F \in Nat
        /\ (a - h) * F + b * F = (a + b - h) * F
    BY <1>1
  <2>2. old = (a - h) * F /\ size = b * F
    BY <1>2, <1>3 DEF size
  <2> HIDE DEF both
  <2>3. (Len(both) - h) * F = (a - h) * F + b * F
    BY <1>1, <1>4, <2>1
  <2>4. QED
    BY <2>1, <2>2, <2>3
<1>8. \A v \in 0 .. last - 1 : ByteAt(l, both, v) = ByteAt(l, frames, v)
  BY ByteStays
<1>9. \A v \in 0 .. size - 1 : ByteAt(l, both, last + v) = ByteAt(l, block, v)
  BY <1>2, ByteFollows
<1>10. \A k \in 1 .. size : more[k] = ByteAt(l, block, k - 1)
  BY <1>2
<1> HIDE DEF F, a, b, both, more, new, old, gone, size, last
<1>11. ASSUME NEW k \in 1 .. old
       PROVE  new[k] = ByteAt(l, both, gone + (k - 1))
  <2>1. gone + (k - 1) \in 0 .. last - 1
    BY <1>6, <1>7
  <2>2. k \in 1 .. old + size /\ k <= old
    BY <1>6 DEF size
  <2>3. QED
    BY <1>3, <1>5, <1>8, <2>1, <2>2 DEF size
<1>12. ASSUME NEW k \in old + 1 .. old + size
       PROVE  new[k] = ByteAt(l, both, gone + (k - 1))
  <2> DEFINE m == k - old
             v == m - 1
  <2>1. k \in 1 .. old + size /\ ~(k <= old) /\ m \in 1 .. size
        /\ v \in 0 .. size - 1 /\ gone + (k - 1) = last + v
    BY <1>6, <1>7 DEF size
  <2>2. new[k] = more[m]
    BY <1>5, <2>1 DEF size
  <2>3. more[m] = ByteAt(l, block, v)
    BY <1>10, <2>1
  <2> HIDE DEF v
  <2>4. QED
    BY <1>9, <2>1, <2>2, <2>3
<1>13. \A k \in 1 .. Len(new) : new[k] = ByteAt(l, both, gone + (k - 1))
  <2>1. \A k \in 1 .. old + size : k \in 1 .. old \/ k \in old + 1 .. old + size
    BY <1>6 DEF size
  <2>2. Len(new) = old + size
    BY <1>5 DEF size
  <2>3. QED
    BY <1>11, <1>12, <2>1, <2>2
<1>14. Len(new) = (Len(both) - h) * F
  <2>1. Len(new) = old + size
    BY <1>5 DEF size
  <2>2. QED
    BY <1>7, <2>1
<1>15. QED
  BY <1>5, <1>13, <1>14 DEF Holds, new, both, more, gone, F

\* A byte of the frame that is next.
LEMMA NextByte ==
  ASSUME NEW l, IsLayout(l), NEW frames, NEW h \in Nat,
         NEW c \in 1 .. l.channels, NEW k \in 1 .. l.size
  PROVE  /\ (c - 1) * l.size + k \in 1 .. FrameBytes(l)
         /\ ByteAt(l, frames, h * FrameBytes(l) + (((c - 1) * l.size + k) - 1))
              = Written(l, frames[h + 1], c)[k]
<1> DEFINE n == l.size
           C == l.channels
           v == (c - 1) * n + (k - 1)
           p == h * FrameBytes(l) + v
<1>1. /\ n \in Nat \ {0} /\ C \in Nat \ {0} /\ FrameBytes(l) = C * n
      /\ c \in 1 .. C /\ k \in 1 .. n
  BY Layouts
<1> HIDE DEF n, C
<1>2. (c - 1) * n \in Nat /\ (c - 1) * n <= (C - 1) * n /\ (C - 1) * n = C * n - n
      /\ C * n \in Nat
  BY <1>1
<1> DEFINE x == (c - 1) * n
           F == C * n
<1>3. x + k \in 1 .. F /\ (x + k) - 1 = v /\ v \in Nat
  <2>1. x \in Nat /\ x <= F - n /\ F \in Nat
    BY <1>2
  <2> HIDE DEF x, F
  <2>2. x + k \in 1 .. F /\ (x + k) - 1 = x + (k - 1) /\ x + (k - 1) \in Nat
    BY <1>1, <2>1
  <2>3. QED
    BY <2>2 DEF x
<1>4. v \div n = c - 1 /\ v % n = k - 1
  <2> DEFINE r == k - 1
             q == c - 1
  <2>1. r \in 0 .. n - 1 /\ q \in Int /\ v = q * n + r /\ v \in Int
    BY <1>1, <1>3
  <2> HIDE DEF r, q, v
  <2>2. v \div n = q /\ v % n = r
    BY <1>1, <2>1, OneQuotient
  <2>3. QED
    BY <2>2 DEF r, q
<1>5. (c - 1) \div C = 0 /\ (c - 1) % C = c - 1
  <2> DEFINE q == c - 1
  <2>1. q \in 0 .. C - 1 /\ q = 0 * C + q /\ q \in Int
    BY <1>1
  <2> HIDE DEF q
  <2>2. q \div C = 0 /\ q % C = q
    BY <1>1, <2>1, OneQuotient
  <2>3. QED
    BY <2>2 DEF q
<1>6. /\ p % n = k - 1 /\ (p \div n) \div C = h /\ (p \div n) % C = c - 1
  <2>1. /\ p % n = v % n /\ (p \div n) \div C = h + (v \div n) \div C
        /\ (p \div n) % C = (v \div n) % C
    <3> HIDE DEF v
    <3>1. QED
      BY <1>3, LayoutLocated DEF n, C
  <2> HIDE DEF p, v
  <2>2. QED
    BY <1>4, <1>5, <2>1
<1>7. (c - 1) + 1 = c /\ (k - 1) + 1 = k
  BY <1>1
<1> HIDE DEF p
<1>8. ByteAt(l, frames, p) = Written(l, frames[h + 1], c)[k]
  BY <1>6, <1>7 DEF ByteAt, n, C
<1>9. QED
  BY <1>1, <1>3, <1>8 DEF p, n, C

\* When ALSA takes a frame, it gets the samples of the one that is next, and the
\* buffer holds those that follow.
LEMMA FrameTaken ==
  ASSUME NEW l, IsLayout(l), NEW S, NEW frames \in Seq(S),
         NEW h \in 0 .. Len(frames), NEW bytes, Holds(l, frames, h, bytes),
         Len(bytes) >= FrameBytes(l)
  PROVE  /\ h + 1 \in 0 .. Len(frames)
         /\ Holds(l, frames, h + 1, SubSeq(bytes, FrameBytes(l) + 1, Len(bytes)))
         /\ \A c \in 1 .. l.channels :
              SubSeq(bytes, (c - 1) * l.size + 1, c * l.size) = Written(l, frames[h + 1], c)
<1> DEFINE F == FrameBytes(l)
           a == Len(frames)
           old == Len(bytes)
           new == SubSeq(bytes, F + 1, old)
<1>1. F \in Nat \ {0} /\ a \in Nat /\ h \in Nat
  <2>1. a \in Nat
    BY LenProperties
  <2>2. QED
    BY <2>1, Layouts
<1>2. /\ bytes \in Seq(Int) /\ old = (a - h) * F /\ old \in Nat
      /\ \A k \in 1 .. old : bytes[k] = ByteAt(l, frames, h * F + (k - 1))
  BY DEF Holds
<1>3. old >= F
  OBVIOUS
<1>4. h + 1 \in 0 .. a /\ old - F = (a - (h + 1)) * F
  <2> HIDE DEF F, a, old
  <2>1. h <= a
    BY DEF a
  <2>2. h # a
    <3>1. SUFFICES ASSUME h = a PROVE FALSE
      OBVIOUS
    <3>2. (a - h) * F = 0
      BY <1>1, <3>1
    <3>3. QED
      BY <1>1, <1>2, <1>3, <3>2
  <2>3. (a - (h + 1)) * F = (a - h) * F - F
    BY <1>1
  <2>4. QED
    BY <1>1, <1>2, <2>1, <2>2, <2>3
<1>5. /\ new \in Seq(Int) /\ Len(new) = old - F
      /\ \A k \in 1 .. old - F : new[k] = bytes[F + k]
  <2>1. \A i \in F + 1 .. old : bytes[i] \in Int
    <3> HIDE DEF F
    <3>1. \A i \in F + 1 .. old : i \in 1 .. old
      BY <1>1, <1>2
    <3>2. QED
      BY <1>2, <3>1, ElementOfSeq
  <2> HIDE DEF F
  <2>2. /\ new \in Seq(Int) /\ Len(new) = IF F + 1 <= old THEN old - (F + 1) + 1 ELSE 0
        /\ \A k \in 1 .. old - (F + 1) + 1 : new[k] = bytes[F + 1 + k - 1]
    BY <1>1, <1>2, <2>1, SubSeqProperties
  <2> HIDE DEF old, new
  <2>3. old - (F + 1) + 1 = old - F /\ \A k \in Int : F + 1 + k - 1 = F + k
    BY <1>1, <1>2
  <2>4. QED
    BY <1>1, <1>2, <1>3, <2>2, <2>3
<1>6. \A k \in 1 .. Len(new) : new[k] = ByteAt(l, frames, (h + 1) * F + (k - 1))
  <2> HIDE DEF F, a, old, new
  <2>1. TAKE k \in 1 .. Len(new)
  <2>2. k \in 1 .. old - F /\ F + k \in 1 .. old /\ (F + k) - 1 = F + (k - 1)
    BY <1>1, <1>2, <1>5
  <2>3. new[k] = ByteAt(l, frames, h * F + ((F + k) - 1))
    BY <1>2, <1>5, <2>2
  <2>4. h * F + (F + (k - 1)) = (h + 1) * F + (k - 1)
    BY <1>1, <2>2
  <2>5. QED
    BY <2>2, <2>3, <2>4
<1>7. Holds(l, frames, h + 1, new)
  BY <1>4, <1>5, <1>6 DEF Holds
<1>8. ASSUME NEW c \in 1 .. l.channels
      PROVE  SubSeq(bytes, (c - 1) * l.size + 1, c * l.size) = Written(l, frames[h + 1], c)
  <2> DEFINE n == l.size
             x == (c - 1) * n
             z == c * n
             s == SubSeq(bytes, x + 1, z)
             w == Written(l, frames[h + 1], c)
  <2>1. n \in Nat \ {0} /\ x \in Nat /\ z = x + n /\ z \in Nat
    <3>1. n \in Nat \ {0} /\ c - 1 \in Nat /\ c \in Nat
      BY Layouts
    <3> HIDE DEF n
    <3>2. QED
      BY <3>1
  <2>2. \A k \in 1 .. n : /\ x + k \in 1 .. F
                          /\ ByteAt(l, frames, h * F + ((x + k) - 1)) = w[k]
    BY <1>1, NextByte
  <2> HIDE DEF F, a, old, n, x, z, w
  <2>3. \A k \in 1 .. n : x + k \in 1 .. old
    <3>1. TAKE k \in 1 .. n
    <3>2. x + k \in 1 .. F
      BY <2>2
    <3> DEFINE i == x + k
    <3> HIDE DEF i
    <3>3. i \in 1 .. F => i \in 1 .. old
      BY <1>1, <1>2, <1>3
    <3>4. QED
      BY <3>2, <3>3 DEF i
  <2>4. \A k \in 1 .. n : bytes[x + k] = w[k]
    BY <1>2, <2>2, <2>3
  <2>5. \A i \in x + 1 .. z : bytes[i] \in Int
    <3>1. TAKE i \in x + 1 .. z
    <3>2. i - x \in 1 .. n /\ x + (i - x) = i
      BY <2>1
    <3>3. i \in 1 .. old
      BY <2>3, <3>2
    <3>4. QED
      BY <1>2, <3>3, ElementOfSeq DEF old
  <2>6. /\ s \in Seq(Int) /\ Len(s) = IF x + 1 <= z THEN z - (x + 1) + 1 ELSE 0
        /\ \A k \in 1 .. z - (x + 1) + 1 : s[k] = bytes[x + 1 + k - 1]
    BY <2>1, <2>5, SubSeqProperties
  <2> HIDE DEF s
  <2>7. z - (x + 1) + 1 = n /\ x + 1 <= z /\ \A k \in Int : x + 1 + k - 1 = x + k
    BY <2>1
  <2>8. Len(s) = n /\ \A k \in 1 .. n : s[k] = w[k]
    <3>1. Len(s) = n /\ \A k \in 1 .. n : s[k] = bytes[x + 1 + k - 1]
      BY <2>6, <2>7
    <3>2. \A k \in 1 .. n : bytes[x + 1 + k - 1] = bytes[x + k]
      BY <2>1, <2>7
    <3>3. QED
      BY <2>4, <3>1, <3>2
  <2>9. s = [k \in 1 .. n |-> s[k]]
    BY <2>6, <2>8, LenProperties
  <2>10. w = [k \in 1 .. n |-> w[k]]
    BY DEF w, Written, Bytes, n
  <2>11. s = w
    BY <2>8, <2>9, <2>10
  <2>12. QED
    BY <2>11 DEF s, w, x, z, n
<1>9. QED
  BY <1>4, <1>7, <1>8
-----------------------------------------------------------------------------
(***************************************************************************)
(* Files.                                                                  *)
(***************************************************************************)
\* What is known of the fields of a file.
LEMMA FileFields ==
  ASSUME file \in Files
  PROVE  /\ file.codec \in {"wav", "flac"}
         /\ {file.fmt_length, file.channels, file.rate, file.avg, file.align, file.bits,
             file.data_size, file.size} \subseteq Nat
         /\ ByteBits \in Nat \ {0} /\ Int32 \in Int
         /\ file.rate < Int32 /\ Int32 > 0
<1>1. file \in FileType
  BY HeaderAssumption
<1>2. \A n, m : n \in 0 .. m => n \in Nat
  OBVIOUS
<1>3. {file.channels, file.align, file.bits} \subseteq Nat
  BY <1>1, <1>2 DEF FileType, Short
<1>4. Int32 \in Int
  BY HeaderAssumption DEF Int32
<1>5. file.rate \in 0 .. Int32 - 1
  BY HeaderAssumption
<1>6. QED
  BY <1>1, <1>3, <1>4, <1>5, HeaderAssumption DEF FileType

\* The sizes that a proper header gives are those that are computed.
LEMMA ProperSizes ==
  ASSUME file \in Files, Proper
  PROVE  /\ file.bits % ByteBits = 0
         /\ ExpectedAlign(file.channels, file.bits) = file.align
         /\ ExpectedAvg(file.rate, file.channels, file.bits) = file.avg
         /\ file.align > 0
<1>1. PICK n \in 1 .. 4 : file.bits = n * ByteBits
  BY DEF Proper
<1>2. /\ {file.channels, file.rate, file.bits, file.align, file.avg} \subseteq Nat
      /\ ByteBits \in Nat \ {0} /\ Int32 \in Int
  BY FileFields
<1>3. n \in Nat \ {0} /\ file.channels \in Nat \ {0} /\ file.rate \in Nat \ {0}
  BY <1>2 DEF Proper
<1>4. file.bits \div ByteBits = n /\ file.bits % ByteBits = 0
  BY <1>1, <1>2, <1>3, Undone
<1>5. file.align = file.channels * n /\ file.align \in Nat \ {0}
  <2>1. file.align = file.channels * n
    BY <1>4 DEF Proper
  <2>2. file.channels * n \in Nat \ {0}
    BY <1>3
  <2>3. QED
    BY <2>1, <2>2
<1>6. file.channels * file.bits = file.align * ByteBits
  BY <1>1, <1>2, <1>3, <1>5
<1>7. ExpectedAlign(file.channels, file.bits) = file.align
  BY <1>2, <1>6, Undone DEF ExpectedAlign
<1>8. file.rate * file.channels * file.bits = (file.rate * file.align) * ByteBits
  <2>1. file.rate * file.channels * file.bits = file.rate * (file.channels * file.bits)
    BY <1>2
  <2>2. file.rate * (file.align * ByteBits) = (file.rate * file.align) * ByteBits
    BY <1>2
  <2>3. QED
    BY <1>6, <2>1, <2>2
<1>9. file.rate * file.align \in Nat
  BY <1>2
<1>10. ExpectedAvg(file.rate, file.channels, file.bits) = file.avg
  <2> DEFINE a == file.rate * file.align
             p == file.rate * file.channels * file.bits
  <2>1. p < Int32 /\ file.avg = a
    BY DEF Proper
  <2>2. p = a * ByteBits /\ a \in Nat /\ p \in Nat
    <3>1. p = a * ByteBits
      BY <1>8
    <3> HIDE DEF p
    <3>2. a \in Nat
      BY <1>9
    <3> HIDE DEF a
    <3>3. QED
      BY <1>2, <3>1, <3>2
  <2>3. (p % Int32) \div ByteBits = ExpectedAvg(file.rate, file.channels, file.bits)
    BY DEF ExpectedAvg
  <2> HIDE DEF a, p
  <2>4. p % Int32 = p
    BY <1>2, <2>1, <2>2
  <2>5. p \div ByteBits = a
    BY <1>2, <2>2, Undone
  <2>6. QED
    BY <2>1, <2>3, <2>4, <2>5
<1>11. QED
  BY <1>4, <1>5, <1>7, <1>10
-----------------------------------------------------------------------------
(***************************************************************************)
(* The three parts of a WAV header.                                        *)
(***************************************************************************)
LEMMA InitInvariant == ASSUME Init PROVE IInv
<1>1. /\ file \in Files /\ at = 0 /\ error = "none"
      /\ spec = [big |-> FALSE, channels |-> 0, rate |-> 0, bits |-> 0,
                 signed |-> FALSE, samples |-> 0]
      /\ pc = IF file.codec = "wav" THEN "riff" ELSE "metadata"
  BY DEF Init, HeaderInit
<1>2. file.codec \in {"wav", "flac"}
  BY <1>1, FileFields
<1>3. pc \in {"riff", "metadata"}
  BY <1>1
<1>4. PartsKnown
  BY <1>1, <1>2, <1>3 DEF PartsKnown
<1>5. LengthKnown /\ SpecKnown /\ FramesKnown /\ NumbersRead
  BY <1>3 DEF LengthKnown, SpecKnown, FramesKnown, NumbersRead
<1>6. ProperIsAccepted /\ OnlyOddFilesCrash
  BY <1>1, <1>3 DEF ProperIsAccepted, Refused, OnlyOddFilesCrash
<1>7. QED
  BY <1>1, <1>4, <1>5, <1>6 DEF IInv

\* A file that goes on being as it is.
LEMMA SameFile ==
  ASSUME UNCHANGED file
  PROVE  /\ Plain' = Plain /\ Proper' = Proper /\ Odd' = Odd
         /\ \A v : Read16(v)' = Read16(v) /\ Read32(v)' = Read32(v)
BY DEF Plain, Proper, Odd, Read16, Read32

\* The ways in which reading fails.
LEMMA FailedReadKeeps ==
  ASSUME IInv, UNCHANGED <<file, at, fmt_length, spec>>,
         pc' = "failed" /\ error' = "eio"
  PROVE  IInv'
<1>1. PartsKnown' /\ LengthKnown' /\ SpecKnown' /\ FramesKnown' /\ NumbersRead'
  BY DEF PartsKnown, LengthKnown, SpecKnown, FramesKnown, NumbersRead
<1>2. ProperIsAccepted' /\ OnlyOddFilesCrash'
  BY DEF ProperIsAccepted, Refused, OnlyOddFilesCrash
<1>3. QED
  BY <1>1, <1>2 DEF IInv

\* A file that is refused, as no proper one is.
LEMMA RefusedKeeps ==
  ASSUME IInv, UNCHANGED file, DOMAIN spec' = DOMAIN spec,
         pc' = "failed" /\ error' = "einval", ~(Plain /\ Proper)
  PROVE  IInv'
<1>1. PartsKnown' /\ LengthKnown' /\ SpecKnown' /\ FramesKnown' /\ NumbersRead'
  BY DEF PartsKnown, LengthKnown, SpecKnown, FramesKnown, NumbersRead
<1>2. ProperIsAccepted' /\ OnlyOddFilesCrash'
  BY SameFile DEF ProperIsAccepted, Refused, OnlyOddFilesCrash, Plain
<1>3. QED
  BY <1>1, <1>2 DEF IInv

\* A file that ends the program, as only an odd one does.
LEMMA CrashKeeps ==
  ASSUME IInv, UNCHANGED file, DOMAIN spec' = DOMAIN spec, pc' = "crashed",
         ~(Plain /\ Proper), Odd
  PROVE  IInv'
<1>1. PartsKnown' /\ LengthKnown' /\ SpecKnown' /\ FramesKnown' /\ NumbersRead'
  BY DEF PartsKnown, LengthKnown, SpecKnown, FramesKnown, NumbersRead
<1>2. ProperIsAccepted' /\ OnlyOddFilesCrash'
  BY SameFile DEF ProperIsAccepted, Refused, OnlyOddFilesCrash, Plain
<1>3. QED
  BY <1>1, <1>2 DEF IInv

LEMMA RiffKeeps == ASSUME IInv, validate_wav_header PROVE IInv'
<1>1. pc = "riff" /\ UNCHANGED file /\ at = 0 /\ file.codec = "wav"
  BY DEF validate_wav_header, IInv, PartsKnown
<1>2. ~TooLarge(RiffSize)
  BY HeaderAssumption DEF TooLarge, RiffSize
<1>3. CASE Fail("eio") /\ UNCHANGED <<at, fmt_length, spec>>
  BY <1>1, <1>3, FailedReadKeeps DEF Fail
<1>4. CASE /\ file.riff \in {"RIFF", "RIFX"} /\ file.wave /\ file.fmt
           /\ Accept("fmt") /\ at' = at + RiffSize
           /\ fmt_length' = Read32(file.fmt_length)
           /\ spec' = [spec EXCEPT !.big = file.riff = "RIFX"]
  <2>1. pc' = "fmt" /\ error' = error /\ at' = RiffSize /\ DOMAIN spec' = DOMAIN spec
    BY <1>1, <1>4 DEF Accept, RiffSize
  <2>2. Plain => fmt_length' = file.fmt_length
    BY <1>4 DEF Plain, Read32
  <2>3. PartsKnown' /\ LengthKnown' /\ SpecKnown' /\ FramesKnown' /\ NumbersRead'
    BY <1>1, <1>4, <2>1, <2>2, SameFile
       DEF PartsKnown, LengthKnown, SpecKnown, FramesKnown, NumbersRead
  <2>4. ProperIsAccepted' /\ OnlyOddFilesCrash'
    BY <1>1, <2>1, SameFile DEF IInv, ProperIsAccepted, Refused, OnlyOddFilesCrash
  <2>5. QED
    BY <1>1, <2>1, <2>3, <2>4 DEF IInv
<1>5. CASE /\ ~(file.riff \in {"RIFF", "RIFX"} /\ file.wave /\ file.fmt)
           /\ Fail("einval") /\ UNCHANGED <<fmt_length, spec>>
  BY <1>1, <1>5, RefusedKeeps DEF Fail, Proper
<1>6. QED
  BY <1>2, <1>3, <1>4, <1>5 DEF validate_wav_header, io_rf_stream_read

LEMMA FmtKeeps == ASSUME IInv, validate_wav_fmt_chunk_header PROVE IInv'
<1> DEFINE channels == Read16(file.channels)
           rate == Read32(file.rate)
           bits == Read16(file.bits)
           Agrees == /\ Read16(file.format_type) = 1
                     /\ Read32(file.avg) = ExpectedAvg(rate, channels, bits)
                     /\ Read16(file.align) = ExpectedAlign(channels, bits)
           Stored == spec' = [spec EXCEPT !.channels = channels, !.rate = rate,
                                          !.bits = bits]
<1>1. pc = "fmt" /\ UNCHANGED file /\ file.codec = "wav"
  BY DEF validate_wav_fmt_chunk_header, IInv, PartsKnown
<1>2. Plain => /\ at = RiffSize /\ fmt_length = file.fmt_length
               /\ channels = file.channels /\ rate = file.rate /\ bits = file.bits
               /\ Read16(file.format_type) = file.format_type
               /\ Read32(file.avg) = file.avg /\ Read16(file.align) = file.align
  BY <1>1 DEF IInv, LengthKnown, Plain, Read16, Read32
<1>3. Plain /\ Proper => ~TooShort /\ ~TooLarge(fmt_length) /\ Agrees
  <2>1. SUFFICES ASSUME Plain, Proper PROVE ~TooShort /\ ~TooLarge(fmt_length) /\ Agrees
    OBVIOUS
  <2>2. fmt_length \in {16, 18, 40} /\ file.format_type = 1
    BY <1>2, <2>1 DEF Proper
  <2>3. ~TooShort /\ ~TooLarge(fmt_length)
    BY <2>2, HeaderAssumption DEF TooShort, FmtSize, TooLarge
  <2>4. Agrees
    BY <1>2, <2>1, <2>2, ProperSizes DEF IInv
  <2>5. QED
    BY <2>3, <2>4
<1>4. CASE TooShort /\ Fail("einval") /\ UNCHANGED <<at, fmt_length, spec>>
  BY <1>1, <1>3, <1>4, RefusedKeeps DEF Fail
<1>5. CASE TooLarge(fmt_length) /\ pc' = "crashed" /\ UNCHANGED <<at, fmt_length, spec, error>>
  <2>1. Odd
    BY <1>1, <1>5, FileFields DEF IInv, NumbersRead, TooLarge, Odd
  <2>2. QED
    BY <1>1, <1>3, <1>5, <2>1, CrashKeeps
<1>6. CASE Fail("eio") /\ UNCHANGED <<at, fmt_length, spec>>
  BY <1>1, <1>6, FailedReadKeeps DEF Fail
<1>7. CASE Stored /\ at' = at + fmt_length /\ Agrees /\ Accept("data")
  <2>1. pc' = "data" /\ error' = error /\ DOMAIN spec' = DOMAIN spec
    BY <1>7 DEF Accept
  <2>2. spec'.channels = channels /\ spec'.rate = rate /\ spec'.bits = bits
    BY <1>7 DEF IInv
  <2>3. SpecKnown'
    <3>1. SUFFICES ASSUME Plain
                   PROVE  /\ spec'.channels = file.channels /\ spec'.rate = file.rate
                          /\ spec'.bits = file.bits /\ pcm_frame_size' = file.align
                          /\ at' = RiffSize + file.fmt_length + 0
      BY <1>1, <2>1, SameFile DEF SpecKnown
    <3>2. pcm_frame_size' = ExpectedAlign(channels, bits)
      BY <2>2 DEF pcm_frame_size, ExpectedAlign
    <3>3. pcm_frame_size' = file.align
      BY <1>2, <1>7, <3>1, <3>2
    <3>4. at' = RiffSize + file.fmt_length + 0
      <4>1. file.fmt_length \in Nat
        BY FileFields DEF IInv
      <4>2. QED
        BY <1>2, <1>7, <3>1, <4>1 DEF RiffSize
    <3>5. QED
      BY <1>2, <2>2, <3>1, <3>3, <3>4
  <2>4. PartsKnown' /\ LengthKnown' /\ FramesKnown' /\ NumbersRead'
    BY <1>1, <2>1, <2>2, SameFile DEF PartsKnown, LengthKnown, FramesKnown, NumbersRead
  <2>5. ProperIsAccepted' /\ OnlyOddFilesCrash'
    BY <1>1, <2>1, SameFile DEF IInv, ProperIsAccepted, Refused, OnlyOddFilesCrash
  <2>6. QED
    BY <1>1, <2>1, <2>3, <2>4, <2>5 DEF IInv
<1>8. CASE (Stored \/ UNCHANGED spec) /\ ~Agrees /\ Fail("einval")
  <2>1. DOMAIN spec' = DOMAIN spec
    BY <1>8
  <2>2. QED
    BY <1>1, <1>3, <1>8, <2>1, RefusedKeeps DEF Fail
<1>9. QED
  BY <1>4, <1>5, <1>6, <1>7, <1>8 DEF validate_wav_fmt_chunk_header, io_rf_stream_read

\* A number of whole frames.
LEMMA WholeFrames ==
  ASSUME NEW size \in Nat, NEW frame \in Nat \ {0}, size % frame = 0
  PROVE  (size \div frame) * frame = size
<1> DEFINE q == size \div frame
           r == size % frame
<1>1. q \in Int /\ r = 0 /\ size = q * frame + r
  BY Divided
<1> HIDE DEF q, r
<1>2. q * frame = size
  BY <1>1
<1>3. QED
  BY <1>2 DEF q

LEMMA DataKeeps == ASSUME IInv, validate_wav_data_chunk_header PROVE IInv'
<1> DEFINE size == Read32(file.data_size)
<1>1. pc = "data" /\ UNCHANGED file /\ file.codec = "wav"
  BY DEF validate_wav_data_chunk_header, IInv, PartsKnown
<1>2. ~TooLarge(DataSize)
  BY HeaderAssumption DEF TooLarge, DataSize
<1>3. Plain => /\ spec.channels = file.channels /\ spec.rate = file.rate
               /\ spec.bits = file.bits /\ pcm_frame_size = file.align
               /\ pcm_frame_size = (file.channels * file.bits) \div ByteBits
               /\ at = RiffSize + file.fmt_length + 0 /\ size = file.data_size
  BY <1>1 DEF IInv, SpecKnown, pcm_frame_size, Plain, Read32
<1>4. Plain /\ Proper => /\ spec.bits % ByteBits = 0 /\ pcm_frame_size # 0
                         /\ file.data /\ size % pcm_frame_size = 0
  <2>1. SUFFICES ASSUME Plain, Proper
                 PROVE  /\ spec.bits % ByteBits = 0 /\ pcm_frame_size # 0
                        /\ file.data /\ size % pcm_frame_size = 0
    OBVIOUS
  <2>2. file.bits % ByteBits = 0 /\ file.align > 0 /\ file.align \in Nat
    BY <2>1, ProperSizes, FileFields DEF IInv
  <2>3. file.data /\ file.data_size % file.align = 0
    BY <2>1 DEF Proper
  <2>4. file.align # 0
    BY <2>2
  <2>5. QED
    BY <1>3, <2>1, <2>2, <2>3, <2>4
<1>5. CASE Fail("eio") /\ UNCHANGED <<at, fmt_length, spec>>
  BY <1>1, <1>5, FailedReadKeeps DEF Fail
<1>6. CASE /\ ~file.data \/ size % pcm_frame_size # 0
           /\ Fail("einval") /\ UNCHANGED <<fmt_length, spec>>
  BY <1>1, <1>4, <1>6, RefusedKeeps DEF Fail
<1>7. CASE /\ spec.bits % ByteBits # 0 \/ pcm_frame_size = 0
           /\ pc' = "crashed" /\ UNCHANGED <<fmt_length, spec, error>>
  <2>1. Odd
    BY <1>1, <1>7 DEF IInv, NumbersRead, pcm_frame_size, Odd
  <2>2. QED
    BY <1>1, <1>4, <1>7, <2>1, CrashKeeps
<1>8. CASE /\ spec.bits % ByteBits = 0 /\ pcm_frame_size # 0
           /\ size % pcm_frame_size = 0
           /\ at' = at + DataSize /\ Accept("opened")
           /\ spec' = [spec EXCEPT !.samples = size \div pcm_frame_size,
                                   !.signed = IsSigned(spec.bits)]
  <2>1. pc' = "opened" /\ error' = error /\ DOMAIN spec' = DOMAIN spec
    BY <1>8 DEF Accept
  <2>2. /\ spec'.channels = spec.channels /\ spec'.rate = spec.rate
        /\ spec'.bits = spec.bits /\ spec'.samples = size \div pcm_frame_size
    BY <1>8 DEF IInv
  <2>3. pcm_frame_size' = pcm_frame_size
    BY <2>2 DEF pcm_frame_size
  <2>4. file.align \in Nat /\ file.data_size \in Nat /\ file.fmt_length \in Nat
    BY FileFields DEF IInv
  <2>5. SpecKnown'
    <3>1. SUFFICES ASSUME Plain
                   PROVE  /\ spec'.channels = file.channels /\ spec'.rate = file.rate
                          /\ spec'.bits = file.bits /\ pcm_frame_size' = file.align
                          /\ at' = RiffSize + file.fmt_length + DataSize
      BY <1>1, <2>1, SameFile DEF SpecKnown
    <3>2. at' = RiffSize + file.fmt_length + DataSize
      BY <1>3, <1>8, <2>4, <3>1 DEF RiffSize, DataSize
    <3>3. QED
      BY <1>3, <2>2, <2>3, <3>1, <3>2
  <2>6. FramesKnown'
    <3>1. SUFFICES ASSUME Plain
                   PROVE  /\ spec'.bits % ByteBits = 0 /\ pcm_frame_size' > 0
                          /\ spec'.samples * pcm_frame_size' = file.data_size
      BY <1>1, SameFile DEF FramesKnown
    <3>2. pcm_frame_size \in Nat \ {0} /\ size \in Nat
      BY <1>3, <1>8, <2>4, <3>1
    <3>3. (size \div pcm_frame_size) * pcm_frame_size = size
      <4> HIDE DEF size
      <4>1. QED
        BY <1>8, <3>2, WholeFrames
    <3>4. QED
      BY <1>3, <1>8, <2>2, <2>3, <3>1, <3>2, <3>3
  <2>7. PartsKnown' /\ LengthKnown' /\ NumbersRead'
    BY <1>1, <2>1 DEF PartsKnown, LengthKnown, NumbersRead
  <2>8. ProperIsAccepted' /\ OnlyOddFilesCrash'
    BY <1>1, <2>1, SameFile DEF IInv, ProperIsAccepted, Refused, OnlyOddFilesCrash
  <2>9. QED
    BY <1>1, <2>1, <2>5, <2>6, <2>7, <2>8 DEF IInv
<1>9. QED
  BY <1>2, <1>5, <1>6, <1>7, <1>8 DEF validate_wav_data_chunk_header, io_rf_stream_read
-----------------------------------------------------------------------------
(***************************************************************************)
(* The metadata of a FLAC, the format and the samples.                     *)
(***************************************************************************)
LEMMA MetadataKeeps == ASSUME IInv, metadata_callback PROVE IInv'
<1>1. /\ pc = "metadata" /\ UNCHANGED <<file, error>> /\ file.codec = "flac"
      /\ DOMAIN spec' = DOMAIN spec
      /\ pc' = IF file.bits % ByteBits = 0 THEN "opened" ELSE "crashed"
  BY DEF metadata_callback, IInv, PartsKnown
<1>2. ~Plain
  BY <1>1 DEF Plain
<1>3. CASE file.bits % ByteBits # 0
  <2>1. pc' = "crashed"
    BY <1>1, <1>3
  <2>2. Odd
    BY <1>1, <1>3 DEF Odd
  <2>3. QED
    BY <1>1, <1>2, <2>1, <2>2, CrashKeeps
<1>4. CASE file.bits % ByteBits = 0
  <2>1. pc' = "opened"
    BY <1>1, <1>4
  <2>2. PartsKnown' /\ LengthKnown' /\ SpecKnown' /\ FramesKnown' /\ NumbersRead'
    BY <1>1, <1>2, <2>1, SameFile
       DEF PartsKnown, LengthKnown, SpecKnown, FramesKnown, NumbersRead
  <2>3. ProperIsAccepted' /\ OnlyOddFilesCrash'
    BY <1>1, <2>1 DEF ProperIsAccepted, OnlyOddFilesCrash
  <2>4. QED
    BY <1>1, <2>2, <2>3 DEF IInv
<1>5. QED
  BY <1>3, <1>4

\* A step from the spec on leaves the file, the header and the spec alone, and
\* gives up only with files that are not proper or of WAV.
LEMMA LaterKeeps ==
  ASSUME IInv, pc \in {"opened", "play"}, UNCHANGED <<file, at, fmt_length, spec>>,
         \/ pc' = "play" /\ UNCHANGED error
         \/ pc' = "failed" /\ error' = "einval" /\ ~(Plain /\ Proper)
  PROVE  IInv'
<1>1. CASE pc' = "failed" /\ error' = "einval" /\ ~(Plain /\ Proper)
  BY <1>1, RefusedKeeps
<1>2. CASE pc' = "play" /\ UNCHANGED error
  <2>1. pcm_frame_size' = pcm_frame_size
    BY DEF pcm_frame_size
  <2>2. PartsKnown' /\ LengthKnown' /\ NumbersRead'
    BY <1>2 DEF PartsKnown, LengthKnown, NumbersRead
  <2>3. SpecKnown' /\ FramesKnown'
    BY <1>2, <2>1, SameFile DEF IInv, SpecKnown, FramesKnown
  <2>4. ProperIsAccepted' /\ OnlyOddFilesCrash'
    BY <1>2, SameFile DEF IInv, ProperIsAccepted, Refused, OnlyOddFilesCrash
  <2>5. QED
    BY <2>2, <2>3, <2>4 DEF IInv
<1>3. QED
  BY <1>1, <1>2

LEMMA FormatKeeps == ASSUME IInv, get_pcm_format PROVE IInv'
<1>1. pc = "opened" /\ UNCHANGED <<file, at, fmt_length, spec>>
  BY DEF get_pcm_format, header
<1>2. \/ pc' = "play" /\ UNCHANGED error
      \/ /\ pc' = "failed" /\ error' = "einval"
         /\ spec.bits \notin {n * ByteBits : n \in 1 .. 4}
  BY DEF get_pcm_format, Accept, Fail
<1>3. Plain /\ Proper => spec.bits \in {n * ByteBits : n \in 1 .. 4}
  BY <1>1 DEF IInv, SpecKnown, Proper
<1>4. QED
  BY <1>1, <1>2, <1>3, LaterKeeps

LEMMA SamplesKeep ==
  ASSUME IInv, pcm_decoder_wav_decode_once \/ write_callback \/ player_write_alsa
  PROVE  IInv'
<1>1. pc = "play" /\ UNCHANGED <<file, at, fmt_length, spec>>
  BY DEF pcm_decoder_wav_decode_once, write_callback, player_write_alsa, header
<1>2. \/ pc' = "play" /\ UNCHANGED error
      \/ pc' = "failed" /\ error' = "einval" /\ file.codec = "flac"
  BY <1>1 DEF pcm_decoder_wav_decode_once, write_callback, player_write_alsa, Accept, Fail
<1>3. file.codec = "flac" => ~Plain
  BY DEF Plain
<1>4. QED
  BY <1>1, <1>2, <1>3, LaterKeeps

LEMMA StepKeeps == ASSUME IInv, [Next]_vars PROVE IInv'
<1>1. CASE UNCHANGED vars
  <2>1. UNCHANGED <<pc, file, at, fmt_length, spec, error>>
    BY <1>1 DEF vars, header
  <2>2. pcm_frame_size' = pcm_frame_size
    BY <2>1 DEF pcm_frame_size
  <2>3. QED
    BY <2>1, <2>2, SameFile
       DEF IInv, PartsKnown, LengthKnown, SpecKnown, FramesKnown, NumbersRead,
           ProperIsAccepted, Refused, OnlyOddFilesCrash
<1>2. CASE OpenWav
  BY <1>2, RiffKeeps, FmtKeeps, DataKeeps DEF OpenWav, pcm_validate_wav_content
<1>3. QED
  BY <1>1, <1>2, MetadataKeeps, FormatKeeps, SamplesKeep DEF Next
-----------------------------------------------------------------------------
(***************************************************************************)
(* The samples: every step keeps Sound.                                    *)
(***************************************************************************)
LEMMA InitSound == ASSUME Init PROVE Sound
<1>1. /\ pc = IF file.codec = "wav" THEN "riff" ELSE "metadata"
      /\ spec.big = FALSE /\ recorded = <<>> /\ dest = <<>> /\ heard = <<>>
  BY DEF Init, HeaderInit
<1>2. SpecRead /\ FormatFits /\ NothingYet /\ BufferKnown
  BY <1>1 DEF SpecRead, FormatFits, NothingYet, BufferKnown
<1>3. HeardKnown
  BY <1>1, EmptySeq DEF HeardKnown
<1>4. QED
  BY <1>2, <1>3 DEF Sound

\* What is known when samples are decoded and played.
LEMMA Playing ==
  ASSUME IInv, Sound, Promised, pc = "play"
  PROVE  /\ SampleSize \in 1 .. 4 /\ file.bits \div ByteBits = SampleSize
         /\ spec.channels = file.channels /\ spec.channels \in Nat \ {0}
         /\ IsLayout(Layout) /\ Layout.size = SampleSize /\ Layout.channels = spec.channels
         /\ Layout.wav = (file.codec = "wav") /\ Layout.big = (file.riff = "RIFX")
         /\ pcm_frame_size = FrameBytes(Layout)
         /\ format.signed = (file.bits > ByteBits)
         /\ format.big = (file.codec = "wav" /\ file.riff = "RIFX")
<1>1. SpecRead /\ FormatFits
  BY DEF Sound
<1>2. /\ SampleSize \in 1 .. 4 /\ spec.bits = SampleSize * ByteBits /\ spec.bits = file.bits
      /\ spec.channels = file.channels /\ spec.channels \in Nat \ {0}
      /\ format.signed = (file.bits > ByteBits)
      /\ format.big = (file.codec = "wav" /\ file.riff = "RIFX")
  BY <1>1 DEF SpecRead, FormatFits, IsSigned
<1>3. file.bits \div ByteBits = SampleSize
  BY <1>2 DEF SampleSize
<1>4. /\ Layout.size = SampleSize /\ Layout.channels = spec.channels
      /\ Layout.wav = (file.codec = "wav") /\ Layout.big = (file.riff = "RIFX")
  BY DEF Layout
<1>5. IsLayout(Layout)
  BY <1>2, <1>4 DEF IsLayout
<1>6. pcm_frame_size = FrameBytes(Layout)
  <2> DEFINE n == SampleSize
             C == spec.channels
  <2>1. n \in Nat \ {0} /\ C \in Nat \ {0} /\ ByteBits \in Nat \ {0}
        /\ FrameBytes(Layout) = C * n /\ spec.bits = n * ByteBits
    BY <1>2, <1>4, HeaderAssumption DEF FrameBytes
  <2>2. pcm_frame_size = (C * spec.bits) \div ByteBits
    BY DEF pcm_frame_size
  <2> HIDE DEF n, C
  <2> DEFINE F == C * n
  <2>3. C * spec.bits = F * ByteBits /\ F \in Nat
    BY <2>1
  <2> HIDE DEF F
  <2>4. (F * ByteBits) \div ByteBits = F
    BY <2>1, <2>3, Undone
  <2>5. QED
    BY <2>1, <2>2, <2>3, <2>4 DEF F
<1>7. QED
  BY <1>2, <1>3, <1>4, <1>5, <1>6

\* The samples of a file are in the range of their bytes.
LEMMA SamplesAreNumbers ==
  ASSUME IInv, Sound, Promised, pc = "play", NEW frame \in RecordedFrames
  PROVE  /\ frame \in Frames
         /\ \A c \in 1 .. file.channels :
              frame[c] \in -Half(SampleSize) .. Half(SampleSize) - 1
<1>1. SampleSize \in 1 .. 4 /\ file.bits \div ByteBits = SampleSize
  BY Playing
<1>2. frame \in [1 .. file.channels -> Values(SampleSize)]
  BY <1>1 DEF RecordedFrames
<1>3. Values(SampleSize) \subseteq -Half(SampleSize) .. Half(SampleSize) - 1
  BY <1>1, SampleAssumption
<1>4. -Half(SampleSize) .. Half(SampleSize) - 1 \subseteq Int
  BY <1>1, Halves
<1>5. QED
  BY <1>2, <1>3, <1>4 DEF Frames

\* A step that leaves the samples alone and does not go on to play.
LEMMA EarlyStep ==
  ASSUME Sound, Promised, file' = file, UNCHANGED samples, pc # "play", pc' # "play",
         pc = "failed" => pc' = "failed", SpecRead'
  PROVE  Sound'
<1>1. SpecRead /\ FormatFits /\ NothingYet /\ HeardKnown /\ BufferKnown
  BY DEF Sound
<1>2. UNCHANGED <<recorded, dest, heard>>
  BY DEF samples
<1>3. FormatFits' /\ NothingYet' /\ BufferKnown'
  BY <1>1, <1>2 DEF FormatFits, NothingYet, BufferKnown
<1>4. HeardKnown'
  BY <1>1, <1>2 DEF HeardKnown, Frames, Audible
<1>5. QED
  BY <1>3, <1>4 DEF Sound

LEMMA OpenWavSound == ASSUME IInv, IInv', Sound, Promised, OpenWav PROVE Sound'
<1>1. file' = file /\ UNCHANGED samples /\ file.codec = "wav" /\ ~file.big
  BY DEF OpenWav, pcm_validate_wav_content, validate_wav_header,
         validate_wav_fmt_chunk_header, validate_wav_data_chunk_header, Promised
<1>2. SpecRead
  BY DEF Sound
<1>3. {"big", "channels", "rate", "bits", "signed", "samples"} = DOMAIN spec
  BY DEF IInv
<1>4. CASE validate_wav_header
  <2>1. pc = "riff" /\ pc' \in {"fmt", "failed", "crashed"}
        /\ (pc' = "fmt" => spec' = [spec EXCEPT !.big = (file.riff = "RIFX")])
    BY <1>4 DEF validate_wav_header, io_rf_stream_read, Fail, Accept
  <2>2. pc' = "fmt" => spec'.big = (file.riff = "RIFX")
    BY <1>3, <2>1
  <2>3. SpecRead'
    BY <1>1, <2>1, <2>2 DEF SpecRead
  <2>4. QED
    BY <1>1, <2>1, <2>3, EarlyStep
<1>5. CASE validate_wav_fmt_chunk_header
  <2>1. pc = "fmt" /\ pc' \in {"data", "failed", "crashed"}
        /\ (pc' = "data" =>
              spec' = [spec EXCEPT !.channels = Read16(file.channels),
                                   !.rate = Read32(file.rate), !.bits = Read16(file.bits)])
    BY <1>5 DEF validate_wav_fmt_chunk_header, io_rf_stream_read, Fail, Accept
  <2>2. pc' = "data" => spec'.big = spec.big
    BY <1>3, <2>1
  <2>3. SpecRead'
    BY <1>1, <1>2, <2>1, <2>2 DEF SpecRead
  <2>4. QED
    BY <1>1, <2>1, <2>3, EarlyStep
<1>6. CASE validate_wav_data_chunk_header
  <2>1. pc = "data" /\ pc' \in {"opened", "failed", "crashed"}
        /\ (pc' = "opened" =>
              spec' = [spec EXCEPT !.samples = Read32(file.data_size) \div pcm_frame_size,
                                   !.signed = IsSigned(spec.bits)])
    BY <1>6 DEF validate_wav_data_chunk_header, io_rf_stream_read, Fail, Accept
  <2>2. pc' = "opened" => /\ spec'.big = spec.big /\ spec'.signed = IsSigned(spec.bits)
                          /\ spec'.bits = spec.bits
    BY <1>3, <2>1
  <2>3. ASSUME pc' = "opened"
        PROVE  /\ spec'.channels = file.channels /\ spec'.bits = file.bits
               /\ spec'.channels \in Nat \ {0}
    <3>1. /\ spec'.channels = file.channels /\ spec'.bits = file.bits
          /\ (spec'.channels * spec'.bits) \div ByteBits > 0
      BY <1>1, <2>3 DEF IInv, SpecKnown, FramesKnown, Plain, pcm_frame_size
    <3>2. file.channels \in Nat /\ file.bits \in Nat /\ ByteBits \in Nat \ {0}
      BY FileFields DEF IInv
    <3>3. file.channels # 0
      <4>1. SUFFICES ASSUME file.channels = 0 PROVE FALSE
        OBVIOUS
      <4>2. 0 * file.bits = 0 /\ 0 \div ByteBits = 0
        BY <3>2
      <4>3. QED
        BY <3>1, <4>1, <4>2
    <3>4. QED
      BY <3>1, <3>2, <3>3
  <2>4. SpecRead'
    BY <1>1, <1>2, <2>1, <2>2, <2>3 DEF SpecRead, IsSigned
  <2>5. QED
    BY <1>1, <2>1, <2>4, EarlyStep
<1>7. QED
  BY <1>4, <1>5, <1>6 DEF OpenWav, pcm_validate_wav_content

LEMMA MetadataSound == ASSUME IInv, Sound, Promised, metadata_callback PROVE Sound'
<1>1. /\ pc = "metadata" /\ pc' \in {"opened", "crashed"}
      /\ file' = file /\ UNCHANGED samples /\ file.codec = "flac"
      /\ spec' = [spec EXCEPT !.bits = file.bits, !.channels = file.channels,
                              !.rate = file.rate, !.signed = IsSigned(file.bits)]
  BY DEF metadata_callback, IInv, PartsKnown
<1>2. /\ spec'.big = spec.big /\ spec'.bits = file.bits
      /\ spec'.channels = file.channels /\ spec'.signed = IsSigned(file.bits)
  BY <1>1 DEF IInv
<1>3. file.channels \in Nat \ {0}
  <2>1. file.channels \in Nat
    BY FileFields DEF IInv
  <2>2. file.channels > 0
    BY <1>1, HeaderAssumption DEF IInv
  <2>3. QED
    BY <2>1, <2>2
<1>4. SpecRead
  BY DEF Sound
<1>5. SpecRead'
  BY <1>1, <1>2, <1>3, <1>4 DEF SpecRead, IsSigned
<1>6. QED
  BY <1>1, <1>5, EarlyStep

LEMMA FormatSound == ASSUME IInv, Sound, Promised, get_pcm_format PROVE Sound'
<1>1. pc = "opened" /\ file' = file /\ spec' = spec /\ UNCHANGED samples
  BY DEF get_pcm_format
<1>2. SpecRead /\ NothingYet /\ HeardKnown
  BY DEF Sound
<1>3. SpecRead'
  BY <1>1, <1>2 DEF SpecRead, IsSigned, get_pcm_format, Accept, Fail
<1>4. CASE pc' = "failed"
  BY <1>1, <1>3, <1>4, EarlyStep
<1>5. CASE /\ pc' = "play" /\ spec.bits \in {n * ByteBits : n \in 1 .. 4}
           /\ format' = [bytes |-> spec.bits \div ByteBits, big |-> spec.big,
                         signed |-> spec.signed]
  <2>1. SampleSize \in 1 .. 4 /\ spec.bits = SampleSize * ByteBits /\ SampleSize' = SampleSize
    <3>1. PICK n \in 1 .. 4 : spec.bits = n * ByteBits
      BY <1>5
    <3>2. spec.bits \div ByteBits = n
      BY <3>1, HeaderAssumption, Undone
    <3>3. QED
      BY <1>1, <3>1, <3>2 DEF SampleSize
  <2>2. FormatFits'
    BY <1>1, <1>5, <2>1 DEF FormatFits
  <2>3. recorded' = <<>> /\ dest' = <<>> /\ heard' = <<>>
    BY <1>1, <1>2 DEF NothingYet, samples
  <2>4. NothingYet' /\ HeardKnown'
    BY <1>5, <2>3, EmptySeq DEF NothingYet, HeardKnown
  <2>5. BufferKnown'
    <3>1. IsLayout(Layout')
      BY <1>1, <1>2, <2>1 DEF SpecRead, IsLayout, Layout, SampleSize
    <3>2. FrameBytes(Layout') \in Nat \ {0}
      BY <3>1, Layouts
    <3>3. Holds(Layout', <<>>, 0, <<>>)
      BY <3>2, EmptySeq DEF Holds
    <3>4. QED
      BY <2>3, <3>3 DEF BufferKnown
  <2>6. QED
    BY <1>3, <2>2, <2>4, <2>5 DEF Sound
<1>6. QED
  BY <1>4, <1>5 DEF get_pcm_format, Accept, Fail

\* Frames that are appended do not change what has been heard.
LEMMA HeardStays ==
  ASSUME HeardKnown, NEW block \in Seq(Frames), file' = file, heard' = heard,
         recorded' = recorded \o block
  PROVE  HeardKnown'
<1>1. /\ recorded \in Seq(Frames) /\ heard \in Seq(Frames) /\ Len(heard) <= Len(recorded)
      /\ \A i \in 1 .. Len(heard) : heard[i] = Audible(recorded[i])
  BY DEF HeardKnown
<1>2. /\ recorded' \in Seq(Frames) /\ Len(recorded') = Len(recorded) + Len(block)
      /\ \A i \in 1 .. Len(recorded) : recorded'[i] = recorded[i]
  BY <1>1, ConcatProperties
<1>3. Len(recorded) \in Nat /\ Len(heard) \in Nat /\ Len(block) \in Nat
  BY <1>1, LenProperties
<1>4. Len(heard) <= Len(recorded')
  BY <1>1, <1>2, <1>3
<1>5. \A i \in 1 .. Len(heard) : heard[i] = Audible(recorded'[i])
  <2>1. TAKE i \in 1 .. Len(heard)
  <2>2. i \in 1 .. Len(recorded)
    BY <1>1, <1>3
  <2>3. QED
    BY <1>1, <1>2, <2>2
<1>6. QED
  BY <1>1, <1>2, <1>4, <1>5 DEF HeardKnown, Frames, Audible

\* Frames that are decoded and written are in the buffer.
LEMMA BlockSound ==
  ASSUME IInv, Sound, Promised, pc = "play", pc' = "play",
         file' = file, spec' = spec, format' = format, heard' = heard,
         NEW block \in Seq(RecordedFrames), NEW all, IsWritten(Layout, block, all),
         recorded' = recorded \o block, dest' = dest \o Joined(all, SampleSize)
  PROVE  Sound'
<1>1. SpecRead /\ FormatFits /\ HeardKnown /\ BufferKnown
  BY DEF Sound
<1>2. block \in Seq(Frames)
  <2>1. RecordedFrames \subseteq Frames
    BY SamplesAreNumbers
  <2>2. QED
    BY <2>1, SeqMonotonic
<1>3. HeardKnown'
  BY <1>1, <1>2, HeardStays
<1>4. SpecRead' /\ FormatFits' /\ NothingYet' /\ SampleSize' = SampleSize /\ Layout' = Layout
  BY <1>1 DEF SpecRead, IsSigned, FormatFits, NothingYet, SampleSize, Layout
<1>5. Holds(Layout, recorded', Len(heard), dest')
  <2>1. IsLayout(Layout) /\ Layout.size = SampleSize
    BY Playing
  <2>2. recorded \in Seq(Frames) /\ Len(heard) \in 0 .. Len(recorded)
    BY <1>1, LenProperties DEF HeardKnown
  <2>3. Holds(Layout, recorded, Len(heard), dest)
    BY <1>1 DEF BufferKnown
  <2> DEFINE l == Layout
  <2> HIDE DEF l
  <2>4. Holds(l, recorded \o block, Len(heard), dest \o Joined(all, l.size))
    BY <1>2, <2>1, <2>2, <2>3, BlockHeld DEF l
  <2>5. QED
    BY <2>1, <2>4 DEF l
<1>6. \A i \in 1 .. Len(recorded') : \A c \in 1 .. file.channels :
        recorded'[i][c] \in -Half(SampleSize) .. Half(SampleSize) - 1
  <2>1. recorded \in Seq(Frames)
    BY <1>1 DEF HeardKnown
  <2>2. /\ Len(recorded') = Len(recorded) + Len(block)
        /\ \A i \in 1 .. Len(recorded) + Len(block) :
             recorded'[i] = IF i <= Len(recorded) THEN recorded[i]
                                                  ELSE block[i - Len(recorded)]
    BY <1>2, <2>1, ConcatProperties
  <2>3. Len(recorded) \in Nat /\ Len(block) \in Nat
    BY <2>1, <1>2, LenProperties
  <2>4. TAKE i \in 1 .. Len(recorded')
  <2>5. CASE i <= Len(recorded)
    <3>1. i \in 1 .. Len(recorded) /\ recorded'[i] = recorded[i]
      BY <2>2, <2>3, <2>5
    <3>2. QED
      BY <1>1, <3>1 DEF BufferKnown
  <2>6. CASE ~(i <= Len(recorded))
    <3>1. i - Len(recorded) \in 1 .. Len(block) /\ recorded'[i] = block[i - Len(recorded)]
      BY <2>2, <2>3, <2>6
    <3>2. recorded'[i] \in RecordedFrames
      BY <3>1, ElementOfSeq
    <3>3. QED
      BY <3>2, SamplesAreNumbers
  <2>7. QED
    BY <2>5, <2>6
<1>7. BufferKnown'
  BY <1>4, <1>5, <1>6 DEF BufferKnown
<1>8. QED
  BY <1>3, <1>4, <1>7 DEF Sound

\* Bytes are numbers.
LEMMA BytesType ==
  ASSUME NEW v \in Int, NEW n \in 1 .. 4, NEW big \in BOOLEAN
  PROVE  Bytes(v, n, big) \in [1 .. n -> Int]
<1>1. ASSUME NEW k \in 1 .. n PROVE (v \div Weight[Place(k, n, big)]) % Byte \in Int
  <2>1. Place(k, n, big) \in 1 .. 4
    BY DEF Place
  <2>2. Weight[Place(k, n, big)] \in Nat \ {0} /\ Byte \in Nat \ {0}
    BY <2>1, Weights
  <2> DEFINE w == Weight[Place(k, n, big)]
             q == v \div w
  <2>3. q \in Int
    BY <2>2, Divided
  <2> HIDE DEF q
  <2>4. q % Byte \in Int
    BY <2>2, <2>3, Divided
  <2>5. QED
    BY <2>4 DEF q
<1>2. QED
  BY <1>1 DEF Bytes

\* What the decoder of WAV leaves of a frame.
LEMMA WavWritten ==
  ASSUME IInv, Sound, Promised, pc = "play", file.codec = "wav",
         NEW frame \in RecordedFrames
  PROVE  IsWritten(Layout, <<frame>>, [c \in 1 .. file.channels |-> WavBytes(frame[c])])
<1> DEFINE l == Layout
           n == SampleSize
           C == spec.channels
           all == [c \in 1 .. C |-> WavBytes(frame[c])]
<1>1. /\ n \in 1 .. 4 /\ file.bits \div ByteBits = n
      /\ C = file.channels /\ C \in Nat \ {0} /\ l.size = n /\ l.channels = C
      /\ l.wav = TRUE /\ l.big = (file.riff = "RIFX")
  BY Playing
<1>2. \A c \in 1 .. C : frame[c] \in Int
  BY <1>1, SamplesAreNumbers DEF Frames
<1>3. Half(1) \in Int
  BY Halves
<1>4. ASSUME NEW c \in 1 .. C
      PROVE  WavBytes(frame[c]) = Written(l, frame, c) /\ WavBytes(frame[c]) \in [1 .. n -> Int]
  <2>1. WavBytes(frame[c])
          = Bytes(IF n = 1 THEN frame[c] + Half(1) ELSE frame[c], n, file.riff = "RIFX")
    BY <1>1 DEF WavBytes
  <2>2. WavBytes(frame[c]) = Written(l, frame, c)
    <3> HIDE DEF l, n
    <3>1. QED
      BY <1>1, <2>1 DEF Written
  <2>3. (IF n = 1 THEN frame[c] + Half(1) ELSE frame[c]) \in Int
    BY <1>2, <1>3
  <2> DEFINE v == IF n = 1 THEN frame[c] + Half(1) ELSE frame[c]
             big == file.riff = "RIFX"
  <2>4. v \in Int /\ big \in BOOLEAN /\ WavBytes(frame[c]) = Bytes(v, n, big)
    BY <2>1, <2>3
  <2> HIDE DEF v, big, n
  <2>5. Bytes(v, n, big) \in [1 .. n -> Int]
    BY <1>1, <2>4, BytesType
  <2>6. QED
    BY <2>2, <2>4, <2>5
<1> HIDE DEF l, n, C
<1>5. all \in Seq([1 .. n -> Int]) /\ Len(all) = C /\ \A c \in 1 .. C : all[c] = WavBytes(frame[c])
  BY <1>1, <1>4
<1>6. Len(<<frame>>) * C = C /\ <<frame>>[1] = frame /\ Len(<<frame>>) = 1
  BY <1>1
<1>7. ASSUME NEW s \in 0 .. C - 1
      PROVE  all[s + 1] = Written(l, <<frame>>[(s \div C) + 1], (s % C) + 1)
  <2>1. s \in Int /\ s = 0 * C + s
    BY <1>1
  <2>2. s \div C = 0 /\ s % C = s
    BY <1>1, <2>1, OneQuotient
  <2>3. s + 1 \in 1 .. C
    BY <1>1
  <2>4. all[s + 1] = Written(l, frame, s + 1)
    BY <1>4, <1>5, <2>3
  <2>5. QED
    BY <1>6, <2>2, <2>4
<1>8. IsWritten(l, <<frame>>, all)
  BY <1>1, <1>5, <1>6, <1>7 DEF IsWritten
<1>9. QED
  BY <1>1, <1>8 DEF l, C

\* What write_callback leaves of a block.
LEMMA FlacWritten ==
  ASSUME IInv, Sound, Promised, pc = "play", file.codec = "flac",
         NEW block \in Seq(RecordedFrames)
  PROVE  IsWritten(Layout, block, Interleaved(block))
<1> DEFINE l == Layout
           n == SampleSize
           C == spec.channels
           b == Len(block)
           e == b * C
           sample(s) == Bytes(block[(s \div C) + 1][1], n, FALSE)
           all == [k \in 1 .. e |-> sample(k - 1)]
<1>1. /\ n \in 1 .. 4 /\ C = file.channels /\ C \in Nat \ {0}
      /\ l.size = n /\ l.channels = C /\ l.wav = FALSE
  BY Playing
<1>2. b \in Nat /\ e \in Nat
  <2>1. b \in Nat
    BY LenProperties
  <2> HIDE DEF b, C
  <2>2. QED
    BY <1>1, <2>1
<1>3. \A s \in 0 .. e - 1 : /\ sample(s) \in [1 .. n -> Int]
                            /\ sample(s) = Written(l, block[(s \div C) + 1], (s % C) + 1)
  <2>1. TAKE s \in 0 .. e - 1
  <2> DEFINE d == s \div C
  <2>2. d \in 0 .. b - 1
    <3> HIDE DEF b, C
    <3>1. QED
      BY <1>1, <1>2, Before
  <2> HIDE DEF d
  <2>3. d + 1 \in 1 .. b
    <3> HIDE DEF b
    <3>1. QED
      BY <1>2, <2>2
  <2>4. block[d + 1] \in RecordedFrames
    BY <2>3, ElementOfSeq
  <2>5. block[d + 1][1] \in Int
    BY <1>1, <2>4, SamplesAreNumbers DEF Frames
  <2>6. Bytes(block[d + 1][1], n, FALSE) \in [1 .. n -> Int]
    BY <1>1, <2>5, BytesType
  <2> HIDE DEF l, n, C
  <2>7. Written(l, block[d + 1], (s % C) + 1) = Bytes(block[d + 1][1], n, FALSE)
    BY <1>1 DEF Written
  <2>8. QED
    BY <2>6, <2>7 DEF d
<1>4. Interleaved(block) = all
  BY DEF Interleaved
<1> HIDE DEF l, n, C, b, e, sample
<1>5. /\ \A k \in 1 .. e : k - 1 \in 0 .. e - 1
      /\ \A s \in 0 .. e - 1 : s + 1 \in 1 .. e /\ (s + 1) - 1 = s
  BY <1>2
<1>6. \A k \in 1 .. e : sample(k - 1) \in [1 .. n -> Int]
  BY <1>3, <1>5
<1>7. all \in Seq([1 .. n -> Int]) /\ Len(all) = e
  BY <1>2, <1>6
<1>8. \A s \in 0 .. e - 1 : all[s + 1] = sample(s)
  BY <1>5
<1> HIDE DEF all
<1>9. Len(all) = Len(block) * C
  BY <1>7 DEF e, b
<1>10. IsWritten(l, block, all)
  BY <1>1, <1>3, <1>7, <1>8, <1>9 DEF IsWritten
<1>11. QED
  BY <1>4, <1>10 DEF l

\* A frame of a WAV file is appended as it is in the file.
LEMMA DecodeWavSound ==
  ASSUME IInv, Sound, Promised, pcm_decoder_wav_decode_once PROVE Sound'
<1>1. PICK frame \in RecordedFrames :
        /\ recorded' = Append(recorded, frame)
        /\ dest' = dest \o Joined([c \in 1 .. file.channels |-> WavBytes(frame[c])], SampleSize)
  BY DEF pcm_decoder_wav_decode_once
<1>2. /\ pc = "play" /\ pc' = "play" /\ file.codec = "wav"
      /\ file' = file /\ spec' = spec /\ format' = format /\ heard' = heard
  BY DEF pcm_decoder_wav_decode_once
<1>3. recorded \in Seq(Frames) /\ frame \in Frames
  BY <1>2, SamplesAreNumbers DEF Sound, HeardKnown
<1>4. <<frame>> \in Seq(RecordedFrames)
  OBVIOUS
<1>5. recorded' = recorded \o <<frame>>
  BY <1>1, <1>3
<1>6. IsWritten(Layout, <<frame>>, [c \in 1 .. file.channels |-> WavBytes(frame[c])])
  BY <1>2, WavWritten
<1>7. QED
  BY <1>1, <1>2, <1>4, <1>5, <1>6, BlockSound

\* A block of libFLAC is appended as write_callback leaves it.
LEMMA DecodeFlacSound == ASSUME IInv, Sound, Promised, write_callback PROVE Sound'
<1>1. /\ pc = "play" /\ file.codec = "flac"
      /\ file' = file /\ spec' = spec /\ format' = format /\ heard' = heard
  BY DEF write_callback
<1>2. PICK n \in 1 .. MaxFrames - Len(recorded), same \in BOOLEAN :
      \E block \in [1 .. n -> RecordedFrames] :
        IF same
        THEN LET all == Interleaved(block) IN
             /\ dest' = dest \o Joined(Fitting(all), SampleSize)
             /\ recorded' = recorded \o block
             /\ IF Fitting(all) = all THEN Accept("play") ELSE Fail("einval")
        ELSE Fail("einval") /\ UNCHANGED <<dest, recorded>>
  BY DEF write_callback
<1>3. PICK block \in [1 .. n -> RecordedFrames] :
        IF same
        THEN LET all == Interleaved(block) IN
             /\ dest' = dest \o Joined(Fitting(all), SampleSize)
             /\ recorded' = recorded \o block
             /\ IF Fitting(all) = all THEN Accept("play") ELSE Fail("einval")
        ELSE Fail("einval") /\ UNCHANGED <<dest, recorded>>
  BY <1>2
<1>4. SpecRead /\ HeardKnown
  BY DEF Sound
<1>5. n \in Nat
  <2>1. Len(recorded) \in Nat /\ MaxFrames \in Nat
    BY <1>4, LenProperties, SampleAssumption DEF HeardKnown
  <2>2. QED
    BY <2>1
<1>6. block \in Seq(RecordedFrames) /\ RecordedFrames \subseteq Frames
  BY <1>1, <1>5, SamplesAreNumbers
<1>7. block \in Seq(Frames)
  BY <1>6, SeqMonotonic
<1>8. CASE pc' = "play" /\ same
  <2>1. Fitting(Interleaved(block)) = Interleaved(block)
    BY <1>3, <1>8 DEF Accept, Fail
  <2>2. dest' = dest \o Joined(Interleaved(block), SampleSize) /\ recorded' = recorded \o block
    BY <1>3, <1>8, <2>1
  <2>3. IsWritten(Layout, block, Interleaved(block))
    BY <1>1, <1>6, FlacWritten
  <2>4. QED
    BY <1>1, <1>6, <1>8, <2>2, <2>3, BlockSound
<1>9. CASE pc' = "failed"
  <2>1. SpecRead' /\ FormatFits' /\ NothingYet' /\ BufferKnown'
    BY <1>9 DEF SpecRead, FormatFits, NothingYet, BufferKnown
  <2>2. HeardKnown'
    <3>1. CASE recorded' = recorded \o block
      BY <1>1, <1>4, <1>7, <3>1, HeardStays
    <3>2. CASE recorded' = recorded
      BY <1>1, <1>4, <3>2 DEF HeardKnown, Frames, Audible
    <3>3. QED
      BY <1>3, <3>1, <3>2
  <2>3. QED
    BY <2>1, <2>2 DEF Sound
<1>10. QED
  BY <1>3, <1>8, <1>9 DEF Accept, Fail

\* ALSA makes of the bytes of a frame what can be heard of it.
LEMMA FrameHeard ==
  ASSUME IInv, Sound, Promised, pc = "play", NEW frame \in Frames,
         \A c \in 1 .. file.channels : frame[c] \in -Half(SampleSize) .. Half(SampleSize) - 1,
         NEW c \in 1 .. spec.channels
  PROVE  Heard(Written(Layout, frame, c)) = Audible(frame)[c]
<1> DEFINE l == Layout
           n == SampleSize
           v == Audible(frame)[c]
           half == Half(n)
<1>1. /\ n \in 1 .. 4 /\ l.size = n /\ spec.channels = file.channels
      /\ l.wav = (file.codec = "wav") /\ l.big = (file.riff = "RIFX")
      /\ format.signed = (file.bits > ByteBits)
      /\ format.big = (file.codec = "wav" /\ file.riff = "RIFX")
      /\ spec.channels \in Nat \ {0}
  BY Playing
<1>2. file.bits > ByteBits <=> n # 1
  <2>1. file.bits = n * ByteBits
    BY DEF Sound, SpecRead, FormatFits
  <2>2. ByteBits \in Nat \ {0}
    BY HeaderAssumption
  <2> HIDE DEF n
  <2>3. n \in 1 .. 4
    BY <1>1
  <2>4. n # 1 => n * ByteBits >= 2 * ByteBits
    BY <2>2, <2>3
  <2>5. n = 1 => n * ByteBits = ByteBits
    BY <2>2
  <2> DEFINE x == n * ByteBits
  <2>6. x \in Int /\ (n # 1 => x >= 2 * ByteBits) /\ (n = 1 => x = ByteBits)
    BY <2>2, <2>3, <2>4, <2>5
  <2> HIDE DEF x
  <2>7. x > ByteBits <=> n # 1
    BY <2>2, <2>6
  <2>8. QED
    BY <2>1, <2>7 DEF x
<1>3. v = (IF file.codec = "wav" THEN frame[c] ELSE frame[1]) /\ v \in -half .. half - 1
  BY <1>1 DEF Audible, Frames
<1>4. Written(l, frame, c) = Bytes(IF format.signed THEN v ELSE v + half, n, format.big)
  <2> HIDE DEF l, n, v, half
  <2>1. CASE file.codec = "wav"
    <3>1. CASE n = 1
      BY <1>1, <1>2, <1>3, <2>1, <3>1 DEF Written, half
    <3>2. CASE n # 1
      BY <1>1, <1>2, <1>3, <2>1, <3>2 DEF Written
    <3>3. QED
      BY <3>1, <3>2
  <2>2. CASE file.codec # "wav"
    BY <1>1, <1>2, <1>3, <2>2 DEF Written, Promised
  <2>3. QED
    BY <2>1, <2>2
<1>5. format.big \in BOOLEAN
  BY <1>1
<1> HIDE DEF v, n, l
<1>6. Heard(Bytes(IF format.signed THEN v ELSE v + Half(n), n, format.big)) = v
  BY <1>1, <1>3, <1>5, HeardOfBytes
<1>7. QED
  BY <1>4, <1>6 DEF v, n, l

\* ALSA is given the first frame of the buffer.
LEMMA PlaySound == ASSUME IInv, Sound, Promised, player_write_alsa PROVE Sound'
<1> DEFINE l == Layout
           n == SampleSize
           h == Len(heard)
           sample(c) == SubSeq(dest, (c - 1) * n + 1, c * n)
           frame == recorded[h + 1]
           new == [c \in 1 .. spec.channels |-> Heard(sample(c))]
<1>1. /\ pc = "play" /\ pc' = "play" /\ Len(dest) >= pcm_frame_size
      /\ heard' = Append(heard, new) /\ dest' = SubSeq(dest, pcm_frame_size + 1, Len(dest))
      /\ file' = file /\ spec' = spec /\ format' = format /\ recorded' = recorded
  BY DEF player_write_alsa
<1>2. SpecRead /\ FormatFits /\ HeardKnown /\ BufferKnown
  BY DEF Sound
<1>3. SpecRead' /\ FormatFits' /\ NothingYet' /\ SampleSize' = SampleSize /\ Layout' = Layout
  BY <1>1, <1>2 DEF SpecRead, IsSigned, FormatFits, NothingYet, SampleSize, Layout
<1>4. /\ recorded \in Seq(Frames) /\ heard \in Seq(Frames) /\ h \in Nat
      /\ h \in 0 .. Len(recorded) /\ Len(recorded) \in Nat
      /\ \A i \in 1 .. h : heard[i] = Audible(recorded[i])
  BY <1>2, LenProperties DEF HeardKnown
<1>5. /\ IsLayout(l) /\ l.size = n /\ l.channels = spec.channels
      /\ pcm_frame_size = FrameBytes(l) /\ spec.channels = file.channels
      /\ spec.channels \in Nat \ {0}
  BY <1>1, Playing
<1>6. /\ h + 1 \in 0 .. Len(recorded)
      /\ Holds(l, recorded, h + 1, dest')
      /\ \A c \in 1 .. spec.channels : sample(c) = Written(l, frame, c)
  <2>1. Holds(l, recorded, h, dest)
    BY <1>1, <1>2 DEF BufferKnown
  <2> HIDE DEF l, n, h
  <2>2. /\ h + 1 \in 0 .. Len(recorded)
        /\ Holds(l, recorded, h + 1, SubSeq(dest, FrameBytes(l) + 1, Len(dest)))
        /\ \A c \in 1 .. l.channels :
             SubSeq(dest, (c - 1) * l.size + 1, c * l.size) = Written(l, recorded[h + 1], c)
    BY <1>1, <1>4, <1>5, <2>1, FrameTaken
  <2>3. QED
    BY <1>1, <1>5, <2>2
<1>7. h + 1 \in 1 .. Len(recorded)
  BY <1>4, <1>6
<1>8. frame \in Frames /\ \A c \in 1 .. file.channels :
        frame[c] \in -Half(SampleSize) .. Half(SampleSize) - 1
  BY <1>1, <1>2, <1>4, <1>7, ElementOfSeq DEF BufferKnown
<1>9. new = Audible(frame) /\ new \in Frames
  <2> HIDE DEF frame, sample, n
  <2>1. \A c \in 1 .. spec.channels : Heard(sample(c)) = Audible(frame)[c]
    BY <1>1, <1>6, <1>8, FrameHeard
  <2>2. Audible(frame) \in Frames
    <3>1. 1 \in 1 .. file.channels
      BY <1>5
    <3>2. DOMAIN frame = 1 .. file.channels /\ frame[1] \in Int
      BY <1>8, <3>1 DEF Frames
    <3>3. QED
      BY <1>8, <3>2 DEF Audible, Frames
  <2>3. QED
    BY <1>5, <2>1, <2>2 DEF Frames
<1> HIDE DEF new, h
<1>10. /\ heard' \in Seq(Frames) /\ Len(heard') = h + 1
       /\ \A i \in 1 .. h : heard'[i] = heard[i]
       /\ heard'[h + 1] = new
  BY <1>1, <1>4, <1>9 DEF h
<1>11. \A i \in 1 .. h + 1 : heard'[i] = Audible(recorded[i])
  <2>1. TAKE i \in 1 .. h + 1
  <2>2. i \in 1 .. h \/ i = h + 1
    BY <1>4
  <2>3. QED
    BY <1>4, <1>9, <1>10, <2>2
<1>12. HeardKnown'
  <2>1. Len(heard') <= Len(recorded)
    BY <1>4, <1>7, <1>10
  <2>2. QED
    BY <1>1, <1>4, <1>10, <1>11, <2>1 DEF HeardKnown, Frames, Audible
<1>13. BufferKnown'
  BY <1>1, <1>2, <1>3, <1>6, <1>10 DEF BufferKnown
<1>14. QED
  BY <1>3, <1>12, <1>13 DEF Sound

LEMMA StepSound == ASSUME IInv, Sound, [Next]_vars PROVE Sound'
<1>1. file' = file
  BY DEF Next, vars, OpenWav, pcm_validate_wav_content, validate_wav_header,
         validate_wav_fmt_chunk_header, validate_wav_data_chunk_header, metadata_callback,
         get_pcm_format, pcm_decoder_wav_decode_once, write_callback, player_write_alsa
<1>2. Promised' = Promised
  BY <1>1 DEF Promised
<1>3. CASE ~Promised
  BY <1>2, <1>3 DEF Sound
<1>4. CASE Promised
  <2>1. CASE UNCHANGED vars
    <3>1. UNCHANGED <<pc, file, spec, format, recorded, dest, heard>>
      BY <2>1 DEF vars, samples
    <3>2. QED
      BY <3>1, <1>2
         DEF Sound, SpecRead, IsSigned, FormatFits, SampleSize, NothingYet, HeardKnown,
             Frames, Audible, BufferKnown, Layout
  <2>2. CASE OpenWav
    <3>1. IInv'
      BY StepKeeps
    <3>2. QED
      BY <1>4, <2>2, <3>1, OpenWavSound
  <2>3. QED
    BY <1>4, <2>1, <2>2, MetadataSound, FormatSound, DecodeWavSound, DecodeFlacSound,
       PlaySound DEF Next
<1>5. QED
  BY <1>3, <1>4
-----------------------------------------------------------------------------
\* What is known of a file at each part of its header (pcm.c:74-197).
THEOREM Invariance == Spec => []IInv
<1>1. Init => IInv
  BY InitInvariant
<1>2. IInv /\ [Next]_vars => IInv'
  BY StepKeeps
<1>3. QED
  BY <1>1, <1>2, PTL DEF Spec

\* No proper file is refused, whatever its sizes are and however long its
\* format chunk is of those the format knows (pcm.c:74-178).
THEOREM ProperFilesAreOpened == Spec => []ProperIsAccepted
<1>1. IInv => ProperIsAccepted
  BY DEF IInv
<1>2. QED
  BY <1>1, Invariance, PTL

\* What is played is played with numbers that agree with the file and with one
\* another (pcm.c:124-178).
THEOREM SpecIsConsistent == Spec => []AcceptedIsConsistent
<1>1. IInv => AcceptedIsConsistent
  BY DEF IInv, SpecKnown, FramesKnown, AcceptedIsConsistent, Plain
<1>2. QED
  BY <1>1, Invariance, PTL

\* Of all files, of either kind and in either order, only those end the
\* program whose numbers are odd as they are read (pcm.c:103, 170, pcm.h:18,
\* flac.c:31, io.c:327).
THEOREM OtherFilesAreRead == Spec => []OnlyOddFilesCrash
<1>1. IInv => OnlyOddFilesCrash
  BY DEF IInv
<1>2. QED
  BY <1>1, Invariance, PTL

\* What is heard of every file, at every width and in either byte order, is what
\* was recorded of it, but for the channels of a FLAC and the sign of its
\* one-byte samples (pcm.c:203-214, flac.c:83-133, player.c:219-249).
THEOREM HeardAsRecorded == Spec => []HeardIsAudible
<1>1. Init => IInv /\ Sound
  BY InitInvariant, InitSound
<1>2. IInv /\ Sound /\ [Next]_vars => IInv' /\ Sound'
  BY StepKeeps, StepSound
<1>3. Sound => HeardIsAudible
  <2>1. SUFFICES ASSUME Sound, Promised
                 PROVE  IsPrefix(heard, [i \in DOMAIN recorded |-> Audible(recorded[i])])
    BY DEF HeardIsAudible, Promised
  <2> DEFINE a == Len(recorded)
             h == Len(heard)
             all == [i \in 1 .. a |-> Audible(recorded[i])]
  <2>2. /\ recorded \in Seq(Frames) /\ heard \in Seq(Frames) /\ h <= a
        /\ \A i \in 1 .. h : heard[i] = Audible(recorded[i])
    BY <2>1 DEF Sound, HeardKnown
  <2>3. h \in Nat /\ a \in Nat /\ DOMAIN recorded = 1 .. a
    BY <2>2, LenProperties
  <2>4. \A i \in 1 .. h : i \in 1 .. a
    BY <2>2, <2>3
  <2>5. Len(all) = a /\ \A i \in 1 .. h : all[i] = heard[i] /\ all[i] \in Frames
    BY <2>2, <2>3, <2>4, ElementOfSeq
  <2>6. SubSeq(heard, 1, h) = SubSeq(all, 1, h)
    <3> HIDE DEF all, h, a
    <3>1. SubSeq(all, 1, h) \in Seq(Frames) /\ SubSeq(heard, 1, h) \in Seq(Frames)
          /\ Len(SubSeq(all, 1, h)) = Len(SubSeq(heard, 1, h))
          /\ \A i \in 1 .. h - 1 + 1 : SubSeq(all, 1, h)[i] = all[1 + i - 1]
                                       /\ SubSeq(heard, 1, h)[i] = heard[1 + i - 1]
      BY <2>2, <2>3, <2>5, SubSeqProperties
    <3>2. Len(SubSeq(heard, 1, h)) = h
      BY <2>2, <2>3, <2>5, SubSeqProperties
    <3>3. \A i \in 1 .. h : i \in 1 .. h - 1 + 1 /\ 1 + i - 1 = i
      BY <2>3
    <3>4. \A i \in 1 .. h : SubSeq(all, 1, h)[i] = SubSeq(heard, 1, h)[i]
      BY <2>5, <3>1, <3>3
    <3>5. QED
      BY <3>1, <3>2, <3>4, SeqEqual
  <2>7. IsPrefix(heard, all)
    BY <2>2, <2>5, <2>6 DEF IsPrefix
  <2>8. QED
    BY <2>3, <2>7
<1>4. QED
  BY <1>1, <1>2, <1>3, PTL DEF Spec
=============================================================================
