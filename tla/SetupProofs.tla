----------------------------- MODULE SetupProofs -----------------------------
(***************************************************************************)
(* What becomes of the numbers of the command line, for every command      *)
(* line, every file, every device and every width of the integers.  First, *)
(* that the period fits into the decoder's buffer if the device has one as *)
(* short as was asked for, which is the condition under which              *)
(* PlaybackProofs shows that no assertion fails; then the divisions, the   *)
(* time left for reading and the ring.                                     *)
(***************************************************************************)
EXTENDS PlayerSetup, TLAPS

LEMMA Constants ==
  /\ {Kilo, Mili, SizeT, Unsigned, UShort, Micros} \subseteq Nat \ {0}
BY SetupAssumption DEF Micros

Opening == {"stream", "period", "buffer", "set_params", "preload"}

TypeOK ==
  /\ config \in [buffer : Nat, period : Nat, count : Nat]
  /\ spec \in [channels : Nat \ {0}, rate : Nat, bits : Nat, block : Nat]
  /\ device.periods \subseteq Nat
  /\ dest \in Nat

\* Where the numbers that decide come from.
SizesKnown ==
  /\ pc \in Opening \cup {"player_open"} /\ 2 * config.period < SizeT =>
       dest >= 2 * config.period
  /\ pc \in {"stream", "period"} /\ config.period > 0 =>
       params.period_size = config.period

ChosenFits ==
  pc \in {"buffer", "set_params", "preload"} /\ HasShortPeriod /\ config.period > 0
    /\ 2 * config.period < SizeT =>
    frames_per_period * pcm_frame_size <= dest

IInv == TypeOK /\ SizesKnown /\ ChosenFits
-----------------------------------------------------------------------------
(***************************************************************************)
(* Numbers.                                                                *)
(***************************************************************************)
LEMMA Quotient ==
  ASSUME NEW n \in Nat, NEW d \in Nat \ {0}
  PROVE  /\ n \div d \in Nat /\ n % d \in 0 .. d - 1
         /\ n = d * (n \div d) + (n % d)
OBVIOUS

\* Neither dividing and multiplying nor wrapping makes a number greater.
LEMMA Wraps ==
  ASSUME NEW n \in Nat, NEW d \in Nat \ {0}
  PROVE  /\ n % d \in 0 .. n
         /\ n \div d \in Nat /\ (n \div d) * d \in 0 .. n
<1> DEFINE q == n \div d
           r == n % d
<1>1. q \in Nat /\ r \in 0 .. d - 1 /\ n = d * q + r
  BY Quotient
<1> HIDE DEF q, r
<1>2. d * q \in Nat /\ q * d = d * q
  BY <1>1
<1> DEFINE p == d * q
<1>3. p \in Nat /\ n = p + r /\ q * d = p /\ r \in Nat
  BY <1>1, <1>2
<1> HIDE DEF p
<1>4. r \in 0 .. n /\ q * d \in 0 .. n
  BY <1>1, <1>3
<1>5. QED
  BY <1>1, <1>4 DEF q, r

LEMMA Greater ==
  ASSUME NEW a \in Nat, NEW b \in Nat, NEW c \in Nat
  PROVE  /\ a <= b => a * c <= b * c
         /\ a < b /\ c > 0 => a * c < b * c
<1>1. SUFFICES ASSUME a <= b
               PROVE  a * c <= b * c /\ (a < b /\ c > 0 => a * c < b * c)
  OBVIOUS
<1>2. PICK d \in Nat : b = a + d
  <2>1. b - a \in Nat /\ b = a + (b - a)
    BY <1>1
  <2>2. QED
    BY <2>1
<1>3. b * c = a * c + d * c /\ a * c \in Nat /\ d * c \in Nat
  BY <1>2
<1>4. d > 0 /\ c > 0 => d * c > 0
  BY <1>2
<1>5. QED
  BY <1>2, <1>3, <1>4
-----------------------------------------------------------------------------
\* The time that is asked for is not longer than its frames.
LEMMA TimeOfFrames ==
  ASSUME NEW frames \in Nat, spec.rate \in Nat \ {0}
  PROVE  /\ FramesTime(frames) % Unsigned \in Nat
         /\ (FramesTime(frames) % Unsigned) * spec.rate <= frames * Micros
<1> DEFINE a == frames * Micros
           b == a % SizeT
           t == b \div spec.rate
           u == t % Unsigned
<1>1. a \in Nat
  BY Constants
<1> HIDE DEF a
<1>2. b \in 0 .. a
  BY <1>1, Constants, Wraps
<1> HIDE DEF b
<1>3. t \in Nat /\ t * spec.rate \in 0 .. b
  BY <1>1, <1>2, Wraps
<1> HIDE DEF t
<1>4. u \in 0 .. t
  BY <1>3, Constants, Wraps
<1> HIDE DEF u
<1>5. u * spec.rate <= t * spec.rate /\ u * spec.rate \in Nat /\ t * spec.rate \in Nat
  BY <1>3, <1>4, Greater
<1>6. u * spec.rate <= a
  <2> DEFINE v == u * spec.rate
             w == t * spec.rate
  <2>1. v \in Nat /\ w \in Nat /\ v <= w /\ w <= b /\ b <= a
    BY <1>1, <1>2, <1>3, <1>5
  <2> HIDE DEF v, w
  <2>2. v <= a
    BY <1>1, <1>2, <2>1
  <2>3. QED
    BY <2>2 DEF v
<1>7. FramesTime(frames) % Unsigned = u
  BY DEF FramesTime, u, t, b, a
<1>8. u \in Nat
  BY <1>3, <1>4
<1>9. QED
  BY <1>6, <1>7, <1>8 DEF a

\* Of the members of a set of which one is no more than p, the nearest to
\* what is no more than p is no more than twice p.
LEMMA NearestIsNear ==
  ASSUME NEW set \in SUBSET Nat, NEW unit \in Nat \ {0}, NEW value \in Nat,
         NEW p \in Nat, value <= p * unit,
         NEW short \in set, short <= p,
         NEW n \in Nearest(set, unit, value)
  PROVE  n \in Nat /\ n <= 2 * p
<1> DEFINE Distance(m) == IF m * unit > value THEN m * unit - value ELSE value - m * unit
<1>1. n \in set /\ Distance(n) <= Distance(short)
  BY DEF Nearest
<1>2. n \in Nat /\ short \in Nat
  BY <1>1
<1> DEFINE a == n * unit
           b == short * unit
           c == p * unit
<1>3. a \in Nat /\ b \in Nat /\ c \in Nat /\ b <= c
  BY <1>2, Greater
<1>4. (IF a > value THEN a - value ELSE value - a)
        <= (IF b > value THEN b - value ELSE value - b)
  BY <1>1
<1>5. value <= c
  OBVIOUS
<1>6. (2 * p) * unit = 2 * c
  OBVIOUS
<1> HIDE DEF a, b, c
<1>7. a <= 2 * c
  BY <1>3, <1>4, <1>5
<1>8. 2 * p < n => (2 * p) * unit < a
  BY <1>2, Greater DEF a
<1>9. QED
  BY <1>2, <1>3, <1>6, <1>7, <1>8

\* The period that the device chooses fits.
LEMMA ChosenPeriodFits ==
  ASSUME IInv, pc = "period", HasShortPeriod, config.period > 0,
         2 * config.period < SizeT, spec.rate # 0, pcm_frame_size # 0,
         NEW n \in NearestPeriods(pcm_buffer_time_us(params.period_size))
  PROVE  n * pcm_frame_size <= dest
<1> DEFINE size == config.period
           fs == pcm_frame_size
           p == size \div fs
           time == pcm_buffer_time_us(size)
<1>1. size \in Nat /\ dest \in Nat /\ dest >= 2 * size /\ params.period_size = size
  BY DEF IInv, TypeOK, SizesKnown, Opening
<1>2. spec.rate \in Nat \ {0} /\ device.periods \subseteq Nat
  BY DEF IInv, TypeOK
<1>3. fs \in Nat \ {0}
  <2>1. spec.channels * spec.bits \in Nat
    BY DEF IInv, TypeOK
  <2>2. (spec.channels * spec.bits) \div 8 \in Nat
    BY <2>1, Quotient
  <2>3. QED
    BY <2>2 DEF pcm_frame_size
<1>4. PICK short \in device.periods : short * fs <= size
  BY DEF HasShortPeriod
<1> HIDE DEF size, fs
<1>5. p \in Nat /\ p * fs \in 0 .. size
  BY <1>1, <1>3, Wraps
<1>6. short <= p
  <2>1. short \in Nat
    BY <1>2, <1>4
  <2> DEFINE r == size % fs
  <2>2. size = fs * p + r /\ r \in 0 .. fs - 1
    BY <1>1, <1>3, Quotient
  <2> HIDE DEF p, r
  <2>3. (p + 1) * fs = fs * p + fs /\ fs * p \in Nat
    BY <1>3, <1>5
  <2>4. p + 1 <= short => (p + 1) * fs <= short * fs
    BY <1>3, <1>5, <2>1, Greater
  <2>5. short * fs \in Nat
    BY <1>3, <2>1
  <2> DEFINE x == short * fs
             y == fs * p
  <2>6. x \in Nat /\ y \in Nat /\ x <= size /\ size = y + r
        /\ (p + 1 <= short => y + fs <= x)
    BY <1>4, <2>2, <2>3, <2>4, <2>5
  <2> HIDE DEF x, y
  <2>7. ~(p + 1 <= short)
    BY <1>1, <1>3, <2>2, <2>6
  <2>8. QED
    BY <1>5, <2>1, <2>7
<1>7. time \in Nat /\ time * spec.rate \in Nat /\ time * spec.rate <= p * Micros
  <2> HIDE DEF p
  <2>1. time = FramesTime(p) % Unsigned
    BY DEF pcm_buffer_time_us, p, fs
  <2>2. time \in Nat /\ time * spec.rate <= p * Micros
    BY <1>2, <1>5, <2>1, TimeOfFrames
  <2> HIDE DEF time
  <2>3. QED
    BY <1>2, <2>2
<1>8. n \in Nearest(device.periods, Micros, time * spec.rate)
  BY <1>1 DEF NearestPeriods
<1> HIDE DEF p, time
<1>9. n \in Nat /\ n <= 2 * p
  <2> DEFINE value == time * spec.rate
  <2>1. value \in Nat /\ value <= p * Micros /\ n \in Nearest(device.periods, Micros, value)
    BY <1>7, <1>8
  <2> HIDE DEF value
  <2>2. QED
    BY <1>2, <1>4, <1>5, <1>6, <2>1, Constants, NearestIsNear
<1>10. n * fs <= (2 * p) * fs /\ n * fs \in Nat
  BY <1>3, <1>5, <1>9, Greater
<1>11. (2 * p) * fs = 2 * (p * fs)
  BY <1>3, <1>5
<1>12. n * fs <= dest
  <2> DEFINE x == n * fs
             y == p * fs
  <2>1. x \in Nat /\ y \in 0 .. size /\ x <= 2 * y
    BY <1>5, <1>10, <1>11
  <2> HIDE DEF x, y
  <2>2. x <= dest
    BY <1>1, <2>1
  <2>3. QED
    BY <2>2 DEF x
<1>13. QED
  BY <1>12 DEF fs
-----------------------------------------------------------------------------
LEMMA InitInvariant == Init => IInv
<1> SUFFICES ASSUME Init PROVE IInv
  OBVIOUS
<1>1. /\ config \in Configs /\ spec \in Specs /\ device \in Devices /\ dest = 0
      /\ pc = "defaults"
  BY DEF Init
<1>2. device.periods \subseteq Nat
  BY <1>1, SetupAssumption
<1>3. TypeOK
  BY <1>1, <1>2, SetupAssumption DEF TypeOK
<1>4. QED
  BY <1>1, <1>3 DEF IInv, SizesKnown, Opening, ChosenFits

LEMMA DefaultsKeep == ASSUME IInv, bridge_config_defaults PROVE IInv'
<1>1. pc' = "decoder_open" /\ UNCHANGED <<asked, dest>>
  BY DEF bridge_config_defaults
<1>2. config' \in [buffer : Nat, period : Nat, count : Nat]
  <2>1. \A n \in Nat : n % SizeT \in Nat
    <3>1. SUFFICES ASSUME NEW n \in Nat PROVE n % SizeT \in Nat
      OBVIOUS
    <3>2. n % SizeT \in 0 .. SizeT - 1 /\ SizeT \in Nat
      BY Constants, Quotient
    <3>3. QED
      BY <3>2
  <2>2. \A n \in Nat, m \in Nat : Default(n, m) \in Nat
    BY DEF Default
  <2>3. config \in [buffer : Nat, period : Nat, count : Nat]
    BY DEF IInv, TypeOK
  <2>4. /\ Default(config.buffer, 16) * Kilo * Kilo \in Nat
        /\ Default(config.period, 128) * Kilo \in Nat
        /\ Default(config.count, 64) \in Nat
    <3> DEFINE a == Default(config.buffer, 16)
               b == Default(config.period, 128)
    <3>1. a \in Nat /\ b \in Nat /\ Default(config.count, 64) \in Nat
      BY <2>2, <2>3
    <3> HIDE DEF a, b
    <3>2. a * Kilo \in Nat /\ b * Kilo \in Nat
      BY <3>1, Constants
    <3>3. (a * Kilo) * Kilo \in Nat
      BY <3>2, Constants
    <3>4. QED
      BY <3>1, <3>2, <3>3 DEF a, b
  <2>5. /\ (Default(config.buffer, 16) * Kilo * Kilo) % SizeT \in Nat
        /\ (Default(config.period, 128) * Kilo) % SizeT \in Nat
    BY <2>1, <2>4
  <2>6. QED
    BY <2>4, <2>5 DEF bridge_config_defaults
<1>3. QED
  BY <1>1, <1>2 DEF IInv, TypeOK, SizesKnown, Opening, ChosenFits, asked

LEMMA OpenDecoderKeeps == ASSUME IInv, OpenDecoder PROVE IInv'
<1>1. /\ pc' = "player_open" /\ UNCHANGED <<config, asked>>
      /\ dest' = Larger(pcm_buffer_size, spec.block)
  BY DEF OpenDecoder
<1>2. config.period \in Nat /\ spec.block \in Nat
  BY DEF IInv, TypeOK
<1>3. pcm_buffer_size \in Nat /\ (2 * config.period < SizeT => pcm_buffer_size = 2 * config.period)
  BY <1>2, Constants DEF pcm_buffer_size
<1>4. dest' \in Nat /\ dest' >= pcm_buffer_size
  BY <1>1, <1>2, <1>3 DEF Larger
<1>5. QED
  BY <1>1, <1>2, <1>3, <1>4 DEF IInv, TypeOK, SizesKnown, Opening, ChosenFits, asked

LEMMA PlayerOpenKeeps == ASSUME IInv, player_open PROVE IInv'
<1>1. /\ pc = "player_open" /\ pc' = "stream" /\ UNCHANGED <<config, asked, dest>>
      /\ config.period > 0 => params'.period_size = config.period
  BY DEF player_open, IInv, TypeOK
<1>2. QED
  BY <1>1 DEF IInv, TypeOK, SizesKnown, Opening, ChosenFits, asked

LEMMA StreamKeeps == ASSUME IInv, player_set_params_stream PROVE IInv'
<1>1. /\ pc = "stream" /\ pc' \in {"period", "failed"}
      /\ UNCHANGED <<config, asked, dest, params>>
  BY DEF player_set_params_stream
<1>2. QED
  BY <1>1 DEF IInv, TypeOK, SizesKnown, Opening, ChosenFits, asked

LEMMA PeriodKeeps == ASSUME IInv, player_set_params_period PROVE IInv'
<1>1. pc = "period" /\ UNCHANGED <<config, asked, dest>>
  BY DEF player_set_params_period
<1>2. \/ pc' \in {"crashed", "failed"}
      \/ /\ pc' = "buffer" /\ spec.rate # 0 /\ pcm_frame_size # 0
         /\ frames_per_period' \in NearestPeriods(pcm_buffer_time_us(params.period_size))
  BY DEF player_set_params_period
<1>3. TypeOK' /\ SizesKnown'
  BY <1>1, <1>2 DEF IInv, TypeOK, SizesKnown, Opening, asked
<1>4. ChosenFits'
  <2>1. /\ HasShortPeriod' = HasShortPeriod /\ pcm_frame_size' = pcm_frame_size
        /\ config' = config /\ dest' = dest
    BY <1>1 DEF HasShortPeriod, pcm_frame_size, asked
  <2>2. QED
    BY <1>1, <1>2, <2>1, ChosenPeriodFits DEF ChosenFits
<1>5. QED
  BY <1>3, <1>4 DEF IInv

LEMMA LaterKeeps ==
  ASSUME IInv,
         player_set_params_buffer \/ player_set_params \/ UNCHANGED vars
  PROVE  IInv'
<1>1. /\ UNCHANGED <<config, asked, dest, params, frames_per_period>>
      /\ \/ pc' = pc
         \/ /\ pc \in {"buffer", "set_params"}
            /\ pc' \in {"set_params", "preload", "failed"}
  BY DEF player_set_params_buffer, player_set_params, vars, chosen
<1>2. TypeOK' /\ SizesKnown'
  BY <1>1 DEF IInv, TypeOK, SizesKnown, Opening, asked
<1>3. ChosenFits'
  <2>1. HasShortPeriod' = HasShortPeriod /\ pcm_frame_size' = pcm_frame_size
    BY <1>1 DEF HasShortPeriod, pcm_frame_size, asked
  <2>2. QED
    BY <1>1, <2>1 DEF IInv, ChosenFits
<1>4. QED
  BY <1>2, <1>3 DEF IInv

LEMMA StepKeeps == ASSUME IInv, [Next]_vars PROVE IInv'
BY DefaultsKeep, OpenDecoderKeeps, PlayerOpenKeeps, StreamKeeps, PeriodKeeps, LaterKeeps
   DEF Next

\* The period the device chooses fits into the decoder's buffer, because
\* main.c:127 takes twice what was asked for, and player.c:354-358 need not
\* do more than log that it is another.
THEOREM PeriodAlwaysFits == Spec => []PeriodFits
<1>1. IInv => PeriodFits
  BY DEF IInv, ChosenFits, PeriodFits
<1>2. QED
  BY <1>1, InitInvariant, StepKeeps, PTL DEF Spec
-----------------------------------------------------------------------------
(***************************************************************************)
(* What the numbers of the period and of the ring have to do with those of *)
(* the command line and of the file.                                       *)
(***************************************************************************)
AskedCount == Default(given.count, 64)

CountKnown ==
  /\ given \in [buffer : Nat, period : Nat, count : Nat]
  /\ pc = "defaults" => config = given
  /\ pc \in {"decoder_open", "player_open"} => config.count = AskedCount
  /\ params \in [period_size : Nat, periods_per_buffer : Nat]
  /\ pc \in Opening => params.periods_per_buffer = AskedCount % UShort

\* The stream has been refused by now if there is nothing to divide by.
Divisible ==
  /\ pc # "crashed"
  /\ device \in Devices
  /\ pc \in {"period", "buffer", "set_params", "preload"} =>
       spec.rate # 0 /\ pcm_frame_size \in Nat \ {0}

PeriodKnown ==
  pc \in {"buffer", "set_params", "preload"} =>
    /\ frames_per_period \in Nat
    /\ params.period_size = frames_per_period * pcm_frame_size
    /\ read_timeout \in Nat
    /\ read_timeout > 1 =>
         3 * read_timeout * Mili * spec.rate <= frames_per_period * Micros

TimeKnown ==
  pc \in {"set_params", "preload"} =>
    buffer_time = FramesTime(frames_per_period * Periods) % Unsigned

NumbersKnown ==
  /\ TypeOK
  /\ CountKnown
  /\ Divisible
  /\ PeriodKnown
  /\ TimeKnown


\* Dividing undoes multiplying.
LEMMA Undone ==
  ASSUME NEW n \in Nat, NEW d \in Nat \ {0}
  PROVE  (n * d) \div d = n
<1> DEFINE p == n * d
           q == p \div d
           r == p % d
<1>1. p \in Nat
  OBVIOUS
<1>2. q \in Nat /\ r \in 0 .. d - 1 /\ p = d * q + r
  <2> HIDE DEF p
  <2>1. QED
    BY <1>1, Quotient
<1> HIDE DEF q, r
<1>3. d * q = q * d /\ q * d \in Nat
  BY <1>2
<1>4. q < n => (q + 1) * d <= p
  BY <1>2, Greater
<1>5. n < q => n * d < q * d
  BY <1>2, Greater
<1>6. (q + 1) * d = q * d + d
  BY <1>2
<1> DEFINE x == q * d
<1>7. ~(q < n) /\ ~(n < q)
  <2>1. x \in Nat /\ p = x + r /\ (q < n => x + d <= p) /\ (n < q => p < x)
    BY <1>2, <1>3, <1>4, <1>5, <1>6
  <2> HIDE DEF x, p
  <2>2. QED
    BY <1>1, <1>2, <2>1
<1>8. QED
  BY <1>2, <1>7 DEF q

\* A third of the time of some frames, in miliseconds, three times over.
LEMMA ThirdsFit ==
  ASSUME NEW frames \in Nat, spec.rate \in Nat \ {0},
         NEW time, time = FramesTime(frames) % Unsigned,
         NEW third, third = Larger(1, (time \div Mili) \div 3)
  PROVE  /\ third \in Nat
         /\ third > 1 => 3 * third * Mili * spec.rate <= frames * Micros
<1> DEFINE m == time \div Mili
           t == m \div 3
<1>1. time \in Nat /\ time * spec.rate <= frames * Micros
  BY TimeOfFrames
<1>2. m \in Nat /\ m * Mili \in 0 .. time
  BY <1>1, Constants, Wraps
<1> HIDE DEF m
<1>3. t \in Nat /\ t * 3 \in 0 .. m
  BY <1>2, Wraps
<1> HIDE DEF t
<1>4. third \in Nat /\ (third > 1 => third = t)
  BY <1>3 DEF Larger, t, m
<1>5. (t * 3) * Mili <= m * Mili /\ (t * 3) * Mili \in Nat /\ m * Mili \in Nat
  BY <1>2, <1>3, Constants, Greater
<1> DEFINE u == (t * 3) * Mili
<1>6. u \in Nat /\ u <= time
  <2> DEFINE v == m * Mili
  <2>1. u \in Nat /\ v \in 0 .. time /\ u <= v
    BY <1>2, <1>5
  <2> HIDE DEF u, v
  <2>2. QED
    BY <1>1, <2>1
<1>7. 3 * t * Mili * spec.rate = u * spec.rate
  <2>1. 3 * t = t * 3
    BY <1>3
  <2>2. QED
    BY <2>1
<1> HIDE DEF u
<1>8. u * spec.rate <= time * spec.rate /\ u * spec.rate \in Nat
  BY <1>1, <1>6, Greater
<1>9. u * spec.rate <= frames * Micros
  <2> DEFINE x == u * spec.rate
             y == time * spec.rate
             z == frames * Micros
  <2>1. x \in Nat /\ y \in Nat /\ z \in Nat /\ x <= y /\ y <= z
    BY <1>1, <1>8, Constants
  <2> HIDE DEF x, y, z
  <2>2. x <= z
    BY <2>1
  <2>3. QED
    BY <2>2 DEF x, z
<1>10. QED
  BY <1>4, <1>7, <1>9

\* What the device plays has a frame of at least a byte.
LEMMA SupportedDivides ==
  ASSUME TypeOK, device \in Devices, Supported
  PROVE  spec.rate # 0 /\ pcm_frame_size \in Nat \ {0}
<1>1. spec.channels \in Nat \ {0} /\ spec.bits \in {8, 16, 24, 32}
  BY DEF TypeOK, Supported, FormatBits
<1>2. spec.rate # 0
  <2>1. spec.rate \in device.rates
    BY DEF Supported, Nearest
  <2>2. QED
    BY <2>1, SetupAssumption
<1>3. pcm_frame_size \in Nat \ {0}
  <2>1. PICK n \in 1 .. 4 : spec.bits = n * 8
    <3>1. /\ 8 = 1 * 8 /\ 16 = 2 * 8 /\ 24 = 3 * 8 /\ 32 = 4 * 8
      OBVIOUS
    <3>2. QED
      BY <1>1, <3>1
  <2> DEFINE m == spec.channels * n
  <2>2. m \in Nat \ {0}
    BY <1>1, <2>1
  <2>3. spec.channels * spec.bits = m * 8
    BY <1>1, <2>1
  <2> HIDE DEF m
  <2>4. pcm_frame_size = m
    BY <2>2, <2>3, Undone DEF pcm_frame_size
  <2>5. QED
    BY <2>2, <2>4
<1>4. QED
  BY <1>2, <1>3
-----------------------------------------------------------------------------
LEMMA InitNumbers == Init => NumbersKnown
<1> SUFFICES ASSUME Init PROVE NumbersKnown
  OBVIOUS
<1>1. TypeOK
  BY InitInvariant DEF IInv
<1>2. /\ pc = "defaults" /\ device \in Devices /\ given = config
      /\ params = [period_size |-> 0, periods_per_buffer |-> 0]
  BY DEF Init
<1>3. QED
  BY <1>1, <1>2
     DEF NumbersKnown, TypeOK, CountKnown, Opening, Divisible, PeriodKnown, TimeKnown

LEMMA OpeningNumbers ==
  ASSUME IInv, NumbersKnown, TypeOK',
         bridge_config_defaults \/ OpenDecoder \/ player_open
  PROVE  NumbersKnown'
<1>1. /\ UNCHANGED <<given, spec, device>>
      /\ pc' \in {"decoder_open", "player_open", "stream"}
  BY DEF bridge_config_defaults, OpenDecoder, player_open, asked
<1>2. Divisible' /\ PeriodKnown' /\ TimeKnown'
  BY <1>1 DEF NumbersKnown, Divisible, PeriodKnown, TimeKnown
<1>3. CountKnown'
  <2>1. CASE bridge_config_defaults
    BY <1>1, <2>1
       DEF NumbersKnown, CountKnown, AskedCount, Opening, bridge_config_defaults
  <2>2. CASE OpenDecoder
    BY <1>1, <2>2 DEF NumbersKnown, CountKnown, AskedCount, Opening, OpenDecoder
  <2>3. CASE player_open
    <3>1. pcm_frame_size \in Nat
      <4>1. spec.channels * spec.bits \in Nat
        BY DEF NumbersKnown, TypeOK
      <4>2. QED
        BY <4>1, Quotient DEF pcm_frame_size
    <3> DEFINE size == IF config.period = 0 THEN Larger(64 * pcm_frame_size, dest)
                                            ELSE config.period
    <3>2. size \in Nat
      BY <3>1 DEF NumbersKnown, TypeOK, Larger
    <3>3. AskedCount \in Nat /\ config.count = AskedCount
      BY <2>3 DEF NumbersKnown, CountKnown, AskedCount, Default, player_open
    <3>4. AskedCount % UShort \in Nat
      BY <3>3, Constants, Wraps
    <3>5. /\ params' = [period_size |-> size, periods_per_buffer |-> AskedCount % UShort]
          /\ pc' = "stream"
      BY <2>3, <3>3 DEF player_open
    <3>6. AskedCount' = AskedCount
      BY <1>1 DEF AskedCount
    <3> HIDE DEF size
    <3>7. QED
      BY <1>1, <3>2, <3>4, <3>5, <3>6 DEF NumbersKnown, CountKnown
  <2>4. QED
    BY <2>1, <2>2, <2>3
<1>4. QED
  BY <1>2, <1>3 DEF NumbersKnown

LEMMA StreamNumbers ==
  ASSUME NumbersKnown, TypeOK', player_set_params_stream PROVE NumbersKnown'
<1>1. /\ pc = "stream" /\ pc' \in {"period", "failed"} /\ (pc' = "period" => Supported)
      /\ UNCHANGED <<config, given, spec, device, params>>
  BY DEF player_set_params_stream, asked
<1>2. CountKnown' /\ PeriodKnown' /\ TimeKnown'
  BY <1>1
     DEF NumbersKnown, CountKnown, AskedCount, Opening, PeriodKnown, TimeKnown
<1>3. Divisible'
  <2>1. pcm_frame_size' = pcm_frame_size
    BY <1>1 DEF pcm_frame_size
  <2>2. QED
    BY <1>1, <2>1, SupportedDivides DEF NumbersKnown, Divisible
<1>4. QED
  BY <1>2, <1>3 DEF NumbersKnown

LEMMA PeriodNumbers ==
  ASSUME NumbersKnown, TypeOK', player_set_params_period PROVE NumbersKnown'
<1>1. /\ pc = "period" /\ UNCHANGED <<config, given, spec, device>>
      /\ spec.rate # 0 /\ pcm_frame_size \in Nat \ {0}
  BY DEF player_set_params_period, asked, NumbersKnown, Divisible
<1>2. pcm_frame_size' = pcm_frame_size /\ AskedCount' = AskedCount
  BY <1>1 DEF pcm_frame_size, AskedCount
<1>3. CASE pc' = "failed" /\ UNCHANGED params
  BY <1>1, <1>2, <1>3
     DEF NumbersKnown, CountKnown, Opening, Divisible, PeriodKnown, TimeKnown
<1>4. ASSUME NEW n \in NearestPeriods(pcm_buffer_time_us(params.period_size)),
             pc' = "buffer", frames_per_period' = n, period_time' = ChosenTime(n),
             read_timeout' = Larger(1, (period_time' \div Mili) \div 3),
             params' = [params EXCEPT !.period_size = n * pcm_frame_size]
      PROVE  NumbersKnown'
  <2>1. n \in Nat /\ spec.rate \in Nat \ {0}
    BY <1>1 DEF NumbersKnown, TypeOK, NearestPeriods, Nearest
  <2>2. n * pcm_frame_size \in Nat
    BY <1>1, <2>1
  <2>3. /\ params' \in [period_size : Nat, periods_per_buffer : Nat]
        /\ params'.period_size = n * pcm_frame_size
        /\ params'.periods_per_buffer = params.periods_per_buffer
    BY <1>4, <2>2 DEF NumbersKnown, CountKnown
  <2>4. CountKnown' /\ Divisible' /\ TimeKnown'
    BY <1>1, <1>2, <1>4, <2>3
       DEF NumbersKnown, CountKnown, Opening, Divisible, TimeKnown
  <2>5. /\ read_timeout' \in Nat
        /\ read_timeout' > 1 => 3 * read_timeout' * Mili * spec.rate <= n * Micros
    BY <1>4, <2>1, ThirdsFit DEF ChosenTime
  <2>6. PeriodKnown'
    BY <1>1, <1>2, <1>4, <2>1, <2>3, <2>5 DEF PeriodKnown, Micros
  <2>7. QED
    BY <2>4, <2>6 DEF NumbersKnown
<1>5. QED
  BY <1>1, <1>3, <1>4 DEF player_set_params_period

LEMMA BufferNumbers ==
  ASSUME NumbersKnown, TypeOK', player_set_params_buffer PROVE NumbersKnown'
<1>1. /\ pc = "buffer" /\ pc' \in {"set_params", "failed"}
      /\ UNCHANGED <<config, given, spec, device, params, frames_per_period, read_timeout>>
      /\ buffer_time' = pcm_buffer_time_us(params.period_size * Periods)
  BY DEF player_set_params_buffer, asked, chosen
<1>2. pcm_frame_size' = pcm_frame_size /\ AskedCount' = AskedCount /\ Periods' = Periods
  BY <1>1 DEF pcm_frame_size, AskedCount, Periods
<1>3. CountKnown' /\ Divisible' /\ PeriodKnown'
  BY <1>1, <1>2
     DEF NumbersKnown, CountKnown, Opening, Divisible, PeriodKnown, Micros
<1>4. TimeKnown'
  <2> DEFINE n == frames_per_period
             fs == pcm_frame_size
             k == Periods
  <2>1. n \in Nat /\ fs \in Nat \ {0} /\ params.period_size = n * fs
    BY <1>1 DEF NumbersKnown, Divisible, PeriodKnown
  <2>2. k \in Nat
    BY DEF NumbersKnown, CountKnown, Periods, Larger
  <2>3. (params.period_size * k) \div fs = n * k
    <3> HIDE DEF n, fs, k
    <3>1. (n * fs) * k = (n * k) * fs /\ n * k \in Nat
      BY <2>1, <2>2
    <3>2. ((n * k) * fs) \div fs = n * k
      BY <2>1, <3>1, Undone
    <3>3. QED
      BY <2>1, <3>1, <3>2
  <2>4. buffer_time' = FramesTime(n * k) % Unsigned
    BY <1>1, <2>3 DEF pcm_buffer_time_us
  <2>5. FramesTime(frames_per_period * Periods)' = FramesTime(frames_per_period * Periods)
    BY <1>1, <1>2 DEF FramesTime, Micros
  <2>6. QED
    BY <2>4, <2>5 DEF TimeKnown
<1>5. QED
  BY <1>3, <1>4 DEF NumbersKnown

LEMMA LastNumbers ==
  ASSUME NumbersKnown, TypeOK', player_set_params \/ UNCHANGED vars PROVE NumbersKnown'
<1>1. /\ pc' = pc \/ (pc = "set_params" /\ pc' \in {"preload", "failed"})
      /\ UNCHANGED <<config, given, spec, device, params, frames_per_period,
                     read_timeout, buffer_time>>
  BY DEF player_set_params, vars, asked, chosen
<1>2. /\ pcm_frame_size' = pcm_frame_size /\ AskedCount' = AskedCount
      /\ FramesTime(frames_per_period * Periods)' = FramesTime(frames_per_period * Periods)
  BY <1>1 DEF pcm_frame_size, AskedCount, Periods, FramesTime, Micros
<1>3. CountKnown' /\ Divisible' /\ PeriodKnown'
  BY <1>1, <1>2
     DEF NumbersKnown, CountKnown, Opening, Divisible, PeriodKnown, Micros
<1>4. TimeKnown'
  BY <1>1, <1>2 DEF NumbersKnown, TimeKnown
<1>5. QED
  BY <1>3, <1>4 DEF NumbersKnown

\* What is known of the numbers at every step of the setup (main.c:45-66,
\* player.c:251-390).
THEOREM NumbersInvariance == Spec => [](IInv /\ NumbersKnown)
<1>1. Init => IInv /\ NumbersKnown
  BY InitInvariant, InitNumbers
<1>2. IInv /\ NumbersKnown /\ [Next]_vars => (IInv /\ NumbersKnown)'
  <2> SUFFICES ASSUME IInv, NumbersKnown, [Next]_vars
               PROVE  IInv' /\ NumbersKnown'
    OBVIOUS
  <2>1. IInv' /\ TypeOK'
    BY StepKeeps DEF IInv
  <2>2. NumbersKnown'
    BY <2>1, OpeningNumbers, StreamNumbers, PeriodNumbers, BufferNumbers, LastNumbers
       DEF Next
  <2>3. QED
    BY <2>1, <2>2
<1>3. QED
  BY <1>1, <1>2, PTL DEF Spec

\* Whatever the header of a file says, nothing is divided by it that is zero
\* (pcm.h:24-30, player.c:220-249).
THEOREM NothingDividesByZero == Spec => []NothingIsDividedByZero
<1>1. NumbersKnown => NothingIsDividedByZero
  BY DEF NumbersKnown, Divisible, NothingIsDividedByZero
<1>2. QED
  BY <1>1, NumbersInvariance, PTL

\* Three reads take no longer than the device's period, in whatever widths
\* the times are computed (player.c:367-368).
THEOREM ReadsAlwaysFit == Spec => []ReadsFitIntoPeriod
<1>1. NumbersKnown => ReadsFitIntoPeriod
  BY DEF NumbersKnown, PeriodKnown, ReadsFitIntoPeriod
<1>2. QED
  BY <1>1, NumbersInvariance, PTL

\* Dividing a greater number gives no less.
LEMMA Divided ==
  ASSUME NEW a \in Nat, NEW b \in Nat, NEW d \in Nat \ {0}, a <= b
  PROVE  a \div d <= b \div d
<1> DEFINE p == a \div d
           q == b \div d
<1>1. /\ p \in Nat /\ a % d \in 0 .. d - 1 /\ a = d * p + (a % d)
      /\ q \in Nat /\ b % d \in 0 .. d - 1 /\ b = d * q + (b % d)
  BY Quotient
<1> HIDE DEF p, q
<1>2. SUFFICES ASSUME q < p PROVE FALSE
  BY <1>1 DEF p, q
<1>3. (q + 1) * d <= p * d
  BY <1>1, <1>2, Greater
<1>4. (q + 1) * d = d * q + d /\ p * d = d * p /\ d * q \in Nat /\ d * p \in Nat
  BY <1>1
<1> DEFINE x == d * q
           y == d * p
<1>5. x \in Nat /\ y \in Nat /\ x + d <= y /\ y <= a /\ b < x + d
  BY <1>1, <1>3, <1>4
<1> HIDE DEF x, y
<1>6. QED
  BY <1>5

\* A number that fits is not cut.
LEMMA Uncut ==
  ASSUME NEW n \in Nat, NEW d \in Nat \ {0}, n < d
  PROVE  n % d = n
OBVIOUS

\* The ring is asked for with 16 periods or more, for every command line,
\* device and width of the integers (player.c:405, player.h:40).
THEOREM RingIsLong == Spec => []RingHoldsSixteen
<1>1. NumbersKnown => RingHoldsSixteen
  <2> DEFINE few == frames_per_period * 16
             all == frames_per_period * Periods
  <2> SUFFICES ASSUME NumbersKnown, pc \in {"set_params", "preload"}, TimeFits(all)
               PROVE  buffer_time >= FramesTime(few)
    BY DEF RingHoldsSixteen
  <2>1. frames_per_period \in Nat /\ spec.rate \in Nat \ {0}
    BY DEF NumbersKnown, TypeOK, Divisible, PeriodKnown
  <2>2. Periods \in Nat /\ 16 <= Periods
    BY DEF NumbersKnown, CountKnown, Periods, Larger
  <2>3. few \in Nat /\ all \in Nat /\ few <= all
    <3>1. 16 * frames_per_period <= Periods * frames_per_period
      BY <2>1, <2>2, Greater
    <3>2. 16 * frames_per_period = few /\ Periods * frames_per_period = all
      BY <2>1, <2>2
    <3>3. QED
      BY <2>1, <2>2, <3>1, <3>2
  <2>4. buffer_time = FramesTime(all) % Unsigned
    BY DEF NumbersKnown, TimeKnown
  <2> HIDE DEF few, all
  <2>5. few * Micros \in Nat /\ all * Micros \in Nat /\ few * Micros <= all * Micros
    BY <2>3, Constants, Greater
  <2> DEFINE x == few * Micros
             y == all * Micros
  <2>6. x \in Nat /\ y \in Nat /\ x <= y /\ y < SizeT /\ x < SizeT
    BY <2>5, Constants DEF TimeFits
  <2>7. FramesTime(few) = x \div spec.rate /\ FramesTime(all) = y \div spec.rate
    <3> HIDE DEF x, y
    <3>1. x % SizeT = x /\ y % SizeT = y
      BY <2>6, Constants, Uncut
    <3>2. QED
      BY <3>1 DEF FramesTime, x, y
  <2> HIDE DEF x, y
  <2>8. /\ x \div spec.rate \in Nat /\ y \div spec.rate \in Nat
        /\ x \div spec.rate <= y \div spec.rate
    BY <2>1, <2>6, Divided, Wraps
  <2>9. FramesTime(all) \in Nat /\ FramesTime(all) < Unsigned
    BY <2>7, <2>8 DEF TimeFits
  <2>10. buffer_time = FramesTime(all)
    BY <2>4, <2>9, Constants, Uncut
  <2>11. QED
    BY <2>7, <2>8, <2>10
<1>2. QED
  BY <1>1, NumbersInvariance, PTL
=============================================================================
