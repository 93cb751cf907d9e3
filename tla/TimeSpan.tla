------------------------------ MODULE TimeSpan ------------------------------
(***************************************************************************)
(* The arithmetic of struct timespec in src/shared_c/timer.c and of the    *)
(* playing times in pcm.c, and who uses it: the statistics of io.c, which  *)
(* add up how long poll and read took, and player_get_playback_status,     *)
(* which turns frames into the times that play prints.                     *)
(*                                                                         *)
(* The counts of a second are constants, so that a short second shows      *)
(* every carry and borrow.  now and the two sums in exact are history,     *)
(* kept in nanoseconds.                                                    *)
(***************************************************************************)
EXTENDS Integers

CONSTANTS
  MilisPerSecond,  \* 1000
  NanosPerMili,    \* 1000000
  Unsigned,        \* 2^32, the values of an unsigned
  Rates,           \* sample rates
  MaxFrames,       \* bound on the frames written
  MaxTime          \* bound on the clock

ASSUME TimeAssumption ==
  /\ MilisPerSecond \in Nat \ {0}
  /\ NanosPerMili \in Nat \ {0}
  /\ Unsigned \in Nat \ {0}
  /\ Rates \subseteq Nat \ {0}
  /\ MaxFrames \in Nat
  /\ MaxTime \in Nat

NanosPerSecond == MilisPerSecond * NanosPerMili

Span == [tv_sec : Nat, tv_nsec : 0 .. NanosPerSecond - 1]

Nanos(span) == span.tv_sec * NanosPerSecond + span.tv_nsec

Zero == [tv_sec |-> 0, tv_nsec |-> 0]

\* Returned as an unsigned.
timespec_miliseconds(span) ==
  (MilisPerSecond * span.tv_sec + span.tv_nsec \div NanosPerMili) % Unsigned

BugNoBorrow(start, end) ==
  [tv_sec |-> end.tv_sec - start.tv_sec,
   tv_nsec |-> (end.tv_nsec - start.tv_nsec) % NanosPerSecond]

timespec_elapsed_between(start, end) ==
  IF end.tv_nsec < start.tv_nsec
  THEN [tv_sec |-> end.tv_sec - start.tv_sec - 1,
        tv_nsec |-> NanosPerSecond + end.tv_nsec - start.tv_nsec]
  ELSE [tv_sec |-> end.tv_sec - start.tv_sec,
        tv_nsec |-> end.tv_nsec - start.tv_nsec]

\* The addition of timer_add_elapsed.
BugCarryLate(value, elapsed) ==
  LET nsec == value.tv_nsec + elapsed.tv_nsec
      carry == IF nsec > NanosPerSecond THEN 1 ELSE 0
  IN  [tv_sec |-> value.tv_sec + elapsed.tv_sec + carry,
       tv_nsec |-> nsec - carry * NanosPerSecond]

Added(value, elapsed) ==
  LET nsec == value.tv_nsec + elapsed.tv_nsec
      carry == IF nsec >= NanosPerSecond THEN 1 ELSE 0
  IN  [tv_sec |-> value.tv_sec + elapsed.tv_sec + carry,
       tv_nsec |-> nsec - carry * NanosPerSecond]

BugNarrowProduct(rate, n) ==
  [tv_sec |-> n \div rate,
   tv_nsec |-> ((NanosPerSecond * (n % rate)) % Unsigned) \div rate]

pcm_spec_get_samples_time(rate, n) ==
  LET sec == n \div rate
  IN  [tv_sec |-> sec, tv_nsec |-> (NanosPerSecond * (n - sec * rate)) \div rate]
-----------------------------------------------------------------------------
VARIABLES
  now,       \* the monotonic clock
  stats,     \* whether the stream has statistics (-v, and memory for them)
  pc,        \* "idle", or in a call: "waiting" in poll, "reading" in read
  start,     \* wait_start
  times,     \* the io_stream_statistics
  began,     \* history: when the call began
  exact,     \* history: nanoseconds in each of the calls
  rate,      \* samples_per_sec of the file being played
  frames,    \* the position last asked for
  actual     \* and the time it was turned into

clock == <<stats, start, times, began, exact>>
position == <<rate, frames, actual>>
vars == <<now, pc, clock, position>>

Calls == {"waiting", "reading"}

\* clock_gettime.
Clock == [tv_sec |-> now \div NanosPerSecond, tv_nsec |-> now % NanosPerSecond]

Init ==
  /\ now \in 0 .. MaxTime
  /\ stats \in BOOLEAN
  /\ pc = "idle"
  /\ start = Zero
  /\ times = [c \in Calls |-> Zero]
  /\ began = now
  /\ exact = [c \in Calls |-> 0]
  /\ rate \in Rates
  /\ frames = 0
  /\ actual = Zero

TimePasses ==
  /\ now' \in now + 1 .. MaxTime
  /\ UNCHANGED <<pc, clock, position>>

timer_start(call) ==
  /\ pc = "idle"
  /\ pc' = call
  /\ start' = IF stats THEN Clock ELSE start
  /\ began' = now
  /\ UNCHANGED <<now, stats, times, exact, position>>

\* A read that was interrupted is begun again by the next timer_start.
timer_add_elapsed(call) ==
  /\ pc = call
  /\ pc' = "idle"
  /\ exact' = [exact EXCEPT ![call] = @ + (now - began)]
  /\ times' = IF stats
              THEN [times EXCEPT
                      ![call] = Added(@, timespec_elapsed_between(start, Clock))]
              ELSE times
  /\ UNCHANGED <<now, stats, start, began, position>>

player_get_playback_status ==
  /\ frames' \in 0 .. MaxFrames
  /\ actual' = pcm_spec_get_samples_time(rate, frames')
  /\ UNCHANGED <<now, pc, clock, rate>>

Next ==
  \/ TimePasses
  \/ \E call \in Calls : timer_start(call) \/ timer_add_elapsed(call)
  \/ player_get_playback_status

Spec == Init /\ [][Next]_vars
-----------------------------------------------------------------------------
(***************************************************************************)
(* Properties.                                                             *)
(***************************************************************************)

\* After any number of calls, each begun and ended at any point of a second,
\* the statistics are the exact sums, as normalised timespecs: no carry or
\* borrow is lost, none is made twice.  What is logged of them is right to
\* the millisecond, as far as an unsigned goes.
TotalsAreExact ==
  stats => \A c \in Calls :
    /\ times[c] \in Span
    /\ Nanos(times[c]) = exact[c]
    /\ timespec_miliseconds(times[c]) = (exact[c] \div NanosPerMili) % Unsigned

\* No time is counted for two calls, or before the program began: what is
\* logged when the stream is freed (io.c:402-406) fits into the time it was
\* open.
TimesFitTheClock ==
  Nanos(times["waiting"]) + Nanos(times["reading"]) <= now

\* The position printed is the time of the frames to the nanosecond, rounded
\* down, and normalised, so that its minutes and seconds are right.
PositionIsExact ==
  /\ actual \in Span
  /\ Nanos(actual) * rate <= frames * NanosPerSecond
  /\ frames * NanosPerSecond < (Nanos(actual) + 1) * rate
=============================================================================
