--------------------------- MODULE TimeSpanProofs ---------------------------
(***************************************************************************)
(* The properties of TimeSpan for every length of a second and of a        *)
(* millisecond, every rate and any number of calls.                        *)
(***************************************************************************)
EXTENDS TimeSpan, TLAPS

\* A quotient rounded down is the number whose multiple is nearest below.
LEMMA Quotient ==
  ASSUME NEW x \in Nat, NEW d \in Nat \ {0}
  PROVE  /\ x \div d \in Nat
         /\ x % d \in 0 .. d - 1
         /\ x = d * (x \div d) + (x % d)
BY SMT

\* There is only one.
LEMMA QuotientUnique ==
  ASSUME NEW d \in Nat \ {0}, NEW q \in Nat, NEW r \in 0 .. d - 1
  PROVE  (d * q + r) \div d = q
BY SMT

LEMMA Second == NanosPerSecond \in Nat \ {0}
<1>1. \A a, b \in Nat \ {0} : a * b \in Nat \ {0}
  BY SMT
<1> QED BY <1>1, TimeAssumption DEF NanosPerSecond

-----------------------------------------------------------------------------
(***************************************************************************)
(* The arithmetic.  K stands for NanosPerSecond where a product with it is *)
(* compared.                                                               *)
(***************************************************************************)
LEMMA SpanType ==
  ASSUME NEW span \in Span
  PROVE  /\ span.tv_sec \in Nat
         /\ span.tv_nsec \in 0 .. NanosPerSecond - 1
         /\ Nanos(span) \in Nat
<1> DEFINE K == NanosPerSecond
<1>1. span.tv_sec \in Nat /\ span.tv_nsec \in 0 .. K - 1
  BY DEF Span
<1>2. K \in Nat
  BY Second
<1>3. \A s, n \in Nat : s * K + n \in Nat
  <2> HIDE DEF K
  <2> QED BY <1>2, SMT
<1>4. span.tv_nsec \in Nat
  BY <1>1, <1>2
<1> HIDE DEF K
<1>5. span.tv_sec * K + span.tv_nsec \in Nat
  BY <1>1, <1>3, <1>4
<1> QED BY <1>1, <1>5 DEF K, Nanos

LEMMA ZeroSpan == Zero \in Span /\ Nanos(Zero) = 0
<1>1. 0 * NanosPerSecond + 0 = 0
  BY Second
<1> QED BY <1>1, Second DEF Zero, Span, Nanos

\* clock_gettime gives the time, normalised.
LEMMA ClockIsNow ==
  ASSUME now \in Nat
  PROVE  Clock \in Span /\ Nanos(Clock) = now
<1> DEFINE K == NanosPerSecond
<1>1. K \in Nat \ {0}
  BY Second
<1> HIDE DEF K
<1>2. /\ now \div K \in Nat
      /\ now % K \in 0 .. K - 1
      /\ now = K * (now \div K) + (now % K)
  BY <1>1, Quotient
<1>3. (now \div K) * K = K * (now \div K)
  BY <1>1, <1>2, SMT
<1>4. Clock \in Span
  BY <1>2 DEF Clock, Span, K
<1>5. Nanos(Clock) = (now \div K) * K + (now % K)
  BY DEF Clock, Nanos, K
<1>6. (now \div K) * K + (now % K) = now
  BY <1>1, <1>2, <1>3
<1> QED BY <1>4, <1>5, <1>6

\* timespec_elapsed_between borrows a second when it must, and only then.
LEMMA ElapsedIsExact ==
  ASSUME NEW s \in Span, NEW e \in Span, Nanos(s) <= Nanos(e)
  PROVE  /\ timespec_elapsed_between(s, e) \in Span
         /\ Nanos(timespec_elapsed_between(s, e)) = Nanos(e) - Nanos(s)
<1> DEFINE K == NanosPerSecond
           r == timespec_elapsed_between(s, e)
           d == e.tv_sec - s.tv_sec
<1>1. K \in Nat \ {0}
  BY Second
<1>2. /\ s.tv_sec \in Nat /\ s.tv_nsec \in 0 .. K - 1
      /\ e.tv_sec \in Nat /\ e.tv_nsec \in 0 .. K - 1
      /\ Nanos(s) = s.tv_sec * K + s.tv_nsec
      /\ Nanos(e) = e.tv_sec * K + e.tv_nsec
  BY SpanType DEF Nanos
<1> HIDE DEF K
<1>3. e.tv_sec * K - s.tv_sec * K = d * K
  BY <1>1, <1>2, SMT
<1>4. d * K + (e.tv_nsec - s.tv_nsec) >= 0
  <2>1. e.tv_sec * K \in Int /\ s.tv_sec * K \in Int /\ d * K \in Int
    BY <1>1, <1>2, SMT
  <2> QED BY <1>1, <1>2, <1>3, <2>1
<1>5. d \in Nat
  <2>1. SUFFICES ASSUME d <= -1 PROVE FALSE
    BY <1>2
  <2>2. d * K <= -K
    BY <1>1, <1>2, <2>1, SMT
  <2>3. d * K \in Int
    BY <1>1, <1>2, SMT
  <2> QED BY <1>1, <1>2, <1>4, <2>2, <2>3
<1>6. CASE e.tv_nsec < s.tv_nsec
  <2>1. r = [tv_sec |-> d - 1, tv_nsec |-> K + e.tv_nsec - s.tv_nsec]
    BY <1>6 DEF timespec_elapsed_between, K
  <2>2. d >= 1
    <3>1. SUFFICES ASSUME d = 0 PROVE FALSE
      BY <1>5
    <3>2. d * K = 0
      BY <1>1, <3>1, SMT
    <3> QED BY <1>2, <1>4, <1>6, <3>2
  <2>3. d - 1 \in Nat /\ K + e.tv_nsec - s.tv_nsec \in 0 .. K - 1
    BY <1>1, <1>2, <1>5, <1>6, <2>2
  <2>4. r \in Span
    BY <2>1, <2>3 DEF Span, K
  <2>5. (d - 1) * K = d * K - K
    BY <1>1, <1>5, SMT
  <2>6. Nanos(r) = (d - 1) * K + (K + e.tv_nsec - s.tv_nsec)
    BY <2>1 DEF Nanos, K
  <2>7. e.tv_sec * K \in Int /\ s.tv_sec * K \in Int /\ d * K \in Int
    BY <1>1, <1>2, SMT
  <2> QED BY <1>1, <1>2, <1>3, <2>4, <2>5, <2>6, <2>7
<1>7. CASE e.tv_nsec >= s.tv_nsec
  <2>1. r = [tv_sec |-> d, tv_nsec |-> e.tv_nsec - s.tv_nsec]
    BY <1>2, <1>7 DEF timespec_elapsed_between, K
  <2>2. e.tv_nsec - s.tv_nsec \in 0 .. K - 1
    BY <1>1, <1>2, <1>7
  <2>3. r \in Span
    BY <1>5, <2>1, <2>2 DEF Span, K
  <2>4. Nanos(r) = d * K + (e.tv_nsec - s.tv_nsec)
    BY <2>1 DEF Nanos, K
  <2>5. e.tv_sec * K \in Int /\ s.tv_sec * K \in Int /\ d * K \in Int
    BY <1>1, <1>2, SMT
  <2> QED BY <1>1, <1>2, <1>3, <2>3, <2>4, <2>5
<1> QED BY <1>2, <1>6, <1>7

\* timer_add_elapsed carries one second at most.
LEMMA AddedIsExact ==
  ASSUME NEW v \in Span, NEW e \in Span
  PROVE  Added(v, e) \in Span /\ Nanos(Added(v, e)) = Nanos(v) + Nanos(e)
<1> DEFINE K == NanosPerSecond
           n == v.tv_nsec + e.tv_nsec
           carry == IF n >= K THEN 1 ELSE 0
           sec == v.tv_sec + e.tv_sec
<1>1. K \in Nat \ {0}
  BY Second
<1>2. /\ v.tv_sec \in Nat /\ v.tv_nsec \in 0 .. K - 1
      /\ e.tv_sec \in Nat /\ e.tv_nsec \in 0 .. K - 1
      /\ Nanos(v) = v.tv_sec * K + v.tv_nsec
      /\ Nanos(e) = e.tv_sec * K + e.tv_nsec
  BY SpanType DEF Nanos
<1>3. Added(v, e) = [tv_sec |-> sec + carry, tv_nsec |-> n - carry * K]
  BY DEF Added
<1> HIDE DEF K
<1>4. carry \in {0, 1} /\ n - carry * K \in 0 .. K - 1 /\ sec + carry \in Nat
  BY <1>1, <1>2, SMT
<1>5. Added(v, e) \in Span
  BY <1>3, <1>4 DEF Span, K
<1>6. Nanos(Added(v, e)) = (sec + carry) * K + (n - carry * K)
  BY <1>3 DEF Nanos, K
<1> HIDE DEF carry
<1>7. (sec + carry) * K = v.tv_sec * K + e.tv_sec * K + carry * K
  BY <1>1, <1>2, <1>4, SMT
<1>8. v.tv_sec * K \in Int /\ e.tv_sec * K \in Int /\ carry * K \in Int
  BY <1>1, <1>2, <1>4, SMT
<1> QED BY <1>1, <1>2, <1>5, <1>6, <1>7, <1>8

LEMMA MilisecondsExact ==
  ASSUME NEW span \in Span
  PROVE  timespec_miliseconds(span) = (Nanos(span) \div NanosPerMili) % Unsigned
<1> DEFINE P == NanosPerMili
           q == span.tv_nsec \div P
           m == MilisPerSecond * span.tv_sec
<1>1. P \in Nat \ {0} /\ MilisPerSecond \in Nat \ {0}
  BY TimeAssumption
<1>2. span.tv_sec \in Nat /\ span.tv_nsec \in Nat
  BY SpanType, Second
<1> HIDE DEF P
<1>3. /\ q \in Nat
      /\ span.tv_nsec % P \in 0 .. P - 1
      /\ span.tv_nsec = P * q + (span.tv_nsec % P)
  BY <1>1, <1>2, Quotient
<1>4. m \in Nat /\ span.tv_sec * (MilisPerSecond * P) = P * m
  BY <1>1, <1>2, SMT
<1> HIDE DEF q, m
<1>5. P * m + P * q = P * (m + q)
  BY <1>1, <1>3, <1>4, SMT
<1>6. Nanos(span) = P * m + (P * q + (span.tv_nsec % P))
  BY <1>3, <1>4 DEF Nanos, NanosPerSecond, P
<1>7. P * m \in Int /\ P * q \in Int /\ P * (m + q) \in Int
  BY <1>1, <1>3, <1>4, SMT
<1>8. Nanos(span) = P * (m + q) + (span.tv_nsec % P)
  BY <1>3, <1>5, <1>6, <1>7
<1>9. m + q \in Nat
  BY <1>3, <1>4
<1>10. Nanos(span) \div P = m + q
  BY <1>1, <1>3, <1>8, <1>9, QuotientUnique
<1> QED BY <1>10 DEF timespec_miliseconds, m, q, P

\* The time of n frames is normalised, and exact but for the rounding down.
LEMMA SamplesTimeIsExact ==
  ASSUME NEW r \in Nat \ {0}, NEW n \in Nat
  PROVE  LET t == pcm_spec_get_samples_time(r, n) IN
         /\ t \in Span
         /\ Nanos(t) * r <= n * NanosPerSecond
         /\ n * NanosPerSecond < (Nanos(t) + 1) * r
<1> DEFINE K == NanosPerSecond
           t == pcm_spec_get_samples_time(r, n)
           q == n \div r
           rest == n - q * r
           x == K * rest
           nsec == x \div r
<1>1. K \in Nat \ {0}
  BY Second
<1>2. t = [tv_sec |-> q, tv_nsec |-> nsec]
  BY DEF pcm_spec_get_samples_time
<1> HIDE DEF K
<1>3. q \in Nat /\ rest \in 0 .. r - 1 /\ n = q * r + rest
  <2>1. q \in Nat /\ n % r \in 0 .. r - 1 /\ n = r * q + (n % r)
    BY Quotient
  <2>2. r * q = q * r /\ q * r \in Nat
    BY <2>1, SMT
  <2> QED BY <2>1, <2>2
<1> HIDE DEF q, rest
<1>4. x \in Nat /\ x < K * r
  BY <1>1, <1>3, SMT
<1> HIDE DEF x
<1>5. nsec \in Nat /\ x % r \in 0 .. r - 1 /\ x = r * nsec + (x % r)
  BY <1>4, Quotient
<1> HIDE DEF nsec
<1>6. nsec \in 0 .. K - 1
  <2>1. SUFFICES ASSUME nsec >= K PROVE FALSE
    BY <1>1, <1>5
  <2>2. r * nsec >= K * r
    BY <1>1, <1>5, <2>1, SMT
  <2>3. r * nsec \in Int /\ K * r \in Int
    BY <1>1, <1>5, SMT
  <2> QED BY <1>4, <1>5, <2>2, <2>3
<1>7. t \in Span
  BY <1>2, <1>3, <1>6 DEF Span, K
<1>8. Nanos(t) = q * K + nsec
  BY <1>2 DEF Nanos, K
<1> DEFINE y == q * K * r
<1>9. y \in Nat /\ r * nsec \in Nat
  BY <1>1, <1>3, <1>5, SMT
<1>10. n * K = y + x
  <2>1. (q * r + rest) * K = q * K * r + K * rest
    BY <1>1, <1>3, SMT
  <2> QED BY <1>3, <2>1 DEF x
<1>11. Nanos(t) * r = y + r * nsec
  <2>1. (q * K + nsec) * r = q * K * r + r * nsec
    BY <1>1, <1>3, <1>5, SMT
  <2> QED BY <1>8, <2>1
<1>12. (Nanos(t) + 1) * r = y + r * nsec + r
  <2>1. (q * K + nsec + 1) * r = q * K * r + r * nsec + r
    BY <1>1, <1>3, <1>5, SMT
  <2> QED BY <1>8, <2>1
<1> HIDE DEF y
<1>13. Nanos(t) * r <= n * K
  BY <1>4, <1>5, <1>9, <1>10, <1>11
<1>14. n * K < (Nanos(t) + 1) * r
  BY <1>4, <1>5, <1>9, <1>10, <1>12
<1> QED BY <1>7, <1>13, <1>14 DEF K
-----------------------------------------------------------------------------
(***************************************************************************)
(* The invariant: the types, what the start of a call was, the sums, and   *)
(* that the calls do not overlap.                                          *)
(***************************************************************************)
ClockType ==
  /\ now \in Nat
  /\ stats \in BOOLEAN
  /\ pc \in {"idle"} \cup Calls
  /\ start \in Span
  /\ times \in [Calls -> Span]
  /\ began \in Nat
  /\ exact \in [Calls -> Nat]

PositionType ==
  /\ rate \in Rates
  /\ frames \in Nat

StartIsKnown ==
  /\ began <= now
  /\ stats /\ pc # "idle" => Nanos(start) = began

Sums ==
  \A c \in Calls : Nanos(times[c]) = IF stats THEN exact[c] ELSE 0

NoOverlap ==
  exact["waiting"] + exact["reading"] <= (IF pc = "idle" THEN now ELSE began)

Accounts == ClockType /\ StartIsKnown /\ Sums /\ NoOverlap

IInv == Accounts /\ PositionType /\ PositionIsExact
-----------------------------------------------------------------------------
LEMMA InitGood == Init => IInv
<1> SUFFICES ASSUME Init PROVE IInv
  OBVIOUS
<1> USE DEF Init
<1>1. now \in Nat /\ rate \in Nat \ {0}
  BY TimeAssumption
<1>2. ClockType
  BY <1>1, ZeroSpan DEF ClockType, Calls
<1>3. StartIsKnown /\ NoOverlap
  BY <1>1 DEF StartIsKnown, NoOverlap, Calls
<1>4. Sums
  BY ZeroSpan DEF Sums
<1>5. PositionIsExact
  <2>1. 0 * rate <= 0 * NanosPerSecond /\ 0 * NanosPerSecond < (0 + 1) * rate
    BY <1>1, Second, SMT
  <2> QED BY <2>1, ZeroSpan DEF PositionIsExact
<1> QED BY <1>1, <1>2, <1>3, <1>4, <1>5 DEF IInv, Accounts, PositionType

LEMMA TimePassesGood ==
  ASSUME Accounts, TimePasses PROVE Accounts'
<1> USE DEF TimePasses, clock, position, Accounts
<1>1. now' \in Nat /\ now' > now
  BY TimeAssumption DEF ClockType
<1>2. ClockType'
  BY <1>1 DEF ClockType
<1>3. StartIsKnown'
  BY <1>1 DEF StartIsKnown, ClockType
<1>4. Sums'
  BY DEF Sums, Nanos
<1>5. NoOverlap'
  BY <1>1 DEF NoOverlap, ClockType, Calls
<1> QED BY <1>2, <1>3, <1>4, <1>5

LEMMA StartGood ==
  ASSUME Accounts, NEW call \in Calls, timer_start(call) PROVE Accounts'
<1> USE DEF timer_start, position, Accounts
<1>1. Clock \in Span /\ Nanos(Clock) = now
  BY ClockIsNow DEF ClockType
<1>2. ClockType'
  BY <1>1 DEF ClockType
<1>3. StartIsKnown'
  BY <1>1 DEF StartIsKnown, ClockType, Nanos
<1>4. Sums'
  BY DEF Sums, Nanos
<1>5. NoOverlap'
  BY DEF NoOverlap, ClockType, Calls
<1> QED BY <1>2, <1>3, <1>4, <1>5

LEMMA AddGood ==
  ASSUME Accounts, NEW call \in Calls, timer_add_elapsed(call) PROVE Accounts'
<1> USE DEF timer_add_elapsed, position, Accounts
<1> DEFINE took == timespec_elapsed_between(start, Clock)
           sum == Added(times[call], took)
<1>1. Clock \in Span /\ Nanos(Clock) = now
  BY ClockIsNow DEF ClockType
<1>2. pc # "idle" /\ times[call] \in Span /\ exact[call] \in Nat
      /\ now \in Nat /\ began \in Nat /\ began <= now
  BY DEF Calls, ClockType, StartIsKnown
<1>3. ASSUME stats
      PROVE  sum \in Span /\ Nanos(sum) = exact[call] + (now - began)
  <2>1. Nanos(start) = began /\ start \in Span
    BY <1>2, <1>3 DEF StartIsKnown, ClockType
  <2>2. took \in Span /\ Nanos(took) = now - began
    BY <1>1, <1>2, <2>1, ElapsedIsExact
  <2>3. sum \in Span /\ Nanos(sum) = Nanos(times[call]) + (now - began)
    BY <1>2, <2>2, AddedIsExact
  <2>4. Nanos(times[call]) = exact[call]
    BY <1>3 DEF Sums
  <2> QED BY <2>3, <2>4
<1> HIDE DEF took, sum
<1>4. times' = IF stats THEN [times EXCEPT ![call] = sum] ELSE times
  BY DEF sum, took
<1>5. ClockType'
  BY <1>2, <1>3, <1>4 DEF ClockType
<1>6. StartIsKnown'
  BY <1>2 DEF StartIsKnown
<1>7. Sums'
  <2> SUFFICES ASSUME NEW c \in Calls
               PROVE  Nanos(times'[c]) = IF stats THEN exact'[c] ELSE 0
    BY DEF Sums, Nanos
  <2>1. CASE ~stats
    BY <1>4, <2>1 DEF Sums
  <2>2. CASE stats /\ c # call
    BY <1>4, <2>2 DEF Sums, ClockType
  <2>3. CASE stats /\ c = call
    <3>1. times'[c] = sum /\ exact'[c] = exact[call] + (now - began)
      BY <1>4, <2>3 DEF ClockType
    <3> QED BY <1>3, <2>3, <3>1
  <2> QED BY <2>1, <2>2, <2>3
<1>8. NoOverlap'
  BY <1>2 DEF NoOverlap, ClockType, Calls
<1> QED BY <1>5, <1>6, <1>7, <1>8

LEMMA StatusGood ==
  ASSUME PositionType, PositionIsExact, player_get_playback_status
  PROVE  PositionType' /\ PositionIsExact'
<1> USE DEF player_get_playback_status, clock
<1>1. rate \in Nat \ {0} /\ frames' \in Nat
  BY TimeAssumption DEF PositionType
<1>2. PositionType'
  BY <1>1 DEF PositionType
<1>3. /\ actual' \in Span
      /\ Nanos(actual') * rate <= frames' * NanosPerSecond
      /\ frames' * NanosPerSecond < (Nanos(actual') + 1) * rate
  BY <1>1, SamplesTimeIsExact
<1>4. PositionIsExact'
  BY <1>3 DEF PositionIsExact, Nanos
<1> QED BY <1>2, <1>4

LEMMA StepGood == IInv /\ [Next]_vars => IInv'
<1> SUFFICES ASSUME IInv, [Next]_vars PROVE IInv'
  OBVIOUS
<1> USE DEF IInv
<1>1. ASSUME UNCHANGED position PROVE PositionType' /\ PositionIsExact'
  BY <1>1 DEF position, PositionType, PositionIsExact, Nanos
<1>2. CASE TimePasses
  BY <1>1, <1>2, TimePassesGood DEF TimePasses
<1>3. ASSUME NEW call \in Calls, timer_start(call) \/ timer_add_elapsed(call)
      PROVE  IInv'
  BY <1>1, <1>3, StartGood, AddGood DEF timer_start, timer_add_elapsed
<1>4. ASSUME UNCHANGED <<now, pc, clock>> PROVE Accounts'
  BY <1>4 DEF clock, Accounts, ClockType, StartIsKnown, Sums, NoOverlap, Nanos
<1>5. CASE player_get_playback_status
  BY <1>4, <1>5, StatusGood DEF player_get_playback_status
<1>6. CASE UNCHANGED vars
  BY <1>1, <1>4, <1>6 DEF vars
<1> QED BY <1>2, <1>3, <1>5, <1>6 DEF Next

THEOREM Invariance == Spec => []IInv
<1>1. IInv /\ [Next]_vars => IInv'
  BY StepGood
<1> QED BY InitGood, <1>1, PTL DEF Spec

\* The statistics are the exact sums of what the calls took, whatever the
\* lengths of the calls and wherever in a second they begin and end.
THEOREM TotalsExact == Spec => []TotalsAreExact
<1>1. IInv => TotalsAreExact
  <2> SUFFICES ASSUME IInv, stats, NEW c \in Calls
               PROVE  /\ times[c] \in Span
                      /\ Nanos(times[c]) = exact[c]
                      /\ timespec_miliseconds(times[c])
                           = (exact[c] \div NanosPerMili) % Unsigned
    BY DEF TotalsAreExact
  <2>1. times[c] \in Span /\ Nanos(times[c]) = exact[c]
    BY DEF IInv, Accounts, ClockType, Sums
  <2> QED BY <2>1, MilisecondsExact
<1> QED BY Invariance, <1>1, PTL

\* No time is counted twice.
THEOREM NothingCountedTwice == Spec => []TimesFitTheClock
<1>1. IInv => TimesFitTheClock
  BY DEF IInv, Accounts, ClockType, StartIsKnown, Sums, NoOverlap, Calls,
         TimesFitTheClock
<1> QED BY Invariance, <1>1, PTL

\* Positions are printed to the nanosecond, for every rate.
THEOREM PositionExact == Spec => []PositionIsExact
<1>1. IInv => PositionIsExact
  BY DEF IInv
<1> QED BY Invariance, <1>1, PTL
=============================================================================
