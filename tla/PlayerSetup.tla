----------------------------- MODULE PlayerSetup -----------------------------
(***************************************************************************)
(* From the numbers of the command line to a period and a ring: the        *)
(* defaults and sizes of src/bridge/main.c, and player_set_params of       *)
(* src/shared_c/player.c, which asks ALSA for them and takes what the      *)
(* device has nearest to it.  Playback begins where this ends: its Period, *)
(* RingFrames and DestAlloc are constants there.                           *)
(*                                                                         *)
(* The widths of the integers and the units are constants.  The device is  *)
(* external: what it offers is a record of sets, and a call that sets      *)
(* something near a value chooses the nearest of its set.                  *)
(***************************************************************************)
EXTENDS Integers

CONSTANTS
  Configs,  \* the command lines: [buffer, period, count], 0 what is not given
  Specs,    \* the pcm_specs: [channels, rate, bits, block]; block of FLAC only
  Devices,  \* the devices: [rates, channels, bits, periods, rings], in frames
  Kilo,     \* 1024
  Mili,     \* 1000
  SizeT,    \* 2^64
  Unsigned, \* 2^32
  UShort    \* 2^16; the default count of 64 fits

ASSUME SetupAssumption ==
  /\ Configs \subseteq [buffer : Nat, period : Nat, count : Nat]
  /\ Specs \subseteq [channels : Nat \ {0}, rate : Nat, bits : Nat, block : Nat]
  /\ \A d \in Devices : d.rates \cup d.channels \cup d.periods \cup d.rings
                          \subseteq Nat \ {0}
  /\ {Kilo, Mili, SizeT, Unsigned, UShort} \subseteq Nat \ {0}
  /\ UShort > 64

VARIABLES
  pc,
  config,       \* bridge_config
  given,        \* history: the command line
  spec,         \* the decoder's pcm_spec
  device,
  dest,         \* bytes of the decoder's buffer
  params,       \* player_parameters: period_size and periods_per_buffer
  period_time,  \* as ALSA chose it
  frames_per_period,
  read_timeout,
  buffer_time,  \* as it was asked for
  ring          \* frames of the ring

chosen == <<period_time, frames_per_period, read_timeout>>
asked == <<given, spec, device>>
vars == <<pc, config, asked, dest, params, chosen, buffer_time, ring>>

Init ==
  /\ pc = "defaults"
  /\ config \in Configs
  /\ given = config
  /\ spec \in Specs
  /\ device \in Devices
  /\ dest = 0
  /\ params = [period_size |-> 0, periods_per_buffer |-> 0]
  /\ period_time = 0 /\ frames_per_period = 0 /\ read_timeout = 0
  /\ buffer_time = 0 /\ ring = 0

Larger(a, b) == IF a > b THEN a ELSE b

Default(value, default) == IF value = 0 THEN default ELSE value
-----------------------------------------------------------------------------
(***************************************************************************)
(* main.c.                                                                 *)
(***************************************************************************)
\* The help has other numbers for the last two, 16 and 1024 (main.c:240, 248).
bridge_config_defaults ==
  /\ pc = "defaults"
  /\ pc' = "decoder_open"
  /\ config' = [buffer |-> (Default(config.buffer, 16) * Kilo * Kilo) % SizeT,
                period |-> (Default(config.period, 128) * Kilo) % SizeT,
                count |-> Default(config.count, 64)]
  /\ UNCHANGED <<asked, dest, params, chosen, buffer_time, ring>>

BugSingleBuffer == config.period

\* The decoder's buffer, which FLAC makes larger for its blocks.
pcm_buffer_size == (2 * config.period) % SizeT

OpenDecoder ==
  /\ pc = "decoder_open"
  /\ pc' = "player_open"
  /\ dest' = Larger(pcm_buffer_size, spec.block)
  /\ UNCHANGED <<config, asked, params, chosen, buffer_time, ring>>

pcm_frame_size == (spec.channels * spec.bits) \div 8

\* player_parameters has an unsigned short for the count; player_open knows
\* what to do without a period.
player_open ==
  LET size == IF config.period = 0 THEN Larger(64 * pcm_frame_size, dest)
                                   ELSE config.period
  IN  /\ pc = "player_open"
      /\ pc' = "stream"
      /\ params' = [period_size |-> size,
                    periods_per_buffer |-> config.count % UShort]
      /\ UNCHANGED <<config, asked, dest, chosen, buffer_time, ring>>
-----------------------------------------------------------------------------
(***************************************************************************)
(* player_set_params.  Any of the calls may fail.                          *)
(***************************************************************************)
Fails == pc' = "failed" /\ UNCHANGED <<chosen, buffer_time, ring>>

\* The members of a set nearest to a value, measured in a unit.
Nearest(set, unit, value) ==
  LET Distance(n) == IF n * unit > value THEN n * unit - value ELSE value - n * unit
  IN  {n \in set : \A m \in set : Distance(n) <= Distance(m)}

\* get_pcm_format has formats for samples of these bits.
FormatBits == {8, 16, 24, 32}

\* Format, channels and rate are the device's or the open fails.
BugRateUnchecked ==
  spec.bits \in device.bits /\ spec.channels \in device.channels

Supported ==
  /\ spec.bits \in FormatBits \cap device.bits
  /\ spec.channels \in device.channels
  /\ spec.rate \in Nearest(device.rates, 1, spec.rate)

player_set_params_stream ==
  /\ pc = "stream"
  /\ IF Supported THEN pc' \in {"period", "failed"} ELSE pc' = "failed"
  /\ UNCHANGED <<config, asked, dest, params, chosen, buffer_time, ring>>

Micros == Mili * Mili

\* pcm_buffer_time_us is computed as a size_t and returned as an unsigned.
FramesTime(frames) == ((frames * Micros) % SizeT) \div spec.rate

pcm_buffer_time_us(size) == FramesTime(size \div pcm_frame_size) % Unsigned

\* The time of n frames times the rate is n * Micros.
NearestPeriods(time) == Nearest(device.periods, Micros, time * spec.rate)

BugRequestedTime(frames) ==
  pcm_buffer_time_us(params.period_size) % Unsigned

\* What ALSA reports of the period it chose.
ChosenTime(frames) == FramesTime(frames) % Unsigned

player_set_params_period ==
  /\ pc = "period"
  /\ IF spec.rate = 0 \/ pcm_frame_size = 0
     THEN pc' = "crashed" /\ UNCHANGED <<chosen, params>>
     ELSE \/ pc' = "failed" /\ UNCHANGED <<chosen, params>>
          \/ \E n \in NearestPeriods(pcm_buffer_time_us(params.period_size)) :
               /\ pc' = "buffer"
               /\ frames_per_period' = n
               /\ period_time' = ChosenTime(n)
               /\ read_timeout' = Larger(1, (period_time' \div Mili) \div 3)
               /\ params' = [params EXCEPT !.period_size = n * pcm_frame_size]
  /\ UNCHANGED <<config, asked, dest, buffer_time, ring>>

BugNoMinimum == params.periods_per_buffer

Periods == Larger(params.periods_per_buffer, 16)

player_set_params_buffer ==
  /\ pc = "buffer"
  /\ buffer_time' = pcm_buffer_time_us(params.period_size * Periods)
  /\ \/ pc' = "failed" /\ UNCHANGED ring
     \/ /\ pc' = "set_params"
        /\ ring' \in Nearest({n \in device.rings : n >= frames_per_period},
                             Micros, buffer_time' * spec.rate)
  /\ UNCHANGED <<config, asked, dest, params, chosen>>

\* snd_pcm_hw_params, and the start threshold of player_set_params_sw.
player_set_params ==
  /\ pc = "set_params"
  /\ pc' \in {"preload", "failed"}
  /\ UNCHANGED <<config, asked, dest, params, chosen, buffer_time, ring>>

Next ==
  \/ bridge_config_defaults \/ OpenDecoder \/ player_open
  \/ player_set_params_stream \/ player_set_params_period
  \/ player_set_params_buffer \/ player_set_params

Spec == Init /\ [][Next]_vars
-----------------------------------------------------------------------------
(***************************************************************************)
(* Properties.                                                             *)
(***************************************************************************)

\* The device has a period that is not longer than the one asked for.
HasShortPeriod ==
  \E n \in device.periods : n * pcm_frame_size <= config.period

\* The condition of PlaybackProofs!AssertionsNeverFail, which the code does
\* not check (player.c:354-358 only logs): the period fits into the decoder's
\* buffer, whichever the device chooses, if it has one as short as was asked
\* for.  It is why main.c:127 takes twice the period.
PeriodFits ==
  pc = "preload" /\ HasShortPeriod /\ config.period > 0 /\ 2 * config.period < SizeT =>
    frames_per_period * pcm_frame_size <= dest

\* A file without a rate, which WavHeader lets through, and every other
\* whose spec the device cannot play, is refused before anything is divided
\* by what the spec says (pcm.h:24-30).
NothingIsDividedByZero == pc # "crashed"

\* The three reads of a period (player.c:367-368) fit into the period the
\* device has chosen, unless that is shorter than three miliseconds.
ReadsFitIntoPeriod ==
  pc \in {"buffer", "set_params", "preload"} /\ read_timeout > 1 =>
    3 * read_timeout * Mili * spec.rate <= frames_per_period * Micros

\* Frames whose time the integers can hold on the way to ALSA.
TimeFits(frames) == frames * Micros < SizeT /\ FramesTime(frames) < Unsigned

\* Whatever count is given, also one that has nothing left in an unsigned
\* short (player.h:40), and whatever period the device chose, ALSA is asked for
\* a ring of 16 of its periods or more (player.c:405), if it can be told.
RingHoldsSixteen ==
  pc \in {"set_params", "preload"} /\ TimeFits(frames_per_period * Periods) =>
    buffer_time >= FramesTime(frames_per_period * 16)
=============================================================================
