------------------------------ MODULE AlsaPcm ------------------------------
(***************************************************************************)
(* The PCM handle of ALSA as src/shared_c/player.c uses it: a ring of      *)
(* frames that the program fills without blocking and the device drains.   *)
(* ALSA is not part of the repository; the states and the results of the   *)
(* calls are those player.c handles (XRUN and -EPIPE, SUSPENDED and        *)
(* -ESTRPIPE, -EAGAIN), the parameters those it sets (a start threshold of *)
(* one period) or leaves alone (a stop threshold of the whole ring).       *)
(*                                                                         *)
(* Frames are only counted.  heard and dropped keep account of what became *)
(* of the frames that were accepted and are no longer in the ring.         *)
(***************************************************************************)
EXTENDS Integers

CONSTANTS
  Period,      \* frames_per_period, the start threshold
  RingFrames   \* frames the ring holds

ASSUME RingAssumption ==
  /\ Period \in Nat \ {0}
  /\ RingFrames \in Nat
  /\ Period <= RingFrames

VARIABLES
  pcm,      \* the state of the handle, "NONE" before snd_pcm_open
  ring,     \* frames in the ring
  heard,    \* frames played
  dropped   \* frames thrown away

device == <<pcm, ring, heard, dropped>>

DeviceType ==
  /\ pcm \in {"NONE", "PREPARED", "RUNNING", "XRUN", "SUSPENDED", "CLOSED"}
  /\ ring \in 0 .. RingFrames
  /\ heard \in Nat
  /\ dropped \in Nat

DeviceInit == pcm = "NONE" /\ ring = 0 /\ heard = 0 /\ dropped = 0
-----------------------------------------------------------------------------
(***************************************************************************)
(* The device.                                                             *)
(***************************************************************************)

\* A frame is played.  With the last one the ring is empty, which is the
\* stop threshold.
DevicePlays ==
  /\ pcm = "RUNNING"
  /\ ring' = ring - 1
  /\ heard' = heard + 1
  /\ pcm' = IF ring = 1 THEN "XRUN" ELSE "RUNNING"
  /\ UNCHANGED dropped

DeviceSuspends ==
  /\ pcm = "RUNNING"
  /\ pcm' = "SUSPENDED"
  /\ UNCHANGED <<ring, heard, dropped>>
-----------------------------------------------------------------------------
(***************************************************************************)
(* The calls.                                                              *)
(***************************************************************************)

\* snd_pcm_open and the parameters.
snd_pcm_open ==
  /\ pcm' = "PREPARED"
  /\ UNCHANGED <<ring, heard, dropped>>

Usable == pcm \in {"PREPARED", "RUNNING"}

\* snd_pcm_avail, which is negative in the other states.
snd_pcm_avail == RingFrames - ring

\* snd_pcm_writei accepts n frames and starts the device at the threshold.
snd_pcm_writei(n) ==
  /\ Usable
  /\ ring' = ring + n
  /\ pcm' = IF ring + n >= Period THEN "RUNNING" ELSE pcm
  /\ UNCHANGED <<heard, dropped>>

\* snd_pcm_prepare empties the ring.
snd_pcm_prepare ==
  /\ pcm' = "PREPARED"
  /\ ring' = 0
  /\ dropped' = dropped + ring
  /\ UNCHANGED heard

\* snd_pcm_resume, when it succeeds.
snd_pcm_resume ==
  /\ pcm' = "RUNNING"
  /\ UNCHANGED <<ring, heard, dropped>>

\* snd_pcm_drain, which does not wait on a handle opened with
\* SND_PCM_NONBLOCK, and snd_pcm_close.
snd_pcm_drain_and_close ==
  /\ pcm' = "CLOSED"
  /\ ring' = 0
  /\ dropped' = dropped + ring
  /\ UNCHANGED heard
=============================================================================
