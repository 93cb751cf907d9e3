-------------------------- MODULE PlaybackPromise --------------------------
(***************************************************************************)
(* What playing a file promises the listener.  The whole frames of the     *)
(* file are heard in one pass, each at most once; a play that ends without *)
(* an error has let every frame be heard, except those the device itself   *)
(* threw away when it could not be resumed; a play that ends with an error *)
(* says so.  After the end nothing more is heard.                          *)
(*                                                                         *)
(* There are no buffers, files or recoveries here; Playback is shown to    *)
(* implement this specification.                                           *)
(***************************************************************************)
EXTENDS Integers

VARIABLES
  total,    \* whole frames in the file
  heard,    \* frames played
  lost,     \* frames accepted and thrown away
  trouble,  \* whether a call or the device has failed
  outcome   \* "playing", "complete" or "failed"

promise == <<total, heard, lost, trouble, outcome>>

PromiseInit ==
  /\ total \in Nat
  /\ heard = 0
  /\ lost = 0
  /\ trouble = FALSE
  /\ outcome = "playing"

Hear ==
  /\ outcome = "playing"
  /\ heard + lost < total
  /\ heard' = heard + 1
  /\ UNCHANGED <<total, lost, trouble, outcome>>

Trouble ==
  /\ outcome = "playing"
  /\ trouble' = TRUE
  /\ UNCHANGED <<total, heard, lost, outcome>>

Lose ==
  /\ outcome = "playing"
  /\ trouble
  /\ lost' \in lost + 1 .. total - heard
  /\ UNCHANGED <<total, heard, trouble, outcome>>

Complete ==
  /\ outcome = "playing"
  /\ heard + lost = total
  /\ outcome' = "complete"
  /\ UNCHANGED <<total, heard, lost, trouble>>

Fail ==
  /\ outcome = "playing"
  /\ lost' \in lost .. total - heard
  /\ outcome' = "failed"
  /\ trouble => trouble'
  /\ trouble' \in BOOLEAN
  /\ UNCHANGED <<total, heard>>

PromiseNext == Hear \/ Trouble \/ Lose \/ Complete \/ Fail

PromiseSpec == PromiseInit /\ [][PromiseNext]_promise
=============================================================================
