----------------------------- MODULE MCPlayback -----------------------------
(* Frames of two bytes, a header of three and a period of two frames, with  *)
(* files from none of a header to two rings of frames, whole or with half a *)
(* frame at the end.  The buffers have the proportions of play_file: one    *)
(* read is a period, the decoder's buffer two.                              *)
EXTENDS Playback

MCFileSizes == {2, 5, 8, 11, 14, 19}
=============================================================================
