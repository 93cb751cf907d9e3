--------------------------- MODULE MCIoBufferQueue ---------------------------
(* A block of four bytes and writes of one to three bytes: every write can  *)
(* meet a tail that is too short with and without free space at the front.  *)
EXTENDS IoBufferQueue, SequencesExt

MCByte == {0, 1}
MCWrites == SeqOf(MCByte, 3) \ {<<>>}
=============================================================================
