---------------------------- MODULE MCHPRingBuffer ----------------------------
(* HPRingBuffer on small rings, with enough items that the ring and the    *)
(* size_t sequences both wrap.                                             *)
EXTENDS HPRingBuffer
===============================================================================
