---------------------------- MODULE MCCatChunks -----------------------------
(***************************************************************************)
(* Model-checking instance of CatChunks.  A table of 4 slots with a window *)
(* of up to 3 makes slot reuse (seq and seq+4 share a slot) reachable with *)
(* 5 segments.  BackoffBase is scaled from 6000000 to 400 so that, with a  *)
(* 100 us sample, the backoff exponent saturates after two stalled ticks   *)
(* as it does after a handful with real RTTs; a 40 s sample exercises the  *)
(* discarded-sample branch of update_rtt.                                  *)
(***************************************************************************)
EXTENDS CatChunks

MCKinds     == {"CONTENT", "UNVERIFIED"}
MCBadKinds  == {"CONTENT", "BAD"}
MCSamples   == {100, 40000000}
=============================================================================
