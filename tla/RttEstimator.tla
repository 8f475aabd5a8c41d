---------------------------- MODULE RttEstimator ----------------------------
(***************************************************************************)
(* The smoothed round-trip-time estimate of ndncatchunks2                  *)
(* (src/csrc/cmd/ndncatchunks2.c, update_rtt, the `incoming' branch).      *)
(*                                                                         *)
(* Time itself is abstracted: a matched probe yields a sample `delta' in   *)
(* microseconds, drawn from the constant set Samples.  The code computes   *)
(* delta as an unsigned 32-bit difference of wall-clock readings, so a     *)
(* clock step backwards shows up as a huge sample above RttCeiling.  The   *)
(* operator is used by CatChunks, which draws the samples.                 *)
(***************************************************************************)
EXTENDS Naturals, Bitwise

CONSTANTS
    RttCeiling,   \* 30000000 in the code: larger samples are not smoothed
    RttFloor      \* 127 in the code: below it the estimate restarts at delta

ASSUME RttCeiling \in Nat /\ RttFloor \in Nat

\* Mutant of NextRtte: the ceiling test left out.
NextRtteNoCeiling(rtte, delta) ==
    LET r == IF delta > rtte THEN rtte + shiftR(rtte, 3)
                             ELSE rtte - shiftR(rtte, 7)
    IN  IF r < RttFloor THEN delta ELSE r

(***************************************************************************)
(* One smoothing step, exactly as update_rtt computes it: grow by an       *)
(* eighth of the OLD ESTIMATE when the sample is larger, shrink by a       *)
(* 128th of it otherwise, and restart from the sample when the result is   *)
(* below the floor.  Samples above the ceiling leave the estimate alone.   *)
(* Spec section 4.2 describes growth by an eighth of the delta instead.    *)
(***************************************************************************)
NextRtte(rtte, delta) ==
    IF delta > RttCeiling THEN rtte
    ELSE LET r == IF delta > rtte THEN rtte + shiftR(rtte, 3)
                                  ELSE rtte - shiftR(rtte, 7)
         IN  IF r < RttFloor THEN delta ELSE r
-----------------------------------------------------------------------------
\* The largest estimate a step can produce from a sample at the ceiling.
RtteCap == RttCeiling + shiftR(RttCeiling, 3)

\* Boundary values of the estimate and of the sample: 0 (calloc), around
\* the floor, around the ceiling and the cap, and a wrapped difference
\* (2^31 - 1, the largest integer TLC represents, stands for it).
RtteEdges == {0, 1, RttFloor - 1, RttFloor, RttFloor + 1, RttCeiling - 1,
              RttCeiling, RtteCap - 1, RtteCap}
DeltaEdges == {0, 1, RttFloor - 1, RttFloor, RttCeiling - 1, RttCeiling,
               RttCeiling + 1, 2147483647}

(***************************************************************************)
(* The estimate never leaves 0..RtteCap (33.75 s): from any estimate in    *)
(* that range, a step with any sample, a wrapped clock difference          *)
(* included, stays in it.  Since md->rtte starts at 0, the unsigned sum    *)
(* rtte + (rtte >> 3) of update_rtt can never wrap around 2^32, and the    *)
(* ceiling test is what guarantees it.                                     *)
(***************************************************************************)
RtteStaysBounded ==
    \A r \in RtteEdges, d \in DeltaEdges :
        NextRtte(r, d) \in 0..RtteCap
=============================================================================
