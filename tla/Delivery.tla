------------------------------ MODULE Delivery ------------------------------
(***************************************************************************)
(* What ndncatchunks2 promises its user (spec.md, sections 1 and 4): the   *)
(* segments 0..NSeg-1 of a content are written to stdout in order, each    *)
(* once, and the program exits 0 only when all of them are written; it may *)
(* give up (exit 1, or "not found") at any point with a prefix written.    *)
(* Several segments may be written in one step (a drain of the reorder     *)
(* buffer); a failure may come after a partial write in the same step.     *)
(***************************************************************************)
EXTENDS Naturals, Sequences

CONSTANT NSeg

VARIABLES
    out,      \* the segment numbers written so far
    outcome   \* "running", "done" (exit 0) or "failed"

vars == <<out, outcome>>

\* The first k segment numbers, in order.
Segments(k) == [i \in 1..k |-> i - 1]

Init == out = <<>> /\ outcome = "running"

\* The next segments, in order, are written.
Write ==
    /\ outcome = "running"
    /\ \E k \in (Len(out) + 1)..NSeg : out' = Segments(k)
    /\ UNCHANGED outcome

\* The program ends, possibly after writing more: exit 0 only once the
\* last segment is out, a failure at any point.
End ==
    /\ outcome = "running"
    /\ \E k \in Len(out)..NSeg :
          /\ out' = Segments(k)
          /\ outcome' \in {"failed"} \cup (IF k = NSeg THEN {"done"} ELSE {})

Next == Write \/ End

Spec == Init /\ [][Next]_vars
=============================================================================
