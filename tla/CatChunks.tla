----------------------------- MODULE CatChunks ------------------------------
(***************************************************************************)
(* The retrieval engine of ndncatchunks2 (src/csrc/cmd/ndncatchunks2.c):   *)
(* the slot table md->ooo[], the pipeline counters of struct mydata, the   *)
(* upcall handler incoming_content, ask_more, the hole filler fill_holes   *)
(* and the session loop of main, over an abstract client library that     *)
(* keeps the pending interests and delivers upcalls.                       *)
(*                                                                         *)
(* Data is abstracted to names: the content of segment s is s itself, so   *)
(* `out', the sequence of blocks fwrite'n to stdout, is a sequence of      *)
(* segment numbers.  Time is abstracted: timeouts, arrivals, scheduler     *)
(* ticks and the end of the probing interval happen in any order.         *)
(***************************************************************************)
EXTENDS Integers, Sequences, Bags, BagsExt, Bitwise

CONSTANTS
    PIPELIMIT,    \* slots in md->ooo[] (1U << 7 in the code)
    MaxWindow,    \* md->maxwindow, from -p (1 <= n < PIPELIMIT)
    NSeg,         \* segments the producer publishes; NSeg-1 carries FinalBlockID
    Kinds,        \* classifications the library may attach to a content upcall
    Samples,      \* rtt samples (microseconds) a matched probe may yield
    RttCeiling,   \* 30000000: larger samples are not smoothed
    RttFloor,     \* 127: below it the estimate restarts at the sample
    BackoffBase,  \* 6000000: the hole filler backs off while (BackoffBase >> b) > rtte
    MaxTimeouts,  \* bound on timeout upcalls to slot closures in one behaviour
    WriteMayFail  \* whether fwrite to stdout may fail (FALSE in -d mode)

AllKinds == {"CONTENT", "UNVERIFIED", "RAW", "KEYMISSING", "BAD"}

ASSUME PIPELIMIT \in Nat \ {0}
ASSUME MaxWindow \in 1..(PIPELIMIT - 1)
ASSUME NSeg \in Nat \ {0}
ASSUME Kinds \subseteq AllKinds /\ "CONTENT" \in Kinds
ASSUME WriteMayFail \in BOOLEAN

RE == INSTANCE RttEstimator

Slots == 0..(PIPELIMIT - 1)
NONE  == -1        \* intdata == -1, and finalslot/sendtime_slot == ~0
NoRaw == -1        \* raw_data_size == 0: nothing buffered in the slot
HOLE  == -2        \* the closures fill_holes calloc()s to run hole_filled
Closures == Slots \cup {HOLE}
Names == 0..(NSeg + PIPELIMIT)   \* every name the pipeline can ask for

\* An interest registered with the client library: its closure and name.
Interest == [cl : Closures, name : Names]

VARIABLES
    md,       \* struct mydata: the pipeline state
    pending,  \* bag of interests pending in the library (refcounts the closures)
    status,   \* where main is: "probing", "running" or one of the exits
    out       \* blocks written to stdout, in order

vars == <<md, pending, status, out>>

Live   == {"probing", "running"}
Exited == {"done", "notfound", "failed", "aborted"}

-----------------------------------------------------------------------------
(* Closure bookkeeping of the library.                                     *)

\* selfp->refcount: the interests that still reference closure cl.
RefCount(p, cl) ==
    BagCardinality([j \in {i \in DOMAIN p : i.cl = cl} |-> p[j]])

\* Mutant of Finalize: FINAL sent while one interest still holds the closure.
FinalizeOffByOne(m, p) ==
    [m EXCEPT !.intdata = [k \in Slots |->
                             IF RefCount(p, k) <= 1 THEN NONE ELSE @[k]]]

\* The NDN_UPCALL_FINAL upcall to incoming_content: intdata = -1, sent once
\* the last interest referencing a slot closure is gone.
Finalize(m, p) ==
    [m EXCEPT !.intdata = [k \in Slots |->
                             IF RefCount(p, k) = 0 THEN NONE ELSE @[k]]]

-----------------------------------------------------------------------------
(* update_rtt, ask_more and the top-up at the end of incoming_content.    *)

\* update_rtt(md, 1, slot): a content for the probed slot closes the probe,
\* folds its sample into rtte and schedules the hole filler.
RttIn(m, slot, delta) ==
    IF slot # m.sendtime_slot THEN m
    ELSE [m EXCEPT !.rtte = RE!NextRtte(m.rtte, delta),
                   !.holefiller = TRUE,
                   !.sendtime_slot = NONE]

\* ask_more(md, seq): bind the slot closure, arm the rtt probe if none is
\* armed (update_rtt(md, 0, slot)), express the interest, count it.
\* `ok' is the conjunction of the function's assert()s.
AskMore(m, seq) ==
    LET slot  == seq % PIPELIMIT
        bound == IF m.intdata[slot] = NONE
                 THEN [m.intdata EXCEPT ![slot] = seq] ELSE m.intdata
        count == IF seq = m.delivered + m.ooo_count
                 THEN m.ooo_count + 1 ELSE m.ooo_count
    IN  [md   |-> [m EXCEPT !.intdata = bound,
                            !.sendtime_slot = IF @ = NONE THEN slot ELSE @,
                            !.ooo_count = count],
         sent |-> {[cl |-> slot, name |-> seq]},
         ok   |-> /\ bound[slot] = seq
                  /\ m.raw[slot] = NoRaw
                  /\ seq >= m.delivered
                  /\ seq < m.delivered + count
                  /\ count < PIPELIMIT]

\* Mutant of MaybeAsk: `<=' for `<' in the top-up test.
MaybeAskOffByOne(m) ==
    IF m.ooo_count <= m.curwindow
    THEN AskMore(m, m.delivered + m.ooo_count)
    ELSE [md |-> m, sent |-> {}, ok |-> TRUE]

\* `if (md->ooo_count < md->curwindow) ask_more(md, delivered + ooo_count)'
MaybeAsk(m) ==
    IF m.ooo_count < m.curwindow
    THEN AskMore(m, m.delivered + m.ooo_count)
    ELSE [md |-> m, sent |-> {}, ok |-> TRUE]

\* "Ask for the next one or two".
TopUp(m) ==
    LET a == MaybeAsk(m)
        b == MaybeAsk(a.md)
    IN  [md |-> b.md, sent |-> a.sent \cup b.sent, ok |-> a.ok /\ b.ok]

-----------------------------------------------------------------------------
(* The content branch of incoming_content.                                *)

\* Mutant of Drain: the EOF check made before the final block is written.
RECURSIVE DrainEofBeforeWrite(_, _, _)
DrainEofBeforeWrite(m, slot, w) ==
    IF m.ooo_count > 0 /\ m.raw[slot] # NoRaw
    THEN IF slot = m.finalslot
         THEN [md |-> m, written |-> w, final |-> TRUE]
         ELSE DrainEofBeforeWrite(
                  [m EXCEPT !.delivered = @ + 1, !.raw[slot] = NoRaw,
                            !.ooo_count = @ - 1],
                  (slot + 1) % PIPELIMIT, Append(w, m.raw[slot]))
    ELSE [md |-> [m EXCEPT !.ooo_base = slot], written |-> w, final |-> FALSE]

\* The drain loop after an in-order delivery: write every buffered slot
\* that follows, stopping at a gap or at the final slot (exit(0)).
RECURSIVE Drain(_, _, _)
Drain(m, slot, w) ==
    IF m.ooo_count > 0 /\ m.raw[slot] # NoRaw
    THEN LET w2 == Append(w, m.raw[slot])
             m2 == [m EXCEPT !.delivered = @ + 1]
         IN  IF slot = m.finalslot
             THEN [md |-> m2, written |-> w2, final |-> TRUE]
             ELSE Drain([m2 EXCEPT !.raw[slot] = NoRaw, !.ooo_count = @ - 1],
                        (slot + 1) % PIPELIMIT, w2)
    ELSE [md |-> [m EXCEPT !.ooo_base = slot], written |-> w, final |-> FALSE]

\* Mutant of InOrder: the drain started at the slot just delivered instead
\* of the next one.
InOrderDrainSameSlot(m, slot, s, delta) ==
    LET m1 == [RttIn(m, slot, delta) EXCEPT !.intdata[slot] = NONE,
                                             !.delivered = @ + 1]
    IN  IF slot = m.finalslot
        THEN [md |-> m1, written |-> <<s>>, final |-> TRUE]
        ELSE Drain([m1 EXCEPT !.ooo_count = @ - 1,
                              !.curwindow = IF @ < MaxWindow THEN @ + 1 ELSE @],
                   slot, <<s>>)

\* slot == ooo_base and ooo_count > 0: deliver, then drain what follows.
InOrder(m, slot, s, delta) ==
    LET m1 == [RttIn(m, slot, delta) EXCEPT !.intdata[slot] = NONE,
                                             !.delivered = @ + 1]
    IN  IF slot = m.finalslot
        THEN [md |-> m1, written |-> <<s>>, final |-> TRUE]
        ELSE Drain([m1 EXCEPT !.ooo_count = @ - 1,
                              !.curwindow = IF @ < MaxWindow THEN @ + 1 ELSE @],
                   (slot + 1) % PIPELIMIT, <<s>>)

\* Mutant of OutOfOrder: the window shrunk without the `curwindow > 1' test.
OutOfOrderShrinkToZero(m, slot, s, delta) ==
    LET m1 == IF m.raw[slot] = NoRaw
              THEN [RttIn(m, slot, delta) EXCEPT !.raw[slot] = s]
              ELSE m
    IN  [md |-> [m1 EXCEPT !.curwindow = @ - 1], written |-> <<>>, final |-> FALSE]

\* Mutant of OutOfOrder: the buffered content does not close the rtt probe.
OutOfOrderNoRtt(m, slot, s, delta) ==
    LET m1 == IF m.raw[slot] = NoRaw THEN [m EXCEPT !.raw[slot] = s] ELSE m
    IN  [md |-> [m1 EXCEPT !.curwindow = IF @ > 1 THEN @ - 1 ELSE @],
         written |-> <<>>, final |-> FALSE]

\* Out-of-order data: buffer it unless the slot already holds some (a dup),
\* and shrink the window.
OutOfOrder(m, slot, s, delta) ==
    LET m1 == IF m.raw[slot] = NoRaw
              THEN [RttIn(m, slot, delta) EXCEPT !.raw[slot] = s]
              ELSE m
    IN  [md |-> [m1 EXCEPT !.curwindow = IF @ > 1 THEN @ - 1 ELSE @],
         written |-> <<>>, final |-> FALSE]

\* incoming_content(closure k, kind, content of name s); `res' is the upcall
\* result, `written' the blocks fwrite'n, `final' whether it exits(0).
ContentUpcall(m, k, s, kind, delta) ==
    LET unverified == kind \in {"UNVERIFIED", "KEYMISSING"}
        m1   == [m EXCEPT !.pkts_recvd = @ + 1,
                          !.unverified = IF unverified THEN @ + 1 ELSE @]
        slot == m.intdata[k] % PIPELIMIT
        m2   == IF s = NSeg - 1 THEN [m1 EXCEPT !.finalslot = slot] ELSE m1
        d    == IF slot # m.ooo_base \/ m.ooo_count = 0
                THEN OutOfOrder(m2, slot, s, delta)
                ELSE InOrder(m2, slot, s, delta)
        t    == TopUp(d.md)
        Ret(res, mm) == [res |-> res, md |-> mm, written |-> <<>>,
                         final |-> FALSE, sent |-> {}, ok |-> TRUE]
    IN  CASE kind = "BAD" -> Ret("ERR", m)
          [] unverified /\ m.pkts_recvd = 0 -> Ret("VERIFY", m)
          [] m.intdata[k] = NONE -> Ret("OK", m1)
          [] OTHER ->
                [res |-> "OK", written |-> d.written, final |-> d.final,
                 md |-> IF d.final THEN d.md ELSE t.md,
                 sent |-> IF d.final THEN {} ELSE t.sent,
                 ok |-> /\ slot = k
                        /\ (slot = m.ooo_base /\ m.ooo_count > 0) => m.raw[slot] = NoRaw
                        /\ d.final \/ t.ok]

-----------------------------------------------------------------------------
(* Initial state: main() after calloc'ing mydata, setting finalslot to ~0, *)
(* freeing every closure (intdata = -1) and calling ask_more(mydata, 0).   *)
(* sendtime_slot is left at calloc's 0, not ~0.                            *)

InitMd ==
    [intdata |-> [k \in Slots |-> NONE], raw |-> [k \in Slots |-> NoRaw],
     ooo_base |-> 0, ooo_count |-> 0, curwindow |-> 1, delivered |-> 0,
     finalslot |-> NONE, sendtime_slot |-> 0, rtte |-> 0, backoff |-> 0,
     lastcheck |-> 0, holefiller |-> FALSE, pkts_recvd |-> 0,
     unverified |-> 0, timeouts |-> 0]

Init ==
    LET a == AskMore(InitMd, 0)
    IN  /\ md = a.md
        /\ pending = SetToBag(a.sent)
        /\ status = "probing"
        /\ out = <<>>

-----------------------------------------------------------------------------
(* Actions.                                                                *)

\* The library receives a content object named s and runs the upcall of
\* every pending interest it satisfies: incoming_content for the slot
\* closure s % PIPELIMIT (if its interest is pending) and hole_filled for
\* recovery interests, which returns OK and so consumes them.  An interest
\* whose upcall returned VERIFY/FETCHKEY stays pending; any other result
\* consumes it, and a slot closure left unreferenced gets its FINAL upcall.
Arrive(s, kind) ==
    /\ status \in Live
    /\ s < NSeg
    /\ \E i \in DOMAIN pending : i.name = s
    /\ \E delta \in Samples :
       LET k    == s % PIPELIMIT
           mine == [cl |-> k, name |-> s]
           p0   == BagRemoveAll(pending, [cl |-> HOLE, name |-> s])
           u    == ContentUpcall(md, k, s, kind, delta)
           p1   == IF u.res = "VERIFY" THEN p0 ELSE BagRemove(p0, mine)
           p2   == p1 (+) SetToBag(u.sent)
       IN  IF ~BagIn(mine, pending)
           THEN /\ pending' = p0
                /\ UNCHANGED <<md, status, out>>
           ELSE IF ~u.ok
           THEN /\ status' = "aborted"
                /\ UNCHANGED <<md, pending, out>>
           \* fwrite of the j-th block fails: exit(1) after j-1 blocks.
           ELSE \E nw \in IF WriteMayFail THEN 0..Len(u.written)
                                          ELSE {Len(u.written)} :
                /\ out' = out \o SubSeq(u.written, 1, nw)
                /\ IF nw < Len(u.written)
                   THEN /\ status' = "failed"
                        /\ UNCHANGED <<md, pending>>
                   ELSE IF u.final
                   THEN /\ status' = "done"
                        /\ UNCHANGED <<md, pending>>
                   ELSE /\ md' = Finalize(u.md, p2)
                        /\ pending' = p2
                        /\ UNCHANGED status

\* A recovery interest times out: hole_filled returns OK, the library
\* drops the interest and frees the closure on its FINAL upcall.
TimeoutHole(i) ==
    /\ status \in Live
    /\ i \in DOMAIN pending
    /\ i.cl = HOLE
    /\ pending' = BagRemove(pending, i)
    /\ UNCHANGED <<md, status, out>>

\* Mutant of TimeoutSlot: the timeout is never re-expressed.
TimeoutSlotNoReexpress(i) ==
    /\ status \in Live
    /\ i \in DOMAIN pending
    /\ i.cl \in Slots
    /\ md.timeouts < MaxTimeouts
    /\ LET p1 == BagRemove(pending, i)
       IN  /\ pending' = p1
           /\ md' = Finalize([md EXCEPT !.timeouts = @ + 1], p1)
    /\ UNCHANGED <<status, out>>

\* NDN_UPCALL_INTEREST_TIMED_OUT on a slot closure.  If another interest
\* still references the closure, or its binding was cleared, the upcall
\* returns OK and the library drops the interest (FINAL follows if it was
\* the last one); otherwise the window collapses to 1 and the upcall
\* returns REEXPRESS, which keeps the interest pending.
TimeoutSlot(i) ==
    /\ status \in Live
    /\ i \in DOMAIN pending
    /\ i.cl \in Slots
    /\ md.timeouts < MaxTimeouts
    /\ LET m1 == [md EXCEPT !.timeouts = @ + 1]
           p1 == BagRemove(pending, i)
       IN  IF RefCount(pending, i.cl) > 1 \/ md.intdata[i.cl] = NONE
           THEN /\ pending' = p1
                /\ md' = Finalize(m1, p1)
           ELSE /\ md' = [m1 EXCEPT !.curwindow = 1]
                /\ UNCHANGED pending
    /\ UNCHANGED <<status, out>>

\* fill_holes: the backoff exponent grows while (6000000 >> b) > rtte.
BackoffStep(b, rtte) == IF shiftR(BackoffBase, b) > rtte THEN b + 1 ELSE b

\* fill_holes finds no progress since the last check while data is
\* outstanding: at backoff 0 it reports a hole, collapses the window and
\* expresses a recovery interest for `delivered' on a fresh closure.
FillHolesStalled ==
    /\ status = "running"
    /\ md.holefiller
    /\ md.delivered = md.lastcheck
    /\ md.ooo_count > 0
    /\ LET hole == md.backoff = 0
       IN  /\ md' = [md EXCEPT !.curwindow = IF hole THEN 1 ELSE @,
                               !.backoff = BackoffStep(@, md.rtte)]
           /\ pending' = IF hole
                         THEN BagAdd(pending, [cl |-> HOLE, name |-> md.delivered])
                         ELSE pending
    /\ UNCHANGED <<status, out>>

\* fill_holes after progress: new baseline, backoff reset.
FillHolesProgress ==
    /\ status = "running"
    /\ md.holefiller
    /\ ~(md.delivered = md.lastcheck /\ md.ooo_count > 0)
    /\ md' = [md EXCEPT !.lastcheck = md.delivered, !.backoff = 0]
    /\ UNCHANGED <<pending, status, out>>

\* main: the first ndn_run(ndn, 500) returns.  Nothing delivered means
\* "not found"; a negative result skips the loop and exits(1).
ProbeEnd ==
    /\ status = "probing"
    /\ \/ /\ md.delivered = 0
          /\ status' = "notfound"
       \/ /\ md.delivered > 0
          /\ status' \in {"running", "failed"}
    /\ UNCHANGED <<md, pending, out>>

\* main's loop: ndn_run returns a negative result (the connection to ndnd
\* is lost); the schedule is destroyed and main exits(1).
Disconnect ==
    /\ status = "running"
    /\ status' = "failed"
    /\ UNCHANGED <<md, pending, out>>

\* The process has exited.
Terminated ==
    /\ status \in Exited
    /\ UNCHANGED vars

Next ==
    \/ \E s \in Names, kind \in Kinds : Arrive(s, kind)
    \/ \E i \in DOMAIN pending : TimeoutHole(i)
    \/ \E i \in DOMAIN pending : TimeoutSlot(i)
    \/ FillHolesStalled
    \/ FillHolesProgress
    \/ ProbeEnd
    \/ Disconnect
    \/ Terminated

(***************************************************************************)
(* Fairness.  main alternates ndn_schedule_run and ndn_run, so a due       *)
(* hole-filler tick and the end of the probing ndn_run are never postponed *)
(* forever (weak fairness).  The network is assumed to answer, eventually, *)
(* an interest for a published segment that keeps being pending (strong   *)
(* fairness on the verified arrival); losses, timeouts, disconnects and    *)
(* write errors are possible but never forced.                             *)
(***************************************************************************)
\* ENABLED Arrive(s, kind), spelled out: every branch of Arrive assigns all
\* variables, so it is enabled exactly when its first conjuncts hold.
\* (TLC's own ENABLED evaluation of Arrive is prohibitively slow.)
ArriveEnabled(s) ==
    status \in Live /\ s < NSeg /\ \E i \in DOMAIN pending : i.name = s

\* SF_vars(Arrive(s, "CONTENT")) with ENABLED replaced by ArriveEnabled(s).
NetworkAnswers(s) ==
    []<>ArriveEnabled(s) => []<><<Arrive(s, "CONTENT")>>_vars

Fairness ==
    /\ WF_vars(FillHolesStalled)
    /\ WF_vars(FillHolesProgress)
    /\ WF_vars(ProbeEnd)
    /\ \A s \in 0..(NSeg - 1) : NetworkAnswers(s)

Spec == Init /\ [][Next]_vars
FairSpec == Spec /\ Fairness

-----------------------------------------------------------------------------
(* Properties.                                                             *)

TypeOK ==
    /\ md.intdata \in [Slots -> Names \cup {NONE}]
    /\ md.raw \in [Slots -> Names \cup {NoRaw}]
    /\ md.ooo_base \in Slots
    /\ md.ooo_count \in 0..PIPELIMIT
    /\ md.curwindow \in 1..MaxWindow
    /\ md.delivered \in 0..NSeg
    /\ md.finalslot \in Slots \cup {NONE}
    /\ md.sendtime_slot \in Slots \cup {NONE}
    /\ md.backoff \in Nat
    /\ md.holefiller \in BOOLEAN
    /\ md.timeouts \in 0..MaxTimeouts
    /\ DOMAIN pending \subseteq Interest
    /\ status \in Live \cup Exited
    /\ out \in Seq(Names)

(***************************************************************************)
(* Every assert() of ask_more and incoming_content holds: the slot chosen  *)
(* for a new sequence number is free, the window stays below PIPELIMIT,    *)
(* the closure that received content is the one of its slot, and the base *)
(* slot holds no buffered data when its content arrives in order.         *)
(***************************************************************************)
NoAbort == status # "aborted"

\* What the user sees of the status: main's exits grouped as the abstract
\* specification names them.
Outcome ==
    CASE status \in Live                    -> "running"
      [] status = "done"                    -> "done"
      [] status \in {"notfound", "failed"}  -> "failed"
      [] OTHER                              -> "aborted"

DV == INSTANCE Delivery WITH outcome <- Outcome

(***************************************************************************)
(* ndncatchunks2 implements the delivery specification: what reaches      *)
(* stdout is segment 0, 1, 2, ... in that order, each once, whatever the   *)
(* order in which the network answered, and exit(0) comes only when the   *)
(* last segment is out (the finalslot marker compares slot numbers, not    *)
(* sequence numbers, and must never fire early).  A step of the program    *)
(* either leaves stdout and the exit status alone or is a step of the      *)
(* specification.                                                          *)
(***************************************************************************)
ImplementsDelivery == DV!Spec

(***************************************************************************)
(* Every sequence number in the window [delivered, delivered+ooo_count)    *)
(* is either buffered in its slot or still has an interest pending on its  *)
(* slot's closure.  Otherwise nothing can ever deliver it: ask_more never  *)
(* asks for it again and the hole filler's interest runs hole_filled,      *)
(* which throws the content away.                                          *)
(***************************************************************************)
NoOrphanedSegment ==
    status \in Live =>
        \A q \in md.delivered..(md.delivered + md.ooo_count - 1) :
            \/ md.raw[q % PIPELIMIT] = q
            \/ [cl |-> q % PIPELIMIT, name |-> q] \in DOMAIN pending

(***************************************************************************)
(* A slot closure is referenced by at most one pending interest, and its   *)
(* intdata is that interest's name.  incoming_content trusts intdata, not  *)
(* the content's name, to pick the slot and sequence number; a closure     *)
(* bound to seq while an interest for seq-PIPELIMIT (or seq+PIPELIMIT) is  *)
(* still pending on it would file that content under the wrong segment.   *)
(* This is also why the "refcount > 1 || intdata == -1" early return of    *)
(* the timeout branch is never taken.                                      *)
(***************************************************************************)
ClosureBoundToPendingName ==
    status \in Live =>
        \A i \in DOMAIN pending :
            i.cl \in Slots =>
                /\ md.intdata[i.cl] = i.name
                /\ RefCount(pending, i.cl) = 1

(***************************************************************************)
(* An armed rtt probe (sendtime_slot) always belongs to a slot closure     *)
(* with an interest still pending, so the probe will be matched and the    *)
(* next one armed; a stranded probe would freeze rtte for good and, before *)
(* the first match, keep the hole filler from ever being scheduled.        *)
(***************************************************************************)
ProbeNotStranded ==
    (status \in Live /\ md.sendtime_slot # NONE) =>
        \E i \in DOMAIN pending : i.cl = md.sendtime_slot

(***************************************************************************)
(* Once data has started to flow, the session ends: the final segment is   *)
(* written (exit 0), or stdout or the connection fails (exit 1).           *)
(***************************************************************************)
Completion == (status = "running") ~> (status \in {"done", "failed"})

(***************************************************************************)
(* update_rtt's estimate stays within 0..33.75 s whatever samples the      *)
(* probes bring, so its unsigned arithmetic never wraps: md->rtte is in    *)
(* range, and the step keeps every boundary estimate in range for every    *)
(* boundary sample (RttEstimator).                                         *)
(***************************************************************************)
RtteStaysBounded == md.rtte \in 0..RE!RtteCap /\ RE!RtteStaysBounded
=============================================================================
