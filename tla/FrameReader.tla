----------------------------- MODULE FrameReader -----------------------------
(***************************************************************************)
(* How the gateway's listener cuts the UDP byte stream from the serial     *)
(* forwarder into TinyOS frames (src/csrc/ndnd/ndnd_main.c, usbportListen, *)
(* lines 324-549).  A frame starts with the 7-byte header 7e 45 00 00 00   *)
(* 00 01, carries its type at offset 10 and ends with the flag 7e; a DATA  *)
(* frame is 28 bytes, a TOPOLOGY frame 37 and a MAPPING frame 25.          *)
(*                                                                         *)
(* Bytes are integers; UNDEF stands for a byte of usbbuf that no recvfrom  *)
(* ever wrote (the buffer is an uninitialised stack array), and a test of  *)
(* such a byte may go either way.  What a handler does with its frame is   *)
(* modelled in Gateway; here a handled frame is the type and the bytes the *)
(* handler copies out of usbbuf (memcpy at lines 432, 470 and 515).        *)
(***************************************************************************)
EXTENDS Integers, Sequences, SequencesExt, FiniteSetsExt, TLC

CONSTANTS
    Streams,      \* the datagram sequences the peer may send, handshake first
    SendMayFail   \* whether the sendto acknowledging a datagram may return -1

FLAG == 126
Hdr == <<FLAG, 69, 0, 0, 0, 0, 1>>
DATA == 3
MAPPING == 4
TOPOLOGY == 5
UNDEF == -1
SHORTEST == 25                                    \* SHORTEST_DATA_FRAME_LEN
FrameLen == (DATA :> 28) @@ (TOPOLOGY :> 37) @@ (MAPPING :> 25)
\* The bytes of a frame its handler copies: Msg at +10, topo_msg and
\* node_info at +12 (first and last offset).
Copied == (DATA :> <<10, 23>>) @@ (TOPOLOGY :> <<12, 33>>) @@ (MAPPING :> <<12, 21>>)

\* usbbuf[p] for a 0-based offset p.
At(buf, p) == IF p < Len(buf) THEN buf[p + 1] ELSE UNDEF
MayBe(buf, p, v) == At(buf, p) \in {v, UNDEF}
MayMatch(buf, i) == \A k \in 0..6 : MayBe(buf, i + k, Hdr[k + 1])
MayMiss(buf, i) == \E k \in 0..6 : At(buf, i + k) # Hdr[k + 1]

\* recvfrom(fd, usbbuf + pos, ...): the datagram overwrites usbbuf from pos.
WriteAt(buf, pos, d) ==
    LET b == IF pos <= Len(buf) THEN buf ELSE buf \o [k \in 1..(pos - Len(buf)) |-> UNDEF]
    IN  SubSeq(b, 1, pos) \o d \o SubSeq(b, pos + Len(d) + 1, Len(b))

\* Mutant of Handled: the copy starts one byte late.
HandledShifted(buf, i, t) ==
    <<t, [k \in 1..(Copied[t][2] - Copied[t][1] + 1) |-> At(buf, i + Copied[t][1] + k)]>>

\* The memcpy of the handler for type t out of the frame at offset i.
Handled(buf, i, t) ==
    <<t, [k \in 1..(Copied[t][2] - Copied[t][1] + 1) |-> At(buf, i + Copied[t][1] + k - 1)]>>

(***************************************************************************)
(* The search for the start flag, lines 381-397: every i < total_read-7    *)
(* at which the header may be, with the header missing at every earlier i; *)
(* -1 when it may be nowhere.                                              *)
(***************************************************************************)
Scan(buf, tr) ==
    { i \in 0..(tr - 8) : MayMatch(buf, i) /\ \A j \in 0..(i - 1) : MayMiss(buf, j) }
    \cup (IF \A j \in 0..(tr - 8) : MayMiss(buf, j) THEN {-1} ELSE {})

(***************************************************************************)
(* The end of every pass, lines 402-417 and 536-549: find the last 7e      *)
(* among the last 7 bytes, move the bytes from it to the front and keep    *)
(* them; with no 7e there, drop everything.                                *)
(***************************************************************************)
Carry(buf, tr) ==
    LET flags == { p \in (tr - 7)..(tr - 1) :
                     MayBe(buf, p, FLAG) /\ \A q \in (p + 1)..(tr - 1) : At(buf, q) # FLAG }
        none  == \A q \in (tr - 7)..(tr - 1) : At(buf, q) # FLAG
    IN  { [buf |-> [k \in 1..Len(buf) |-> IF k <= tr - p THEN At(buf, p + k - 1) ELSE buf[k]],
           tr  |-> tr - p] : p \in flags }
        \cup (IF none THEN {[buf |-> buf, tr |-> 0]} ELSE {})

\* The loop starts over (line 345) after a pass, with out frames handled.
NextPass(buf, tr, out) ==
    { [buf |-> c.buf, tr |-> c.tr, pc |-> "fill", start |-> 0, ftype |-> 0, out |-> out]
        : c \in Carry(buf, tr) }

Wait(buf, tr, pc, i, t) ==
    {[buf |-> buf, tr |-> tr, pc |-> pc, start |-> i, ftype |-> t, out |-> <<>>]}

\* Lines 421-534: wait for the whole frame of type t at i, then handle it.
AfterBody(buf, tr, i, t) ==
    IF tr < FrameLen[t] + i THEN Wait(buf, tr, "body", i, t)
    ELSE NextPass(buf, tr, <<Handled(buf, i, t)>>)

\* Line 421: dispatch on the type byte; an unknown type handles nothing.
Dispatch(buf, tr, i) ==
    UNION { IF t \in DOMAIN FrameLen THEN AfterBody(buf, tr, i, t)
            ELSE NextPass(buf, tr, <<>>)
            : t \in IF At(buf, i + 10) = UNDEF THEN {0, DATA, MAPPING, TOPOLOGY}
                    ELSE {At(buf, i + 10)} }

\* Lines 388-395: at least SHORTEST bytes after the start flag.
AfterHead(buf, tr, i) ==
    IF tr - i < SHORTEST THEN Wait(buf, tr, "head", i, 0) ELSE Dispatch(buf, tr, i)

\* Mutant of AfterFill: the fill loop waits for the longest frame.
AfterFillLongest(buf, tr) ==
    IF tr < FrameLen[TOPOLOGY] THEN Wait(buf, tr, "fill", 0, 0)
    ELSE UNION { IF i = -1 THEN NextPass(buf, tr, <<>>) ELSE AfterHead(buf, tr, i)
                 : i \in Scan(buf, tr) }

\* Lines 354-418: read until SHORTEST bytes, then look for the start flag.
AfterFill(buf, tr) ==
    IF tr < SHORTEST THEN Wait(buf, tr, "fill", 0, 0)
    ELSE UNION { IF i = -1 THEN NextPass(buf, tr, <<>>) ELSE AfterHead(buf, tr, i)
                 : i \in Scan(buf, tr) }

(***************************************************************************)
(* The reference: the frames in a byte stream, found by the start flag and *)
(* cut by the length of their type, whatever the datagram boundaries.      *)
(***************************************************************************)
RECURSIVE FramesIn(_)
FramesIn(s) ==
    LET hs == { i \in 0..(Len(s) - 7) : SubSeq(s, i + 1, i + 7) = Hdr }
    IN  IF hs = {} THEN <<>>
        ELSE LET i == Min(hs)
                 t == At(s, i + 10)
             IN  IF t \notin DOMAIN FrameLen THEN FramesIn(SubSeq(s, i + 2, Len(s)))
                 ELSE IF i + FrameLen[t] > Len(s) THEN <<>>
                 ELSE <<<<t, SubSeq(s, i + Copied[t][1] + 1, i + Copied[t][2] + 1)>>>> \o FramesIn(SubSeq(s, i + FrameLen[t] + 1, Len(s)))

-----------------------------------------------------------------------------
VARIABLES
    pc,          \* where the listener blocks in recvfrom: hs, fill, head, body; or exited
    inbox,       \* the datagrams not yet received
    usbbuf,      \* the bytes of usbbuf[] written so far (0-based offsets 0..Len-1)
    total_read,  \* total_read
    start,       \* start_p - usbbuf, while waiting for the rest of a frame
    ftype,       \* *(start_p+10), while waiting for the rest of a frame
    handled,     \* the frames handed to the DATA/TOPOLOGY/MAPPING handlers
    sent         \* history: the stream the peer sends

vars == <<pc, inbox, usbbuf, total_read, start, ftype, handled, sent>>

Init ==
    /\ sent \in Streams
    /\ inbox = sent
    /\ pc = "hs"
    /\ usbbuf = <<>>
    /\ total_read = 0
    /\ start = 0
    /\ ftype = 0
    /\ handled = <<>>

Apply(c) ==
    /\ usbbuf' = c.buf
    /\ total_read' = c.tr
    /\ pc' = c.pc
    /\ start' = c.start
    /\ ftype' = c.ftype
    /\ handled' = handled \o c.out

\* Mutant of Handshake: the hello loop's test inverted (n >= 0), so it
\* keeps receiving.
HandshakeLoops ==
    /\ pc = "hs"
    /\ inbox # <<>>
    /\ inbox' = Tail(inbox)
    /\ UNCHANGED <<pc, usbbuf, total_read, start, ftype, handled, sent>>

\* Lines 324-339: wait for the forwarder's hello and answer it; a failed
\* sendto exits the process.
Handshake ==
    /\ pc = "hs"
    /\ inbox # <<>>
    /\ inbox' = Tail(inbox)
    /\ pc' \in IF SendMayFail THEN {"fill", "exited"} ELSE {"fill"}
    /\ UNCHANGED <<usbbuf, total_read, start, ftype, handled, sent>>

\* Line 357 and the rest of the pass up to the next recvfrom.  The datagram
\* goes to usbbuf + total_read and is acknowledged (lines 368-374).
RecvFill ==
    /\ pc = "fill"
    /\ inbox # <<>>
    /\ inbox' = Tail(inbox)
    /\ LET d == Head(inbox)
           b == WriteAt(usbbuf, total_read, d)
       IN  \/ \E c \in AfterFill(b, total_read + Len(d)) : Apply(c)
           \/ /\ SendMayFail
              /\ pc' = "exited"
              /\ usbbuf' = b
              /\ UNCHANGED <<total_read, start, ftype, handled>>
    /\ UNCHANGED sent

\* Line 390: the datagram goes to mesg + total_read; only the count grows.
RecvHead ==
    /\ pc = "head"
    /\ inbox # <<>>
    /\ inbox' = Tail(inbox)
    /\ \E c \in AfterHead(usbbuf, total_read + Len(Head(inbox)), start) : Apply(c)
    /\ UNCHANGED sent

\* Lines 425, 460, 505: likewise, while the frame's body is incomplete.
RecvBody ==
    /\ pc = "body"
    /\ inbox # <<>>
    /\ inbox' = Tail(inbox)
    /\ \E c \in AfterBody(usbbuf, total_read + Len(Head(inbox)), start, ftype) : Apply(c)
    /\ UNCHANGED sent

Next == Handshake \/ RecvFill \/ RecvHead \/ RecvBody

\* recvfrom returns once a datagram is there: the peer's datagrams arrive.
Fairness == WF_vars(Handshake) /\ WF_vars(RecvFill) /\ WF_vars(RecvHead) /\ WF_vars(RecvBody)

Spec == Init /\ [][Next]_vars
FairSpec == Spec /\ Fairness

-----------------------------------------------------------------------------
Expected == FramesIn(FlattenSeq(Tail(sent)))

TypeOK ==
    /\ pc \in {"hs", "fill", "head", "body", "exited"}
    /\ total_read \in Nat
    /\ start \in Nat
    /\ ftype \in {0} \cup DOMAIN FrameLen
    /\ IsSuffix(inbox, sent)
    /\ handled \in Seq((DOMAIN FrameLen) \X Seq(0..255))

(***************************************************************************)
(* The listener hands its handlers exactly the frames of the stream, in    *)
(* order, each with the bytes the forwarder sent: none lost, none torn     *)
(* from stale bytes of usbbuf, whatever the datagram boundaries.           *)
(***************************************************************************)
HandledAreFrames == IsPrefix(handled, Expected)

(***************************************************************************)
(* Every frame the peer sends is eventually handled, unless the process    *)
(* has exited: the fill loop and the carried bytes never leave a complete  *)
(* frame waiting for data that will not come.                              *)
(***************************************************************************)
AllFramesHandled == <>(pc = "exited" \/ handled = Expected)
====
