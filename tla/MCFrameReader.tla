---------------------------- MODULE MCFrameReader ----------------------------
EXTENDS FrameReader

\* A frame of type t whose other bytes are all b (b is no flag, header or
\* type byte, so frames with different b are told apart).
Frame(t, b) ==
    Hdr \o <<b, b, b, t>> \o [k \in 1..(FrameLen[t] - 12) |-> b] \o <<FLAG>>

Hello == <<72, 73>>
FD == Frame(DATA, 7)
FT == Frame(TOPOLOGY, 8)
FM == Frame(MAPPING, 9)
Head_(s, n) == SubSeq(s, 1, n)
Tail_(s, n) == SubSeq(s, Len(s) - n + 1, Len(s))

\* One frame per datagram, frames split inside the fill loop or inside
\* their trailer, a start in the middle of a frame, and a datagram that
\* ends with exactly the 7 header bytes (the i < total_read-7 boundary).
MCStreams ==
    { <<Hello, FD, FT, FM>>,
      <<Hello, Tail_(FT, 12), FD>>,
      <<Hello, Tail_(FT, 30), FM>>,
      <<Hello, Head_(FD, 10), Tail_(FD, 18), FM>>,
      <<Hello, FM, Head_(FT, 34), Tail_(FT, 3), FD>>,
      <<Hello, FM, Head_(FD, 24), Tail_(FD, 4), FM>>,
      <<Hello, Tail_(FT, 18) \o Head_(FD, 7), Tail_(FD, 21), FM>>,
      <<Hello, Head_(FT, 20), Tail_(FT, 17), FT, FD, FM>>,
      <<Hello, FM, FD, Head_(FD, 5), Tail_(FD, 23), FT, FM, FD>> }

\* Two frames in one datagram, then a frame whose start flag comes late in
\* a datagram and whose rest arrives in the next one.
MCStreamsFaulty ==
    { <<Hello, FD \o FM, Tail_(FT, 12) \o Head_(FD, 16), Tail_(FD, 12)>> }
====
