------------------------------- MODULE NdnBx -------------------------------
(***************************************************************************)
(* ndnbx (src/csrc/cmd/ndnbx.c): extract one element from an ndnb file.    *)
(* The file is read in chunks of whatever size read() returns; the NDN    *)
(* library's skeleton decoder is run over the bytes read so far, one token *)
(* per call while NDN_DSTATE_PAUSE is set; the first element whose DTAG is *)
(* the selector is written to stdout (with -d only the data inside it).    *)
(*                                                                         *)
(* A byte is a record: a header byte of a DTAG, BLOB or UDATA token (its  *)
(* number, and whether more header bytes follow), the CLOSE byte, or a    *)
(* payload byte of a BLOB/UDATA.  The decoder below is the part of the    *)
(* library's ndn_skeleton_decode that ndnbx relies on; it is not in this   *)
(* repository.                                                             *)
(***************************************************************************)
EXTENDS Integers, Sequences, FiniteSets, FiniteSetsExt

CONSTANTS
    Files,       \* the input files: sequences of bytes built with Hdr/Close/Pay
    Dict,        \* ndn_dtag_dict: element name -> DTAG number
    Selectors,   \* the selector arguments, some not in Dict
    ReadMax      \* the room ndn_charbuf_reserve(c, 512) leaves for one read

Hdr(tt, v, more) == [b |-> "hdr", tt |-> tt, v |-> v, more |-> more]
Close == [b |-> "close"]
Pay(x) == [b |-> "pay", v |-> x]

NoEnd == 2147483647     \* end = ~0U: above every offset

VARIABLES
    pc,          \* "open", "read", "decode", "write", "done"
    file,        \* the input
    sel,         \* the selector argument
    unadorned,   \* -d given (NDNBX_OPT_UNADORNED)
    dtag,        \* dtag_lookup(selector)
    got,         \* c->length: bytes read so far
    d,           \* the skeleton decoder (struct ndn_skeleton_decoder)
    status,      \* the return value: 1 until the selector is seen
    start, end,  \* the slice of c->buf to write
    out,         \* what was written to stdout
    written      \* write() was called

vars == <<pc, file, sel, unadorned, dtag, got, d, status, start, end, out,
          written>>

-----------------------------------------------------------------------------
(* The skeleton decoder (library).  state: "initial" (NDN_DSTATE_INITIAL, *)
(* the final state once nest is back to 0), "new" (at a token), "hdr" (in *)
(* a multi-byte header), "pay" (in a BLOB/UDATA payload), "err" (< 0).    *)
(* tt is the token type a paused call stopped at (the bits read by        *)
(* NDN_GET_TT_FROM_DSTATE), "none" when the call did not pause.           *)

D0 == [state |-> "initial", nest |-> 0, numval |-> 0, tt |-> "none",
       tokenIndex |-> 0, index |-> 0, pause |-> FALSE]

Final(dd) == dd.state = "initial"

\* The last byte of a token header: a DTAG opens an element, a BLOB or
\* UDATA is followed by numval payload bytes; a paused decoder stops here.
HeaderDone(dd, c) ==
    LET next == [dd EXCEPT !.numval = c.v,
                           !.nest = IF c.tt = "DTAG" THEN @ + 1 ELSE @,
                           !.state = IF c.tt = "DTAG" \/ c.v = 0 THEN "new"
                                                                  ELSE "pay",
                           !.tt = IF dd.pause THEN c.tt ELSE @]
    IN  [d |-> next, stop |-> dd.pause]

\* One byte at offset dd.index.
DecodeByte(dd, c) ==
    LET at == [dd EXCEPT !.index = @ + 1]
        tok == [at EXCEPT !.tokenIndex = dd.index]
    IN
    CASE dd.state \in {"initial", "new"} /\ c.b = "close" ->
             IF dd.nest <= 0 THEN [d |-> [tok EXCEPT !.state = "err"], stop |-> TRUE]
             ELSE LET nd == [tok EXCEPT !.nest = @ - 1,
                                        !.state = IF dd.nest = 1 THEN "initial"
                                                                 ELSE "new",
                                        !.tt = IF dd.pause THEN "NOTOK" ELSE @]
                  IN  [d |-> nd, stop |-> Final(nd) \/ dd.pause]
      [] dd.state \in {"initial", "new", "hdr"} /\ c.b = "hdr" ->
             LET hd == IF dd.state = "hdr" THEN at ELSE tok
             IN  IF c.more THEN [d |-> [hd EXCEPT !.state = "hdr"], stop |-> FALSE]
                 ELSE HeaderDone(hd, c)
      [] dd.state = "pay" ->
             [d |-> [at EXCEPT !.numval = @ - 1,
                               !.state = IF dd.numval = 1 THEN "new" ELSE "pay"],
              stop |-> FALSE]
      [] OTHER -> [d |-> [tok EXCEPT !.state = "err"], stop |-> TRUE]

\* ndn_skeleton_decode(d, buf + d->index, lim - d->index): decode until a
\* pause, the end of the outermost element, an error or the end of buf.
RECURSIVE Scan(_, _, _)
Scan(dd, buf, lim) ==
    IF dd.index >= lim THEN dd
    ELSE LET r == DecodeByte(dd, buf[dd.index + 1])
         IN  IF r.stop THEN r.d ELSE Scan(r.d, buf, lim)

SkeletonDecode(dd, buf, lim) == Scan([dd EXCEPT !.tt = "none"], buf, lim)

-----------------------------------------------------------------------------
(* ndnbx.                                                                  *)

\* dtag_lookup: a linear search of the dictionary, -1 if absent.
DtagLookup(key) == IF key \in DOMAIN Dict THEN Dict[key] ELSE -1

Init ==
    /\ pc = "open"
    /\ file \in Files /\ sel \in Selectors /\ unadorned \in BOOLEAN
    /\ dtag = -1 /\ got = 0 /\ d = D0 /\ status = 1
    /\ start = 0 /\ end = NoEnd /\ out = <<>> /\ written = FALSE

\* open(path) fails: perror, return 1.
OpenFails ==
    /\ pc = "open"
    /\ pc' = "done"
    /\ UNCHANGED <<file, sel, unadorned, dtag, got, d, status, start, end,
                   out, written>>

\* The selector is looked up; an unknown one goes to Finish with status 1,
\* otherwise the decoder is set to pause at every token.
Open ==
    /\ pc = "open"
    /\ dtag' = DtagLookup(sel)
    /\ IF dtag' = -1 THEN pc' = "done" /\ UNCHANGED d
                     ELSE pc' = "read" /\ d' = [d EXCEPT !.pause = TRUE]
    /\ UNCHANGED <<file, sel, unadorned, got, status, start, end, out, written>>

\* Mutant of Read: the `res == 0' test missing; at the end of the file the
\* loop reads 0 bytes again and again.
ReadNoEof ==
    /\ pc = "read"
    /\ got < Len(file)
    /\ \E k \in 1..Min({ReadMax, Len(file) - got}) :
           got' = got + k /\ pc' = "decode"
    /\ UNCHANGED <<file, sel, unadorned, dtag, d, status, start, end, out,
                   written>>

\* read(): 0 at the end of the file ("premature end of file", Finish with
\* the status as it is), else 1..ReadMax of the bytes that are left.
Read ==
    /\ pc = "read"
    /\ IF got = Len(file)
       THEN pc' = "done" /\ UNCHANGED got
       ELSE \E k \in 1..Min({ReadMax, Len(file) - got}) :
                got' = got + k /\ pc' = "decode"
    /\ UNCHANGED <<file, sel, unadorned, dtag, d, status, start, end, out,
                   written>>

\* read() returns -1: perror, Finish with the status as it is.
ReadFails ==
    /\ pc = "read"
    /\ pc' = "done"
    /\ UNCHANGED <<file, sel, unadorned, dtag, got, d, status, start, end,
                   out, written>>

\* The selector's DTAG: the element starts at its token, the decoder's
\* nest is reset so that it stops at the element's end, and without -d
\* it runs at full speed to that end.
\* Mutants of OnTag: start one byte early; nest not reset; status set
\* only without -d.
OnTagOffByOne(r) ==
    [d |-> [r EXCEPT !.nest = 1, !.pause = unadorned], status |-> 0,
     start |-> IF unadorned THEN r.index ELSE r.tokenIndex - 1,
     end |-> IF unadorned THEN r.index ELSE end]
OnTagNoNest(r) ==
    [d |-> [r EXCEPT !.pause = unadorned], status |-> 0,
     start |-> IF unadorned THEN r.index ELSE r.tokenIndex,
     end |-> IF unadorned THEN r.index ELSE end]
OnTagStatusAdornedOnly(r) ==
    [d |-> [r EXCEPT !.nest = 1, !.pause = unadorned],
     status |-> IF unadorned THEN status ELSE 0,
     start |-> IF unadorned THEN r.index ELSE r.tokenIndex,
     end |-> IF unadorned THEN r.index ELSE end]
OnTag(r) ==
    [d |-> [r EXCEPT !.nest = 1, !.pause = unadorned], status |-> 0,
     start |-> IF unadorned THEN r.index ELSE r.tokenIndex,
     end |-> IF unadorned THEN r.index ELSE end]

\* -d, a BLOB or UDATA directly inside the selected element: its payload
\* is the slice, and the decoder runs at full speed to the element's end.
OnData(r) ==
    [d |-> [r EXCEPT !.pause = FALSE], status |-> status,
     start |-> r.index, end |-> r.index + r.numval]

\* Mutant of More: `if' for the inner `while'.
MoreOnce(nd) == FALSE
\* The inner loop's test: bytes read but not yet decoded.
More(nd) == nd.index < got

\* One pass of the inner loop: a decoder call (offset += s is d.index),
\* the error exit, the break on a final state, the selector test and the
\* data test.  The loop goes on while bytes are left, then reads again
\* unless the decoder is final.
Decode ==
    /\ pc = "decode"
    /\ LET r == SkeletonDecode(d, file, got)
           brk == r.index = d.index \/ Final(r)
           k == CASE r.state = "err" \/ brk -> [d |-> r, status |-> status,
                                                start |-> start, end |-> end]
                  [] r.tt = "DTAG" /\ r.numval = dtag -> OnTag(r)
                  [] status = 0 /\ r.nest = 1 /\ r.tt \in {"UDATA", "BLOB"} ->
                        OnData(r)
                  [] OTHER -> [d |-> r, status |-> status, start |-> start,
                               end |-> end]
       IN  /\ d' = k.d /\ status' = k.status
           /\ start' = k.start /\ end' = k.end
           /\ pc' = CASE r.state = "err" -> "done"
                      [] Final(r)        -> "write"
                      [] brk             -> "read"
                      [] OTHER -> IF More(k.d) THEN "decode" ELSE "read"
    /\ UNCHANGED <<file, sel, unadorned, dtag, got, out, written>>

\* After the loop: end is cut to the offset, and the slice is written if
\* the selector was seen.
Write ==
    /\ pc = "write"
    /\ end' = IF d.index < end THEN d.index ELSE end
    /\ written' = (status = 0)
    /\ out' = IF status = 0 THEN SubSeq(file, start + 1, end') ELSE <<>>
    /\ pc' = "done"
    /\ UNCHANGED <<file, sel, unadorned, dtag, got, d, status, start>>

Next == OpenFails \/ Open \/ Read \/ ReadFails \/ Decode \/ Write

\* One thread, which always runs its next statement; read() returns, and
\* it is not assumed ever to fail.
Fairness == WF_vars(Open) /\ WF_vars(Read) /\ WF_vars(Decode) /\ WF_vars(Write)

Spec == Init /\ [][Next]_vars /\ Fairness
-----------------------------------------------------------------------------
(* The element a reader of the file means by the selector, computed from *)
(* the bytes alone: tokens, depths and the first DTAG equal to the        *)
(* selector, independent of how read() splits the file and of the        *)
(* decoder's pause bookkeeping.                                            *)

\* Byte i begins a token (a CLOSE or the first byte of a header).
IsStart(f, i) ==
    f[i].b # "pay" /\ (i = 1 \/ ~(f[i - 1].b = "hdr" /\ f[i - 1].more))

\* Elements open after byte j, minus elements closed.
Depth(f, j) ==
    Cardinality({i \in 1..j : f[i].b = "hdr" /\ f[i].tt = "DTAG" /\ ~f[i].more})
      - Cardinality({i \in 1..j : f[i].b = "close"})

\* Last header byte of the token starting at i (NoEnd if cut off).
HdrEnd(f, i) ==
    LET e == {j \in i..Len(f) : f[j].b = "hdr" /\ ~f[j].more}
    IN  IF e = {} THEN NoEnd ELSE Min(e)

TagsAt(f, t) ==
    {i \in DOMAIN f : IsStart(f, i) /\ f[i].b = "hdr" /\ f[i].tt = "DTAG"
                                   /\ f[i].v = t}

\* The selected element: its first byte and its CLOSE (NoEnd if cut off).
SelFirst == Min(TagsAt(file, dtag))
SelLast ==
    LET e == {j \in (SelFirst + 1)..Len(file) :
                 file[j].b = "close" /\ Depth(file, j) = Depth(file, SelFirst - 1)}
    IN  IF e = {} THEN NoEnd ELSE Min(e)
Complete == TagsAt(file, dtag) # {} /\ SelLast # NoEnd

\* With -d: the payload of the first BLOB/UDATA directly inside it.
SelData ==
    LET ks == {k \in (SelFirst + 1)..(SelLast - 1) :
                  IsStart(file, k) /\ file[k].b = "hdr"
                  /\ file[k].tt \in {"UDATA", "BLOB"}
                  /\ Depth(file, k - 1) = Depth(file, SelFirst - 1) + 1}
        h == HdrEnd(file, Min(ks))
    IN  IF ks = {} THEN <<>> ELSE SubSeq(file, h + 1, h + file[h].v)

-----------------------------------------------------------------------------
TypeOK ==
    /\ pc \in {"open", "read", "decode", "write", "done"}
    /\ got \in 0..Len(file) /\ d.index \in 0..got /\ d.nest \in Nat
    /\ status \in {0, 1} /\ start \in 0..Len(file)
    /\ end \in Nat /\ written \in BOOLEAN

(***************************************************************************)
(* What ndnbx writes is exactly the selected element, tags included, or   *)
(* with -d exactly its data, however read() splits the file: the match on *)
(* the paused DTAG, token_index as the start, the nest reset that stops   *)
(* the decoder at the element's CLOSE and the cut of end to the offset    *)
(* have to agree across partial headers and payloads at chunk ends.       *)
(***************************************************************************)
OutputIsSelection ==
    written => out = IF unadorned THEN SelData
                     ELSE SubSeq(file, SelFirst, SelLast)

(***************************************************************************)
(* Once the whole selected element has been read, it is written: the      *)
(* inner loop decodes every byte read before the next read(), so neither  *)
(* the end of the file nor a failing read() after that point loses it.    *)
(***************************************************************************)
ElementReadIsWritten ==
    (pc = "done" /\ Complete /\ got >= SelLast) => written

(***************************************************************************)
(* The exit status is 0 exactly when the selector's start tag was read:   *)
(* status is set on the match in both modes and nowhere else, and an      *)
(* error, the end of the file or a failed read() keeps it.                *)
(***************************************************************************)
ExitStatusReportsTag ==
    pc = "done" =>
        (status = 0 <=> (TagsAt(file, dtag) # {} /\ got >= HdrEnd(file, SelFirst)))

(***************************************************************************)
(* ndnbx always exits: every read() ends the file or makes progress.      *)
(***************************************************************************)
Termination == <>(pc = "done")
====
