---------------------------- MODULE FrameStream ----------------------------
(***************************************************************************)
(* The two stream decoders: Decoder of fleet-mavlink (frame.rs) and        *)
(* FrameParser of sitsim-mavlink (frame.rs), fed the same bytes in pieces  *)
(* of any length.                                                          *)
(*                                                                         *)
(* A frame is scaled down to <<magic, length, id>>, `length` payload bytes *)
(* and one checksum, for both versions.  The checksum is a hash of the     *)
(* bytes it covers, wide enough that no two of an instance collide.        *)
(***************************************************************************)
EXTENDS Integers, Sequences, FiniteSets, SequencesExt

CONSTANTS Pieces,   \* what a stream is made of: sequences of bytes
          Parts,    \* how many of them (bound)
          Chunk,    \* the most bytes of one push (bound)
          Known,    \* ids with a crc_extra
          V2, V1,   \* 0xFD, 0xFE
          MaxBuf    \* 4096

ASSUME StreamAssumption ==
  /\ Pieces \subseteq Seq(Nat)
  /\ {Parts, Chunk, MaxBuf} \subseteq Nat

VARIABLES
  stream,  \* the bytes that come
  fed,     \* how many of them have come
  buf,     \* Decoder.buf
  out,     \* the frames next_frame has returned, and where they were (history)
  thrown,  \* the bytes thrown away with a buffer over its cap (history)
  simBuf,  \* FrameParser.buf
  ready,   \* FrameParser.ready
  lost     \* dropped_bytes and the bytes of frames it has counted and skipped

fleetSide  == <<buf, out, thrown>>
simSide    == <<simBuf, ready, lost>>
streamVars == <<stream, fed, fleetSide, simSide>>

Magic  == {V1, V2}
Header == 3

\* The X.25 sum over all bytes behind the magic, and the id's extra byte.
Sum(bytes) == 1000 + FoldLeft(LAMBDA h, b : (h * 31 + b + 1) % 99991, 1, bytes)

\* Of the bytes b, which begin with a magic byte.
Total(b)   == Header + b[2] + 1
IsFrame(b) == Len(b) >= Header /\ Len(b) >= Total(b)
Whole(b)   == SubSeq(b, 1, Total(b))
Covered(b) == SubSeq(b, 2, Header + b[2])
SumOk(b)   == b[Total(b)] = Sum(Covered(b))
Rest(b)    == SubSeq(b, Total(b) + 1, Len(b))

\* What is in front of a decoder: nothing it can go on with before more bytes
\* come, a byte that begins no frame, or a frame, maybe with the right sum.
Waits(b)    == b = <<>> \/ (b[1] \in Magic /\ ~IsFrame(b))
Garbage(b)  == b # <<>> /\ b[1] \notin Magic
HasFrame(b) == b # <<>> /\ b[1] \in Magic /\ IsFrame(b)
Checked(b)  == HasFrame(b) /\ b[3] \in Known /\ SumOk(b)
BadSum(b)   == HasFrame(b) /\ b[3] \in Known /\ ~SumOk(b)

-----------------------------------------------------------------------------
(* Decoder::next_frame until it returns None.  A decoder at work is the    *)
(* bytes it has left, the place in the stream before them, and its frames. *)

\* Mutant: a frame whose sum is wrong is skipped as a whole.
SkipFrame(b) == Rest(b)
Resync(b) == Tail(b)

\* The decoder goes on with the bytes `rest` of those it had left.
OnTo(d, rest) ==
  [left |-> rest, past |-> d.past + Len(d.left) - Len(rest), frames |-> d.frames]

Framed(d) ==
  LET b == d.left IN
  [left |-> Rest(b), past |-> d.past + Total(b),
   frames |-> Append(d.frames,
     [bytes |-> Whole(b), crc_ok |-> b[3] \in Known, at |-> d.past + 1])]

\* One turn of the loop.
NextFrame(d) ==
  LET b == d.left IN
  CASE Waits(b)   -> d
    [] Garbage(b) -> OnTo(d, Tail(b))
    [] BadSum(b)  -> OnTo(d, Resync(b))
    [] HasFrame(b) /\ ~BadSum(b) -> Framed(d)

\* Every turn that does not wait takes a byte at least.
NextFrames(d) ==
  LET turn[n \in 0..Len(d.left)] == IF n = 0 THEN d ELSE NextFrame(turn[n - 1])
  IN  turn[Len(d.left)]

Fresh(bytes) == [left |-> bytes, past |-> 0, frames |-> <<>>]

-----------------------------------------------------------------------------
(* FrameParser::feed.                                                      *)

Skipped(s, rest) ==
  [left |-> rest, lost |-> s.lost + Len(s.left) - Len(rest), frames |-> s.frames]

PastV1(b) == Rest(b)

FeedTurn(s) ==
  LET b == s.left IN
  CASE Waits(b)   -> s
    [] Garbage(b) -> Skipped(s, Tail(b))
    [] HasFrame(b) /\ b[1] = V1 -> Skipped(s, PastV1(b))
    [] HasFrame(b) /\ b[1] # V1 /\ ~Checked(b) -> Skipped(s, Rest(b))
    [] Checked(b) /\ b[1] # V1 ->
         [left |-> Rest(b), lost |-> s.lost, frames |-> Append(s.frames, Whole(b))]

Feed(s) ==
  LET turn[n \in 0..Len(s.left)] == IF n = 0 THEN s ELSE FeedTurn(turn[n - 1])
  IN  turn[Len(s.left)]

FreshParser(bytes) == [left |-> bytes, lost |-> 0, frames |-> <<>>]

-----------------------------------------------------------------------------

StreamInit ==
  /\ \E k \in 1..Parts : \E f \in [1..k -> Pieces] : stream = FlattenSeq(f)
  /\ fed = 0
  /\ buf = <<>> /\ out = <<>> /\ thrown = {} /\ simBuf = <<>> /\ ready = <<>> /\ lost = 0

\* push and next_frame: the buffer is thrown away when it is over its cap.
Capped(b) == IF Len(b) > MaxBuf THEN <<>> ELSE b

\* Some more bytes come; both decoders take them to the end.
Push(n) ==
  /\ fed + n <= Len(stream)
  /\ fed' = fed + n
  /\ LET piece == SubSeq(stream, fed + 1, fed + n)
         b     == Capped(buf \o piece)
         d     == NextFrames([left |-> b, past |-> fed' - Len(b), frames |-> out])
         s     == Feed([left |-> simBuf \o piece, lost |-> lost, frames |-> ready]) IN
     /\ buf' = d.left /\ out' = d.frames
     /\ thrown' = thrown \cup IF b = buf \o piece THEN {} ELSE (fed - Len(buf) + 1)..fed'
     /\ simBuf' = s.left /\ ready' = s.frames /\ lost' = s.lost
  /\ UNCHANGED stream

StreamNext == \E n \in 1..Chunk : Push(n)

StreamSpec == StreamInit /\ [][StreamNext]_streamVars

-----------------------------------------------------------------------------
(* Properties.                                                             *)

\* Frames with a good sum that begin at byte k of the stream.
From(k) == SubSeq(stream, k, Len(stream))
Good    == {k \in DOMAIN stream : Checked(From(k))}

LastOf(f) == f.at + Len(f.bytes) - 1

\* The first byte the decoder still has.
Ahead == fed - Len(buf) + 1

\* What next_frame has returned is what was in the stream, in its order, no
\* byte in two frames; a frame said to be good is.
FramesAreWhole ==
  \A i \in DOMAIN out :
    /\ out[i].bytes = SubSeq(stream, out[i].at, LastOf(out[i]))
    /\ LastOf(out[i]) < Ahead
    /\ i > 1 => out[i].at > LastOf(out[i - 1])
    /\ out[i].crc_ok <=> out[i].at \in Good

\* Decoder, "Incremental frame decoder with resynchronisation on garbage / bad
\* CRC": every good frame the decoder is past has been returned, unless it began
\* inside another it returned or was thrown away with the buffer; and what the
\* decoder keeps is no more than a frame it has not got all of.
GoodFramesComeOut ==
  /\ \A k \in Good : k < Ahead =>
       \/ k \in thrown
       \/ \E i \in DOMAIN out : out[i].at <= k /\ k <= LastOf(out[i])
  /\ Waits(buf)

\* However the bytes are cut into pushes, both decoders are where they would be
\* had all bytes come at once.
CutsDoNotMatter ==
  LET come == SubSeq(stream, 1, fed) IN
  /\ thrown = {} => [left |-> buf, past |-> fed - Len(buf), frames |-> out] = NextFrames(Fresh(come))
  /\ [left |-> simBuf, lost |-> lost, frames |-> ready] = Feed(FreshParser(come))

\* The bytes of some frames.
BytesOf(frames) ==
  LET bytes[n \in 0..Len(frames)] == IF n = 0 THEN 0 ELSE bytes[n - 1] + Len(frames[n])
  IN  bytes[Len(frames)]

\* FrameParser's counters: every byte that has come is in a frame it has
\* returned, among the skipped ones, or still in the buffer.
BytesAccounted == fed = BytesOf(ready) + lost + Len(simBuf)

\* Both decoders, "resynchronisation on garbage": frames, whole and once, however
\* the stream is cut, and no byte is unaccounted for.
FramesComeOut == FramesAreWhole /\ GoodFramesComeOut /\ CutsDoNotMatter /\ BytesAccounted

\* "resynchronizes on garbage bytes", of FrameParser: no good frame is lost.
SimFramesComeOut ==
  simBuf = <<>> => \A k \in Good :
    stream[k] = V2 => Whole(From(k)) \in Range(ready)
=============================================================================
