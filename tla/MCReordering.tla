---------------------------- MODULE MCReordering ----------------------------
(***************************************************************************)
(* Small streams for RTPReordering: every kind of payload the source tells *)
(* apart, in an order in which each can follow a loss.                     *)
(***************************************************************************)
EXTENDS RTPReordering

Fragment(start, end) ==
  [type |-> 28, bytes |-> 3, start |-> start, end |-> end, sizes |-> <<>>]
First  == Fragment(TRUE, FALSE)
Middle == Fragment(FALSE, FALSE)
Last   == Fragment(FALSE, TRUE)
Single == [type |-> 1, bytes |-> 1, start |-> FALSE, end |-> FALSE, sizes |-> <<>>]

\* A fragment that ends behind its first byte, and a packet without payload.
Short == [First EXCEPT !.bytes = 1]
Empty == [Single EXCEPT !.bytes = 0]

\* A STAP-A of two units, and an MTAP16 of three, one of them empty.
Pair    == [Single EXCEPT !.type = 24, !.bytes = 7, !.sizes = <<1, 1>>]
Stamped == [Single EXCEPT !.type = 26, !.bytes = 20, !.sizes = <<1, 0, 1>>]

\* A frame in three packets, an aggregate, a packet to reject, another frame.
Mixed == <<First, Middle, Last, Stamped, Short, First, Last>>

OneStream == <<Mixed>>

\* The SSRC changes in the middle of a frame, of an aggregate or of a gap.
TwoStreams == <<<<First, Last, Pair, Empty>>, <<Pair, Single>>>>

\* A sender that cuts its frames badly: frames go on behind what has no place in
\* them.
Ragged == <<Pair, Last, First, Short, Last>>

AnySource == {OneStream, TwoStreams, <<Ragged>>}
=============================================================================
