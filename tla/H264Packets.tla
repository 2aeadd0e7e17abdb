---------------------------- MODULE H264Packets -----------------------------
(***************************************************************************)
(* What liveMedia's H264VideoRTPSource makes of the payload of an RTP      *)
(* packet (RFC 6184): a NAL unit by itself, a fragment of one, or an       *)
(* aggregate of several.  Of the bytes, those are kept that decide.        *)
(***************************************************************************)
EXTENDS Integers, Sequences, Functions

\* type: nal_unit_type of the first byte; bytes: the size of the payload; start,
\* end: the bits of a fragment's header; sizes: the sizes that an aggregate gives.
Payloads ==
  [type : 0..31, bytes : Nat, start : BOOLEAN, end : BOOLEAN, sizes : Seq(Nat)]

IsAggregate(type) == type \in 24..27    \* STAP-A, STAP-B, MTAP16, MTAP24
IsFragment(type)  == type \in {28, 29}  \* FU-A, FU-B

\* The payload is too short: processSpecialHeader() returns False.
HeaderRejected(h) == h.bytes < (IF IsFragment(h.type) THEN 2 ELSE 1)

\* How many bytes are not part of a NAL unit; the header of the unit that a
\* first fragment begins is put together again in one of its own two bytes.
HeaderBytes(h) ==
  CASE h.type = 24        -> 1
    [] h.type \in 25..27  -> 3
    [] IsFragment(h.type) -> IF h.start THEN 1 ELSE 2
    [] OTHER              -> 0

\* fCurrentPacketBeginsFrame and fCurrentPacketCompletesFrame behind the header
\* of h, when they were `before': an aggregate does not set them.
BeginsFrame(h, before) ==
  IF IsAggregate(h.type) THEN before ELSE IsFragment(h.type) => h.start
CompletesFrame(h, before) ==
  IF IsAggregate(h.type) THEN before ELSE IsFragment(h.type) => h.end

\* The bytes before each unit of an aggregate: its size and, in an MTAP, its
\* DOND and time offset.
UnitHeaderBytes(type) == CASE type = 26 -> 5 [] type = 27 -> 6 [] OTHER -> 2

\* nextEnclosedFrameSize(), when `left' bytes are left and the next two give the
\* size `stated': how many bytes it skips, and how many it finds.
SkippedBytes(type, left) ==
  IF IsAggregate(type) /\ left >= UnitHeaderBytes(type) THEN UnitHeaderBytes(type) ELSE 0
EnclosedBytes(type, stated, left) ==
  IF ~IsAggregate(type) THEN left
  ELSE IF left < UnitHeaderBytes(type) THEN 0
  ELSE IF stated <= left THEN stated ELSE left

\* The sizes that an aggregate gives are those of its units, and nothing follows.
WellFormed(h) ==
  /\ h \in Payloads
  /\ IsAggregate(h.type) =>
       h.bytes = HeaderBytes(h) + Len(h.sizes) * UnitHeaderBytes(h.type)
                 + FoldFunction(+, 0, h.sizes)
=============================================================================
