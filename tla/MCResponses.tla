---------------------------- MODULE MCResponses -----------------------------
(***************************************************************************)
(* ResponseBuffer with three requests and a buffer of eight bytes.         *)
(***************************************************************************)
EXTENDS ResponseBuffer, SequencesExt

\* Messages of these kinds and sizes, one after the other.
Placed(shapes) ==
  LET After(ms, m) ==
        LET start == IF ms = <<>> THEN 0 ELSE Last(ms).end
        IN Append(ms, [kind |-> m.kind, cseq |-> m.cseq, headEnd |-> start + m.head,
                       end |-> start + m.head + m.body])
  IN FoldLeft(After, <<>>, shapes)

Shape(kind, cseq, size) == [kind |-> kind, cseq |-> cseq, head |-> size[1], body |-> size[2]]

\* Responses to three requests: small ones, which fit the buffer together, one of
\* them perhaps of another kind; larger ones, up to one that just fills it; or one that
\* is too long for it.
Answers(kinds, sizes) ==
  {[c \in 1..3 |-> Shape(kind[c], c, size[c])] : kind \in kinds, size \in sizes}
AtMostOne(f, S) == Cardinality({c \in 1..3 : f[c] \in S}) <= 1
Small  == {<<1, 0>>, <<1, 1>>}
Medium == {<<1, 0>>, <<2, 3>>}
Exact  == {<<2, 6>>}
Long   == {<<2, 8>>}
Fine   == {[c \in 1..3 |-> "ok"]}
Faulty == {"bad", "malformed"}
MixedAnswers ==
  Answers({f \in [1..3 -> {"ok"} \cup Faulty] : AtMostOne(f, Faulty)}, [1..3 -> Small])
MediumAnswers ==
  Answers(Fine, {f \in [1..3 -> Medium \cup Exact] : AtMostOne(f, Exact)})
LongAnswers ==
  Answers(Fine, {f \in [1..3 -> Small \cup Long] : AtMostOne(f, Long)})

\* A request of the server comes before the second answer.
Asking ==
  {<<a[1], Shape("request", 0, <<2, 0>>), a[2], a[3]>> :
     a \in Answers(Fine, [1..3 -> Small \cup Medium])}

MCExchanges ==
  [messages : {Placed(a) : a \in MixedAnswers \cup MediumAnswers \cup LongAnswers \cup Asking},
   pipelined : BOOLEAN]
=============================================================================
