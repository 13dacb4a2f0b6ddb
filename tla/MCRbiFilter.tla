---------------------------- MODULE MCRbiFilter -----------------------------
EXTENDS RbiFilter

\* The definition of Flushed, which the proofs can reason about, agrees with the filter
\* of the standard module on every queue of up to four items.
Samples == [kind : {"buffer", "event"}, id : {1, 2}]
ASSUME FlushedIsFilter ==
  \A n \in 0..4 : \A q \in [1..n -> Samples] :
    Flushed(q) = SelectSeq(q, LAMBDA item : ~IsBuffer(item))
=============================================================================
