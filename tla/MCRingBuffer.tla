----------------------------- MODULE MCRingBuffer -----------------------------
(* A ring of four slots fed every chunk of up to five bytes over 3 values:   *)
(* appends that fit, wrap, exactly fill, overwrite and exceed the ring.      *)
EXTENDS RingBuffer, SequencesExt, Bitwise

MCByte   == 0 .. 2
MCChunks == BoundedSeq(MCByte, 5)

\* The code's mask is the modulo the model uses, for every index it forms.
ASSUME MaskIsModulo ==
  \A i \in 0 .. 2 * Capacity : i & (Capacity - 1) = Wrap(i)
===============================================================================
