---------------------------- MODULE Flattening ----------------------------
(***************************************************************************)
(* The sequences that a loop appends to each other, put together. This is  *)
(* FlattenSeq of the community modules with its empty case inside of the   *)
(* recursion, which is the form that an induction over it needs.           *)
(***************************************************************************)
EXTENDS Naturals, Sequences

Flat(seqs) ==
    LET f[n \in 0..Len(seqs)] == IF n = 0 THEN <<>> ELSE f[n - 1] \o seqs[n]
    IN f[Len(seqs)]
=============================================================================
