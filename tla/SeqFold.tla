------------------------------- MODULE SeqFold -------------------------------
(***************************************************************************)
(* InTurn is the FoldLeft of SequencesExt, on top of Folds alone.  The     *)
(* modules with proofs use it because every obligation of a proof carries  *)
(* the definitions of all modules that are extended, and SequencesExt      *)
(* extends many.                                                           *)
(***************************************************************************)
EXTENDS Integers, Sequences, Folds

Greatest(S) == CHOOSE x \in S : \A y \in S : x >= y

(* op(... op(op(base, seq[1]), seq[2]) ..., seq[n]) *)
InTurn(op(_, _), base, seq) ==
    MapThenFoldSet(LAMBDA x, y : op(y, x), base, LAMBDA i : seq[i], Greatest, DOMAIN seq)
=============================================================================
