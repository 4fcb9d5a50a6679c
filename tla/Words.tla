------------------------------- MODULE Words -------------------------------
(***************************************************************************)
(* The machine word of the target, and the powers of two a word can hold.  *)
(***************************************************************************)
EXTENDS Integers

CONSTANT WordSize   \* kernel_config.word_size

\* The last three conjuncts are arithmetic; they are here because they are
\* all the proofs need to know of powers.
ASSUME WordAssumption ==
  /\ WordSize \in Nat \ {0}
  /\ \A b \in 0 .. WordSize : 2^b \in Nat \ {0}
  /\ 2^0 = 1
  /\ \A b \in 0 .. WordSize - 1 : 2^(b + 1) = 2 * 2^b

Bits == 0 .. WordSize - 1
=============================================================================
