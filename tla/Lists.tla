------------------------------- MODULE Lists -------------------------------
(***************************************************************************)
(* Array.filter as the client uses it to take elements out of a list, and  *)
(* the loop with a set of those seen that leaves out what is repeated.     *)
(***************************************************************************)
EXTENDS Integers, Sequences, SequencesExt

\* The list s without the elements of D, in its order.
Without(s, D) ==
    LET F[i \in 0..Len(s)] ==
            IF i = 0 THEN <<>> ELSE IF s[i] \in D THEN F[i - 1] ELSE Append(F[i - 1], s[i])
    IN F[Len(s)]

Drop(s, x) == Without(s, {x})

\* The elements of s in T, in its order.
Within(s, T) == Without(s, ToSet(s) \ T)

\* The elements of s in its order, each where it is first met.
Distinct(s) ==
    LET F[i \in 0..Len(s)] ==
            IF i = 0 THEN <<>> ELSE IF s[i] \in ToSet(F[i - 1]) THEN F[i - 1] ELSE Append(F[i - 1], s[i])
    IN F[Len(s)]
=============================================================================
