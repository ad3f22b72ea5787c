------------------------------ MODULE Filtering ------------------------------
(* The loop that keeps, in order, the elements of a list it asks for: the  *)
(* queue, its journal and the lists of the stores are filtered this way.   *)
EXTENDS Integers, Sequences

Filtered(s, A) ==
    LET f[i \in 0..Len(s)] ==
            IF i = 0 THEN << >>
            ELSE IF s[i] \in A THEN Append(f[i - 1], s[i]) ELSE f[i - 1]
    IN  f[Len(s)]
=============================================================================
