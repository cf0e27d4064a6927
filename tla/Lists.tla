-------------------------------- MODULE Lists --------------------------------
(* The lists of the server are filtered as JavaScript's arrays are: what is  *)
(* kept stays in its order.                                                  *)
EXTENDS Naturals, Sequences

\* Array.prototype.filter: the members of s that are in K.
Filtered(s, K) ==
    LET upTo[i \in 0 .. Len(s)] ==
            IF i = 0 THEN <<>>
            ELSE IF s[i] \in K THEN Append(upTo[i - 1], s[i]) ELSE upTo[i - 1]
    IN  upTo[Len(s)]
=============================================================================
