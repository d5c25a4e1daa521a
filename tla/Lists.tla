------------------------------- MODULE Lists -------------------------------
(* What the modules need of lists that can be reasoned about in general.   *)
EXTENDS Naturals, Sequences

\* The elements of s at these places, in their order: what is left when a loop
\* over a list has unlinked the others.
AtPlaces(s, places) ==
    LET upTo[i \in 0 .. Len(s)] ==
            IF i = 0 THEN <<>>
            ELSE IF i \in places THEN Append(upTo[i-1], s[i]) ELSE upTo[i-1]
    IN  upTo[Len(s)]
=============================================================================
