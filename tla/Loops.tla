--------------------------------- MODULE Loops ---------------------------------
(* Loops over a sequence as recursive functions, which a proof can unfold.      *)
EXTENDS Naturals, Sequences

\* The elements of a sequence that pass a test, in their order.
Filter(s, Test(_)) ==
    LET kept[n \in 0 .. Len(s)] ==
            IF n = 0 THEN <<>>
            ELSE IF Test(s[n]) THEN Append(kept[n - 1], s[n]) ELSE kept[n - 1]
    IN  kept[Len(s)]

\* What a step makes of a value with each element in turn.
Loop(s, base, Step(_, _)) ==
    LET after[n \in 0 .. Len(s)] == IF n = 0 THEN base ELSE Step(after[n - 1], s[n])
    IN  after[Len(s)]
=============================================================================
