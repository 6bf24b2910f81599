-------------------------- MODULE MCProductSessions --------------------------
EXTENDS ProductSessions

Settled(f) == [fact |-> f, settled |-> TRUE]
Current(f) == [fact |-> f, settled |-> FALSE]

\* 1, 2: effect summaries of two functions; 3, 4: their materialized bodies;
\* 5: the root's program; 6: the native program.
MCKind == <<"effects", "effects", "materialized", "materialized", "root", "native">>
MCUses == <<{}, {}, {Settled(1)}, {Current(2)}, {Settled(1)}, {}>>
MCInputs ==
    <<[c \in 0..1 |-> <<3>>], [c \in 0..1 |-> <<4>>], [c \in 0..1 |-> <<>>], [c \in 0..1 |-> <<>>],
      [c \in 0..1 |-> <<1>>], [c \in 0..1 |-> <<5>>]>>
\* The second function calls the first and itself only in one of its versions.
MCCallees ==
    <<[v \in 0..1 |-> <<2>>], [v \in 0..1 |-> IF v = 1 THEN <<1, 2>> ELSE <<>>],
      [v \in 0..1 |-> <<>>], [v \in 0..1 |-> <<>>], [v \in 0..1 |-> <<>>], [v \in 0..1 |-> <<>>]>>
MCRefused == <<{}, {}, {}, {}, {}, {1}>>
=============================================================================
