----------------------------- MODULE MCFactEngine -----------------------------
EXTENDS FactEngine

Cur(ks) == [fact : ks, need : {"current"}]
Set(ks) == [fact : ks, need : {"settled"}]

\* Program {1, 2, 3}: two producers in a cycle, and a third job that waits for one
\* of them to settle and shares a claim with the other.
CycleRead == <<Cur({2}), Cur({1}), Set({1})>>
CycleClaim == <<{1}, {2}, {2}>>
CycleWait == <<{}, Cur({1}), Set({1})>>

\* Program {4, 5}: a job with two answers, 4 and 6, over a product, and a job that
\* waits for one of them.
AnswerRead == <<Cur({6}), Set({4}), Cur({9})>>
AnswerClaim == <<{4}, {}, {6}>>
AnswerWait == <<Cur({9}), Set({6})>>

MCRunOf == <<1, 2, 3, 4, 5, 4>>
MCRead == CycleRead \o AnswerRead
MCClaim == CycleClaim \o AnswerClaim
MCWait == CycleWait \o AnswerWait
MCProducer == [f \in Facts |-> MCRunOf[f]]

\* A program of its own: the second answer of job 1 reads what job 2 derives from
\* the first.
SiblingRunOf == <<1, 2, 1>>
SiblingRead == <<Cur({9}), Cur({1}), Cur({2})>>
SiblingClaim == <<{1}, {2}, {3}>>
SiblingWait == <<{}, {}>>
=============================================================================
