--------------------------- MODULE MCDynamicReward ---------------------------
(* DynamicReward on two questions of three answers each. *)
EXTENDS DynamicReward, TLC

TwoFifths == Frac(2, 5)
Most      == Frac(4, 5)
Never     == Frac(0, 1)

\* Nothing, one test of ten, and all of them.
MCScores == {0, 1, 10}

QuestionsAlike == Permutations(Questions)
=============================================================================
