---------------------------- MODULE DynamicReward ----------------------------
(***************************************************************************)
(* The difficulty-dependent length reward of this repository:              *)
(* DynamicRewardManager, verl/workers/reward_manager/dynamic.py, and what  *)
(* GRPO makes of its rewards, compute_grpo_outcome_advantage in            *)
(* verl/trainer/ppo/core_algos.py.                                         *)
(*                                                                         *)
(* A batch holds GroupSize sampled answers to each question.  A scorer may *)
(* give a share of the tests passed, so a score is a number of parts of 1, *)
(* negative ones included.  Accuracies, mean lengths and rewards are exact *)
(* fractions [num, den] with den > 0; the rounding of floats is left out.  *)
(* The two passes visit the questions in the order of a Python set, that   *)
(* is, in any order.                                                       *)
(***************************************************************************)
EXTENDS Integers, FiniteSets, Functions

CONSTANTS
    Questions,      \* uid of the questions of the batch
    GroupSize,      \* rollout.n
    ScoreValues,    \* what compute_score may give an answer, in parts of 1
    ScoreParts,     \* the parts that make 1
    Lengths,        \* lengths of a sampled answer, in tokens
    MaxResponse,    \* max_response_len
    Threshold,      \* the literal 0.2: accuracy below which a question is hard
    LowerBar,       \* the literal 2500
    UpperBar,       \* the literal 10000
    FilterEasy,     \* trainer.filter_easy_acc
    FilterHard      \* trainer.filter_hard_acc

Fractions == [num : Int, den : Nat \ {0}]
Frac(n, d) == [num |-> n, den |-> d]
Plus(x, y)  == Frac(x.num * y.den + y.num * x.den, x.den * y.den)
Minus(x, y) == Frac(x.num * y.den - y.num * x.den, x.den * y.den)
Mul(x, y)   == Frac(x.num * y.num, x.den * y.den)
Leq(x, y)   == x.num * y.den <= y.num * x.den
Zero == Frac(0, 1)
Whole(n) == Frac(n, 1)

ASSUME SizeAssumption ==
    /\ IsFiniteSet(Questions) /\ GroupSize \in Nat \ {0}
    /\ MaxResponse \in Nat \ {0}
    /\ ScoreValues \subseteq Int /\ ScoreParts \in Nat \ {0}
    /\ \A n \in Lengths : n \in 1..MaxResponse
    /\ LowerBar \in Nat /\ UpperBar \in Nat
    /\ \A f \in {Threshold, FilterEasy, FilterHard} : f.num \in Nat /\ f.den \in Nat \ {0}

\* The literal is positive: a question that is easy was answered right.
ASSUME ThresholdAssumption == Threshold.num > 0

VARIABLES
    batch,      \* per question and sample: its reward, in parts, and its length
    sumLen,     \* sum_len_per_acc, at the key of each question's accuracy
    numLen,     \* num_per_acc, likewise
    tallied,    \* questions the first pass has visited
    reward,     \* reweight_rewards
    reweighted, \* questions the second pass has visited
    kept,       \* questions whose response_mask GRPO leaves alone
    done        \* GRPO has seen the batch

dynamicVars == <<batch, sumLen, numLen, tallied, reward, reweighted, kept, done>>

Samples == 1..GroupSize
Score(q, i) == Frac(batch[q][i].reward, ScoreParts)
Correct(q) == {i \in Samples : batch[q][i].reward > 0}
\* id2correct_ratio
Acc(q) == Frac(Cardinality(Correct(q)), GroupSize)

-----------------------------------------------------------------------------
DynamicInit ==
    /\ batch \in [Questions -> [Samples -> [reward : ScoreValues, len : Lengths]]]
    /\ sumLen = [q \in Questions |-> 0] /\ numLen = [q \in Questions |-> 0]
    /\ tallied = {} /\ reweighted = {} /\ kept = Questions /\ done = FALSE
    /\ reward = [q \in Questions |-> [i \in Samples |-> Zero]]

LenSum(q, S) == SumFunctionOnSet([i \in Samples |-> batch[q][i].len], S)

\* Mutant: the sums would take every answer.
TalliedAll(q) == Samples

\* The samples a question adds to the sums: the correct ones, or all if none is.
Tallied(q) == IF Correct(q) = {} THEN Samples ELSE Correct(q)

\* The sums are kept in a dict whose keys are the tensors of id2correct_ratio.
\* A tensor hashes by identity and there is one per question, so each question
\* has an entry to itself, whatever the value of its accuracy.
Key(q) == {q}

Tally(q) ==
    /\ q \notin tallied
    /\ tallied' = tallied \union {q}
    /\ sumLen' = [p \in Questions |->
                    IF p \in Key(q) THEN sumLen[p] + LenSum(q, Tallied(q)) ELSE sumLen[p]]
    /\ numLen' = [p \in Questions |->
                    IF p \in Key(q) THEN numLen[p] + Cardinality(Tallied(q)) ELSE numLen[p]]
    /\ UNCHANGED <<batch, reward, reweighted, kept, done>>

AvgLen(q) == IF numLen[q] > 0 THEN Frac(sumLen[q], numLen[q]) ELSE Zero

\* Mutant: the excess would be added.
EasyRewardPlus(q, i) ==
    LET L == batch[q][i].len
        z == Mul(Minus(Whole(L), AvgLen(q)), Frac(1, MaxResponse))
    IN IF L >= LowerBar THEN Plus(Score(q, i), Mul(Acc(q), z))
                        ELSE Score(q, i)

\* Mutant: the excess would not be scaled to the longest response.
EasyRewardUnscaled(q, i) ==
    LET L == batch[q][i].len
        z == Minus(Whole(L), AvgLen(q))
    IN IF L >= LowerBar THEN Minus(Score(q, i), Mul(Acc(q), z))
                        ELSE Score(q, i)

\* A question answered right often enough: from the lower bar on, an answer
\* loses in proportion to its excess over the mean length.
EasyReward(q, i) ==
    LET L == batch[q][i].len
        z == Mul(Minus(Whole(L), AvgLen(q)), Frac(1, MaxResponse))
    IN IF L >= LowerBar THEN Minus(Score(q, i), Mul(Acc(q), z))
                        ELSE Score(q, i)

\* A hard question: below the upper bar, an answer gains with its length.  Only
\* the mean is divided by max_response_len.  For a question never answered
\* right the mean is read at the float key 1/n, which no tensor key equals: 0.
HardReward(q, i) ==
    LET L    == batch[q][i].len
        mean == IF Correct(q) = {} THEN Zero ELSE AvgLen(q)
        z    == Minus(Whole(L), Mul(mean, Frac(1, MaxResponse)))
    IN IF L < UpperBar THEN Plus(Score(q, i), Mul(Minus(Threshold, Acc(q)), z))
                       ELSE Score(q, i)

IsEasy(q) == Leq(Threshold, Acc(q))

Reweight(q) ==
    /\ tallied = Questions /\ q \notin reweighted
    /\ reweighted' = reweighted \union {q}
    /\ reward' = [reward EXCEPT ![q] = [i \in Samples |->
                    IF IsEasy(q) THEN EasyReward(q, i) ELSE HardReward(q, i)]]
    /\ UNCHANGED <<batch, sumLen, numLen, tallied, kept, done>>

\* The correctness GRPO saves and filters by: the share of positive rewards.
Correctness(q) ==
    Frac(Cardinality({i \in Samples : reward[q][i].num > 0}), GroupSize)

Grpo ==
    /\ reweighted = Questions /\ ~done
    /\ done' = TRUE
    /\ kept' = {q \in Questions :
                  Leq(FilterHard, Correctness(q)) /\ Leq(Correctness(q), FilterEasy)}
    /\ UNCHANGED <<batch, sumLen, numLen, tallied, reward, reweighted>>

DynamicOver == done /\ UNCHANGED dynamicVars

DynamicNext == (\E q \in Questions : Tally(q) \/ Reweight(q)) \/ Grpo \/ DynamicOver

DynamicSpec == DynamicInit /\ [][DynamicNext]_dynamicVars

-----------------------------------------------------------------------------
(* Properties *)

\* What the length term adds to one answer's reward.
Change(q, i) == Minus(reward[q][i], Score(q, i))

(* In an easy question whose correct answers all reach the lower bar, the
   length term takes from some of them what it gives to others: the correct
   answers keep their total reward.  It holds only if the mean length is that of
   this question's correct answers, whatever they score and whatever else is in
   the batch. *)
EasyTotalKept ==
    \A q \in reweighted :
        (IsEasy(q) /\ (\A i \in Correct(q) : batch[q][i].len >= LowerBar)) =>
            LET share == [i \in Correct(q) |->
                    (GroupSize * MaxResponse * Change(q, i).num) \div Change(q, i).den]
            IN SumFunction(share) = 0

(* Among answers of equal score to an easy question that reach the lower
   bar, the shorter earns more; to a hard one, below the upper bar, the longer. *)
LengthOrders ==
    \A q \in reweighted : \A i, j \in Samples :
        LET a == batch[q][i]  b == batch[q][j] IN
        (a.reward = b.reward /\ a.len < b.len) =>
            /\ (IsEasy(q) /\ a.len >= LowerBar) => ~Leq(reward[q][i], reward[q][j])
            /\ (~IsEasy(q) /\ b.len < UpperBar) => ~Leq(reward[q][j], reward[q][i])

(* GRPO masks out a question answered right more often than filter_easy_acc,
   though it counts the positive rewards after the length term has changed them:
   that term costs no right answer its sign, if each scores the share of right
   answers at least, as 1 does.  A smaller score may lose it. *)
EasyFiltered ==
    done => \A q \in kept :
        (\A i \in Correct(q) : Leq(Acc(q), Score(q, i))) => Leq(Acc(q), FilterEasy)
=============================================================================
