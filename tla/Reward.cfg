\* Two questions of three answers; one right answer of three is a hard question.
SPECIFICATION DynamicSpec
CONSTANTS
    Questions = {q1, q2}
    GroupSize = 3
    ScoreValues <- MCScores
    ScoreParts = 10
    Lengths = {1, 3, 7}
    MaxResponse = 8
    Threshold <- TwoFifths
    LowerBar = 2
    UpperBar = 6
    FilterEasy <- Most
    FilterHard <- Never
SYMMETRY QuestionsAlike
INVARIANTS
    
    LengthOrders
    EasyFiltered
