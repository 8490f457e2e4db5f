---------------------------- MODULE Rewards_proofs ----------------------------
(***************************************************************************)
(* What the two reward components keep to for every batch, every number of *)
(* workers and every order of steps.                                       *)
(*                                                                         *)
(* Batched reward requests (RewardBatching): BatchingInv is inductive.  It *)
(* adds to the three properties that a round that returned has scored all  *)
(* its prompts, that futures hold the score of their own prompt or an      *)
(* exception, and that the thread between two batches holds no request.    *)
(* It also has that the thread blocks only with a batch the ranks cannot   *)
(* share, from which no round stops halfway for any other reason; and no   *)
(* round goes on for ever, as no prompt goes back in the reward path.      *)
(*                                                                         *)
(* The length reward (DynamicReward): DynamicInv says of every number the  *)
(* two passes left behind what it was computed from; the four properties   *)
(* follow from it by arithmetic on fractions and on sums over a group.     *)
(***************************************************************************)
EXTENDS RewardBatching, DynamicReward, FiniteSetTheorems, SequenceTheorems, TLAPS

-----------------------------------------------------------------------------
(* Sequences of requests *)

\* What appending does to the elements of a queue, and to their being distinct.
LEMMA AppendElements ==
    ASSUME NEW s \in Seq(Nat), NEW x \in Nat
    PROVE  /\ Append(s, x) \in Seq(Nat)
           /\ Elements(Append(s, x)) = Elements(s) \cup {x}
           /\ Distinct(s) /\ x \notin Elements(s) => Distinct(Append(s, x))
<1> DEFINE t == Append(s, x)
<1>1. /\ t \in Seq(Nat) /\ Len(t) = Len(s) + 1 /\ Len(s) \in Nat
      /\ \A i \in 1..Len(s) : t[i] = s[i]
      /\ t[Len(s) + 1] = x
  BY AppendProperties, LenProperties
<1> HIDE DEF t
<1>2. Elements(t) = Elements(s) \cup {x}
  <2>1. ASSUME NEW i \in 1..Len(t) PROVE t[i] \in Elements(s) \cup {x}
    BY <1>1 DEF Elements
  <2>2. ASSUME NEW i \in 1..Len(s) PROVE s[i] \in Elements(t)
    <3>1. i \in 1..Len(t) /\ t[i] = s[i]
      BY <1>1
    <3> QED
      BY <3>1 DEF Elements
  <2>3. x \in Elements(t)
    <3>1. Len(s) + 1 \in 1..Len(t) /\ t[Len(s) + 1] = x
      BY <1>1
    <3> QED
      BY <3>1 DEF Elements
  <2> QED
    BY <2>1, <2>2, <2>3 DEF Elements
<1>3. ASSUME Distinct(s), x \notin Elements(s) PROVE Distinct(t)
  <2> SUFFICES ASSUME NEW i \in 1..Len(t), NEW j \in 1..Len(t), t[i] = t[j] PROVE i = j
    BY DEF Distinct
  <2>1. CASE i \in 1..Len(s) /\ j \in 1..Len(s)
    BY <2>1, <1>1, <1>3 DEF Distinct
  <2>2. CASE i \in 1..Len(s) /\ j = Len(s) + 1
    <3>1. s[i] = x
      BY <2>2, <1>1
    <3>2. s[i] \in Elements(s)
      BY <2>2 DEF Elements
    <3> QED
      BY <3>1, <3>2, <1>3
  <2>3. CASE i = Len(s) + 1 /\ j \in 1..Len(s)
    <3>1. s[j] = x
      BY <2>3, <1>1
    <3>2. s[j] \in Elements(s)
      BY <2>3 DEF Elements
    <3> QED
      BY <3>1, <3>2, <1>3
  <2>4. CASE i = Len(s) + 1 /\ j = Len(s) + 1
    BY <2>4
  <2> QED
    BY <2>1, <2>2, <2>3, <2>4, <1>1
<1> QED
  BY <1>1, <1>2, <1>3 DEF t

\* What taking the first element does.
LEMMA TailElements ==
    ASSUME NEW s \in Seq(Nat), s # <<>>
    PROVE  /\ Tail(s) \in Seq(Nat) /\ Head(s) \in Elements(s) /\ Head(s) \in Nat
           /\ Elements(Tail(s)) \subseteq Elements(s)
           /\ Elements(s) = Elements(Tail(s)) \cup {Head(s)}
           /\ Distinct(s) => Distinct(Tail(s)) /\ Head(s) \notin Elements(Tail(s))
<1> DEFINE t == Tail(s)
<1>1. /\ t \in Seq(Nat) /\ Len(t) = Len(s) - 1 /\ Head(s) \in Nat
      /\ \A i \in 1..Len(t) : t[i] = s[i + 1]
  BY HeadTailProperties
<1>2. Head(s) = s[1] /\ Len(s) \in Nat /\ Len(s) > 0
  BY LenProperties, EmptySeq
<1> HIDE DEF t
<1>3. Elements(t) \subseteq Elements(s) /\ Head(s) \in Elements(s)
  BY <1>1, <1>2 DEF Elements
<1>4. Elements(s) \subseteq Elements(t) \cup {Head(s)}
  <2> SUFFICES ASSUME NEW i \in 1..Len(s) PROVE s[i] \in Elements(t) \cup {Head(s)}
    BY DEF Elements
  <2>1. CASE i = 1
    BY <2>1, <1>2
  <2>2. CASE i # 1
    <3>1. i - 1 \in 1..Len(t) /\ (i - 1) + 1 = i
      BY <2>2, <1>1, <1>2
    <3>2. t[i - 1] = s[i]
      BY <3>1, <1>1
    <3> QED
      BY <3>1, <3>2 DEF Elements
  <2> QED
    BY <2>1, <2>2
<1>5. ASSUME Distinct(s) PROVE Distinct(t) /\ Head(s) \notin Elements(t)
  <2>1. \A i \in 1..Len(t) : i + 1 \in 1..Len(s) /\ i + 1 # 1
    BY <1>1, <1>2
  <2>2. Head(s) \notin Elements(t)
    BY <2>1, <1>1, <1>2, <1>5 DEF Distinct, Elements
  <2>3. \A i, j \in 1..Len(t) : t[i] = t[j] => i + 1 = j + 1
    BY <2>1, <1>1, <1>5 DEF Distinct
  <2>4. \A i, j \in 1..Len(t) : i + 1 = j + 1 => i = j
    BY <1>1, <1>2
  <2> QED
    BY <2>2, <2>3, <2>4 DEF Distinct
<1> QED
  BY <1>1, <1>3, <1>4, <1>5 DEF t

\* What the two halves of a sequence without repetition are.
LEMMA ConcatElements ==
    ASSUME NEW s \in Seq(Nat), NEW t \in Seq(Nat)
    PROVE  /\ s \o t \in Seq(Nat)
           /\ Elements(s \o t) = Elements(s) \cup Elements(t)
           /\ Distinct(s \o t) => /\ Distinct(s) /\ Distinct(t)
                                  /\ Elements(s) \cap Elements(t) = {}
<1> DEFINE u == s \o t
<1>1. /\ u \in Seq(Nat) /\ Len(u) = Len(s) + Len(t)
      /\ \A i \in 1..Len(s) + Len(t) : u[i] = IF i <= Len(s) THEN s[i] ELSE t[i - Len(s)]
  BY ConcatProperties
<1>2. Len(s) \in Nat /\ Len(t) \in Nat
  BY LenProperties
<1> HIDE DEF u
<1>3. \A i \in 1..Len(s) : i \in 1..Len(u) /\ u[i] = s[i]
  BY <1>1, <1>2
<1>4. ASSUME NEW i \in 1..Len(t)
      PROVE  i + Len(s) \in 1..Len(u) /\ u[i + Len(s)] = t[i]
  <2>1. /\ i + Len(s) \in 1..Len(s) + Len(t) /\ ~(i + Len(s) <= Len(s))
        /\ (i + Len(s)) - Len(s) = i
    BY <1>2
  <2> QED
    BY <2>1, <1>1
<1>5. Elements(s) \cup Elements(t) \subseteq Elements(u)
  BY <1>3, <1>4 DEF Elements
<1>6. Elements(u) \subseteq Elements(s) \cup Elements(t)
  <2> SUFFICES ASSUME NEW i \in 1..Len(u) PROVE u[i] \in Elements(s) \cup Elements(t)
    BY DEF Elements
  <2>1. CASE i <= Len(s)
    BY <2>1, <1>1, <1>2 DEF Elements
  <2>2. CASE ~(i <= Len(s))
    <3>1. i - Len(s) \in 1..Len(t) /\ u[i] = t[i - Len(s)]
      BY <2>2, <1>1, <1>2
    <3> QED
      BY <3>1 DEF Elements
  <2> QED
    BY <2>1, <2>2
<1>7. ASSUME Distinct(u)
      PROVE  Distinct(s) /\ Distinct(t) /\ Elements(s) \cap Elements(t) = {}
  <2>1. Distinct(s)
    BY <1>3, <1>7 DEF Distinct
  <2>2. ASSUME NEW i \in 1..Len(t), NEW j \in 1..Len(t), t[i] = t[j] PROVE i = j
    <3>1. i + Len(s) = j + Len(s)
      BY <1>4, <1>7, <2>2 DEF Distinct
    <3> QED
      BY <3>1, <1>2
  <2>3. ASSUME NEW i \in 1..Len(s), NEW j \in 1..Len(t) PROVE s[i] # t[j]
    <3>1. i # j + Len(s)
      BY <1>2
    <3> QED
      BY <3>1, <1>3, <1>4, <1>7 DEF Distinct
  <2>4. Elements(s) \cap Elements(t) = {}
    BY <2>3 DEF Elements
  <2> QED
    BY <2>1, <2>2, <2>4 DEF Distinct
<1> QED
  BY <1>1, <1>5, <1>6, <1>7 DEF u

\* A request that moves from the queue to the batch stays in its place.
LEMMA TakeStays ==
    ASSUME NEW s \in Seq(Nat), NEW t \in Seq(Nat), t # <<>>
    PROVE  Append(s, Head(t)) \o Tail(t) = s \o t
<1> DEFINE h == Head(t)
<1>1. h \in Nat /\ Tail(t) \in Seq(Nat) /\ Len(Tail(t)) = Len(t) - 1
      /\ \A i \in 1..Len(Tail(t)) : Tail(t)[i] = t[i + 1]
  BY HeadTailProperties
<1>2. h = t[1] /\ Len(t) \in Nat /\ Len(t) > 0 /\ Len(s) \in Nat
  BY LenProperties, EmptySeq
<1> HIDE DEF h
<1> DEFINE a == Append(s, h)
           u == a \o Tail(t)
           v == s \o t
<1>3. /\ a \in Seq(Nat) /\ Len(a) = Len(s) + 1 /\ a[Len(s) + 1] = h
      /\ \A i \in 1..Len(s) : a[i] = s[i]
  BY <1>1, AppendProperties
<1> HIDE DEF a
<1>4. /\ u \in Seq(Nat) /\ Len(u) = Len(a) + Len(Tail(t))
      /\ \A i \in 1..Len(a) + Len(Tail(t)) :
            u[i] = IF i <= Len(a) THEN a[i] ELSE Tail(t)[i - Len(a)]
  BY <1>1, <1>3, ConcatProperties
<1>5. /\ v \in Seq(Nat) /\ Len(v) = Len(s) + Len(t)
      /\ \A i \in 1..Len(s) + Len(t) : v[i] = IF i <= Len(s) THEN s[i] ELSE t[i - Len(s)]
  BY ConcatProperties
<1> HIDE DEF u, v
<1>6. Len(u) = Len(v) /\ Len(u) = Len(s) + Len(t)
  BY <1>1, <1>2, <1>3, <1>4, <1>5
<1>7. ASSUME NEW i \in 1..Len(u) PROVE u[i] = v[i]
  <2>0. i \in Nat /\ i >= 1 /\ i <= Len(s) + Len(t)
    BY <1>6, <1>2
  <2>1. CASE i <= Len(s)
    <3>1. i \in 1..Len(a) + Len(Tail(t)) /\ i <= Len(a) /\ i \in 1..Len(s) /\ i \in 1..Len(s) + Len(t)
      BY <2>0, <2>1, <1>1, <1>2, <1>3
    <3> QED
      BY <3>1, <2>1, <1>3, <1>4, <1>5
  <2>2. CASE i = Len(s) + 1
    <3>1. i \in 1..Len(a) + Len(Tail(t)) /\ i <= Len(a) /\ ~(i <= Len(s)) /\ i - Len(s) = 1
          /\ i \in 1..Len(s) + Len(t)
      BY <2>0, <2>2, <1>1, <1>2, <1>3
    <3> QED
      BY <3>1, <2>2, <1>2, <1>3, <1>4, <1>5
  <2>3. CASE i > Len(s) + 1
    <3>1. i \in 1..Len(a) + Len(Tail(t)) /\ ~(i <= Len(a)) /\ ~(i <= Len(s))
          /\ i - Len(a) \in 1..Len(Tail(t)) /\ (i - Len(a)) + 1 = i - Len(s)
          /\ i \in 1..Len(s) + Len(t)
      BY <2>0, <2>3, <1>1, <1>2, <1>3
    <3> QED
      BY <3>1, <1>1, <1>4, <1>5
  <2> QED
    BY <2>0, <2>1, <2>2, <2>3, <1>2
<1>8. u = v
  BY <1>4, <1>5, <1>6, <1>7, SeqEqual
<1> QED
  BY <1>8 DEF u, v, a, h

LEMMA AppendLast ==
    ASSUME NEW s \in Seq(Nat), NEW t \in Seq(Nat), NEW x \in Nat
    PROVE  s \o Append(t, x) = Append(s \o t, x)
<1>1. Append(t, x) = t \o <<x>> /\ s \o t \in Seq(Nat)
  BY AppendIsConcat, ConcatProperties
<1>2. Append(s \o t, x) = (s \o t) \o <<x>>
  BY <1>1, AppendIsConcat
<1> QED
  BY <1>1, <1>2, ConcatAssociative

LEMMA NoElements ==
    /\ Elements(<<>>) = {} /\ Distinct(<<>>)
    /\ \A s \in Seq(Nat) : Elements(s) = {} => s = <<>>
<1>1. Elements(<<>>) = {} /\ Distinct(<<>>)
  BY EmptySeq DEF Elements, Distinct
<1>2. ASSUME NEW s \in Seq(Nat), s # <<>> PROVE Elements(s) # {}
  BY <1>2, TailElements
<1> QED
  BY <1>1, <1>2

-----------------------------------------------------------------------------
(* The invariant of the batched rewards *)

\* What the module's state consists of.
BatchingType ==
    /\ manager \in {"idle", "rolling", "raised"}
    /\ round \in Nat /\ first \in Nat
    /\ length = 0 \/ length \in BatchLengths
    /\ loop \in [Prompts -> {"generating", "scoring", "scored", "failed"}]
    /\ score \in [Prompts -> Int] /\ answer \in [Prompts -> Int]
    /\ mailbox \in [Workers -> Seq(Nat)]
    /\ serving \in [Workers -> Prompts \cup {None}]
    /\ q \in Seq(Nat) /\ items \in Seq(Nat)
    /\ \A w \in Workers : Elements(mailbox[w]) \subseteq Prompts
    /\ Elements(Inside) \subseteq Prompts
    /\ thread \in {"get", "drain", "fill", "run"}

\* A future holds the score of its own prompt or an exception, and none is
\* resolved before its prompt was submitted.
AnswersFit ==
    \A p \in Prompts : /\ answer[p] \in {None, p, Failed}
                       /\ loop[p] = "generating" => answer[p] = None

\* A reward worker serves prompts of its own agent loops only.
ServesOwn == \A w \in Workers : serving[w] # None => WorkerOf(serving[w]) = w

\* Between two batches the thread holds no request.
ThreadHolds == thread = "get" <=> items = <<>>

\* The thread blocks for more requests only if the ranks cannot share those it has.
FillsUneven == thread = "fill" => ~Divisible(Len(items))

\* A round that returned has scored all its prompts.
IdleScored == manager = "idle" => \A p \in Prompts : loop[p] = "scored"

BatchingInv == /\ BatchingType /\ AnswersFit /\ ServesOwn /\ ThreadHolds /\ FillsUneven
               /\ IdleScored /\ OnePlaceEach /\ ScoresOwn

\* The chunks of a batch are as many as the workers, and cover it.
LEMMA ChunkInRange ==
    ASSUME NEW f \in Nat, NEW n \in BatchLengths, NEW p \in f + 1 .. f + n
    PROVE  (p - f - 1) \div (n \div NumWorkers) + 1 \in Workers /\ p \in Nat \ {None}
<1> USE SizesAssumption, LengthsAssumption
<1> DEFINE m == n \div NumWorkers
           x == p - f - 1
           d == x \div m
<1>1. n % NumWorkers = 0 /\ n \in Nat \ {0}
  OBVIOUS
<1>2. n = NumWorkers * m /\ m \in Int
  BY <1>1, SMTT(60)
<1> HIDE DEF m
<1>3. m \in Nat \ {0}
  BY <1>1, <1>2, SMTT(60)
<1>4. x \in Nat /\ x < n /\ p \in Nat \ {0}
  BY <1>1
<1> HIDE DEF x
<1>5. d \in Int /\ m * d <= x /\ x < m * (d + 1)
  BY <1>3, <1>4, SMTT(60)
<1> HIDE DEF d
<1>6. d >= 0
  <2> SUFFICES ASSUME d + 1 <= 0 PROVE FALSE
    BY <1>5
  <2>1. m * (d + 1) <= 0
    BY <1>3, <1>5, SMTT(60)
  <2> QED
    BY <2>1, <1>3, <1>4, <1>5
<1>7. d < NumWorkers
  <2> SUFFICES ASSUME d >= NumWorkers PROVE FALSE
    BY <1>5
  <2>1. m * d >= m * NumWorkers
    BY <1>3, <1>5, SMTT(60)
  <2> QED
    BY <2>1, <1>2, <1>3, <1>4, <1>5
<1> QED
  BY <1>4, <1>5, <1>6, <1>7 DEF Workers, None, d, x, m

LEMMA WorkerInRange ==
    ASSUME BatchingType, NEW p \in Prompts
    PROVE  WorkerOf(p) \in Workers /\ p \in Nat \ {None}
<1>1. first \in Nat /\ length \in BatchLengths
  <2>1. length # 0
    BY DEF BatchingType, Prompts
  <2> QED
    BY <2>1 DEF BatchingType
<1> QED
  BY <1>1, ChunkInRange DEF WorkerOf, Prompts

LEMMA InitBatching == Init => BatchingInv
<1> SUFFICES ASSUME Init PROVE BatchingInv
  OBVIOUS
<1> USE DEF Init
<1>1. Prompts = {}
  BY DEF Prompts
<1>2. <<>> \in Seq(Nat) /\ Inside = <<>> /\ Elements(<<>>) = {} /\ Distinct(<<>>)
  BY NoElements, EmptySeq, ConcatEmptySeq DEF Inside
<1>3. BatchingType
  BY <1>1, <1>2 DEF BatchingType
<1>4. OnePlaceEach
  BY <1>1, <1>2 DEF OnePlaceEach
<1>5. AnswersFit /\ ServesOwn /\ ThreadHolds /\ IdleScored /\ ScoresOwn
  BY <1>1 DEF AnswersFit, ServesOwn, ThreadHolds, IdleScored, ScoresOwn
<1>6. FillsUneven
  BY DEF FillsUneven
<1> QED
  BY <1>3, <1>4, <1>5, <1>6 DEF BatchingInv

\* Between two rounds nothing waits anywhere.
LEMMA IdleEmpty == BatchingInv => NothingLeft
<1> SUFFICES ASSUME BatchingInv, manager = "idle"
             PROVE  /\ Inside = <<>> /\ thread = "get"
                    /\ \A w \in Workers : mailbox[w] = <<>> /\ serving[w] = None
  BY DEF NothingLeft
<1> USE DEF BatchingInv
<1>1. \A p \in Prompts : loop[p] # "scoring"
  BY DEF IdleScored
<1>2. Elements(Inside) = {}
  BY <1>1 DEF OnePlaceEach, BatchingType
<1>3. Inside \in Seq(Nat)
  BY ConcatProperties DEF BatchingType, Inside
<1>4. Inside = <<>>
  BY <1>2, <1>3, NoElements
<1>5. items = <<>>
  BY <1>4, ConcatEqualIffEmpty DEF BatchingType, Inside
<1>6. ASSUME NEW w \in Workers PROVE mailbox[w] = <<>>
  <2>1. Elements(mailbox[w]) = {}
    BY <1>1 DEF OnePlaceEach, BatchingType
  <2> QED
    BY <2>1, NoElements DEF BatchingType
<1>7. ASSUME NEW w \in Workers PROVE serving[w] = None
  BY <1>1 DEF OnePlaceEach, BatchingType, ServesOwn
<1> QED
  BY <1>4, <1>5, <1>6, <1>7 DEF ThreadHolds

-----------------------------------------------------------------------------
(* The agent loops and the reward actors *)

\* Within a round the chunks do not change.
LEMMA SameRound ==
    ASSUME UNCHANGED <<first, length>>
    PROVE  Prompts' = Prompts /\ \A p \in Prompts : WorkerOf(p)' = WorkerOf(p)
  BY DEF Prompts, WorkerOf

\* Where a prompt of worker w waits, if it waits: its share of OnePlaceEach.
PlacedAt(p, w) ==
    LET queued   == p \in Elements(mailbox[w])
        inside   == p \in Elements(Inside)
        answered == answer[p] # None /\ loop[p] = "scoring"
    IN /\ loop[p] = "scoring" <=> (queued \/ inside \/ answered)
       /\ ~(queued /\ inside) /\ ~(queued /\ answered) /\ ~(inside /\ answered)
       /\ serving[w] = p <=> (inside \/ answered)

LEMMA PlacedBefore ==
    ASSUME OnePlaceEach, NEW p \in Prompts PROVE PlacedAt(p, WorkerOf(p))
  BY DEF OnePlaceEach, PlacedAt

LEMMA PlacedAfter ==
    ASSUME UNCHANGED <<first, length>>, BatchingType', Distinct(Inside)',
           \A w \in Workers : Distinct(mailbox'[w]),
           \A w \in Workers : \A p \in Elements(mailbox'[w]) : WorkerOf(p) = w,
           \A p \in Prompts : \A w \in Workers : w = WorkerOf(p) => PlacedAt(p, w)',
           BatchingType
    PROVE  OnePlaceEach'
<1>1. Prompts' = Prompts /\ \A p \in Prompts : WorkerOf(p)' = WorkerOf(p)
  BY SameRound
<1>2. Workers' = Workers
  BY DEF Workers
<1>3. ASSUME NEW w \in Workers, NEW p \in Elements(mailbox'[w]) PROVE WorkerOf(p)' = w
  <2>1. p \in Prompts
    BY <1>1, <1>2 DEF BatchingType
  <2> QED
    BY <2>1, <1>1
<1>4. ASSUME NEW p \in Prompts
      PROVE  WorkerOf(p)' \in Workers /\ \A w \in Workers : w = WorkerOf(p)' => PlacedAt(p, w)'
  <2>1. WorkerOf(p) \in Workers
    BY WorkerInRange
  <2>2. WorkerOf(p)' = WorkerOf(p)
    BY <1>1
  <2> QED
    BY <2>1, <2>2
<1>5. ASSUME NEW p \in Prompts
      PROVE  (LET w        == WorkerOf(p)
                  queued   == p \in Elements(mailbox[w])
                  inside   == p \in Elements(Inside)
                  answered == answer[p] # None /\ loop[p] = "scoring"
              IN /\ loop[p] = "scoring" <=> (queued \/ inside \/ answered)
                 /\ ~(queued /\ inside) /\ ~(queued /\ answered) /\ ~(inside /\ answered)
                 /\ serving[w] = p <=> (inside \/ answered))'
  BY <1>4 DEF PlacedAt
<1> QED
  BY <1>1, <1>2, <1>3, <1>5 DEF OnePlaceEach

LEMMA RolloutEndsKeeps ==
    ASSUME BatchingInv, NEW p \in Prompts, RolloutEnds(p) PROVE BatchingInv'
<1> USE DEF BatchingInv
<1> DEFINE w == WorkerOf(p)
<1>1. /\ loop[p] = "generating" /\ loop' = [loop EXCEPT ![p] = "scoring"]
      /\ mailbox' = [mailbox EXCEPT ![w] = Append(@, p)]
      /\ UNCHANGED <<manager, round, first, length, score, serving, q, answer, thread, items>>
  BY DEF RolloutEnds, manageVars, executorVars
<1>2. Prompts' = Prompts /\ \A x \in Prompts : WorkerOf(x)' = WorkerOf(x)
  BY <1>1, SameRound
<1>3. w \in Workers /\ p \in Nat
  BY WorkerInRange
<1>4. Inside' = Inside
  BY <1>1 DEF Inside
<1>5. /\ mailbox'[w] = Append(mailbox[w], p)
      /\ \A v \in Workers : v # w => mailbox'[v] = mailbox[v]
  BY <1>1, <1>3 DEF BatchingType
<1>6. p \notin Elements(mailbox[w]) /\ p \notin Elements(Inside) /\ serving[w] # p
      /\ answer[p] = None
  BY <1>1 DEF OnePlaceEach, AnswersFit
<1>7. /\ mailbox'[w] \in Seq(Nat) /\ Distinct(mailbox'[w])
      /\ Elements(mailbox'[w]) = Elements(mailbox[w]) \cup {p}
  BY <1>3, <1>5, <1>6, AppendElements DEF BatchingType, OnePlaceEach
<1>8. BatchingType'
  <2>1. mailbox' \in [Workers -> Seq(Nat)]
    BY <1>1, <1>3, <1>5, <1>7 DEF BatchingType
  <2>2. \A v \in Workers : Elements(mailbox'[v]) \subseteq Prompts
    BY <1>5, <1>7 DEF BatchingType
  <2>3. loop' \in [Prompts -> {"generating", "scoring", "scored", "failed"}]
    BY <1>1 DEF BatchingType
  <2>4. UNCHANGED <<Workers, BatchLengths>>
    BY DEF Workers
  <2> QED
    BY <1>1, <1>2, <1>4, <2>1, <2>2, <2>3, <2>4 DEF BatchingType
<1>9. AnswersFit'
  BY <1>1, <1>2 DEF AnswersFit, BatchingType
<1>10. ServesOwn'
  BY <1>1, <1>2 DEF ServesOwn, Workers, BatchingType
<1>11. ThreadHolds' /\ FillsUneven' /\ IdleScored'
  BY <1>1, <1>2 DEF ThreadHolds, FillsUneven, Divisible, IdleScored, BatchingType
<1>12. ScoresOwn'
  BY <1>1, <1>2 DEF ScoresOwn, BatchingType
<1>13. OnePlaceEach'
  <2>1. \A v \in Workers : Distinct(mailbox'[v])
    BY <1>5, <1>7 DEF OnePlaceEach
  <2>2. \A v \in Workers : \A x \in Elements(mailbox'[v]) : WorkerOf(x) = v
    BY <1>5, <1>7 DEF OnePlaceEach
  <2>3. ASSUME NEW x \in Prompts, NEW v \in Workers, v = WorkerOf(x)
        PROVE  PlacedAt(x, v)'
    <3>1. CASE x = p
      BY <3>1, <2>3, <1>1, <1>4, <1>6, <1>7 DEF BatchingType, PlacedAt
    <3>2. CASE x # p
      <4>1. x \in Elements(mailbox'[v]) <=> x \in Elements(mailbox[v])
        BY <3>2, <1>5, <1>7
      <4>2. loop'[x] = loop[x]
        BY <3>2, <1>1 DEF BatchingType
      <4>3. PlacedAt(x, v)
        BY <2>3, PlacedBefore
      <4> QED
        BY <4>1, <4>2, <4>3, <1>1, <1>4 DEF PlacedAt
    <3> QED
      BY <3>1, <3>2
  <2>4. Distinct(Inside)'
    BY <1>4 DEF OnePlaceEach, Distinct
  <2> QED
    BY <1>1, <1>8, <2>1, <2>2, <2>3, <2>4, PlacedAfter
<1> QED
  BY <1>8, <1>9, <1>10, <1>11, <1>12, <1>13

LEMMA RolloutEndsScoredKeeps ==
    ASSUME BatchingInv, NEW p \in Prompts, RolloutEndsScored(p) PROVE BatchingInv'
<1> USE DEF BatchingInv
<1>1. /\ loop[p] = "generating" /\ loop' = [loop EXCEPT ![p] = "scored"]
      /\ score' = [score EXCEPT ![p] = p]
      /\ UNCHANGED <<manager, round, first, length, mailbox, serving, q, answer, thread, items>>
  BY DEF RolloutEndsScored, manageVars, rewardVars, executorVars
<1>2. Prompts' = Prompts /\ \A x \in Prompts : WorkerOf(x)' = WorkerOf(x)
  BY <1>1, SameRound
<1>3. p \in Int
  BY WorkerInRange
<1>4. Inside' = Inside /\ Workers' = Workers
  BY <1>1 DEF Inside, Workers
<1>5. BatchingType'
  BY <1>1, <1>2, <1>3, <1>4 DEF BatchingType
<1>6. AnswersFit' /\ IdleScored' /\ ScoresOwn'
  BY <1>1, <1>2, <1>3 DEF AnswersFit, IdleScored, ScoresOwn, BatchingType
<1>7. ServesOwn' /\ ThreadHolds' /\ FillsUneven'
  BY <1>1, <1>2, <1>4 DEF ServesOwn, ThreadHolds, FillsUneven, Divisible, BatchingType
<1>8. OnePlaceEach'
  <2>1. ASSUME NEW x \in Prompts, NEW v \in Workers, v = WorkerOf(x)
        PROVE  PlacedAt(x, v)'
    <3>1. PlacedAt(x, v)
      BY <2>1, PlacedBefore
    <3> QED
      BY <3>1, <1>1, <1>4 DEF PlacedAt, BatchingType
  <2>2. /\ Distinct(Inside)' /\ \A v \in Workers : Distinct(mailbox'[v])
        /\ \A v \in Workers : \A x \in Elements(mailbox'[v]) : WorkerOf(x) = v
    BY <1>1, <1>4 DEF OnePlaceEach, Distinct
  <2> QED
    BY <1>1, <1>5, <2>1, <2>2, PlacedAfter
<1> QED
  BY <1>5, <1>6, <1>7, <1>8

LEMMA SubmitStepKeeps ==
    ASSUME BatchingInv, NEW w \in Workers, Submit(w) PROVE BatchingInv'
<1> USE DEF BatchingInv
<1> DEFINE p == Head(mailbox[w])
<1>1. /\ serving[w] = None /\ mailbox[w] # <<>>
      /\ serving' = [serving EXCEPT ![w] = p]
      /\ mailbox' = [mailbox EXCEPT ![w] = Tail(mailbox[w])]
      /\ q' = Append(q, p)
      /\ UNCHANGED <<manager, round, first, length, loop, score, answer, thread, items>>
  BY DEF Submit, manageVars, loopVars
<1>2. Prompts' = Prompts /\ \A x \in Prompts : WorkerOf(x)' = WorkerOf(x)
  BY <1>1, SameRound
<1>3. mailbox[w] \in Seq(Nat) /\ Distinct(mailbox[w])
  BY DEF BatchingType, OnePlaceEach
<1>4. /\ Tail(mailbox[w]) \in Seq(Nat) /\ p \in Elements(mailbox[w]) /\ p \in Nat
      /\ Elements(mailbox[w]) = Elements(Tail(mailbox[w])) \cup {p}
      /\ Distinct(Tail(mailbox[w])) /\ p \notin Elements(Tail(mailbox[w]))
  BY <1>1, <1>3, TailElements
<1> HIDE DEF p
<1>5. p \in Prompts /\ WorkerOf(p) = w /\ p # None
  BY <1>4, WorkerInRange DEF BatchingType, OnePlaceEach
<1>6. PlacedAt(p, w)
  BY <1>5, PlacedBefore
<1>7. p \notin Elements(Inside) /\ loop[p] = "scoring" /\ answer[p] = None
  BY <1>4, <1>6 DEF PlacedAt
<1>8. /\ mailbox'[w] = Tail(mailbox[w]) /\ \A v \in Workers : v # w => mailbox'[v] = mailbox[v]
      /\ serving'[w] = p /\ \A v \in Workers : v # w => serving'[v] = serving[v]
  BY <1>1 DEF BatchingType
<1>9. Inside \in Seq(Nat) /\ Inside' = Append(Inside, p) /\ q' \in Seq(Nat)
  <2>1. items \in Seq(Nat) /\ q \in Seq(Nat)
    BY DEF BatchingType
  <2>2. items \o q \in Seq(Nat)
    BY <2>1, ConcatProperties
  <2>3. items \o Append(q, p) = Append(items \o q, p)
    BY <2>1, <1>4, AppendLast
  <2>4. Append(q, p) \in Seq(Nat)
    BY <2>1, <1>4, AppendElements
  <2>5. Inside' = items \o Append(q, p)
    BY <1>1 DEF Inside
  <2> QED
    BY <1>1, <2>2, <2>3, <2>4, <2>5 DEF Inside
<1>10. Elements(Inside') = Elements(Inside) \cup {p} /\ Distinct(Inside')
  BY <1>4, <1>7, <1>9, AppendElements DEF OnePlaceEach
<1>11. Workers' = Workers
  BY DEF Workers
<1>12. BatchingType'
  <2>1. mailbox' \in [Workers -> Seq(Nat)] /\ serving' \in [Workers -> Prompts \cup {None}]
    BY <1>1, <1>4, <1>5 DEF BatchingType
  <2>2. \A v \in Workers : Elements(mailbox'[v]) \subseteq Prompts
    BY <1>4, <1>8 DEF BatchingType
  <2>3. Elements(Inside)' \subseteq Prompts
    BY <1>5, <1>10 DEF BatchingType, Elements
  <2> QED
    BY <1>1, <1>2, <1>9, <1>11, <2>1, <2>2, <2>3 DEF BatchingType
<1>13. AnswersFit' /\ IdleScored' /\ ScoresOwn' /\ ThreadHolds' /\ FillsUneven'
  BY <1>1, <1>2 DEF AnswersFit, IdleScored, ScoresOwn, ThreadHolds, FillsUneven, Divisible,
                    BatchingType
<1>14. ServesOwn'
  <2>1. ASSUME NEW v \in Workers, serving'[v] # None PROVE WorkerOf(serving'[v]) = v
    BY <2>1, <1>5, <1>8 DEF ServesOwn
  <2>2. ASSUME NEW v \in Workers, serving'[v] # None
        PROVE  (WorkerOf(serving[v]))' = WorkerOf(serving'[v])
    BY <1>1 DEF WorkerOf
  <2> QED
    BY <1>11, <2>1, <2>2 DEF ServesOwn
<1>15. OnePlaceEach'
  <2>1. ASSUME NEW x \in Prompts, NEW v \in Workers, v = WorkerOf(x)
        PROVE  PlacedAt(x, v)'
    <3>1. PlacedAt(x, v)
      BY <2>1, PlacedBefore
    <3>2. x \in Nat \ {None}
      BY WorkerInRange
    <3>3. Elements(Inside)' = Elements(Inside')
      BY DEF Elements
    <3>4. CASE x = p
      BY <3>1, <3>3, <3>4, <2>1, <1>1, <1>4, <1>5, <1>7, <1>8, <1>10 DEF PlacedAt
    <3>5. CASE x # p
      <4>1. x \in Elements(mailbox'[v]) <=> x \in Elements(mailbox[v])
        BY <3>5, <1>4, <1>8
      <4>2. x \in Elements(Inside)' <=> x \in Elements(Inside)
        BY <3>3, <3>5, <1>10
      <4>3. serving'[v] = x <=> serving[v] = x
        BY <3>2, <3>5, <1>1, <1>8
      <4> QED
        BY <3>1, <4>1, <4>2, <4>3, <1>1 DEF PlacedAt
    <3> QED
      BY <3>4, <3>5
  <2>2. \A v \in Workers : Distinct(mailbox'[v])
    BY <1>4, <1>8 DEF OnePlaceEach
  <2>3. \A v \in Workers : \A x \in Elements(mailbox'[v]) : WorkerOf(x) = v
    BY <1>4, <1>8 DEF OnePlaceEach
  <2>4. Distinct(Inside)'
    BY <1>10 DEF Distinct
  <2> QED
    BY <1>1, <1>12, <2>1, <2>2, <2>3, <2>4, PlacedAfter
<1> QED
  BY <1>12, <1>13, <1>14, <1>15

LEMMA ReplyKeeps ==
    ASSUME BatchingInv, NEW w \in Workers, Reply(w) PROVE BatchingInv'
<1> USE DEF BatchingInv
<1> DEFINE p == serving[w]
<1>1. /\ p # None /\ answer[p] # None
      /\ serving' = [serving EXCEPT ![w] = None]
      /\ UNCHANGED <<manager, round, first, length, mailbox, q, answer, thread, items>>
      /\ \/ /\ answer[p] = Failed /\ loop' = [loop EXCEPT ![p] = "failed"] /\ score' = score
         \/ /\ answer[p] # Failed /\ loop' = [loop EXCEPT ![p] = "scored"]
            /\ score' = [score EXCEPT ![p] = answer[p]]
  BY DEF Reply, manageVars, executorVars
<1>2. Prompts' = Prompts /\ \A x \in Prompts : WorkerOf(x)' = WorkerOf(x)
  BY <1>1, SameRound
<1>3. p \in Prompts /\ WorkerOf(p) = w
  BY <1>1 DEF BatchingType, ServesOwn
<1> HIDE DEF p
<1>4. PlacedAt(p, w) /\ serving[w] = p
  BY <1>3, PlacedBefore DEF p
<1>5. loop[p] = "scoring" /\ p \notin Elements(mailbox[w]) /\ p \notin Elements(Inside)
  BY <1>1, <1>4 DEF PlacedAt
<1>6. answer[p] \in {p, Failed} /\ p \in Int
  BY <1>1, <1>3, WorkerInRange DEF AnswersFit
<1>7. Inside' = Inside /\ Workers' = Workers
  BY <1>1 DEF Inside, Workers
<1>8. serving'[w] = None /\ \A v \in Workers : v # w => serving'[v] = serving[v]
  BY <1>1 DEF BatchingType
<1>9. \A x \in Prompts : x # p => loop'[x] = loop[x] /\ score'[x] = score[x]
  BY <1>1, <1>3 DEF BatchingType
<1>10. loop'[p] \in {"scored", "failed"} /\ (loop'[p] = "scored" => score'[p] = p)
  BY <1>1, <1>3, <1>6 DEF BatchingType
<1>11. BatchingType'
  <2>1. /\ loop \in [Prompts -> {"generating", "scoring", "scored", "failed"}]
        /\ score \in [Prompts -> Int]
    BY DEF BatchingType
  <2>2. loop' \in [Prompts -> {"generating", "scoring", "scored", "failed"}]
    BY <1>1, <2>1
  <2>3. score' \in [Prompts -> Int]
    BY <1>1, <1>6, <2>1
  <2>4. serving' \in [Workers -> Prompts \cup {None}]
    BY <1>1 DEF BatchingType
  <2> QED
    BY <1>1, <1>2, <1>7, <2>2, <2>3, <2>4 DEF BatchingType
<1>12. AnswersFit'
  BY <1>1, <1>2, <1>9, <1>10 DEF AnswersFit
<1>13. IdleScored'
  BY <1>1, <1>2, <1>3, <1>5 DEF IdleScored
<1>14. ScoresOwn'
  BY <1>2, <1>9, <1>10 DEF ScoresOwn
<1>15. ServesOwn' /\ ThreadHolds' /\ FillsUneven'
  <2>1. ASSUME NEW v \in Workers, serving'[v] # None PROVE (WorkerOf(serving[v]))' = v
    <3>1. v # w /\ serving'[v] = serving[v] /\ WorkerOf(serving[v]) = v
      BY <2>1, <1>8 DEF ServesOwn
    <3> QED
      BY <3>1, <1>1 DEF WorkerOf
  <2> QED
    BY <1>1, <1>7, <2>1 DEF ServesOwn, ThreadHolds, FillsUneven, Divisible
<1>16. OnePlaceEach'
  <2>1. ASSUME NEW x \in Prompts, NEW v \in Workers, v = WorkerOf(x)
        PROVE  PlacedAt(x, v)'
    <3>1. PlacedAt(x, v)
      BY <2>1, PlacedBefore
    <3>2. x # None
      BY WorkerInRange
    <3>3. CASE x = p
      BY <3>2, <3>3, <2>1, <1>1, <1>3, <1>5, <1>7, <1>8, <1>10 DEF PlacedAt
    <3>4. CASE x # p
      <4>1. serving'[v] = x <=> serving[v] = x
        BY <3>2, <3>4, <1>4, <1>8
      <4> QED
        BY <3>1, <3>4, <4>1, <1>1, <1>7, <1>9 DEF PlacedAt
    <3> QED
      BY <3>3, <3>4
  <2>2. /\ Distinct(Inside)' /\ \A v \in Workers : Distinct(mailbox'[v])
        /\ \A v \in Workers : \A x \in Elements(mailbox'[v]) : WorkerOf(x) = v
    BY <1>1, <1>7 DEF OnePlaceEach, Distinct
  <2> QED
    BY <1>1, <1>11, <2>1, <2>2, PlacedAfter
<1> QED
  BY <1>11, <1>12, <1>13, <1>14, <1>15, <1>16

-----------------------------------------------------------------------------
(* The executor's thread and the manager *)

\* The thread takes a request: the batch and the queue hold the same as before.
LEMMA TakeKeeps ==
    ASSUME BatchingInv, TakeOne, thread' \in {"drain", "fill", "run"},
           thread' = "fill" => ~Divisible(Len(items) + 1)
    PROVE  BatchingInv'
<1> USE DEF BatchingInv
<1>1. /\ q # <<>> /\ q' = Tail(q) /\ items' = Append(items, Head(q))
      /\ UNCHANGED <<manager, round, first, length, loop, score, mailbox, serving, answer>>
  BY DEF TakeOne, manageVars, loopVars, rewardVars
<1>2. Prompts' = Prompts /\ (\A x \in Prompts : WorkerOf(x)' = WorkerOf(x)) /\ Workers' = Workers
  BY <1>1, SameRound DEF Workers
<1>3. items \in Seq(Nat) /\ q \in Seq(Nat)
  BY DEF BatchingType
<1>4. Head(q) \in Nat /\ Tail(q) \in Seq(Nat)
  BY <1>1, <1>3, TailElements
<1>5. items' \in Seq(Nat) /\ q' \in Seq(Nat) /\ items' # <<>>
  BY <1>1, <1>3, <1>4, AppendElements, AppendProperties
<1>6. Append(items, Head(q)) \o Tail(q) = items \o q
  BY <1>1, <1>3, TakeStays
<1>7. Inside' = Inside
  BY <1>1, <1>6 DEF Inside
<1>8. BatchingType'
  BY <1>1, <1>2, <1>5, <1>7 DEF BatchingType
<1>9. AnswersFit' /\ IdleScored' /\ ScoresOwn'
  BY <1>1, <1>2 DEF AnswersFit, IdleScored, ScoresOwn
<1>10. ServesOwn' /\ ThreadHolds' /\ FillsUneven'
  <2>1. ServesOwn' /\ ThreadHolds'
    BY <1>1, <1>2, <1>5 DEF ServesOwn, ThreadHolds, BatchingType
  <2>2. Len(items') = Len(items) + 1
    BY <1>1, <1>3, <1>4, AppendProperties
  <2>3. FillsUneven'
    BY <2>2 DEF FillsUneven, Divisible
  <2> QED
    BY <2>1, <2>3
<1>11. OnePlaceEach'
  <2>1. ASSUME NEW x \in Prompts, NEW v \in Workers, v = WorkerOf(x)
        PROVE  PlacedAt(x, v)'
    <3>1. PlacedAt(x, v)
      BY <2>1, PlacedBefore
    <3> QED
      BY <3>1, <1>1, <1>7 DEF PlacedAt
  <2>2. /\ Distinct(Inside)' /\ \A v \in Workers : Distinct(mailbox'[v])
        /\ \A v \in Workers : \A x \in Elements(mailbox'[v]) : WorkerOf(x) = v
    BY <1>1, <1>7 DEF OnePlaceEach, Distinct
  <2> QED
    BY <1>1, <1>8, <2>1, <2>2, PlacedAfter
<1> QED
  BY <1>8, <1>9, <1>10, <1>11

\* The queue is empty for now: the thread runs what it has or waits for more.
LEMMA DrainEndsKeeps == ASSUME BatchingInv, DrainEnds PROVE BatchingInv'
<1> USE DEF BatchingInv
<1>1. /\ thread = "drain" /\ thread' \in {"run", "fill"}
      /\ thread' = "fill" => ~Divisible(Len(items))
      /\ UNCHANGED <<manager, round, first, length, loop, score, mailbox, serving, q, answer, items>>
  BY DEF DrainEnds, manageVars, loopVars, rewardVars
<1>2. Prompts' = Prompts /\ (\A x \in Prompts : WorkerOf(x)' = WorkerOf(x)) /\ Workers' = Workers
  BY <1>1, SameRound DEF Workers
<1>3. Inside' = Inside
  BY <1>1 DEF Inside
<1>4. BatchingType'
  BY <1>1, <1>2, <1>3 DEF BatchingType
<1>5. AnswersFit' /\ IdleScored' /\ ScoresOwn'
  BY <1>1, <1>2 DEF AnswersFit, IdleScored, ScoresOwn
<1>6. ServesOwn' /\ ThreadHolds' /\ FillsUneven'
  BY <1>1, <1>2 DEF ServesOwn, ThreadHolds, FillsUneven, Divisible, BatchingType, WorkerOf
<1>7. OnePlaceEach'
  <2>1. ASSUME NEW x \in Prompts, NEW v \in Workers, v = WorkerOf(x)
        PROVE  PlacedAt(x, v)'
    BY <2>1, <1>1, <1>3, PlacedBefore DEF PlacedAt
  <2>2. /\ Distinct(Inside)' /\ \A v \in Workers : Distinct(mailbox'[v])
        /\ \A v \in Workers : \A x \in Elements(mailbox'[v]) : WorkerOf(x) = v
    BY <1>1, <1>3 DEF OnePlaceEach, Distinct
  <2> QED
    BY <1>1, <1>4, <2>1, <2>2, PlacedAfter
<1> QED
  BY <1>4, <1>5, <1>6, <1>7

\* The batch is answered: what a future of it gets is its own prompt's score, or
\* the exception.
LEMMA ResolveKeeps ==
    ASSUME BatchingInv, thread = "run", NEW results, Resolve(results),
           \A k \in 1..Len(items) : results[k] \in {items[k], Failed}
    PROVE  BatchingInv'
<1> USE DEF BatchingInv
<1>1. /\ answer' = [p \in DOMAIN answer |->
                      IF \E k \in 1..Len(items) : items[k] = p
                      THEN results[CHOOSE k \in 1..Len(items) : items[k] = p]
                      ELSE answer[p]]
      /\ thread' = "get" /\ items' = <<>>
      /\ UNCHANGED <<manager, round, first, length, loop, score, mailbox, serving, q>>
  BY DEF Resolve, manageVars, loopVars, rewardVars
<1>2. Prompts' = Prompts /\ (\A x \in Prompts : WorkerOf(x)' = WorkerOf(x)) /\ Workers' = Workers
  BY <1>1, SameRound DEF Workers
<1>3. items \in Seq(Nat) /\ q \in Seq(Nat) /\ answer \in [Prompts -> Int]
  BY DEF BatchingType
<1>4. ASSUME NEW p \in Prompts, p \in Elements(items) PROVE answer'[p] \in {p, Failed}
  <2> DEFINE k == CHOOSE k \in 1..Len(items) : items[k] = p
  <2>1. \E j \in 1..Len(items) : items[j] = p
    BY <1>4 DEF Elements
  <2>2. k \in 1..Len(items) /\ items[k] = p
    BY <2>1
  <2>3. answer'[p] = results[k]
    BY <2>1, <1>1, <1>3
  <2> HIDE DEF k
  <2> QED
    BY <2>2, <2>3
<1>5. ASSUME NEW p \in Prompts, p \notin Elements(items) PROVE answer'[p] = answer[p]
  <2>1. ~ \E j \in 1..Len(items) : items[j] = p
    BY <1>5 DEF Elements
  <2> QED
    BY <2>1, <1>1, <1>3
<1>6. Inside' = q
  BY <1>1, <1>3, ConcatEmptySeq DEF Inside
<1>7. /\ Elements(Inside) = Elements(items) \cup Elements(q)
      /\ Distinct(q) /\ Elements(items) \cap Elements(q) = {}
  BY <1>3, ConcatElements DEF Inside, OnePlaceEach
<1>8. \A p \in Prompts : answer'[p] \in {None, p, Failed} /\ p \in Int
  BY <1>4, <1>5, WorkerInRange DEF AnswersFit
<1>9. BatchingType'
  <2>1. answer' \in [Prompts -> Int]
    <3>1. DOMAIN answer' = Prompts /\ answer' = [p \in Prompts |-> answer'[p]]
      BY <1>1, <1>3
    <3> QED
      BY <3>1, <1>8 DEF None, Failed
  <2>2. Elements(Inside)' = Elements(q) /\ <<>> \in Seq(Nat)
    BY <1>6 DEF Elements
  <2> QED
    BY <1>1, <1>2, <1>7, <2>1, <2>2 DEF BatchingType
<1>10. ASSUME NEW p \in Prompts, p \in Elements(items) PROVE loop[p] = "scoring" /\ answer[p] = None
  BY <1>10, <1>7, PlacedBefore DEF PlacedAt
<1>11. AnswersFit'
  <2>1. ASSUME NEW p \in Prompts, loop[p] = "generating" PROVE answer'[p] = None
    <3>1. p \notin Elements(items)
      BY <2>1, <1>10
    <3> QED
      BY <3>1, <2>1, <1>5 DEF AnswersFit
  <2> QED
    BY <2>1, <1>1, <1>2, <1>8 DEF AnswersFit
<1>12. IdleScored' /\ ScoresOwn' /\ ServesOwn' /\ ThreadHolds' /\ FillsUneven'
  <2>1. ServesOwn'
    BY <1>1, <1>2 DEF ServesOwn, BatchingType, WorkerOf
  <2> QED
    BY <2>1, <1>1, <1>2 DEF IdleScored, ScoresOwn, ThreadHolds, FillsUneven
<1>13. OnePlaceEach'
  <2>1. ASSUME NEW x \in Prompts, NEW v \in Workers, v = WorkerOf(x)
        PROVE  PlacedAt(x, v)'
    <3>1. PlacedAt(x, v)
      BY <2>1, PlacedBefore
    <3>2. Elements(Inside)' = Elements(q) /\ x # None /\ Failed # None
      BY <1>6, WorkerInRange DEF Elements, Failed, None
    <3>3. CASE x \in Elements(items)
      <4>1. answer'[x] # None /\ x \notin Elements(q)
        BY <3>2, <3>3, <1>4, <1>7
      <4>2. loop[x] = "scoring" /\ x \notin Elements(mailbox[v]) /\ serving[v] = x
        BY <3>1, <3>3, <1>7, <1>10 DEF PlacedAt
      <4> QED
        BY <3>2, <4>1, <4>2, <1>1 DEF PlacedAt
    <3>4. CASE x \notin Elements(items)
      BY <3>1, <3>2, <3>4, <1>1, <1>5, <1>7 DEF PlacedAt
    <3> QED
      BY <3>3, <3>4
  <2>2. /\ Distinct(Inside)' /\ \A v \in Workers : Distinct(mailbox'[v])
        /\ \A v \in Workers : \A x \in Elements(mailbox'[v]) : WorkerOf(x) = v
    BY <1>1, <1>6, <1>7 DEF OnePlaceEach, Distinct
  <2> QED
    BY <1>1, <1>9, <2>1, <2>2, PlacedAfter
<1> QED
  BY <1>9, <1>11, <1>12, <1>13

LEMMA ExecutorKeeps == ASSUME BatchingInv, Executor PROVE BatchingInv'
<1>1. CASE GetFirst
  BY <1>1, TakeKeeps DEF GetFirst
<1>2. CASE Drain
  BY <1>2, TakeKeeps DEF Drain
<1>3. CASE DrainEnds
  BY <1>3, DrainEndsKeeps
<1>4. CASE Fill
  <2>1. /\ thread' = "run" \/ thread' = "fill"
        /\ thread' = "fill" => ~Divisible(Len(items) + 1)
    BY <1>4 DEF Fill
  <2> QED
    BY <1>4, <2>1, TakeKeeps DEF Fill
<1>5. CASE RunBatch
  <2>1. thread = "run" /\ Resolve(Scores(items))
    BY <1>5 DEF RunBatch
  <2>2. \A k \in 1..Len(items) : Scores(items)[k] \in {items[k], Failed}
    BY DEF Scores
  <2> QED
    BY <2>1, <2>2, ResolveKeeps
<1>6. CASE BatchRaises
  <2> DEFINE results == [k \in 1..Len(items) |-> Failed]
  <2>1. thread = "run" /\ Resolve(results)
    BY <1>6 DEF BatchRaises
  <2>2. \A k \in 1..Len(items) : results[k] \in {items[k], Failed}
    OBVIOUS
  <2> HIDE DEF results
  <2> QED
    BY <2>1, <2>2, ResolveKeeps
<1> QED
  BY <1>1, <1>2, <1>3, <1>4, <1>5, <1>6 DEF Executor

\* A new round finds every mailbox, the batch and the queue empty.
LEMMA GenerateKeeps == ASSUME BatchingInv, Generate PROVE BatchingInv'
<1> USE DEF BatchingInv
<1>1. /\ manager = "idle" /\ manager' = "rolling" /\ round' = round + 1
      /\ length' \in BatchLengths /\ first' = first + length
      /\ loop' = [p \in Prompts' |-> "generating"]
      /\ score' = [p \in Prompts' |-> None] /\ answer' = [p \in Prompts' |-> None]
      /\ UNCHANGED <<mailbox, serving, q, thread, items>>
  BY DEF Generate, rewardVars
<1>2. /\ Inside = <<>> /\ thread = "get"
      /\ \A w \in Workers : mailbox[w] = <<>> /\ serving[w] = None
  BY <1>1, IdleEmpty DEF NothingLeft
<1>3. Inside' = <<>> /\ Workers' = Workers
  BY <1>1, <1>2 DEF Inside, Workers
<1>4. Elements(<<>>) = {} /\ Distinct(<<>>)
  BY NoElements
<1>5. first' \in Nat
  <2>1. first \in Nat /\ length \in Nat
    BY LengthsAssumption DEF BatchingType
  <2> QED
    BY <2>1, <1>1
<1>6. BatchingType'
  <2>1. /\ loop' \in [Prompts' -> {"generating", "scoring", "scored", "failed"}]
        /\ score' \in [Prompts' -> Int] /\ answer' \in [Prompts' -> Int]
    BY <1>1 DEF None
  <2>2. serving' \in [Workers -> Prompts' \cup {None}]
    BY <1>1, <1>2 DEF BatchingType
  <2>3. Elements(Inside)' = {} /\ \A w \in Workers : Elements(mailbox'[w]) = {}
    BY <1>1, <1>2, <1>3, <1>4 DEF Elements
  <2>4. round' \in Nat
    BY <1>1 DEF BatchingType
  <2> QED
    BY <1>1, <1>3, <1>5, <2>1, <2>2, <2>3, <2>4 DEF BatchingType
<1>7. \A p \in Prompts' : loop'[p] = "generating" /\ answer'[p] = None
  BY <1>1
<1>8. AnswersFit' /\ IdleScored' /\ ScoresOwn' /\ ThreadHolds' /\ FillsUneven' /\ ServesOwn'
  BY <1>1, <1>2, <1>3, <1>7 DEF AnswersFit, IdleScored, ScoresOwn, ThreadHolds, FillsUneven,
                                ServesOwn
<1>9. OnePlaceEach'
  <2>1. Distinct(Inside)' /\ Elements(Inside)' = {}
    BY <1>3, <1>4 DEF Distinct, Elements
  <2>2. \A w \in Workers : Distinct(mailbox'[w]) /\ Elements(mailbox'[w]) = {} /\ serving'[w] = None
    BY <1>1, <1>2, <1>4
  <2>3. \A p \in Prompts' : WorkerOf(p)' \in Workers' /\ p # None
    BY <1>1, <1>3, <1>5, ChunkInRange DEF Prompts, WorkerOf
  <2> QED
    BY <2>1, <2>2, <2>3, <1>3, <1>7 DEF OnePlaceEach
<1> QED
  BY <1>6, <1>8, <1>9

\* A step of the manager only, or none.
LEMMA ManagerKeeps ==
    ASSUME BatchingInv, manager' \in {"idle", "rolling", "raised"},
           manager' = "idle" => \A p \in Prompts : loop[p] = "scored",
           UNCHANGED <<round, first, length, loopVars, rewardVars, executorVars>>
    PROVE  BatchingInv'
<1> USE DEF BatchingInv
<1>1. UNCHANGED <<round, first, length, loop, score, mailbox, serving, q, answer, thread, items>>
  BY DEF loopVars, rewardVars, executorVars
<1>2. Prompts' = Prompts /\ Workers' = Workers /\ Inside' = Inside
  BY <1>1 DEF Prompts, Workers, Inside
<1>3. BatchingType'
  BY <1>1, <1>2 DEF BatchingType
<1>4. AnswersFit' /\ IdleScored' /\ ScoresOwn'
  BY <1>1, <1>2 DEF AnswersFit, IdleScored, ScoresOwn
<1>5. ServesOwn' /\ ThreadHolds' /\ FillsUneven'
  BY <1>1, <1>2 DEF ServesOwn, ThreadHolds, FillsUneven, Divisible, BatchingType, WorkerOf
<1>6. OnePlaceEach'
  <2>1. ASSUME NEW x \in Prompts, NEW v \in Workers, v = WorkerOf(x)
        PROVE  PlacedAt(x, v)'
    BY <2>1, <1>1, <1>2, PlacedBefore DEF PlacedAt
  <2>2. /\ Distinct(Inside)' /\ \A v \in Workers : Distinct(mailbox'[v])
        /\ \A v \in Workers : \A x \in Elements(mailbox'[v]) : WorkerOf(x) = v
    BY <1>1, <1>2 DEF OnePlaceEach, Distinct
  <2> QED
    BY <1>1, <1>3, <2>1, <2>2, PlacedAfter
<1> QED
  BY <1>3, <1>4, <1>5, <1>6

LEMMA NextBatching == BatchingInv /\ [Next]_vars => BatchingInv'
<1> SUFFICES ASSUME BatchingInv, [Next]_vars PROVE BatchingInv'
  OBVIOUS
<1>1. manager \in {"idle", "rolling", "raised"} /\ IdleScored
  BY DEF BatchingInv, BatchingType
<1>2. CASE Generate
  BY <1>2, GenerateKeeps
<1>3. CASE Refuse
  BY <1>3, ManagerKeeps DEF Refuse
<1>4. CASE Return
  BY <1>4, ManagerKeeps DEF Return
<1>5. CASE Raise
  BY <1>5, ManagerKeeps DEF Raise
<1>6. CASE UNCHANGED vars
  <2>1. UNCHANGED <<round, first, length, loopVars, rewardVars, executorVars>> /\ manager' = manager
    BY <1>6 DEF vars, manageVars
  <2> QED
    BY <2>1, <1>1, ManagerKeeps DEF IdleScored
<1>7. CASE Over
  BY <1>6, <1>7 DEF Over
<1>8. CASE Rollout
  BY <1>8, RolloutEndsKeeps, RolloutEndsScoredKeeps DEF Rollout
<1>9. CASE Executor
  BY <1>9, ExecutorKeeps
<1>10. CASE \E w \in Workers : Reward(w)
  BY <1>10, SubmitStepKeeps, ReplyKeeps DEF Reward
<1> QED
  BY <1>2, <1>3, <1>4, <1>5, <1>6, <1>7, <1>8, <1>9, <1>10 DEF Next

LEMMA BatchingInvariant == Spec => []BatchingInv
  BY InitBatching, NextBatching, PTL DEF Spec

\* However the agent loops, the reward actors and the thread interleave, a prompt
\* whose score is awaited waits in exactly one place (compute_score, submit_task,
\* BatchExecutor._worker_loop).
THEOREM OnePlaceEachTheorem == Spec => []OnePlaceEach
<1>1. BatchingInv => OnePlaceEach
  BY DEF BatchingInv
<1> QED
  BY <1>1, BatchingInvariant, PTL

\* However the requests are mixed into batches, and whatever the reward model
\* raises, a scored prompt has the score of its own data.
THEOREM ScoresOwnTheorem == Spec => []ScoresOwn
<1>1. BatchingInv => ScoresOwn
  BY DEF BatchingInv
<1> QED
  BY <1>1, BatchingInvariant, PTL

\* A round that returned leaves no request behind that the next one could meet.
THEOREM NothingLeftTheorem == Spec => []NothingLeft
  BY IdleEmpty, BatchingInvariant, PTL

\* A round in which nobody has anything to do: no loop generates, no reward actor
\* has a call to submit or an answer to return, the thread waits for a request
\* that is not there, and the manager can neither return nor raise.
Halted ==
    /\ manager = "rolling"
    /\ \A p \in Prompts : loop[p] \notin {"generating", "failed"}
    /\ \E p \in Prompts : loop[p] # "scored"
    /\ \A w \in Workers : IF serving[w] = None THEN mailbox[w] = <<>>
                                             ELSE answer[serving[w]] = None
    /\ thread \in {"get", "fill"} /\ q = <<>>

LEMMA HaltedIsShort == BatchingInv => (Halted => Short)
<1> SUFFICES ASSUME BatchingInv, Halted PROVE Short
  OBVIOUS
<1> USE DEF BatchingInv, Halted
<1>1. items \in Seq(Nat) /\ Inside = items
  BY ConcatEmptySeq DEF BatchingType, Inside
<1>2. ASSUME NEW w \in Workers, serving[w] # None PROVE serving[w] \in Elements(items)
  <2> DEFINE p == serving[w]
  <2>1. p \in Prompts /\ WorkerOf(p) = w /\ answer[p] = None
    BY <1>2 DEF BatchingType, ServesOwn
  <2>2. PlacedAt(p, w)
    BY <2>1, PlacedBefore
  <2> QED
    BY <2>1, <2>2, <1>1 DEF PlacedAt
<1>3. ASSUME NEW p \in Prompts, serving[WorkerOf(p)] = None PROVE loop[p] = "scored"
  <2> DEFINE w == WorkerOf(p)
  <2>1. w \in Workers /\ p # None
    BY WorkerInRange
  <2>2. mailbox[w] = <<>> /\ PlacedAt(p, w)
    BY <1>3, <2>1, PlacedBefore
  <2>3. loop[p] # "scoring"
    BY <1>3, <2>1, <2>2, NoElements DEF PlacedAt
  <2> QED
    BY <2>3 DEF BatchingType
<1>4. thread = "fill"
  <2> SUFFICES ASSUME items = <<>> PROVE FALSE
    BY DEF ThreadHolds
  <2>1. PICK p \in Prompts : loop[p] # "scored"
    OBVIOUS
  <2>2. WorkerOf(p) \in Workers /\ serving[WorkerOf(p)] # None
    BY <2>1, <1>3, WorkerInRange
  <2> QED
    BY <2>2, <1>2, NoElements
<1>5. ~Divisible(Len(items))
  BY <1>4 DEF FillsUneven
<1> QED
  BY <1>2, <1>3, <1>4, <1>5 DEF Short

\* The only way for a round to stop halfway is that the executor is short of
\* requests: no other wait of loops, actors, thread and manager for one another
\* is reachable, for every batch, number of workers and micro-batch.
THEOREM HaltsOnlyShort == Spec => [](Halted => Short)
  BY HaltedIsShort, BatchingInvariant, PTL

\* What is left: rounds, the return of this one, the places each of its prompts
\* still goes through, and the batch the thread is collecting.
RoundsLeft    == Rounds - round
ManagerWeight == [rolling |-> 2, idle |-> 1, raised |-> 0]
ThreadWeight  == IF thread = "drain" THEN 1 ELSE 0

\* The place of prompt p, of worker w, counted from the end.
RankAt(p, w) ==
    CASE loop[p] = "generating"            -> 5
      [] loop[p] \in {"scored", "failed"}  -> 0
      [] OTHER -> IF p \in Elements(mailbox[w]) THEN 4
                  ELSE IF p \in Elements(q) THEN 3
                  ELSE IF p \in Elements(items) THEN 2 ELSE 1
Rank(p) == RankAt(p, WorkerOf(p))

Advances ==
    \/ RoundsLeft' < RoundsLeft
    \/ /\ RoundsLeft' = RoundsLeft
       /\ \/ ManagerWeight[manager'] < ManagerWeight[manager]
          \/ /\ UNCHANGED manageVars
             /\ \A p \in Prompts : Rank(p)' <= Rank(p)
             /\ \/ \E p \in Prompts : Rank(p)' < Rank(p)
                \/ ThreadWeight' < ThreadWeight

Bounded ==
    /\ RoundsLeft \in Nat /\ ManagerWeight[manager] \in Nat
    /\ \A p \in Prompts : Rank(p) \in 0..5

RoundsCounted == round <= Rounds

LEMMA RoundStep == ASSUME BatchingInv, RoundsCounted, [Next]_vars PROVE RoundsCounted'
<1>1. CASE Generate
  BY <1>1, SizesAssumption DEF Generate, RoundsCounted, BatchingInv, BatchingType
<1>2. CASE round' = round
  BY <1>2 DEF RoundsCounted
<1> QED
  BY <1>1, <1>2
     DEF Next, Refuse, Return, Raise, Over, Rollout, Executor, Reward, RolloutEnds,
         RolloutEndsScored, Submit, Reply, GetFirst, Drain, DrainEnds, Fill, RunBatch,
         BatchRaises, Resolve, TakeOne, manageVars, vars

LEMMA RankRange == \A p, w : RankAt(p, w) \in 0..5
  BY DEF RankAt

LEMMA AllBounded == BatchingInv /\ RoundsCounted => Bounded
  BY RankRange, SizesAssumption
     DEF BatchingInv, BatchingType, RoundsCounted, Bounded, RoundsLeft, ManagerWeight, Rank

\* Within a round it is enough that no prompt goes back and one goes on.
LEMMA PromptAdvances ==
    ASSUME UNCHANGED manageVars, BatchingInv,
           \A k \in Prompts : \A w \in Workers :
              w = WorkerOf(k) => RankAt(k, w)' <= RankAt(k, w),
           \E k \in Prompts : \A w \in Workers :
              w = WorkerOf(k) => RankAt(k, w)' < RankAt(k, w)
    PROVE  Advances
<1>1. \A k \in Prompts : WorkerOf(k)' = WorkerOf(k) /\ WorkerOf(k) \in Workers
  BY SameRound, WorkerInRange DEF manageVars, BatchingInv
<1>2. ASSUME NEW k \in Prompts, NEW w \in Workers, w = WorkerOf(k)
      PROVE  Rank(k)' = RankAt(k, w)' /\ Rank(k) = RankAt(k, w)
  <2>1. WorkerOf(k)' = w
    BY <1>1, <1>2
  <2> QED
    BY <1>2, <2>1 DEF Rank
<1>3. ASSUME NEW k \in Prompts PROVE Rank(k)' <= Rank(k)
  BY <1>1, <1>2
<1>4. \E k \in Prompts : Rank(k)' < Rank(k)
  BY <1>1, <1>2
<1> QED
  BY <1>3, <1>4 DEF Advances, RoundsLeft, manageVars

LEMMA RolloutAdvances ==
    ASSUME BatchingInv, NEW p \in Prompts, RolloutEnds(p) \/ RolloutEndsScored(p)
    PROVE  Advances
<1>1. /\ loop \in [Prompts -> {"generating", "scoring", "scored", "failed"}]
      /\ mailbox \in [Workers -> Seq(Nat)] /\ WorkerOf(p) \in Workers
      /\ loop[p] = "generating" /\ p \in Nat
  BY WorkerInRange DEF BatchingInv, BatchingType, RolloutEnds, RolloutEndsScored
<1>2. /\ UNCHANGED <<q, items>> /\ UNCHANGED manageVars
      /\ \A k \in Prompts \ {p} : loop'[k] = loop[k]
      /\ loop'[p] \in {"scoring", "scored"}
  BY <1>1 DEF RolloutEnds, RolloutEndsScored, executorVars
<1>3. \A w \in Workers : Elements(mailbox'[w]) \in
         {Elements(mailbox[w]), Elements(mailbox[w]) \cup {p}}
  <2>1. CASE RolloutEndsScored(p)
    BY <2>1 DEF RolloutEndsScored, rewardVars
  <2>2. CASE RolloutEnds(p)
    <3> SUFFICES ASSUME NEW w \in Workers
                 PROVE  Elements(mailbox'[w]) \in
                           {Elements(mailbox[w]), Elements(mailbox[w]) \cup {p}}
      OBVIOUS
    <3>1. mailbox' = [mailbox EXCEPT ![WorkerOf(p)] = Append(@, p)]
      BY <2>2 DEF RolloutEnds
    <3>2. mailbox'[w] = mailbox[w] \/ mailbox'[w] = Append(mailbox[w], p)
      BY <1>1, <3>1
    <3>3. mailbox[w] \in Seq(Nat)
      BY <1>1
    <3>4. Elements(Append(mailbox[w], p)) = Elements(mailbox[w]) \cup {p}
      BY <1>1, <3>3, AppendElements
    <3> QED
      BY <3>2, <3>4
  <2> QED
    BY <2>1, <2>2
<1>4. ASSUME NEW k \in Prompts, NEW w \in Workers, w = WorkerOf(k)
      PROVE  /\ RankAt(k, w)' <= RankAt(k, w)
             /\ k = p => RankAt(k, w)' < RankAt(k, w)
  <2>1. CASE k = p
    <3>1. RankAt(k, w) = 5
      BY <1>1, <2>1 DEF RankAt
    <3>2. RankAt(k, w)' \in 0..4
      BY <1>2, <2>1 DEF RankAt
    <3> QED
      BY <3>1, <3>2
  <2>2. CASE k # p
    <3>1. loop'[k] = loop[k] /\ (k \in Elements(mailbox'[w]) <=> k \in Elements(mailbox[w]))
      BY <1>2, <1>3, <2>2
    <3>2. RankAt(k, w)' = RankAt(k, w)
      BY <1>2, <3>1 DEF RankAt
    <3> QED
      BY <2>2, <3>2, RankRange
  <2> QED
    BY <2>1, <2>2
<1> QED
  BY <1>2, <1>4, PromptAdvances

LEMMA SubmitAdvances == ASSUME BatchingInv, NEW v \in Workers, Submit(v) PROVE Advances
<1> DEFINE p == Head(mailbox[v])
           t == Tail(mailbox[v])
<1>1. /\ mailbox \in [Workers -> Seq(Nat)] /\ mailbox[v] \in Seq(Nat) /\ mailbox[v] # <<>>
      /\ q \in Seq(Nat) /\ Distinct(mailbox[v]) /\ Elements(mailbox[v]) \subseteq Prompts
      /\ \A k \in Elements(mailbox[v]) : WorkerOf(k) = v
  BY DEF BatchingInv, BatchingType, OnePlaceEach, Submit
<1>2. /\ mailbox' = [mailbox EXCEPT ![v] = t] /\ q' = Append(q, p)
      /\ UNCHANGED <<loop, items>> /\ UNCHANGED manageVars
  BY DEF Submit, loopVars
<1>3. /\ p \in Prompts /\ p \in Nat /\ WorkerOf(p) = v /\ p \in Elements(mailbox[v])
      /\ p \notin Elements(t) /\ Elements(mailbox[v]) = Elements(t) \cup {p}
  BY <1>1, TailElements
<1>4. Elements(q') = Elements(q) \cup {p}
  BY <1>1, <1>2, <1>3, AppendElements
<1>5. PlacedAt(p, v)
  BY <1>3, PlacedBefore DEF BatchingInv
<1> HIDE DEF p, t
<1>6. ASSUME NEW k \in Prompts, NEW w \in Workers, w = WorkerOf(k)
      PROVE  /\ RankAt(k, w)' <= RankAt(k, w)
             /\ k = p => RankAt(k, w)' < RankAt(k, w)
  <2>1. CASE k = p
    <3>1. w = v /\ mailbox'[v] = t
      BY <1>1, <1>2, <1>3, <1>6, <2>1
    <3>2. RankAt(k, w) = 4
      BY <1>3, <1>5, <2>1, <3>1 DEF RankAt, PlacedAt
    <3>3. RankAt(k, w)' \in 0..3
      BY <1>2, <1>3, <1>4, <1>5, <2>1, <3>1 DEF RankAt, PlacedAt
    <3> QED
      BY <3>2, <3>3
  <2>2. CASE k # p
    <3>1. /\ k \in Elements(mailbox'[w]) <=> k \in Elements(mailbox[w])
          /\ k \in Elements(q') <=> k \in Elements(q)
      BY <1>1, <1>2, <1>3, <1>4, <2>2
    <3>2. RankAt(k, w)' = RankAt(k, w)
      BY <1>2, <3>1 DEF RankAt
    <3> QED
      BY <2>2, <3>2, RankRange
  <2> QED
    BY <2>1, <2>2
<1> QED
  BY <1>2, <1>3, <1>6, PromptAdvances

LEMMA ReplyAdvances == ASSUME BatchingInv, NEW v \in Workers, Reply(v) PROVE Advances
<1> DEFINE p == serving[v]
<1>1. /\ p \in Prompts /\ WorkerOf(p) = v
      /\ loop \in [Prompts -> {"generating", "scoring", "scored", "failed"}]
  BY DEF Reply, BatchingInv, BatchingType, ServesOwn
<1>2. PlacedAt(p, v)
  BY <1>1, PlacedBefore DEF BatchingInv
<1>3. /\ UNCHANGED <<mailbox, q, items>> /\ UNCHANGED manageVars
      /\ \A k \in Prompts \ {p} : loop'[k] = loop[k]
      /\ loop[p] = "scoring" /\ loop'[p] \in {"failed", "scored"}
  BY <1>1, <1>2 DEF Reply, executorVars, PlacedAt
<1> HIDE DEF p
<1>4. ASSUME NEW k \in Prompts, NEW w \in Workers, w = WorkerOf(k)
      PROVE  /\ RankAt(k, w)' <= RankAt(k, w)
             /\ k = p => RankAt(k, w)' < RankAt(k, w)
  <2>1. CASE k = p
    <3>1. RankAt(k, w) \in 1..4
      BY <1>3, <2>1 DEF RankAt
    <3>2. RankAt(k, w)' = 0
      BY <1>3, <2>1 DEF RankAt
    <3> QED
      BY <3>1, <3>2
  <2>2. CASE k # p
    <3>1. RankAt(k, w)' = RankAt(k, w)
      BY <1>3, <2>2 DEF RankAt
    <3> QED
      BY <2>2, <3>1, RankRange
  <2> QED
    BY <2>1, <2>2
<1> QED
  BY <1>1, <1>3, <1>4, PromptAdvances

LEMMA TakeAdvances == ASSUME BatchingInv, TakeOne PROVE Advances
<1> DEFINE p == Head(q)
           t == Tail(q)
<1>1. /\ q \in Seq(Nat) /\ items \in Seq(Nat) /\ q # <<>> /\ Distinct(Inside)
      /\ Elements(Inside) \subseteq Prompts
  BY DEF BatchingInv, BatchingType, OnePlaceEach, TakeOne
<1>2. Distinct(q) /\ Elements(q) \subseteq Elements(Inside)
      /\ Elements(items) \cap Elements(q) = {}
  BY <1>1, ConcatElements DEF Inside
<1>3. /\ q' = t /\ items' = Append(items, p) /\ UNCHANGED <<loop, mailbox>>
      /\ UNCHANGED manageVars
  BY DEF TakeOne, loopVars, rewardVars
<1>4. /\ p \in Nat /\ p \in Elements(q) /\ p \notin Elements(t)
      /\ Elements(q) = Elements(t) \cup {p}
  BY <1>1, <1>2, TailElements
<1>5. Elements(items') = Elements(items) \cup {p}
  BY <1>1, <1>3, <1>4, AppendElements
<1>6. p \in Prompts /\ WorkerOf(p) \in Workers /\ PlacedAt(p, WorkerOf(p))
  BY <1>1, <1>2, <1>4, PlacedBefore, WorkerInRange DEF BatchingInv
<1> HIDE DEF p, t
<1>7. ASSUME NEW k \in Prompts, NEW w \in Workers, w = WorkerOf(k)
      PROVE  /\ RankAt(k, w)' <= RankAt(k, w)
             /\ k = p => RankAt(k, w)' < RankAt(k, w)
  <2>1. CASE k = p
    <3>1. p \in Elements(Inside) /\ PlacedAt(p, w)
      BY <1>2, <1>4, <1>6, <1>7, <2>1
    <3>2. loop[p] = "scoring" /\ p \notin Elements(mailbox[w])
      BY <3>1 DEF PlacedAt
    <3>3. RankAt(k, w) = 3
      BY <1>4, <2>1, <3>2 DEF RankAt
    <3>4. RankAt(k, w)' = 2
      BY <1>3, <1>4, <1>5, <2>1, <3>2 DEF RankAt
    <3> QED
      BY <3>3, <3>4
  <2>2. CASE k # p
    <3>1. /\ k \in Elements(items') <=> k \in Elements(items)
          /\ k \in Elements(q') <=> k \in Elements(q)
      BY <1>3, <1>4, <1>5, <2>2
    <3>2. RankAt(k, w)' = RankAt(k, w)
      BY <1>3, <3>1 DEF RankAt
    <3> QED
      BY <2>2, <3>2, RankRange
  <2> QED
    BY <2>1, <2>2
<1> QED
  BY <1>3, <1>6, <1>7, PromptAdvances

LEMMA ResolveAdvances ==
    ASSUME BatchingInv, thread = "run", NEW results, Resolve(results) PROVE Advances
<1> DEFINE p == items[1]
<1>1. /\ q \in Seq(Nat) /\ items \in Seq(Nat) /\ items # <<>> /\ Distinct(Inside)
      /\ Elements(Inside) \subseteq Prompts
  BY DEF BatchingInv, BatchingType, OnePlaceEach, ThreadHolds
<1>2. Elements(items) \subseteq Elements(Inside) /\ Elements(items) \cap Elements(q) = {}
  BY <1>1, ConcatElements DEF Inside
<1>3. Elements(items') = {} /\ UNCHANGED <<loop, mailbox, q>> /\ UNCHANGED manageVars
  BY NoElements DEF Resolve, loopVars, rewardVars
<1>4. p \in Elements(items)
  <2>1. Len(items) \in Nat /\ Len(items) # 0
    BY <1>1, LenProperties, EmptySeq
  <2> QED
    BY <2>1 DEF Elements
<1> HIDE DEF p
<1>5. p \in Prompts
  BY <1>1, <1>2, <1>4
<1>6. ASSUME NEW k \in Prompts, NEW w \in Workers, w = WorkerOf(k)
      PROVE  /\ RankAt(k, w)' <= RankAt(k, w)
             /\ k = p => RankAt(k, w)' < RankAt(k, w)
  <2>1. CASE k \in Elements(items)
    <3>1. loop[k] = "scoring" /\ k \notin Elements(mailbox[w]) /\ k \notin Elements(q)
      BY <1>2, <1>6, <2>1, PlacedBefore DEF PlacedAt, BatchingInv
    <3>2. RankAt(k, w) = 2
      BY <2>1, <3>1 DEF RankAt
    <3>3. RankAt(k, w)' = 1
      BY <1>3, <3>1 DEF RankAt
    <3> QED
      BY <3>2, <3>3
  <2>2. CASE k \notin Elements(items)
    <3>1. RankAt(k, w)' = RankAt(k, w)
      BY <1>3, <2>2 DEF RankAt
    <3> QED
      BY <1>4, <2>2, <3>1, RankRange
  <2> QED
    BY <2>1, <2>2
<1> QED
  BY <1>3, <1>5, <1>6, PromptAdvances

LEMMA DrainAdvances == ASSUME BatchingInv, DrainEnds PROVE Advances
<1>1. /\ UNCHANGED <<loop, mailbox, q, items>> /\ UNCHANGED manageVars
      /\ ThreadWeight' < ThreadWeight
  BY DEF DrainEnds, loopVars, rewardVars, ThreadWeight
<1>2. ASSUME NEW k \in Prompts PROVE Rank(k)' <= Rank(k)
  <2>1. WorkerOf(k)' = WorkerOf(k)
    BY <1>1 DEF WorkerOf, manageVars
  <2>2. Rank(k)' = Rank(k)
    BY <1>1, <2>1 DEF Rank, RankAt
  <2> QED
    BY <2>2, RankRange DEF Rank
<1> QED
  BY <1>1, <1>2 DEF Advances, RoundsLeft, manageVars

LEMMA BatchingAdvances == BatchingInv /\ [Next]_vars => [Advances]_vars
<1> SUFFICES ASSUME BatchingInv, Next PROVE Advances \/ UNCHANGED vars
  OBVIOUS
<1>1. CASE Generate
  BY <1>1, SizesAssumption DEF Generate, BatchingInv, BatchingType, Advances, RoundsLeft
<1>2. CASE Refuse \/ Return \/ Raise
  BY <1>2 DEF Refuse, Return, Raise, Advances, RoundsLeft, ManagerWeight
<1>3. CASE Rollout
  BY <1>3, RolloutAdvances DEF Rollout
<1>4. CASE GetFirst \/ Drain \/ Fill
  BY <1>4, TakeAdvances DEF GetFirst, Drain, Fill
<1>5. CASE DrainEnds
  BY <1>5, DrainAdvances
<1>6. CASE RunBatch \/ BatchRaises
  BY <1>6, ResolveAdvances DEF RunBatch, BatchRaises
<1>7. ASSUME NEW w \in Workers, Reward(w) PROVE Advances
  BY <1>7, SubmitAdvances, ReplyAdvances DEF Reward
<1> QED
  BY <1>1, <1>2, <1>3, <1>4, <1>5, <1>6, <1>7 DEF Next, Over, Executor

\* No run of steps is endless: every step ends a round, takes a prompt of it to its
\* next place, none of the others back, or ends the draining of the queue, in
\* whatever order loops, actors and thread run and however often the reward model
\* raises.  So a round that never ends has halted, and then it is short
\* (_worker_loop, generate_sequences).
THEOREM RoundsAdvance == Spec => []Bounded /\ [][Advances]_vars
<1>1. Init => RoundsCounted
  BY SizesAssumption DEF Init, RoundsCounted
<1> QED
  BY <1>1, BatchingInvariant, RoundStep, AllBounded, BatchingAdvances, PTL DEF Spec

-----------------------------------------------------------------------------
(* Sums over a finite set: every fact by the smallest set it fails for *)

LEMMA SmallestSet ==
    ASSUME NEW S, IsFiniteSet(S), NEW B, B \subseteq SUBSET S, B # {}
    PROVE  \E T \in B : \A U \in SUBSET T : U # T => U \notin B
<1>1. IsWellFoundedOn(StrictSubsetOrdering(S), SUBSET S)
  BY FS_StrictSubsetOrderingWellFounded, FS_FiniteSubsetsOfFinite
<1>2. PICK T \in B : \A U \in B : ~(<<U, T>> \in StrictSubsetOrdering(S))
  BY <1>1, WFMin
<1>3. ASSUME NEW U \in SUBSET T, U # T, U \in B PROVE FALSE
  <2>1. U \in SUBSET S /\ T \in SUBSET S
    BY <1>3
  <2>2. <<U, T>> \in (SUBSET S) \X (SUBSET S) /\ <<U, T>>[1] = U /\ <<U, T>>[2] = T
    BY <2>1
  <2>3. <<U, T>> \in StrictSubsetOrdering(S)
    BY <2>2, <1>3 DEF StrictSubsetOrdering
  <2> QED
    BY <2>3, <1>2, <1>3
<1> QED
  BY <1>3

\* What one call of the fold computes.
Pick(T) == CHOOSE x \in T : TRUE
SumStep(f, g, T) == IF T = {} THEN 0 ELSE f[Pick(T)] + g[T \ {Pick(T)}]
IsSum(f, g, S) == g = [T \in SUBSET S |-> SumStep(f, g, T)]

LEMMA PickIn == ASSUME NEW T, T # {} PROVE Pick(T) \in T
  BY DEF Pick

LEMMA SumUnique ==
    ASSUME NEW f, NEW S, IsFiniteSet(S), NEW S2,
           NEW g, IsSum(f, g, S), NEW h, IsSum(f, h, S2),
           NEW T \in SUBSET S, T \subseteq S2
    PROVE  g[T] = h[T]
<1> DEFINE B == {U \in SUBSET S : U \subseteq S2 /\ g[U] # h[U]}
<1> SUFFICES ASSUME B # {} PROVE FALSE
  OBVIOUS
<1>1. PICK U \in B : \A V \in SUBSET U : V # U => V \notin B
  BY SmallestSet
<1> HIDE DEF B
<1>2. U \in SUBSET S /\ U \in SUBSET S2 /\ g[U] # h[U]
  BY <1>1 DEF B
<1>3. g[U] = SumStep(f, g, U) /\ h[U] = SumStep(f, h, U)
  BY <1>2 DEF IsSum
<1>4. CASE U = {}
  BY <1>4, <1>3, <1>2 DEF SumStep
<1>5. CASE U # {}
  <2> DEFINE V == U \ {Pick(U)}
  <2>1. V \in SUBSET U /\ V # U
    BY <1>5, PickIn
  <2>2. g[V] = h[V]
    BY <2>1, <1>1, <1>2 DEF B
  <2> QED
    BY <2>2, <1>5, <1>3, <1>2 DEF SumStep
<1> QED
  BY <1>4, <1>5

LEMMA SumExists ==
    ASSUME NEW f, NEW S, IsFiniteSet(S)
    PROVE  \E g : IsSum(f, g, S)
<1> DEFINE B == {T \in SUBSET S : ~ \E g : IsSum(f, g, T)}
<1> SUFFICES ASSUME B # {} PROVE FALSE
  <2>1. S \in SUBSET S
    OBVIOUS
  <2> QED
    BY <2>1
<1>0. B \subseteq SUBSET S
  OBVIOUS
<1>1. PICK T \in B : \A U \in SUBSET T : U # T => U \notin B
  <2> HIDE DEF B
  <2> QED
    BY <1>0, SmallestSet
<1>2. T \in SUBSET S /\ ~ \E g : IsSum(f, g, T)
  BY <1>1
<1>3. ASSUME NEW U \in SUBSET T, U # T PROVE \E g : IsSum(f, g, U)
  BY <1>1, <1>2, <1>3
<1> HIDE DEF B
<1> DEFINE part(U) == CHOOSE g : IsSum(f, g, U)
           below   == [U \in SUBSET T |-> part(U)[U]]
           sum     == [U \in SUBSET T |-> SumStep(f, below, U)]
<1>4. ASSUME NEW U \in SUBSET T, U # T PROVE IsSum(f, part(U), U)
  BY <1>3, <1>4
<1>5. ASSUME NEW U \in SUBSET T, U # T PROVE below[U] = SumStep(f, below, U)
  <2> DEFINE V == U \ {Pick(U)}
  <2>1. below[U] = part(U)[U]
    BY <1>5
  <2>2. part(U)[U] = SumStep(f, part(U), U)
    <3> HIDE DEF part
    <3> QED
      BY <1>4, <1>5 DEF IsSum
  <2>3. CASE U = {}
    BY <2>1, <2>2, <2>3 DEF SumStep
  <2>4. CASE U # {}
    <3>1. V \in SUBSET U /\ V # U /\ V \in SUBSET T /\ V # T
      BY <2>4, PickIn
    <3>2. IsSum(f, part(V), V) /\ IsSum(f, part(U), U)
      BY <3>1, <1>4, <1>5
    <3>3. IsFiniteSet(U)
      BY <1>2, FS_Subset
    <3>4. part(U)[V] = part(V)[V]
      <4>1. V \in SUBSET U /\ V \subseteq V
        BY <3>1
      <4> HIDE DEF part, V
      <4> QED
        BY <4>1, <3>2, <3>3, SumUnique
    <3>5. below[V] = part(V)[V]
      BY <3>1
    <3> HIDE DEF below, part
    <3> QED
      BY <2>1, <2>2, <2>4, <3>4, <3>5 DEF SumStep
  <2> QED
    BY <2>3, <2>4
<1>6. ASSUME NEW U \in SUBSET T PROVE sum[U] = SumStep(f, sum, U)
  <2> DEFINE V == U \ {Pick(U)}
  <2>1. sum[U] = SumStep(f, below, U)
    OBVIOUS
  <2>2. CASE U = {}
    BY <2>1, <2>2 DEF SumStep
  <2>3. CASE U # {}
    <3>1. V \in SUBSET T /\ V # T
      BY <2>3, PickIn
    <3>2. below[V] = SumStep(f, below, V)
      BY <3>1, <1>5
    <3>3. sum[V] = SumStep(f, below, V)
      BY <3>1
    <3> HIDE DEF below, sum
    <3> QED
      BY <2>1, <2>3, <3>2, <3>3 DEF SumStep
  <2> QED
    BY <2>2, <2>3
<1>7. sum = [U \in SUBSET T |-> sum[U]]
  OBVIOUS
<1>8. IsSum(f, sum, T)
  <2> HIDE DEF sum
  <2> QED
    BY <1>6, <1>7 DEF IsSum
<1> QED
  BY <1>8, <1>2

LEMMA SumIter ==
    ASSUME NEW f, NEW S, IsFiniteSet(S)
    PROVE  \E g : IsSum(f, g, S) /\ SumFunctionOnSet(f, S) = g[S]
<1> DEFINE it == CHOOSE g : g = [T \in SUBSET S |-> SumStep(f, g, T)]
<1>1. SumFunctionOnSet(f, S) = it[S]
  BY DEF SumFunctionOnSet, FoldFunctionOnSet, MapThenFoldSet, SumStep, Pick
<1>2. IsSum(f, it, S)
  BY SumExists DEF IsSum
<1> QED
  BY <1>1, <1>2

LEMMA SumOfEmpty == ASSUME NEW f PROVE SumFunctionOnSet(f, {}) = 0
<1>1. PICK g : IsSum(f, g, {}) /\ SumFunctionOnSet(f, {}) = g[{}]
  BY SumIter, FS_EmptySet
<1>2. g[{}] = SumStep(f, g, {})
  BY <1>1 DEF IsSum
<1> QED
  BY <1>1, <1>2 DEF SumStep

LEMMA SumOfMore ==
    ASSUME NEW f, NEW S, IsFiniteSet(S), S # {}
    PROVE  SumFunctionOnSet(f, S) = f[Pick(S)] + SumFunctionOnSet(f, S \ {Pick(S)})
<1> DEFINE V == S \ {Pick(S)}
<1>0. IsFiniteSet(V) /\ V \in SUBSET S
  BY FS_Subset
<1>1. PICK g : IsSum(f, g, S) /\ SumFunctionOnSet(f, S) = g[S]
  BY SumIter
<1>2. PICK h : IsSum(f, h, V) /\ SumFunctionOnSet(f, V) = h[V]
  BY SumIter, <1>0
<1>3. g[S] = SumStep(f, g, S)
  BY <1>1 DEF IsSum
<1>4. g[V] = h[V]
  BY <1>0, <1>1, <1>2, SumUnique
<1> QED
  BY <1>1, <1>2, <1>3, <1>4 DEF SumStep

\* Sums of numbers between 1 and m.
LEMMA SumBounds ==
    ASSUME NEW f, NEW m \in Nat, NEW S, IsFiniteSet(S), \A x \in S : f[x] \in 1..m
    PROVE  /\ SumFunctionOnSet(f, S) \in Nat
           /\ Cardinality(S) <= SumFunctionOnSet(f, S)
           /\ SumFunctionOnSet(f, S) <= m * Cardinality(S)
<1> DEFINE Sum(T) == SumFunctionOnSet(f, T)
           Holds(T) == Sum(T) \in Nat /\ Cardinality(T) <= Sum(T) /\ Sum(T) <= m * Cardinality(T)
           B == {T \in SUBSET S : ~Holds(T)}
<1> SUFFICES ASSUME B # {} PROVE FALSE
  <2>1. S \in SUBSET S
    OBVIOUS
  <2> QED
    BY <2>1
<1>1. B \subseteq SUBSET S
  OBVIOUS
<1>2. PICK T \in B : \A U \in SUBSET T : U # T => U \notin B
  <2> HIDE DEF B
  <2> QED
    BY <1>1, SmallestSet
<1>3. T \in SUBSET S /\ ~Holds(T) /\ \A U \in SUBSET T : U # T => Holds(U)
  BY <1>2
<1>4. T # {}
  <2>1. Sum({}) = 0 /\ Cardinality({}) = 0
    BY SumOfEmpty, FS_EmptySet
  <2>2. Holds({})
    BY <2>1
  <2> QED
    BY <2>2, <1>3
<1> DEFINE x == Pick(T)
           V == T \ {x}
<1>5. x \in T /\ V \in SUBSET T /\ V # T
  BY <1>4, PickIn
<1>6. IsFiniteSet(T) /\ Cardinality(V) = Cardinality(T) - 1 /\ Cardinality(T) \in Nat
  BY <1>3, <1>5, FS_Subset, FS_RemoveElement, FS_CardinalityType
<1>7. Sum(T) = f[x] + Sum(V)
  BY <1>4, <1>6, SumOfMore
<1>8. Holds(V) /\ f[x] \in 1..m
  BY <1>3, <1>5
<1> HIDE DEF x, V, B
<1>9. Sum(V) \in Nat /\ Cardinality(V) <= Sum(V) /\ Sum(V) <= m * Cardinality(V)
  BY <1>8
<1>10. m * Cardinality(V) = m * Cardinality(T) - m
  BY <1>6
<1>11. Sum(T) \in Nat /\ Cardinality(T) <= Sum(T) /\ Sum(T) <= m * Cardinality(T)
  <2> DEFINE a == Sum(V)
             b == m * Cardinality(T)
  <2>1. a \in Nat /\ b \in Int
    BY <1>6, <1>9
  <2> HIDE DEF a, b
  <2> QED
    BY <2>1, <1>6, <1>7, <1>8, <1>9, <1>10 DEF a, b
<1> QED
  BY <1>3, <1>11

\* Sums of a - c * f.
LEMMA SumLinear ==
    ASSUME NEW f, NEW h, NEW a \in Int, NEW c \in Int, NEW S, IsFiniteSet(S),
           \A x \in S : f[x] \in Int /\ h[x] = a - c * f[x]
    PROVE  /\ SumFunctionOnSet(f, S) \in Int
           /\ SumFunctionOnSet(h, S) = a * Cardinality(S) - c * SumFunctionOnSet(f, S)
<1> DEFINE Sum(T) == SumFunctionOnSet(f, T)
           Lin(T) == SumFunctionOnSet(h, T)
           Holds(T) == Sum(T) \in Int /\ Lin(T) = a * Cardinality(T) - c * Sum(T)
           B == {T \in SUBSET S : ~Holds(T)}
<1> SUFFICES ASSUME B # {} PROVE FALSE
  <2>1. S \in SUBSET S
    OBVIOUS
  <2> QED
    BY <2>1
<1>1. B \subseteq SUBSET S
  OBVIOUS
<1>2. PICK T \in B : \A U \in SUBSET T : U # T => U \notin B
  <2> HIDE DEF B
  <2> QED
    BY <1>1, SmallestSet
<1>3. T \in SUBSET S /\ ~Holds(T) /\ \A U \in SUBSET T : U # T => Holds(U)
  BY <1>2
<1>4. T # {}
  <2>1. Sum({}) = 0 /\ Lin({}) = 0 /\ Cardinality({}) = 0
    BY SumOfEmpty, FS_EmptySet
  <2>2. Holds({})
    BY <2>1
  <2> QED
    BY <2>2, <1>3
<1> DEFINE x == Pick(T)
           V == T \ {x}
<1>5. x \in T /\ V \in SUBSET T /\ V # T
  BY <1>4, PickIn
<1>6. IsFiniteSet(T) /\ Cardinality(V) = Cardinality(T) - 1 /\ Cardinality(T) \in Nat
  BY <1>3, <1>5, FS_Subset, FS_RemoveElement, FS_CardinalityType
<1>7. Sum(T) = f[x] + Sum(V) /\ Lin(T) = h[x] + Lin(V)
  BY <1>4, <1>6, SumOfMore
<1>8. Holds(V) /\ f[x] \in Int /\ h[x] = a - c * f[x]
  BY <1>3, <1>5
<1> HIDE DEF x, V, B
<1>9. Sum(V) \in Int /\ Lin(V) = a * Cardinality(V) - c * Sum(V)
  BY <1>8
<1>10. Sum(T) \in Int
  BY <1>7, <1>8, <1>9
<1>11. a * Cardinality(V) = a * Cardinality(T) - a
  BY <1>6
<1>12. c * Sum(T) = c * f[x] + c * Sum(V)
  BY <1>7, <1>8, <1>9
<1>13. Lin(T) = a * Cardinality(T) - c * Sum(T)
  BY <1>6, <1>7, <1>8, <1>9, <1>10, <1>11, <1>12
<1> QED
  BY <1>3, <1>10, <1>13

-----------------------------------------------------------------------------
(* The invariant of the length reward *)

\* What a question's reward is once the second pass has visited it.
Reweighted(u, i) == IF IsEasy(u) THEN EasyReward(u, i) ELSE HardReward(u, i)

DynamicType ==
    /\ batch \in [Questions -> [Samples -> [reward : ScoreValues, len : Lengths]]]
    /\ tallied \subseteq Questions /\ reweighted \subseteq Questions
    /\ DOMAIN sumLen = Questions /\ DOMAIN numLen = Questions
    /\ DOMAIN reward = Questions
    /\ done \in BOOLEAN

\* The sums at the key of a question are those of its own answers.
SumsOwn ==
    /\ \A u \in tallied : sumLen[u] = LenSum(u, Tallied(u)) /\ numLen[u] = Cardinality(Tallied(u))
    /\ \A u \in Questions \ tallied : sumLen[u] = 0 /\ numLen[u] = 0

\* The second pass begins when the first one is over.
PassesInOrder == reweighted # {} => tallied = Questions

RewardsComputed == \A u \in reweighted : reward[u] = [i \in Samples |-> Reweighted(u, i)]

\* GRPO judged the questions by the rewards they have.
KeptByCorrectness ==
    done => /\ reweighted = Questions
            /\ \A u \in kept : u \in Questions /\ Leq(Correctness(u), FilterEasy)

DynamicInv == /\ DynamicType /\ SumsOwn /\ PassesInOrder
              /\ RewardsComputed /\ KeptByCorrectness

-----------------------------------------------------------------------------
\* What a group holds: at least one answer is tallied, and the lengths tallied
\* add up to no more than as many longest responses.
LEMMA GroupFacts ==
    ASSUME DynamicType, NEW u \in Questions
    PROVE  /\ Correct(u) \subseteq Samples /\ Tallied(u) \subseteq Samples
           /\ IsFiniteSet(Samples) /\ IsFiniteSet(Correct(u)) /\ IsFiniteSet(Tallied(u))
           /\ Cardinality(Correct(u)) \in 0..GroupSize
           /\ Cardinality(Correct(u)) = 0 <=> Correct(u) = {}
           /\ Cardinality(Tallied(u)) \in 1..GroupSize
           /\ LenSum(u, Tallied(u)) \in Nat
           /\ LenSum(u, Tallied(u)) > 0
           /\ LenSum(u, Tallied(u)) <= MaxResponse * Cardinality(Tallied(u))
           /\ \A i \in Samples : /\ batch[u][i].len \in 1..MaxResponse
                                 /\ batch[u][i].reward \in Int
<1> USE SizeAssumption
<1>1. Correct(u) \subseteq Samples /\ Tallied(u) \subseteq Samples
  BY DEF Correct, Tallied
<1>2. IsFiniteSet(Samples) /\ Cardinality(Samples) = GroupSize
  <2>1. 1 \in Int /\ GroupSize \in Int
    OBVIOUS
  <2>2. /\ IsFiniteSet(1..GroupSize)
        /\ Cardinality(1..GroupSize) = IF 1 > GroupSize THEN 0 ELSE GroupSize - 1 + 1
    BY <2>1, FS_Interval, Zenon
  <2> QED
    BY <2>2 DEF Samples
<1>3. IsFiniteSet(Correct(u)) /\ IsFiniteSet(Tallied(u))
  BY <1>1, <1>2, FS_Subset
<1>4. Cardinality(Correct(u)) <= GroupSize /\ Cardinality(Tallied(u)) <= GroupSize
  BY <1>1, <1>2, FS_Subset
<1>5. Cardinality(Correct(u)) \in Nat /\ Cardinality(Tallied(u)) \in Nat
  BY <1>3, FS_CardinalityType
<1>6. Cardinality(Correct(u)) = 0 <=> Correct(u) = {}
  BY <1>3, FS_EmptySet
<1>7. Tallied(u) # {}
  BY DEF Tallied, Samples
<1>8. Cardinality(Tallied(u)) # 0
  BY <1>3, <1>7, FS_EmptySet
<1>9. \A i \in Samples : batch[u][i].len \in 1..MaxResponse /\ batch[u][i].reward \in Int
  BY DEF DynamicType
<1> DEFINE f == [i \in Samples |-> batch[u][i].len]
<1>10. \A i \in Tallied(u) : f[i] \in 1..MaxResponse
  BY <1>1, <1>9
<1> HIDE DEF f
<1>11. /\ SumFunctionOnSet(f, Tallied(u)) \in Nat
       /\ Cardinality(Tallied(u)) <= SumFunctionOnSet(f, Tallied(u))
       /\ SumFunctionOnSet(f, Tallied(u)) <= MaxResponse * Cardinality(Tallied(u))
  BY <1>3, <1>10, SumBounds
<1>12. LenSum(u, Tallied(u)) = SumFunctionOnSet(f, Tallied(u))
  BY DEF LenSum, f
<1>13. LenSum(u, Tallied(u)) > 0
  BY <1>5, <1>8, <1>11, <1>12
<1> QED
  BY <1>1, <1>2, <1>3, <1>4, <1>5, <1>6, <1>8, <1>9, <1>11, <1>12, <1>13

LEMMA InitDynamic == DynamicInit => DynamicInv
<1> SUFFICES ASSUME DynamicInit PROVE DynamicInv
  OBVIOUS
<1> QED
  BY DEF DynamicInit, DynamicInv, DynamicType, SumsOwn, PassesInOrder, RewardsComputed,
         KeptByCorrectness

\* A step that leaves the batch alone changes nothing of what is computed from it.
LEMMA BatchStays ==
    ASSUME batch' = batch, NEW u
    PROVE  /\ Correct(u)' = Correct(u) /\ Tallied(u)' = Tallied(u) /\ Acc(u)' = Acc(u)
           /\ IsEasy(u)' = IsEasy(u)
           /\ LenSum(u, Tallied(u))' = LenSum(u, Tallied(u))
           /\ Cardinality(Tallied(u))' = Cardinality(Tallied(u))
  BY DEF Correct, Tallied, Acc, IsEasy, LenSum, Samples

LEMMA TallyKeeps ==
    ASSUME DynamicInv, NEW u \in Questions, Tally(u) PROVE DynamicInv'
<1> USE DEF DynamicInv
<1>1. /\ u \notin tallied /\ tallied' = tallied \union {u}
      /\ sumLen' = [p \in Questions |->
                      IF p = u THEN sumLen[p] + LenSum(u, Tallied(u)) ELSE sumLen[p]]
      /\ numLen' = [p \in Questions |->
                      IF p = u THEN numLen[p] + Cardinality(Tallied(u)) ELSE numLen[p]]
      /\ UNCHANGED <<batch, reward, reweighted, kept, done>>
  BY DEF Tally, Key
<1>2. reweighted = {}
  BY <1>1 DEF PassesInOrder
<1>3. DynamicType' /\ PassesInOrder' /\ RewardsComputed'
  BY <1>1, <1>2 DEF DynamicType, PassesInOrder, RewardsComputed, Samples
<1>4. KeptByCorrectness'
  BY <1>1 DEF KeptByCorrectness, Correctness, Samples
<1>5. SumsOwn'
  <2>1. sumLen'[u] = LenSum(u, Tallied(u)) /\ numLen'[u] = Cardinality(Tallied(u))
    BY <1>1, GroupFacts DEF SumsOwn
  <2>2. \A p \in Questions : p # u => sumLen'[p] = sumLen[p] /\ numLen'[p] = numLen[p]
    BY <1>1
  <2>3. \A p : LenSum(p, Tallied(p))' = LenSum(p, Tallied(p))
               /\ Cardinality(Tallied(p))' = Cardinality(Tallied(p))
    BY <1>1, BatchStays
  <2>4. ASSUME NEW p \in tallied'
        PROVE  (sumLen[p] = LenSum(p, Tallied(p)) /\ numLen[p] = Cardinality(Tallied(p)))'
    <3>1. CASE p = u
      BY <3>1, <2>1, <2>3
    <3>2. CASE p # u
      <4>1. p \in tallied /\ p \in Questions
        BY <2>4, <3>2, <1>1 DEF DynamicType
      <4> QED
        BY <4>1, <3>2, <2>2, <2>3 DEF SumsOwn
    <3> QED
      BY <3>1, <3>2
  <2>5. ASSUME NEW p \in Questions \ tallied' PROVE (sumLen[p] = 0 /\ numLen[p] = 0)'
    BY <2>5, <1>1, <2>2 DEF SumsOwn
  <2> QED
    BY <2>4, <2>5 DEF SumsOwn
<1> QED
  BY <1>3, <1>4, <1>5

\* The sums are final when the second pass begins, so a reward it computes stays
\* what it was computed from.
LEMMA ReweightedStays ==
    ASSUME UNCHANGED <<batch, sumLen, numLen>>, NEW u, NEW i
    PROVE  Reweighted(u, i)' = Reweighted(u, i)
  BY DEF Reweighted, IsEasy, Acc, Correct, EasyReward, HardReward, AvgLen, Samples, Score

LEMMA ReweightKeeps ==
    ASSUME DynamicInv, NEW u \in Questions, Reweight(u) PROVE DynamicInv'
<1> USE DEF DynamicInv
<1>1. /\ tallied = Questions /\ u \notin reweighted
      /\ reweighted' = reweighted \union {u}
      /\ reward' = [reward EXCEPT ![u] = [i \in Samples |-> Reweighted(u, i)]]
      /\ UNCHANGED <<batch, sumLen, numLen, tallied, kept, done>>
  BY DEF Reweight, Reweighted
<1>2. DynamicType' /\ PassesInOrder'
  BY <1>1 DEF DynamicType, PassesInOrder, Samples
<1>3. SumsOwn'
  <2>1. \A p : LenSum(p, Tallied(p))' = LenSum(p, Tallied(p))
               /\ Cardinality(Tallied(p))' = Cardinality(Tallied(p))
    BY <1>1, BatchStays
  <2> QED
    BY <2>1, <1>1 DEF SumsOwn
<1>4. RewardsComputed'
  <2>1. Samples' = Samples /\ \A p, i : Reweighted(p, i)' = Reweighted(p, i)
    BY <1>1, ReweightedStays DEF Samples
  <2>2. ASSUME NEW p \in reweighted' PROVE (reward[p] = [i \in Samples |-> Reweighted(p, i)])'
    <3>1. reward'[p] = [i \in Samples |-> Reweighted(p, i)]
      BY <2>2, <1>1 DEF RewardsComputed, DynamicType
    <3> QED
      BY <3>1, <2>1
  <2> QED
    BY <2>2 DEF RewardsComputed
<1>5. KeptByCorrectness'
  <2>1. ~done
    BY <1>1 DEF KeptByCorrectness
  <2> QED
    BY <2>1, <1>1 DEF KeptByCorrectness
<1> QED
  BY <1>2, <1>3, <1>4, <1>5

LEMMA GrpoKeeps == ASSUME DynamicInv, Grpo PROVE DynamicInv'
<1> USE DEF DynamicInv
<1>1. /\ reweighted = Questions /\ done' = TRUE
      /\ kept' = {u \in Questions :
                    Leq(FilterHard, Correctness(u)) /\ Leq(Correctness(u), FilterEasy)}
      /\ UNCHANGED <<batch, sumLen, numLen, tallied, reward, reweighted>>
  BY DEF Grpo
<1>2. DynamicType' /\ PassesInOrder'
  BY <1>1 DEF DynamicType, PassesInOrder, Samples
<1>3. SumsOwn'
  <2>1. \A p : LenSum(p, Tallied(p))' = LenSum(p, Tallied(p))
               /\ Cardinality(Tallied(p))' = Cardinality(Tallied(p))
    BY <1>1, BatchStays
  <2> QED
    BY <2>1, <1>1 DEF SumsOwn
<1>4. RewardsComputed'
  <2>1. Samples' = Samples /\ \A p, i : Reweighted(p, i)' = Reweighted(p, i)
    BY <1>1, ReweightedStays DEF Samples
  <2> QED
    BY <2>1, <1>1 DEF RewardsComputed
<1>5. KeptByCorrectness'
  <2>1. \A p : Correctness(p)' = Correctness(p)
    BY <1>1 DEF Correctness, Samples
  <2> QED
    BY <2>1, <1>1 DEF KeptByCorrectness
<1> QED
  BY <1>2, <1>3, <1>4, <1>5

LEMMA DynamicInvariant == DynamicSpec => []DynamicInv
<1>1. DynamicInv /\ [DynamicNext]_dynamicVars => DynamicInv'
  <2> SUFFICES ASSUME DynamicInv, [DynamicNext]_dynamicVars PROVE DynamicInv'
    OBVIOUS
  <2>1. CASE \E u \in Questions : Tally(u) \/ Reweight(u)
    BY <2>1, TallyKeeps, ReweightKeeps
  <2>2. CASE Grpo
    BY <2>2, GrpoKeeps
  <2>3. CASE UNCHANGED dynamicVars
    <3> USE DEF DynamicInv
    <3>1. UNCHANGED <<batch, sumLen, numLen, tallied, reward, reweighted, kept, done>>
      BY <2>3 DEF dynamicVars
    <3>2. /\ Samples' = Samples
          /\ \A p : /\ LenSum(p, Tallied(p))' = LenSum(p, Tallied(p))
                    /\ Cardinality(Tallied(p))' = Cardinality(Tallied(p))
                    /\ Correctness(p)' = Correctness(p)
                    /\ \A i : Reweighted(p, i)' = Reweighted(p, i)
      BY <3>1, BatchStays, ReweightedStays DEF Samples, Correctness
    <3>3. DynamicType' /\ PassesInOrder'
      BY <3>1, <3>2 DEF DynamicType, PassesInOrder
    <3>4. SumsOwn' /\ RewardsComputed' /\ KeptByCorrectness'
      BY <3>1, <3>2 DEF SumsOwn, RewardsComputed, KeptByCorrectness
    <3> QED
      BY <3>3, <3>4
  <2>4. CASE DynamicOver
    BY <2>3, <2>4 DEF DynamicOver
  <2> QED
    BY <2>1, <2>2, <2>3, <2>4 DEF DynamicNext
<1> QED
  BY <1>1, InitDynamic, PTL DEF DynamicSpec

-----------------------------------------------------------------------------
\* The reward of an answer, as exact fractions: its score, r parts of p, plus or
\* minus a term.
LEMMA TermOver ==
    ASSUME NEW r \in Int, NEW p \in Int, NEW n \in Int, NEW d \in Int
    PROVE  /\ Minus(Frac(r, p), Frac(n, d)) = Frac(r * d - n * p, p * d)
           /\ Plus(Frac(r, p), Frac(n, d)) = Frac(r * d + n * p, p * d)
  BY DEF Minus, Plus, Frac

LEMMA ChangeIsTerm ==
    ASSUME NEW r \in Int, NEW p \in Int, NEW n \in Int, NEW d \in Int
    PROVE  /\ Minus(Minus(Frac(r, p), Frac(n, d)), Frac(r, p)) = Frac(-(n * (p * p)), (p * d) * p)
           /\ Minus(Plus(Frac(r, p), Frac(n, d)), Frac(r, p)) = Frac(n * (p * p), (p * d) * p)
<1>1. r * d \in Int /\ n * p \in Int /\ p * d \in Int
  OBVIOUS
<1>2. ASSUME NEW m \in Int
      PROVE  Minus(Frac(r * d + m, p * d), Frac(r, p)) = Frac(m * p, (p * d) * p)
  <2>1. (r * d + m) * p = (r * d) * p + m * p
    BY <1>1
  <2>2. r * (p * d) = (r * d) * p
    OBVIOUS
  <2>3. (r * d) * p \in Int /\ m * p \in Int
    BY <1>1
  <2>4. (r * d + m) * p - r * (p * d) = m * p
    BY <2>1, <2>2, <2>3
  <2> QED
    BY <2>4 DEF Minus, Frac
<1>3. r * d - n * p = r * d + (-(n * p)) /\ -(n * p) \in Int
  BY <1>1
<1>4. (-(n * p)) * p = -(n * (p * p)) /\ (n * p) * p = n * (p * p)
  OBVIOUS
<1>5. /\ Minus(Frac(r, p), Frac(n, d)) = Frac(r * d + (-(n * p)), p * d)
      /\ Plus(Frac(r, p), Frac(n, d)) = Frac(r * d + n * p, p * d)
  BY <1>3, TermOver
<1>6. /\ Minus(Frac(r * d + (-(n * p)), p * d), Frac(r, p)) = Frac((-(n * p)) * p, (p * d) * p)
      /\ Minus(Frac(r * d + n * p, p * d), Frac(r, p)) = Frac((n * p) * p, (p * d) * p)
  BY <1>1, <1>2, <1>3, Zenon
<1> QED
  BY <1>4, <1>5, <1>6, Zenon

\* The mean length of a question is that of its own tallied answers.
OwnMean(u) == Frac(LenSum(u, Tallied(u)), Cardinality(Tallied(u)))

LEMMA MeanIsOwn ==
    ASSUME DynamicInv, NEW u \in reweighted
    PROVE  AvgLen(u) = OwnMean(u) /\ u \in Questions
<1>1. u \in Questions /\ u \in tallied
  BY DEF DynamicInv, DynamicType, PassesInOrder
<1>2. sumLen[u] = LenSum(u, Tallied(u)) /\ numLen[u] = Cardinality(Tallied(u))
  BY <1>1 DEF DynamicInv, SumsOwn
<1>3. Cardinality(Tallied(u)) > 0
  BY <1>1, GroupFacts DEF DynamicInv
<1> QED
  BY <1>1, <1>2, <1>3 DEF AvgLen, OwnMean

\* What the two formulas add to the reward of an answer.
LEMMA EasyTerm ==
    ASSUME DynamicInv, NEW u \in reweighted, IsEasy(u), NEW i \in Samples,
           batch[u][i].len >= LowerBar
    PROVE  LET a == Cardinality(Correct(u))
               c == Cardinality(Tallied(u))
               s == LenSum(u, Tallied(u))
               n == a * (batch[u][i].len * c - s)
               d == GroupSize * (c * MaxResponse)
           IN  /\ n \in Int /\ d \in Nat \ {0}
               /\ reward[u][i] = Frac(batch[u][i].reward * d - n * ScoreParts, ScoreParts * d)
               /\ Change(u, i) = Frac(-(n * (ScoreParts * ScoreParts)),
                                      (ScoreParts * d) * ScoreParts)
<1> USE SizeAssumption
<1> DEFINE a == Cardinality(Correct(u))
           c == Cardinality(Tallied(u))
           s == LenSum(u, Tallied(u))
           L == batch[u][i].len
           r == batch[u][i].reward
           n == a * (L * c - s)
           d == GroupSize * (c * MaxResponse)
<1>1. AvgLen(u) = Frac(s, c) /\ u \in Questions
  BY MeanIsOwn DEF OwnMean
<1>2. a \in Nat /\ c \in Nat \ {0} /\ s \in Nat /\ L \in Nat /\ r \in Int
  BY <1>1, GroupFacts DEF DynamicInv
<1>3. reward[u][i] = Minus(Frac(r, ScoreParts), Mul(Acc(u), Mul(Minus(Whole(L), AvgLen(u)), Frac(1, MaxResponse))))
  BY DEF DynamicInv, RewardsComputed, Reweighted, EasyReward, Score
<1>4. Acc(u) = Frac(a, GroupSize)
  BY DEF Acc
<1> HIDE DEF a, c, s, L, r
<1>5. Minus(Whole(L), AvgLen(u)) = Frac(L * c - s, c)
  BY <1>1, <1>2 DEF Minus, Whole, Frac
<1>6. Mul(Frac(L * c - s, c), Frac(1, MaxResponse)) = Frac(L * c - s, c * MaxResponse)
  BY <1>2 DEF Mul, Frac
<1>7. Mul(Frac(a, GroupSize), Frac(L * c - s, c * MaxResponse)) = Frac(n, d)
  BY DEF Mul, Frac
<1>8. n \in Int
  BY <1>2
<1>9. d \in Nat \ {0}
  <2>1. c * MaxResponse \in Nat /\ c * MaxResponse > 0
    BY <1>2
  <2> QED
    BY <2>1
<1> HIDE DEF n, d
<1>10. reward[u][i] = Minus(Frac(r, ScoreParts), Frac(n, d))
  BY <1>3, <1>4, <1>5, <1>6, <1>7
<1>11. reward[u][i] = Frac(r * d - n * ScoreParts, ScoreParts * d)
  <2>1. r \in Int /\ ScoreParts \in Int /\ n \in Int /\ d \in Int
    BY <1>2, <1>8, <1>9
  <2> QED
    BY <2>1, <1>10 DEF Minus, Frac
<1>12. Change(u, i) = Frac(-(n * (ScoreParts * ScoreParts)), (ScoreParts * d) * ScoreParts)
  <2>1. Change(u, i) = Minus(Minus(Frac(r, ScoreParts), Frac(n, d)), Frac(r, ScoreParts))
    BY <1>10, Zenon DEF Change, Score, r
  <2>2. r \in Int /\ ScoreParts \in Int /\ n \in Int /\ d \in Int
    BY <1>2, <1>8, <1>9
  <2> QED
    BY <2>1, <2>2, ChangeIsTerm
<1> QED
  BY <1>8, <1>9, <1>10, <1>11, <1>12 DEF a, c, s, L, r, n, d

\* The mean a hard question's answers are compared to: none was right, or its own.
HardMean(u) == IF Correct(u) = {} THEN Zero ELSE OwnMean(u)

LEMMA HardTerm ==
    ASSUME DynamicInv, NEW u \in reweighted, ~IsEasy(u), NEW i \in Samples,
           ~(batch[u][i].len >= UpperBar)
    PROVE  LET m == HardMean(u)
               w == Threshold.num * GroupSize - Cardinality(Correct(u)) * Threshold.den
               n == w * (batch[u][i].len * (m.den * MaxResponse) - m.num)
               d == (Threshold.den * GroupSize) * (m.den * MaxResponse)
           IN  /\ m.num \in Nat /\ m.den \in Nat \ {0} /\ w \in Nat \ {0}
               /\ n \in Int /\ d \in Nat \ {0}
               /\ m.num <= m.den * MaxResponse
               /\ reward[u][i] = Frac(batch[u][i].reward * d + n * ScoreParts, ScoreParts * d)
<1> USE SizeAssumption
<1> DEFINE a == Cardinality(Correct(u))
           m == HardMean(u)
           L == batch[u][i].len
           r == batch[u][i].reward
           w == Threshold.num * GroupSize - a * Threshold.den
           e == m.den * MaxResponse
           z == L * e - m.num
           v == Threshold.den * GroupSize
           n == w * z
           d == v * e
<1>1. AvgLen(u) = OwnMean(u) /\ u \in Questions
  BY MeanIsOwn
<1>2. a \in Nat /\ L \in Nat /\ r \in Int
  BY <1>1, GroupFacts DEF DynamicInv
<1>3. Threshold.num \in Nat /\ Threshold.den \in Nat \ {0}
  OBVIOUS
<1>4. m = Frac(m.num, m.den) /\ m.num \in Nat /\ m.den \in Nat \ {0} /\ m.num <= m.den * MaxResponse
  <2>1. CASE Correct(u) = {}
    BY <2>1 DEF HardMean, Zero, Frac
  <2>2. CASE Correct(u) # {}
    <3>1. m = Frac(LenSum(u, Tallied(u)), Cardinality(Tallied(u)))
      BY <2>2 DEF HardMean, OwnMean
    <3>2. /\ m.num = LenSum(u, Tallied(u)) /\ m.den = Cardinality(Tallied(u))
          /\ m = Frac(m.num, m.den)
      BY <3>1 DEF Frac
    <3>3. /\ LenSum(u, Tallied(u)) \in Nat /\ Cardinality(Tallied(u)) \in Nat \ {0}
          /\ LenSum(u, Tallied(u)) <= MaxResponse * Cardinality(Tallied(u))
      BY <1>1, GroupFacts DEF DynamicInv
    <3> HIDE DEF m
    <3> QED
      BY <3>2, <3>3
  <2> QED
    BY <2>1, <2>2
<1>5. ~(Threshold.num * GroupSize <= a * Threshold.den)
  BY DEF IsEasy, Leq, Acc, Frac
<1>6. L < UpperBar
  BY <1>2
<1>7. reward[u][i] = Plus(Frac(r, ScoreParts), Mul(Minus(Threshold, Acc(u)),
                                         Minus(Whole(L), Mul(m, Frac(1, MaxResponse)))))
  BY <1>1, <1>6 DEF DynamicInv, RewardsComputed, Reweighted, HardReward, HardMean, Score
<1>8. Acc(u) = Frac(a, GroupSize)
  BY DEF Acc
<1> HIDE DEF a, m, L, r
<1>9. w \in Nat \ {0} /\ v \in Nat \ {0} /\ e \in Nat \ {0}
  <2>1. /\ Threshold.num * GroupSize \in Int /\ a * Threshold.den \in Int
        /\ Threshold.den * GroupSize \in Nat /\ Threshold.den * GroupSize > 0
        /\ m.den * MaxResponse \in Nat /\ m.den * MaxResponse > 0
    BY <1>2, <1>3, <1>4
  <2> QED
    BY <2>1, <1>5
<1>10. Minus(Threshold, Acc(u)) = Frac(w, v)
  BY <1>8 DEF Minus, Frac
<1>11. Mul(m, Frac(1, MaxResponse)) = Frac(m.num, e)
  BY <1>4 DEF Mul, Frac
<1> HIDE DEF w, v, e
<1>12. Minus(Whole(L), Frac(m.num, e)) = Frac(z, e)
  BY <1>2, <1>4, <1>9 DEF Minus, Whole, Frac
<1>13. z \in Int
  BY <1>2, <1>4, <1>9
<1> HIDE DEF z
<1>14. Mul(Frac(w, v), Frac(z, e)) = Frac(n, d)
  BY DEF Mul, Frac
<1>15. n \in Int /\ d \in Nat \ {0}
  BY <1>9, <1>13
<1> HIDE DEF n, d
<1>16. reward[u][i] = Plus(Frac(r, ScoreParts), Frac(n, d))
  BY <1>7, <1>10, <1>11, <1>12, <1>14
<1>17. reward[u][i] = Frac(r * d + n * ScoreParts, ScoreParts * d)
  <2>1. r \in Int /\ ScoreParts \in Int /\ n \in Int /\ d \in Int
    BY <1>2, <1>15
  <2> QED
    BY <2>1, <1>16 DEF Plus, Frac
<1> QED
  BY <1>4, <1>9, <1>15, <1>17 DEF a, m, L, r, w, v, e, z, n, d

\* Outside the bars the reward is left alone.
LEMMA NoTerm ==
    ASSUME DynamicInv, NEW u \in reweighted, NEW i \in Samples,
           IF IsEasy(u) THEN ~(batch[u][i].len >= LowerBar)
                        ELSE ~(batch[u][i].len < UpperBar)
    PROVE  reward[u][i] = Score(u, i)
  BY DEF DynamicInv, RewardsComputed, Reweighted, EasyReward, HardReward

\* Fractions over the same positive denominator compare by their numerators.
LEMMA LessOver ==
    ASSUME NEW x \in Int, NEW y \in Int, NEW d \in Nat \ {0}, x > y
    PROVE  ~Leq(Frac(x, d), Frac(y, d))
<1>1. x * d - y * d = (x - y) * d
  OBVIOUS
<1>2. (x - y) * d > 0
  OBVIOUS
<1>3. x * d \in Int /\ y * d \in Int /\ (x - y) * d \in Int
  OBVIOUS
<1>4. ~(x * d <= y * d)
  BY <1>1, <1>2, <1>3
<1> QED
  BY <1>4 DEF Leq, Frac

LEMMA MulLess ==
    ASSUME NEW x \in Int, NEW y \in Int, NEW c \in Nat \ {0}, x < y
    PROVE  c * x < c * y
  OBVIOUS

\* An easy question has right answers.
LEMMA EasyHasCorrect ==
    ASSUME DynamicInv, NEW u \in Questions, IsEasy(u)
    PROVE  Cardinality(Correct(u)) \in Nat \ {0} /\ Correct(u) # {} /\ Tallied(u) = Correct(u)
<1> USE SizeAssumption, ThresholdAssumption
<1> DEFINE a == Cardinality(Correct(u))
<1>1. a \in Nat
  BY GroupFacts DEF DynamicInv
<1>2. Threshold.num * GroupSize <= a * Threshold.den
  BY DEF IsEasy, Leq, Acc, Frac
<1>3. Threshold.num * GroupSize > 0 /\ Threshold.num * GroupSize \in Int
  OBVIOUS
<1>4. a # 0
  BY <1>2, <1>3
<1> HIDE DEF a
<1> QED
  BY <1>1, <1>4, GroupFacts DEF a, DynamicInv, Tallied

LEMMA LengthsOrdered == DynamicInv => LengthOrders
<1> SUFFICES ASSUME DynamicInv, NEW u \in reweighted, NEW i \in Samples, NEW j \in Samples,
                    batch[u][i].reward = batch[u][j].reward, batch[u][i].len < batch[u][j].len
             PROVE  /\ (IsEasy(u) /\ batch[u][i].len >= LowerBar) => ~Leq(reward[u][i], reward[u][j])
                    /\ (~IsEasy(u) /\ batch[u][j].len < UpperBar) => ~Leq(reward[u][j], reward[u][i])
  BY DEF LengthOrders
<1> USE SizeAssumption
<1> DEFINE L == batch[u][i].len
           M == batch[u][j].len
           r == batch[u][i].reward
<1>1. L \in Nat /\ M \in Nat /\ L < M /\ u \in Questions /\ r \in Int
  BY MeanIsOwn, GroupFacts DEF DynamicInv
<1>2. CASE IsEasy(u) /\ L >= LowerBar
  <2> DEFINE a == Cardinality(Correct(u))
             c == Cardinality(Tallied(u))
             s == LenSum(u, Tallied(u))
             d == GroupSize * (c * MaxResponse)
  <2>1. M >= LowerBar
    BY <1>1, <1>2
  <2>2. /\ d \in Nat \ {0} /\ a * (L * c - s) \in Int /\ a * (M * c - s) \in Int
        /\ reward[u][i] = Frac(r * d - (a * (L * c - s)) * ScoreParts, ScoreParts * d)
        /\ reward[u][j] = Frac(r * d - (a * (M * c - s)) * ScoreParts, ScoreParts * d)
    BY <1>2, <2>1, EasyTerm
  <2>3. a \in Nat \ {0} /\ c \in Nat \ {0} /\ s \in Nat
    BY <1>1, <1>2, EasyHasCorrect, GroupFacts DEF DynamicInv
  <2> HIDE DEF a, c, s, d, L, M, r
  <2>4. c * L < c * M
    BY <1>1, <2>3, MulLess
  <2>5. L * c - s < M * c - s /\ L * c - s \in Int /\ M * c - s \in Int
    BY <1>1, <2>3, <2>4
  <2>6. a * (L * c - s) < a * (M * c - s)
    BY <2>3, <2>5, MulLess
  <2> DEFINE x == a * (L * c - s)
             y == a * (M * c - s)
             R == r * d
             D == ScoreParts * d
  <2>7. R \in Int /\ D \in Nat \ {0}
    BY <1>1, <2>2
  <2> HIDE DEF x, y, R, D
  <2>8. /\ x * ScoreParts < y * ScoreParts
        /\ x * ScoreParts \in Int /\ y * ScoreParts \in Int
    <3>1. x \in Int /\ y \in Int /\ x < y
      BY <2>2, <2>6 DEF x, y
    <3>2. ScoreParts * x < ScoreParts * y
      BY <3>1, MulLess
    <3> QED
      BY <3>1, <3>2
  <2> DEFINE X == R - x * ScoreParts
             Y == R - y * ScoreParts
  <2>10. X > Y /\ X \in Int /\ Y \in Int
    BY <2>7, <2>8
  <2>9. ~Leq(Frac(X, D), Frac(Y, D))
    <3> HIDE DEF X, Y
    <3> QED
      BY <2>7, <2>10, LessOver
  <2> QED
    BY <1>2, <2>2, <2>9 DEF x, y, R, D
<1>3. CASE ~IsEasy(u) /\ M < UpperBar
  <2> DEFINE m == HardMean(u)
             w == Threshold.num * GroupSize - Cardinality(Correct(u)) * Threshold.den
             e == m.den * MaxResponse
             d == (Threshold.den * GroupSize) * e
  <2>1. ~(L >= UpperBar) /\ ~(M >= UpperBar)
    BY <1>1, <1>3
  <2>2. /\ m.num \in Nat /\ m.den \in Nat \ {0} /\ w \in Nat \ {0} /\ d \in Nat \ {0}
        /\ w * (L * e - m.num) \in Int /\ w * (M * e - m.num) \in Int
        /\ reward[u][i] = Frac(r * d + (w * (L * e - m.num)) * ScoreParts, ScoreParts * d)
        /\ reward[u][j] = Frac(r * d + (w * (M * e - m.num)) * ScoreParts, ScoreParts * d)
    BY <1>3, <2>1, HardTerm
  <2> HIDE DEF m, w
  <2>3. e \in Nat \ {0}
    BY <2>2
  <2> HIDE DEF e, d, L, M, r
  <2>4. e * L < e * M
    BY <1>1, <2>3, MulLess
  <2>5. L * e - m.num < M * e - m.num /\ L * e - m.num \in Int /\ M * e - m.num \in Int
    BY <1>1, <2>2, <2>3, <2>4
  <2>6. w * (L * e - m.num) < w * (M * e - m.num)
    BY <2>2, <2>5, MulLess
  <2> DEFINE x == w * (L * e - m.num)
             y == w * (M * e - m.num)
             R == r * d
             D == ScoreParts * d
  <2>7. R \in Int /\ D \in Nat \ {0}
    BY <1>1, <2>2
  <2> HIDE DEF x, y, R, D
  <2>8. /\ x * ScoreParts < y * ScoreParts
        /\ x * ScoreParts \in Int /\ y * ScoreParts \in Int
    <3>1. x \in Int /\ y \in Int /\ x < y
      BY <2>2, <2>6 DEF x, y
    <3>2. ScoreParts * x < ScoreParts * y
      BY <3>1, MulLess
    <3> QED
      BY <3>1, <3>2
  <2> DEFINE X == R + y * ScoreParts
             Y == R + x * ScoreParts
  <2>10. X > Y /\ X \in Int /\ Y \in Int
    BY <2>7, <2>8
  <2>9. ~Leq(Frac(X, D), Frac(Y, D))
    <3> HIDE DEF X, Y
    <3> QED
      BY <2>7, <2>10, LessOver
  <2> QED
    BY <1>3, <2>2, <2>9 DEF x, y, R, D
<1> QED
  BY <1>2, <1>3

\* The term costs no right answer its sign that scores the share of right answers.
LEMMA RightStaysPositive ==
    ASSUME DynamicInv, NEW u \in reweighted, NEW i \in Correct(u), Leq(Acc(u), Score(u, i))
    PROVE  reward[u][i].num > 0
<1> USE SizeAssumption
<1> DEFINE L == batch[u][i].len
           r == batch[u][i].reward
           a == Cardinality(Correct(u))
           c == Cardinality(Tallied(u))
           s == LenSum(u, Tallied(u))
<1>1. u \in Questions /\ i \in Samples
  BY MeanIsOwn DEF Correct
<1>2. /\ L \in 1..MaxResponse /\ r \in Nat \ {0}
      /\ a \in Nat /\ c \in Nat \ {0} /\ s \in Nat \ {0}
  <2>1. r > 0 /\ r \in Int /\ L \in 1..MaxResponse
    BY <1>1, GroupFacts DEF DynamicInv, Correct
  <2>2. a \in 0..GroupSize /\ c \in 1..GroupSize /\ s \in Nat /\ s > 0
    BY <1>1, GroupFacts DEF DynamicInv
  <2> HIDE DEF a, c, s, L, r
  <2> QED
    BY <2>1, <2>2
<1>3. CASE IsEasy(u) /\ L >= LowerBar
  <2> DEFINE z == L * c - s
             n == a * z
             e == c * MaxResponse
             d == GroupSize * e
  <2>1. /\ n \in Int /\ d \in Nat \ {0}
        /\ reward[u][i] = Frac(r * d - n * ScoreParts, ScoreParts * d)
    BY <1>1, <1>3, EasyTerm
  <2>2. a * ScoreParts <= r * GroupSize
    BY DEF Leq, Acc, Score, Frac
  <2>3. a \in Nat \ {0}
    BY <1>1, <1>3, EasyHasCorrect
  <2> HIDE DEF L, a, c, s, r
  <2>4. z \in Int /\ e \in Nat \ {0} /\ z < e
    <3>1. c * L <= c * MaxResponse
      BY <1>2
    <3> QED
      BY <3>1, <1>2
  <2> HIDE DEF z, e
  <2> DEFINE b == a * ScoreParts
  <2>5. b \in Nat \ {0}
    BY <2>3
  <2>6. n * ScoreParts = b * z
    BY <2>3, <2>4
  <2>7. r * d = (r * GroupSize) * e /\ r * GroupSize \in Nat
    BY <1>2, <2>4
  <2> HIDE DEF b, n, d
  <2>8. b * z < b * e
    BY <2>4, <2>5, MulLess
  <2> DEFINE g == r * GroupSize
  <2>9. b <= g /\ g \in Nat
    BY <2>2, <2>7 DEF b
  <2> HIDE DEF g
  <2>10. b * e <= g * e
    BY <2>4, <2>5, <2>9
  <2>11. b * z \in Int /\ b * e \in Int /\ g * e \in Int
    BY <2>4, <2>5, <2>9
  <2>12. n * ScoreParts < r * d /\ n * ScoreParts \in Int /\ r * d \in Int
    BY <2>6, <2>7, <2>8, <2>10, <2>11 DEF g
  <2>13. r * d - n * ScoreParts > 0
    BY <2>12
  <2> QED
    BY <2>1, <2>13 DEF Frac
<1>4. CASE ~IsEasy(u) /\ L < UpperBar
  <2> DEFINE m == HardMean(u)
             w == Threshold.num * GroupSize - Cardinality(Correct(u)) * Threshold.den
             e == m.den * MaxResponse
             z == L * e - m.num
             n == w * z
             d == (Threshold.den * GroupSize) * e
  <2>1. /\ m.num \in Nat /\ m.den \in Nat \ {0} /\ w \in Nat \ {0} /\ m.num <= e
        /\ n \in Int /\ d \in Nat \ {0}
        /\ reward[u][i] = Frac(r * d + n * ScoreParts, ScoreParts * d)
    BY <1>1, <1>2, <1>4, HardTerm
  <2> HIDE DEF L, m, w, r
  <2>2. e \in Nat /\ L \in Nat \ {0}
    BY <1>2, <2>1
  <2>3. z >= 0 /\ z \in Int
    <3>1. L * e >= e /\ L * e \in Int
      BY <2>2
    <3> QED
      BY <3>1, <2>1, <2>2
  <2> HIDE DEF z
  <2>4. n >= 0
    BY <2>1, <2>3
  <2> HIDE DEF n, d
  <2>5. r * d > 0 /\ r * d \in Int /\ n * ScoreParts >= 0 /\ n * ScoreParts \in Int
    BY <1>2, <2>1, <2>4
  <2>6. r * d + n * ScoreParts > 0
    BY <2>5
  <2> QED
    BY <2>1, <2>6 DEF Frac
<1>5. CASE (IsEasy(u) /\ ~(L >= LowerBar)) \/ (~IsEasy(u) /\ ~(L < UpperBar))
  <2>1. reward[u][i] = Score(u, i)
    BY <1>1, <1>5, NoTerm
  <2> QED
    BY <2>1, <1>2 DEF Score, Frac
<1> QED
  BY <1>3, <1>4, <1>5

LEMMA EasyAreFiltered == DynamicInv => EasyFiltered
<1> SUFFICES ASSUME DynamicInv, done, NEW u \in kept,
                    \A i \in Correct(u) : Leq(Acc(u), Score(u, i))
             PROVE  Leq(Acc(u), FilterEasy)
  BY DEF EasyFiltered
<1> USE SizeAssumption
<1>1. u \in reweighted /\ u \in Questions /\ Leq(Correctness(u), FilterEasy)
  BY DEF DynamicInv, KeptByCorrectness
<1> DEFINE P == {i \in Samples : reward[u][i].num > 0}
           p == Cardinality(P)
           a == Cardinality(Correct(u))
<1>2. Correct(u) \subseteq P
  BY <1>1, RightStaysPositive DEF Correct
<1>3. IsFiniteSet(P)
  BY <1>1, GroupFacts, FS_Subset DEF DynamicInv
<1>4. a <= p /\ p \in Nat /\ a \in Nat
  BY <1>1, <1>2, <1>3, FS_Subset, FS_CardinalityType, GroupFacts DEF DynamicInv
<1>5. p * FilterEasy.den <= FilterEasy.num * GroupSize
  BY <1>1 DEF Leq, Correctness, Frac
<1> HIDE DEF p, a
<1>6. FilterEasy.den \in Nat /\ FilterEasy.num \in Nat
  OBVIOUS
<1>7. a * FilterEasy.den <= p * FilterEasy.den
  BY <1>4, <1>6
<1>8. a * FilterEasy.den <= FilterEasy.num * GroupSize
  BY <1>4, <1>5, <1>6, <1>7
<1> QED
  BY <1>8 DEF Leq, Acc, Frac, a

LEMMA ExactDivision ==
    ASSUME NEW d \in Nat \ {0}, NEW y \in Int
    PROVE  (d * y) \div d = y
  BY SMTT(60)

LEMMA EasyTotalIsKept == DynamicInv => EasyTotalKept
<1> SUFFICES ASSUME DynamicInv, NEW u \in reweighted, IsEasy(u),
                    \A i \in Correct(u) : batch[u][i].len >= LowerBar
             PROVE  SumFunction([i \in Correct(u) |->
                      (GroupSize * MaxResponse * Change(u, i).num) \div Change(u, i).den]) = 0
  BY DEF EasyTotalKept
<1> USE SizeAssumption
<1> DEFINE c == Cardinality(Correct(u))
           s == LenSum(u, Correct(u))
           f == [i \in Samples |-> batch[u][i].len]
           h == [i \in Correct(u) |->
                   (GroupSize * MaxResponse * Change(u, i).num) \div Change(u, i).den]
<1>1. u \in Questions
  BY MeanIsOwn
<1>2. Tallied(u) = Correct(u) /\ c \in Nat \ {0}
  BY <1>1, EasyHasCorrect
<1>3. s \in Nat /\ IsFiniteSet(Correct(u)) /\ Correct(u) \subseteq Samples
  BY <1>1, <1>2, GroupFacts DEF DynamicInv
<1>4. ASSUME NEW i \in Correct(u) PROVE f[i] \in Int /\ h[i] = s - c * f[i]
  <2> DEFINE L == batch[u][i].len
             x == s - c * L
             n == c * (L * c - s)
             d == GroupSize * (c * MaxResponse)
  <2>1. i \in Samples /\ L >= LowerBar
    BY <1>3
  <2>2. L \in Nat
    BY <1>1, <2>1, GroupFacts DEF DynamicInv
  <2>3. /\ n \in Int /\ d \in Nat \ {0}
        /\ Change(u, i) = Frac(-(n * (ScoreParts * ScoreParts)), (ScoreParts * d) * ScoreParts)
    BY <1>2, <2>1, EasyTerm
  <2> HIDE DEF c, s, L
  <2>4. x \in Int
    BY <1>2, <1>3, <2>2
  <2>5. n = -(c * x)
    BY <1>2, <1>3, <2>2
  <2>6. c * x \in Int
    BY <1>2, <2>4
  <2> DEFINE pp == ScoreParts * ScoreParts
             y == (c * x) * pp
             dd == d * pp
  <2>7. Change(u, i).num = y /\ Change(u, i).den = dd
    <3>1. pp \in Nat
      OBVIOUS
    <3> HIDE DEF x, n, pp
    <3>2. -(n * pp) = y
      BY <2>5, <2>6, <3>1
    <3> HIDE DEF d
    <3>3. (ScoreParts * d) * ScoreParts = dd
      BY <2>3 DEF pp
    <3> HIDE DEF y, dd
    <3>4. Change(u, i) = Frac(y, dd)
      BY <2>3, <3>2, <3>3 DEF pp
    <3> QED
      BY <3>4 DEF Frac
  <2>8. GroupSize * MaxResponse * y = dd * x /\ dd \in Nat \ {0}
    <3>1. pp \in Nat \ {0}
      OBVIOUS
    <3> HIDE DEF x, n, pp
    <3>2. GroupSize * MaxResponse * (c * x) = d * x
      BY <1>2, <2>4
    <3>3. GroupSize * MaxResponse * y = (GroupSize * MaxResponse * (c * x)) * pp
      BY <2>6, <3>1
    <3> HIDE DEF d
    <3>4. (d * x) * pp = dd * x
      BY <2>3, <2>4, <3>1
    <3>5. dd \in Nat \ {0}
      BY <2>3, <3>1
    <3> QED
      BY <3>2, <3>3, <3>4, <3>5
  <2> HIDE DEF x, n, d, y, dd
  <2>9. (GroupSize * MaxResponse * Change(u, i).num) \div Change(u, i).den = x
    <3>1. (dd * x) \div dd = x
      BY <2>4, <2>8, ExactDivision
    <3>2. GroupSize * MaxResponse * Change(u, i).num = dd * x
      BY <2>7, <2>8
    <3> QED
      BY <2>7, <3>1, <3>2, Zenon
  <2>10. f[i] = L
    BY <2>1 DEF L
  <2> HIDE DEF f
  <2>11. h[i] = x
    BY <2>9
  <2> HIDE DEF h
  <2> QED
    BY <2>2, <2>10, <2>11 DEF x
<1>5. SumFunctionOnSet(f, Correct(u)) = s
  BY DEF LenSum
<1>6. SumFunction(h) = SumFunctionOnSet(h, Correct(u))
  BY DEF SumFunction, SumFunctionOnSet, FoldFunction
<1> HIDE DEF f, h, s, c
<1>7. /\ SumFunctionOnSet(f, Correct(u)) \in Int
      /\ SumFunctionOnSet(h, Correct(u)) = s * Cardinality(Correct(u)) - c * SumFunctionOnSet(f, Correct(u))
  <2>1. s \in Int /\ c \in Int
    BY <1>2, <1>3
  <2> QED
    BY <1>3, <1>4, <2>1, SumLinear
<1>8. SumFunctionOnSet(h, Correct(u)) = s * c - c * s
  BY <1>5, <1>7 DEF c
<1>9. SumFunctionOnSet(h, Correct(u)) = 0
  BY <1>8, <1>2, <1>3
<1>10. SumFunction(h) = 0
  BY <1>6, <1>9
<1> QED
  BY <1>10 DEF h

-----------------------------------------------------------------------------
(* The theorems about the length reward *)

\* In an easy question whose right answers all reach the lower bar, the term
\* takes from some of them what it gives to others, whatever else is in the
\* batch (DynamicRewardManager, the pass over easy questions).
THEOREM EasyTotalKeptTheorem == DynamicSpec => []EasyTotalKept
  BY EasyTotalIsKept, DynamicInvariant, PTL

\* Answers of equal correctness are ordered by their lengths, the shorter first
\* in an easy question and the longer first in a hard one, for every group and
\* every length (the two formulas of DynamicRewardManager).
THEOREM LengthOrdersTheorem == DynamicSpec => []LengthOrders
  BY LengthsOrdered, DynamicInvariant, PTL

\* A question answered right more often than the limit is filtered out, though
\* the rewards that are counted hold the term already, for every batch and all
\* scores, if the right ones are no smaller than the share of right answers
\* (compute_grpo_outcome_advantage).
THEOREM EasyFilteredTheorem == DynamicSpec => []EasyFiltered
  BY EasyAreFiltered, DynamicInvariant, PTL
=============================================================================
