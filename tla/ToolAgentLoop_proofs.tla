------------------------- MODULE ToolAgentLoop_proofs -------------------------
(***************************************************************************)
(* For every prompt and response length, turn limit and tool behaviour:    *)
(* what ToolAgentLoop returns is aligned, its tools are released, and no   *)
(* trajectory is endless.                                                  *)
(***************************************************************************)
EXTENDS ToolAgentLoop, SequenceTheorems, FiniteSetTheorems, TLAPS

-----------------------------------------------------------------------------
(* Lemmas about the lists *)

\* A constant list, and what a list becomes when it is appended.
LEMMA TimesProperties ==
    ASSUME NEW S, NEW x \in S, NEW n \in Nat
    PROVE  /\ Times(n, x) \in Seq(S)
           /\ Len(Times(n, x)) = n
           /\ \A i \in 1..n : Times(n, x)[i] = x
<1>1. Times(n, x) \in [1..n -> S]  BY DEF Times
<1>2. Times(n, x) \in Seq(S)  BY <1>1
<1>3. DOMAIN Times(n, x) = 1..n  BY DEF Times
<1>4. Len(Times(n, x)) = n
  <2>1. /\ Len(Times(n, x)) \in Nat
        /\ DOMAIN Times(n, x) = 1..Len(Times(n, x))
    BY <1>2, LenProperties
  <2> DEFINE k == Len(Times(n, x))
  <2>2. k \in Nat /\ 1..n = 1..k  BY <2>1, <1>3
  <2> HIDE DEF k
  <2>3. ~(n < k)
    <3> SUFFICES ASSUME n < k PROVE FALSE  OBVIOUS
    <3>1. n + 1 \in 1..k /\ n + 1 \notin 1..n  BY <2>2
    <3> QED  BY <3>1, <2>2
  <2>4. ~(k < n)
    <3> SUFFICES ASSUME k < n PROVE FALSE  OBVIOUS
    <3>1. k + 1 \in 1..n /\ k + 1 \notin 1..k  BY <2>2
    <3> QED  BY <3>1, <2>2
  <2>5. k = n  BY <2>2, <2>3, <2>4
  <2> QED  BY <2>5 DEF k
<1>5. \A i \in 1..n : Times(n, x)[i] = x  BY DEF Times
<1> QED  BY <1>2, <1>4, <1>5

\* u is s with n times x appended.
Grows(s, u, n, x) ==
    /\ Len(s) \in Nat /\ Len(u) = Len(s) + n
    /\ \A i \in 1..Len(s) : u[i] = s[i]
    /\ \A i \in Len(s) + 1..Len(s) + n : u[i] = x

\* Appending n times x does that.
LEMMA GrownProperties ==
    ASSUME NEW S, NEW s \in Seq(S), NEW x \in S, NEW n \in Nat
    PROVE  s \o Times(n, x) \in Seq(S) /\ Grows(s, s \o Times(n, x), n, x)
<1> DEFINE t == Times(n, x)
<1>1. t \in Seq(S) /\ Len(t) = n /\ \A i \in 1..n : t[i] = x  BY TimesProperties
<1>2. Len(s) \in Nat  BY LenProperties
<1> HIDE DEF t
<1>3. /\ s \o t \in Seq(S)
      /\ Len(s \o t) = Len(s) + Len(t)
      /\ \A i \in 1..Len(s) + Len(t) :
            (s \o t)[i] = IF i <= Len(s) THEN s[i] ELSE t[i - Len(s)]
  BY <1>1, ConcatProperties
<1>4. ASSUME NEW i \in 1..Len(s) PROVE (s \o t)[i] = s[i]
  BY <1>1, <1>2, <1>3
<1>4a. ASSUME NEW i \in Len(s) + 1..Len(s) + n PROVE (s \o t)[i] = x
  <2>1. i \in 1..Len(s) + n /\ ~(i <= Len(s)) /\ i - Len(s) \in 1..n  BY <1>2
  <2>2. t[i - Len(s)] = x  BY <2>1, <1>1
  <2> QED  BY <2>1, <2>2, <1>1, <1>2, <1>3
<1>5. s \o t \in Seq(S) /\ Len(s \o t) = Len(s) + n  BY <1>1, <1>3
<1>6. Grows(s, s \o t, n, x)  BY <1>2, <1>4, <1>4a, <1>5 DEF Grows
<1> QED  BY <1>5, <1>6 DEF t

\* The three lists stay in step when all of them grow by n tokens of one source.
LEMMA InStepGrows ==
    ASSUME NEW t \in Seq(Sources), NEW m \in Seq({0, 1}), NEW l \in Seq(Sources),
           InStep(t, m, l),
           NEW n \in Nat, NEW x \in {"llm", "observed"}, NEW b \in {0, 1},
           b = 1 <=> x = "llm"
    PROVE  InStep(t \o Times(n, x), m \o Times(n, b),
                  IF LogProbs THEN l \o Times(n, x) ELSE l)
<1>1. x \in Sources  BY DEF Sources
<1>a. Grows(t, t \o Times(n, x), n, x)
  BY <1>1, GrownProperties
<1>b. Grows(m, m \o Times(n, b), n, b)
  BY <1>1, GrownProperties
<1>c. Grows(l, l \o Times(n, x), n, x)
  BY <1>1, GrownProperties
<1> DEFINE tt == t \o Times(n, x)
           mm == m \o Times(n, b)
           ll == l \o Times(n, x)
           P  == PromptLength
<1>0. P \in Nat /\ LogProbs \in BOOLEAN  BY LengthAssumption, SwitchAssumption
<1>2. /\ Len(tt) = Len(t) + n /\ Len(t) \in Nat
      /\ \A i \in 1..Len(t) : tt[i] = t[i]
      /\ \A i \in Len(t) + 1..Len(t) + n : tt[i] = x
  BY <1>a DEF Grows
<1>3. /\ Len(mm) = Len(m) + n /\ Len(m) \in Nat
      /\ \A i \in 1..Len(m) : mm[i] = m[i]
      /\ \A i \in Len(m) + 1..Len(m) + n : mm[i] = b
  BY <1>b DEF Grows
<1>4. /\ Len(ll) = Len(l) + n /\ Len(l) \in Nat
      /\ \A i \in 1..Len(l) : ll[i] = l[i]
      /\ \A i \in Len(l) + 1..Len(l) + n : ll[i] = x
  BY <1>c DEF Grows
<1>5. /\ Len(t) = P + Len(m)
      /\ Len(l) = IF LogProbs THEN Len(m) ELSE 0
      /\ \A i \in 1..P : t[i] = "prompt"
      /\ \A i \in 1..Len(m) : t[P + i] = IF m[i] = 1 THEN "llm" ELSE "observed"
      /\ \A i \in 1..Len(l) : l[i] = t[P + i]
  BY DEF InStep
<1> HIDE DEF tt, mm, ll, P
<1>6. Len(tt) = P + Len(mm)  BY <1>0, <1>2, <1>3, <1>5
<1>7. \A i \in 1..P : tt[i] = "prompt"
  <2>1. ASSUME NEW i \in 1..P PROVE tt[i] = "prompt"
    <3>1. i \in 1..Len(t) + n /\ i <= Len(t)  BY <1>0, <1>2, <1>3, <1>5
    <3> QED  BY <3>1, <1>2, <1>5
  <2> QED  BY <2>1
<1>8. \A i \in 1..Len(mm) : tt[P + i] = IF mm[i] = 1 THEN "llm" ELSE "observed"
  <2>1. ASSUME NEW i \in 1..Len(mm)
        PROVE  tt[P + i] = IF mm[i] = 1 THEN "llm" ELSE "observed"
    <3>1. P + i \in 1..Len(t) + n /\ i \in 1..Len(m) + n  BY <1>0, <1>2, <1>3, <1>5
    <3>2. CASE i <= Len(m)
      <4>1. P + i <= Len(t) /\ i \in 1..Len(m)  BY <3>1, <3>2, <1>0, <1>3, <1>5
      <4>2. tt[P + i] = t[P + i] /\ mm[i] = m[i]  BY <4>1, <3>1, <3>2, <1>2, <1>3
      <4> QED  BY <4>1, <4>2, <1>5
    <3>3. CASE ~(i <= Len(m))
      <4>1. ~(P + i <= Len(t))  BY <3>1, <3>3, <1>0, <1>3, <1>5
      <4>2. tt[P + i] = x /\ mm[i] = b  BY <4>1, <3>1, <3>3, <1>2, <1>3
      <4> QED  BY <4>2
    <3> QED  BY <3>2, <3>3
  <2> QED  BY <2>1
<1>9. CASE LogProbs
  <2>1. Len(ll) = Len(mm)  BY <1>9, <1>3, <1>4, <1>5
  <2>2. ASSUME NEW i \in 1..Len(ll) PROVE ll[i] = tt[P + i]
    <3>1. P + i \in 1..Len(t) + n /\ i \in 1..Len(l) + n
      BY <1>9, <1>0, <1>2, <1>3, <1>4, <1>5
    <3>2. CASE i <= Len(l)
      <4>1. P + i <= Len(t) /\ i \in 1..Len(l)  BY <3>1, <3>2, <1>9, <1>0, <1>3, <1>4, <1>5
      <4>2. tt[P + i] = t[P + i] /\ ll[i] = l[i]  BY <4>1, <3>1, <3>2, <1>2, <1>4
      <4> QED  BY <4>1, <4>2, <1>5
    <3>3. CASE ~(i <= Len(l))
      <4>1. ~(P + i <= Len(t))  BY <3>1, <3>3, <1>9, <1>0, <1>3, <1>4, <1>5
      <4> QED  BY <4>1, <3>1, <3>3, <1>2, <1>4
    <3> QED  BY <3>2, <3>3
  <2>3. InStep(tt, mm, ll)  BY <1>9, <2>1, <2>2, <1>6, <1>7, <1>8 DEF InStep, P
  <2> QED  BY <1>9, <2>3 DEF tt, mm, ll
<1>10. CASE ~LogProbs
  <2>1. Len(l) = 0  BY <1>10, <1>5
  <2>2. InStep(tt, mm, l)  BY <1>10, <2>1, <1>6, <1>7, <1>8 DEF InStep, P
  <2> QED  BY <1>10, <2>2 DEF tt, mm
<1> QED  BY <1>0, <1>9, <1>10

\* The cut at response_length keeps a prefix.
LEMMA TruncatedProperties ==
    ASSUME NEW S, NEW s \in Seq(S)
    PROVE  /\ Truncated(s) \in Seq(S)
           /\ Len(Truncated(s)) = AtMost(Len(s), ResponseLength)
           /\ AtMost(Len(s), ResponseLength) \in 0..Len(s)
           /\ \A i \in 1..AtMost(Len(s), ResponseLength) : Truncated(s)[i] = s[i]
<1> DEFINE k == AtMost(Len(s), ResponseLength)
<1>0. Len(s) \in Nat /\ ResponseLength \in Nat  BY LenProperties, LengthAssumption
<1>1. k \in Int /\ k \in 0..Len(s)  BY <1>0 DEF AtMost
<1>2. \A i \in 1..k : s[i] \in S
  <2>1. ASSUME NEW i \in 1..k PROVE s[i] \in S
    <3>1. i \in 1..Len(s)  BY <1>0, <1>1
    <3> QED  BY <3>1, ElementOfSeq
  <2> QED  BY <2>1
<1> HIDE DEF k
<1>3. /\ SubSeq(s, 1, k) \in Seq(S)
      /\ Len(SubSeq(s, 1, k)) = IF 1 <= k THEN k - 1 + 1 ELSE 0
      /\ \A i \in 1..k - 1 + 1 : SubSeq(s, 1, k)[i] = s[1 + i - 1]
  BY <1>1, <1>2, SubSeqProperties
<1>4. Len(SubSeq(s, 1, k)) = k  BY <1>0, <1>1, <1>3
<1>5. \A i \in 1..k : SubSeq(s, 1, k)[i] = s[i]  BY <1>0, <1>1, <1>3
<1> QED  BY <1>1, <1>3, <1>4, <1>5 DEF k, Truncated

\* A part of a sequence.
LEMMA PartProperties ==
    ASSUME NEW S, NEW s \in Seq(S), NEW a \in Nat, NEW k \in Nat, a + k <= Len(s)
    PROVE  /\ SubSeq(s, a + 1, a + k) \in Seq(S)
           /\ Len(SubSeq(s, a + 1, a + k)) = k
           /\ \A i \in 1..k : SubSeq(s, a + 1, a + k)[i] = s[a + i]
<1> DEFINE b == a + 1
           c == a + k
<1>1. Len(s) \in Nat /\ b \in Int /\ c \in Int  BY LenProperties
<1>2. \A i \in b..c : s[i] \in S
  <2>1. ASSUME NEW i \in b..c PROVE s[i] \in S
    <3>1. i \in 1..Len(s)  BY <1>1
    <3> QED  BY <3>1, ElementOfSeq
  <2> QED  BY <2>1
<1>3. c - b + 1 = k /\ \A i \in 1..k : b + i - 1 = a + i  OBVIOUS
<1>4. b <= c <=> k # 0  OBVIOUS
<1> HIDE DEF b, c
<1>5. /\ SubSeq(s, b, c) \in Seq(S)
      /\ Len(SubSeq(s, b, c)) = IF b <= c THEN c - b + 1 ELSE 0
      /\ \A i \in 1..c - b + 1 : SubSeq(s, b, c)[i] = s[b + i - 1]
  BY <1>1, <1>2, SubSeqProperties
<1>6. Len(SubSeq(s, b, c)) = k  BY <1>3, <1>4, <1>5
<1>7. \A i \in 1..k : SubSeq(s, b, c)[i] = s[a + i]  BY <1>3, <1>5
<1> QED  BY <1>5, <1>6, <1>7 DEF b, c

\* What Finish makes of lists in step.
LEMMA FinishAligned ==
    ASSUME TypeOK, ListsInStep, Finish
    PROVE  /\ output' \in [prompt : Seq(Sources), response : Seq(Sources),
                           mask : Seq({0, 1}), logprobs : Seq(Sources)]
           /\ OutputAligned' /\ LogProbsAligned'
<1> DEFINE t == tokens
           m == mask
           l == logprobs
           p == SubSeq(t, 1, Len(t) - Len(m))
           r == SubSeq(t, Len(t) - Len(m) + 1, Len(t))
           P == PromptLength
           M == Len(m)
           K == AtMost(M, ResponseLength)
<1>a. /\ t \in Seq(Sources) /\ m \in Seq({0, 1}) /\ l \in Seq(Sources)
      /\ InStep(t, m, l) /\ m # <<>>
  BY DEF TypeOK, ListsInStep, Finish
<1>b. p = SubSeq(t, 1, Len(t) - Len(m))
      /\ r = SubSeq(t, Len(t) - Len(m) + 1, Len(t))
  OBVIOUS
<1>c. output' = [prompt |-> p, response |-> Truncated(r),
                 mask |-> Truncated(m), logprobs |-> Truncated(l)]
  BY DEF Finish, ResponsePart
<1> HIDE DEF t, m, l, p, r
<1>0. /\ P \in Nat /\ ResponseLength \in Nat \ {0} /\ LogProbs \in BOOLEAN
      /\ M \in Nat \ {0} /\ Len(t) \in Nat /\ Len(l) \in Nat
  BY <1>a, LengthAssumption, SwitchAssumption, LenProperties, EmptySeq
<1>1. /\ Len(t) = P + M
      /\ Len(l) = IF LogProbs THEN M ELSE 0
      /\ \A i \in 1..P : t[i] = "prompt"
      /\ \A i \in 1..M : t[P + i] = IF m[i] = 1 THEN "llm" ELSE "observed"
      /\ \A i \in 1..Len(l) : l[i] = t[P + i]
  BY <1>a DEF InStep
<1>2. K \in 1..M /\ K <= ResponseLength /\ K \in Nat  BY <1>0 DEF AtMost
<1>3. /\ Truncated(m) \in Seq({0, 1}) /\ Len(Truncated(m)) = K
      /\ \A i \in 1..K : Truncated(m)[i] = m[i]
  BY <1>a, TruncatedProperties
<1>4. /\ Truncated(l) \in Seq(Sources)
      /\ Len(Truncated(l)) = AtMost(Len(l), ResponseLength)
      /\ \A i \in 1..AtMost(Len(l), ResponseLength) : Truncated(l)[i] = l[i]
  BY <1>a, TruncatedProperties
<1> HIDE DEF P, M
<1>5. p = SubSeq(t, 0 + 1, 0 + P)
  <2>1. Len(t) - M = P /\ 0 + 1 = 1 /\ 0 + P = P  BY <1>0, <1>1
  <2> QED  BY <1>b, <2>1 DEF M
<1>6. r = SubSeq(t, P + 1, P + M)
  <2>1. Len(t) - M + 1 = P + 1  BY <1>0, <1>1
  <2> QED  BY <1>b, <2>1, <1>1 DEF M
<1>7. p \in Seq(Sources) /\ Len(p) = P /\ \A i \in 1..P : p[i] = t[0 + i]
  <2>1. 0 + P <= Len(t)  BY <1>0, <1>1
  <2>2. SubSeq(t, 0 + 1, 0 + P) \in Seq(Sources)
        /\ Len(SubSeq(t, 0 + 1, 0 + P)) = P
        /\ \A i \in 1..P : SubSeq(t, 0 + 1, 0 + P)[i] = t[0 + i]
    BY <1>a, <1>0, <2>1, PartProperties
  <2> QED  BY ONLY <2>2, <1>5
<1>8. r \in Seq(Sources) /\ Len(r) = M /\ \A i \in 1..M : r[i] = t[P + i]
  <2>1. P + M <= Len(t)  BY <1>0, <1>1
  <2>2. SubSeq(t, P + 1, P + M) \in Seq(Sources)
        /\ Len(SubSeq(t, P + 1, P + M)) = M
        /\ \A i \in 1..M : SubSeq(t, P + 1, P + M)[i] = t[P + i]
    BY <1>a, <1>0, <2>1, PartProperties
  <2> QED  BY ONLY <2>2, <1>6
<1>9. /\ Truncated(r) \in Seq(Sources) /\ Len(Truncated(r)) = K
      /\ \A i \in 1..K : Truncated(r)[i] = r[i]
  <2>1. /\ Truncated(r) \in Seq(Sources)
        /\ Len(Truncated(r)) = AtMost(Len(r), ResponseLength)
        /\ \A i \in 1..AtMost(Len(r), ResponseLength) : Truncated(r)[i] = r[i]
    BY ONLY <1>8, TruncatedProperties
  <2> QED  BY <2>1, <1>8
<1> HIDE DEF K
<1>10. \A i \in 1..P : p[i] = "prompt"
  <2>1. ASSUME NEW i \in 1..P PROVE p[i] = "prompt"
    <3>1. 0 + i = i  BY <1>0
    <3>2. p[i] = t[0 + i] /\ t[i] = "prompt"  BY ONLY <2>1, <1>1, <1>7
    <3> QED  BY ONLY <3>1, <3>2
  <2> QED  BY <2>1
<1>11. ASSUME NEW i \in 1..K
       PROVE  Truncated(r)[i] = IF Truncated(m)[i] = 1 THEN "llm" ELSE "observed"
  <2>1. i \in 1..M  BY <1>0, <1>2
  <2>2. Truncated(r)[i] = t[P + i]  BY ONLY <2>1, <1>8, <1>9, i \in 1..K
  <2>3. Truncated(m)[i] = m[i]  BY ONLY <1>3, i \in 1..K DEF K
  <2>4. t[P + i] = IF m[i] = 1 THEN "llm" ELSE "observed"  BY ONLY <2>1, <1>1
  <2> QED  BY ONLY <2>2, <2>3, <2>4
<1>12. ASSUME LogProbs PROVE Truncated(l) = Truncated(r)
  <2>1. Len(l) = M  BY <1>12, <1>1
  <2>2. Len(Truncated(l)) = K /\ \A i \in 1..K : Truncated(l)[i] = l[i]
    BY ONLY <2>1, <1>4 DEF K
  <2>3. ASSUME NEW i \in 1..K PROVE Truncated(l)[i] = Truncated(r)[i]
    <3>1. i \in 1..M  BY <1>0, <1>2
    <3> QED  BY ONLY <3>1, <2>1, <2>2, <1>1, <1>8, <1>9, i \in 1..K
  <2>4. Truncated(l) = Truncated(r)
    BY ONLY <2>2, <2>3, <1>4, <1>9, SeqEqual
  <2> QED  BY <2>4
<1>13. ASSUME ~LogProbs PROVE Truncated(l) = <<>>
  <2>1. Len(l) = 0  BY <1>13, <1>1
  <2>2. AtMost(0, ResponseLength) = 0  BY <1>0 DEF AtMost
  <2>3. Len(Truncated(l)) = 0  BY <2>1, <2>2, <1>4
  <2>4. Truncated(l) = <<>>  BY <2>3, <1>4, EmptySeq
  <2> QED  BY <2>4
<1>14. Truncated(l) = IF LogProbs THEN Truncated(r) ELSE <<>>
  BY <1>0, <1>12, <1>13
<1>15. Len(p) = PromptLength /\ \A i \in 1..Len(p) : p[i] = "prompt"
  BY <1>7, <1>10 DEF P
<1>16. /\ Len(Truncated(r)) = Len(Truncated(m))
       /\ Len(Truncated(m)) \in 1..ResponseLength
       /\ \A i \in 1..Len(Truncated(m)) :
             Truncated(r)[i] = IF Truncated(m)[i] = 1 THEN "llm" ELSE "observed"
  BY <1>0, <1>2, <1>3, <1>9, <1>11
<1>17. OutputAligned'  BY <1>c, <1>15, <1>16 DEF OutputAligned
<1>18. LogProbsAligned'  BY <1>c, <1>14 DEF LogProbsAligned
<1> QED  BY <1>c, <1>3, <1>4, <1>7, <1>9, <1>17, <1>18

\* Their types, and that what was appended is there.
LEMMA TypesGrow ==
    ASSUME NEW t \in Seq(Sources), NEW m \in Seq({0, 1}), NEW l \in Seq(Sources),
           NEW n \in Nat \ {0}, NEW x \in {"llm", "observed"}, NEW b \in {0, 1}
    PROVE  /\ t \o Times(n, x) \in Seq(Sources)
           /\ m \o Times(n, b) \in Seq({0, 1}) /\ m \o Times(n, b) # <<>>
           /\ (IF LogProbs THEN l \o Times(n, x) ELSE l) \in Seq(Sources)
<1>1. x \in Sources /\ n \in Nat  BY DEF Sources
<1>2. t \o Times(n, x) \in Seq(Sources) /\ l \o Times(n, x) \in Seq(Sources)
  BY <1>1, GrownProperties
<1>3. m \o Times(n, b) \in Seq({0, 1}) /\ Grows(m, m \o Times(n, b), n, b)
  BY <1>1, GrownProperties
<1>4. Len(m \o Times(n, b)) # 0  BY <1>3 DEF Grows
<1>5. m \o Times(n, b) # <<>>  BY <1>4, EmptySeq
<1> QED  BY <1>2, <1>3, <1>5

-----------------------------------------------------------------------------
(* The lists stay in step *)

\* What the alignment of the output and the release of the tools rest on.
LoopInv == TypeOK /\ ListsInStep /\ ToolsReleased /\ OutputAligned /\ LogProbsAligned

\* A tool or user message joins lists in step, which stay in step.
LEMMA ObserveStep ==
    ASSUME TypeOK, ListsInStep, state \in {"tools", "interacting"},
           NEW n \in ObservedLengths, Observe(n)
    PROVE  /\ tokens' \in Seq(Sources) /\ mask' \in Seq({0, 1})
           /\ logprobs' \in Seq(Sources)
           /\ InStep(tokens', mask', logprobs') /\ mask' # <<>>
<1>0. n \in Nat \ {0} /\ LogProbs \in BOOLEAN  BY LengthAssumption, SwitchAssumption
<1>1. /\ tokens \in Seq(Sources) /\ mask \in Seq({0, 1}) /\ logprobs \in Seq(Sources)
      /\ InStep(tokens, mask, logprobs) /\ mask # <<>>
  BY DEF TypeOK, ListsInStep
<1>2. InStep(tokens \o Times(n, "observed"), mask \o Times(n, 0),
             IF LogProbs THEN logprobs \o Times(n, "observed") ELSE logprobs)
  <2>1. "observed" \in {"llm", "observed"} /\ 0 \in {0, 1} /\ n \in Nat
    BY <1>0
  <2>2. 0 = 1 <=> "observed" = "llm"  OBVIOUS
  <2> QED  BY <2>1, <2>2, <1>1, InStepGrows
<1>3. logprobs # <<>> <=> LogProbs
  <2>1. Len(mask) \in Nat \ {0}  BY <1>1, EmptySeq
  <2>2. Len(logprobs) = IF LogProbs THEN Len(mask) ELSE 0  BY <1>1 DEF InStep
  <2>3. logprobs = <<>> <=> Len(logprobs) = 0  BY <1>1, EmptySeq
  <2> QED  BY <1>0, <2>1, <2>2, <2>3
<1>4. /\ tokens' = tokens \o Times(n, "observed")
      /\ mask' = mask \o Times(n, 0)
      /\ logprobs' = IF LogProbs THEN logprobs \o Times(n, "observed") ELSE logprobs
  BY <1>0, <1>3 DEF Observe
<1>5. tokens' \in Seq(Sources) /\ mask' \in Seq({0, 1}) /\ logprobs' \in Seq(Sources)
  BY <1>0, <1>1, <1>4, TypesGrow
<1>6. mask' # <<>>
  BY <1>0, <1>1, <1>4, TypesGrow
<1> QED  BY <1>2, <1>4, <1>5, <1>6

\* What the LLM generates joins lists in step, which stay in step.
LEMMA GenerateStep ==
    ASSUME TypeOK, ListsInStep, state = "generating", NEW n \in GenLengths,
           tokens' = tokens \o Times(n, "llm"),
           mask' = mask \o Times(n, 1),
           logprobs' = IF LogProbs THEN logprobs \o Times(n, "llm") ELSE logprobs
    PROVE  /\ tokens' \in Seq(Sources) /\ mask' \in Seq({0, 1})
           /\ logprobs' \in Seq(Sources)
           /\ InStep(tokens', mask', logprobs') /\ mask' # <<>>
<1>0. n \in Nat \ {0}  BY LengthAssumption
<1>1. /\ tokens \in Seq(Sources) /\ mask \in Seq({0, 1}) /\ logprobs \in Seq(Sources)
      /\ InStep(tokens, mask, logprobs)
  BY DEF TypeOK, ListsInStep
<1>2. InStep(tokens \o Times(n, "llm"), mask \o Times(n, 1),
             IF LogProbs THEN logprobs \o Times(n, "llm") ELSE logprobs)
  <2>1. "llm" \in {"llm", "observed"} /\ 1 \in {0, 1} /\ n \in Nat
    BY <1>0
  <2>2. 1 = 1 <=> "llm" = "llm"  OBVIOUS
  <2> QED  BY <2>1, <2>2, <1>1, InStepGrows
<1>3. tokens' \in Seq(Sources) /\ mask' \in Seq({0, 1}) /\ logprobs' \in Seq(Sources)
  BY <1>0, <1>1, TypesGrow
<1>4. mask' # <<>>
  BY <1>0, <1>1, TypesGrow
<1> QED  BY <1>2, <1>3, <1>4

\* The prompt alone is in step with empty lists.
LEMMA PromptStep ==
    /\ Times(PromptLength, "prompt") \in Seq(Sources)
    /\ InStep(Times(PromptLength, "prompt"), <<>>, <<>>)
<1> DEFINE t == Times(PromptLength, "prompt")
<1>1. PromptLength \in Nat /\ "prompt" \in Sources /\ LogProbs \in BOOLEAN
  BY LengthAssumption, SwitchAssumption DEF Sources
<1>2. /\ t \in Seq(Sources) /\ Len(t) = PromptLength
      /\ \A i \in 1..PromptLength : t[i] = "prompt"
  BY <1>1, TimesProperties
<1> HIDE DEF t
<1>3. Len(<<>>) = 0  BY EmptySeq
<1>4. InStep(t, <<>>, <<>>)  BY <1>1, <1>2, <1>3 DEF InStep
<1> QED  BY <1>2, <1>4 DEF t

-----------------------------------------------------------------------------
(* The remaining types *)

CallStates == {"new", "created", "executed", "answered", "failed", "unreleased"}

\* The calls of a turn, and the history, stay sequences of what they hold.
LEMMA CallsStart ==
    ASSUME NEW k \in CallCounts
    PROVE  /\ Times(AtMost(k, MaxParallelCalls), "new")
                \in Seq(CallStates)
           /\ DOMAIN Times(AtMost(k, MaxParallelCalls), "new")
                = 1..AtMost(k, MaxParallelCalls)
<1>1. AtMost(k, MaxParallelCalls) \in Nat  BY LimitAssumption DEF AtMost
<1>2. "new" \in CallStates  BY DEF CallStates
<1> QED  BY <1>1, <1>2, TimesProperties DEF Times

\* What HandleTools makes of the history.
LEMMA MessagesGrow ==
    ASSUME TypeOK, NEW j \in 0..Len(calls)
    PROVE  ToolMessages(j) \in Seq({"user", "assistant", "tool"})
<1> DEFINE R == {"user", "assistant", "tool"}
           a == j * (j + 1)
           u == IF UseInteraction THEN Len(calls) ELSE 0
           k == u + a \div 2
<1>1. Len(calls) \in Nat  BY LenProperties DEF TypeOK
<1>2. a \in Nat  BY <1>1
<1>3. k \in Nat
  <2>1. a \div 2 \in Nat  BY <1>2
  <2>2. u \in Nat  BY <1>1, SwitchAssumption
  <2> HIDE DEF a, u
  <2> QED  BY <2>1, <2>2
<1>4. messages \in Seq(R) /\ "tool" \in R  BY DEF TypeOK
<1> HIDE DEF R, u, a, k
<1>5. messages \o Times(k, "tool") \in Seq(R)  BY <1>3, <1>4, GrownProperties
<1> QED  BY <1>5 DEF R, u, a, k, ToolMessages

-----------------------------------------------------------------------------
(* The inductive invariant, one step per action *)

\* Its initial states: empty lists, an empty output.
LEMMA AlignedInit == Init => LoopInv
<1> SUFFICES ASSUME Init PROVE LoopInv  OBVIOUS
<1>1. \A S : <<>> \in Seq(S)  BY EmptySeq
<1>2. messages \in Seq({"user", "assistant", "tool"})
  BY DEF Init
<1>3. live \subseteq DOMAIN calls  BY DEF Init
<1>4. output \in [prompt : Seq(Sources), response : Seq(Sources),
                  mask : Seq({0, 1}), logprobs : Seq(Sources)]
  BY <1>1 DEF Init, NoOutput
<1>5. TypeOK  BY <1>1, <1>2, <1>3, <1>4 DEF Init, TypeOK
<1>6. ListsInStep  BY DEF Init, ListsInStep
<1>7. ToolsReleased  BY DEF Init, ToolsReleased
<1>8. OutputAligned /\ LogProbsAligned  BY DEF Init, OutputAligned, LogProbsAligned
<1> QED  BY <1>5, <1>6, <1>7, <1>8 DEF LoopInv

\* One call of _call_tool moves on: nothing but the calls and live changes.
LEMMA CallStepAligned ==
    ASSUME LoopInv, NEW i \in DOMAIN calls, CallTool(i)
    PROVE  LoopInv'
<1>1. PICK from \in {"new", "created", "executed"}, to \in CallStates :
           /\ CallStep(i, from, to)
           /\ \/ live' = live \ {i}
              \/ live' = live /\ (i \in live => to \in {"executed", "unreleased"})
              \/ live' = live \union {i} /\ to = "created"
  <2>1. CASE RejectCall(i)
    <3>1. calls[i] = "new"  BY <2>1 DEF RejectCall, CallStep
    <3>2. i \notin live  BY <3>1 DEF LoopInv, ToolsReleased
    <3> QED  BY <2>1, <3>2 DEF RejectCall, CallStates
  <2>2. CASE CreateTool(i)  BY <2>2 DEF CreateTool, CallStates
  <2>3. CASE ExecuteTool(i)  BY <2>3 DEF ExecuteTool, CallStates
  <2>4. CASE ReleaseTool(i)  BY <2>4 DEF ReleaseTool, CallStates
  <2>5. CASE RejectResponse(i)  BY <2>5 DEF RejectResponse, CallStates
  <2>6. CASE ReleaseRaises(i)  BY <2>6 DEF ReleaseRaises, CallStates
  <2> QED  BY <2>1, <2>2, <2>3, <2>4, <2>5, <2>6 DEF CallTool
<1>2. /\ calls[i] = from /\ calls' = [calls EXCEPT ![i] = to]
      /\ state \in {"tools", "raised"}
      /\ UNCHANGED <<state, lists, messages, turns, output>>
  BY <1>1 DEF CallStep
<1>3. calls \in Seq(CallStates) /\ live \subseteq DOMAIN calls
  BY DEF LoopInv, TypeOK, CallStates
<1>4. /\ DOMAIN calls' = DOMAIN calls /\ calls'[i] = to
      /\ \A k \in DOMAIN calls : k # i => calls'[k] = calls[k]
  BY <1>2
<1>5. calls' \in Seq(CallStates)
  <2>1. i \in 1..Len(calls)  BY <1>3, LenProperties
  <2>2. [calls EXCEPT ![i] = to] \in Seq(CallStates)  BY <2>1, <1>3, ExceptSeq
  <2> QED  BY <2>2, <1>2
<1>6. live' \subseteq DOMAIN calls'  BY <1>1, <1>3, <1>4
<1>7. TypeOK'  BY <1>2, <1>5, <1>6 DEF LoopInv, TypeOK, lists, turns, CallStates
<1>8. ListsInStep'  BY <1>2 DEF LoopInv, ListsInStep, lists
<1>9. ToolsReleased'
  <2>1. ASSUME NEW k \in live' PROVE calls'[k] \in {"created", "executed", "unreleased"}
    <3>1. CASE k = i  BY <1>1, <1>4, <3>1, <2>1
    <3>2. CASE k # i
      <4>1. k \in live  BY <1>1, <3>2, <2>1
      <4> QED  BY <4>1, <1>3, <1>4, <3>2 DEF LoopInv, ToolsReleased
    <3> QED  BY <3>1, <3>2
  <2> QED  BY <2>1, <1>2 DEF ToolsReleased
<1>10. (OutputAligned /\ LogProbsAligned)'
  BY <1>2 DEF LoopInv, OutputAligned, LogProbsAligned
<1> QED  BY <1>7, <1>8, <1>9, <1>10 DEF LoopInv

\* The invariant is kept by every step of run.
LEMMA AlignedStep == LoopInv /\ [Next]_vars => LoopInv'
<1> SUFFICES ASSUME LoopInv, [Next]_vars PROVE LoopInv'  OBVIOUS
<1>0. TypeOK /\ ListsInStep /\ ToolsReleased /\ OutputAligned /\ LogProbsAligned
  BY DEF LoopInv
<1>e. \A S : <<>> \in Seq(S)  BY EmptySeq
<1>1. CASE HandlePending
  <2>1. tokens' \in Seq(Sources) /\ InStep(tokens', mask', logprobs')
    BY <1>0, <1>1, PromptStep DEF HandlePending, ListsInStep
  <2>2. TypeOK'  BY <1>0, <1>1, <2>1 DEF HandlePending, TypeOK, turns, toolVars
  <2>3. ListsInStep'  BY <1>1, <2>1 DEF HandlePending, ListsInStep
  <2>4. ToolsReleased'  BY <1>0, <1>1 DEF HandlePending, ToolsReleased, toolVars
  <2>5. (OutputAligned /\ LogProbsAligned)'
    BY <1>1 DEF HandlePending, OutputAligned, LogProbsAligned
  <2> QED  BY <2>2, <2>3, <2>4, <2>5 DEF LoopInv
<1>2. CASE HandleGenerating
  <2>1. PICK n \in GenLengths, k \in CallCounts :
          /\ tokens' = tokens \o Times(n, "llm")
          /\ mask' = mask \o Times(n, 1)
          /\ logprobs' = IF LogProbs THEN logprobs \o Times(n, "llm") ELSE logprobs
          /\ \/ state' \in {"terminated", "interacting"} /\ UNCHANGED calls
             \/ state' = "tools" /\ calls' = Times(AtMost(k, MaxParallelCalls), "new")
          /\ messages' = messages \/ messages' = Append(messages, "assistant")
    <3>1. PICK n \in GenLengths, k \in CallCounts :
            /\ tokens' = tokens \o Times(n, "llm")
            /\ mask' = mask \o Times(n, 1)
            /\ logprobs' = IF LogProbs THEN logprobs \o Times(n, "llm") ELSE logprobs
            /\ \/ state' = "terminated" /\ UNCHANGED <<calls, messages>>
               \/ /\ messages' = IF UseInteraction THEN Append(messages, "assistant")
                                                   ELSE messages
                  /\ \/ /\ state' = "tools"
                        /\ calls' = Times(AtMost(k, MaxParallelCalls), "new")
                     \/ /\ state' = IF UseInteraction THEN "interacting" ELSE "terminated"
                        /\ UNCHANGED calls
      BY <1>2, Zenon DEF HandleGenerating, Generate
    <3> QED  BY <3>1, SwitchAssumption
  <2>2. /\ state = "generating"
        /\ assistantTurns' = assistantTurns + 1
        /\ UNCHANGED <<userTurns, live, output>>
    BY <1>2 DEF HandleGenerating
  <2>3. /\ tokens' \in Seq(Sources) /\ mask' \in Seq({0, 1})
        /\ logprobs' \in Seq(Sources)
        /\ InStep(tokens', mask', logprobs') /\ mask' # <<>>
    BY <1>0, <2>1, <2>2, GenerateStep
  <2>4. live = {}  BY <1>0, <2>2 DEF ToolsReleased
  <2>5. calls' \in Seq(CallStates)
    <3>1. CASE UNCHANGED calls  BY <3>1, <1>0 DEF TypeOK, CallStates
    <3>2. CASE state' = "tools" /\ calls' = Times(AtMost(k, MaxParallelCalls), "new")
      BY <3>2, CallsStart
    <3> QED  BY <2>1, <3>1, <3>2
  <2>6. messages' \in Seq({"user", "assistant", "tool"})
    <3> DEFINE R == {"user", "assistant", "tool"}
    <3>1. messages \in Seq(R) /\ "assistant" \in R  BY <1>0 DEF TypeOK
    <3> HIDE DEF R
    <3>2. Append(messages, "assistant") \in Seq(R)  BY <3>1, AppendProperties
    <3>3. messages' \in Seq(R)  BY <2>1, <3>1, <3>2
    <3> QED  BY <3>3 DEF R
  <2>7. state' \in {"terminated", "interacting", "tools"}  BY <2>1
  <2>8. TypeOK'  BY <1>0, <2>2, <2>3, <2>4, <2>5, <2>6, <2>7 DEF TypeOK, CallStates
  <2>9. ListsInStep'  BY <2>3, <2>7 DEF ListsInStep
  <2>10. ToolsReleased'  BY <2>2, <2>4 DEF ToolsReleased
  <2>11. (OutputAligned /\ LogProbsAligned)'
    BY <2>7 DEF OutputAligned, LogProbsAligned
  <2> QED  BY <2>8, <2>9, <2>10, <2>11 DEF LoopInv
<1>3. CASE HandleTools
  <2>1. /\ state = "tools" /\ \A i \in DOMAIN calls : calls[i] = "answered"
        /\ messages' = ToolMessages(Len(calls)) /\ calls' = <<>>
        /\ UNCHANGED <<assistantTurns, live, output>>
    BY <1>3 DEF HandleTools, Answered
  <2>2. live = {}  BY <1>0, <2>1 DEF TypeOK, ToolsReleased
  <2>3. \/ state' = "terminated" /\ UNCHANGED <<lists, userTurns>>
        \/ /\ state' = "generating" /\ userTurns' = userTurns + 1
           /\ \E n \in ObservedLengths : Observe(n)
    BY <1>3 DEF HandleTools
  <2>4. /\ tokens' \in Seq(Sources) /\ mask' \in Seq({0, 1})
        /\ logprobs' \in Seq(Sources)
        /\ InStep(tokens', mask', logprobs') /\ mask' # <<>>
    <3>1. CASE UNCHANGED lists
      BY <1>0, <2>1, <3>1 DEF TypeOK, ListsInStep, lists
    <3>2. CASE \E n \in ObservedLengths : Observe(n)
      BY <1>0, <2>1, <3>2, ObserveStep
    <3> QED  BY <2>3, <3>1, <3>2
  <2>5. messages' \in Seq({"user", "assistant", "tool"})
    <3>1. Len(calls) \in 0..Len(calls)  BY <1>0, LenProperties DEF TypeOK
    <3> QED  BY <1>0, <2>1, <3>1, MessagesGrow
  <2>6. calls' \in Seq(CallStates)
    BY <2>1, <1>e
  <2>7. TypeOK'  BY <1>0, <2>1, <2>2, <2>3, <2>4, <2>5, <2>6 DEF TypeOK, CallStates
  <2>8. ListsInStep'  BY <2>3, <2>4 DEF ListsInStep
  <2>9. ToolsReleased'  BY <2>1, <2>2 DEF ToolsReleased
  <2>10. (OutputAligned /\ LogProbsAligned)'
    BY <2>3 DEF OutputAligned, LogProbsAligned
  <2> QED  BY <2>7, <2>8, <2>9, <2>10 DEF LoopInv
<1>4. CASE ToolsRaise
  <2>1. /\ state = "tools" /\ \A i \in DOMAIN calls : calls[i] = "answered"
        /\ state' = "raised"
        /\ UNCHANGED <<lists, turns, toolVars, output>>
    BY <1>4 DEF ToolsRaise, Answered
  <2>2. messages' \in Seq({"user", "assistant", "tool"})
    BY <1>0, <1>4, MessagesGrow DEF ToolsRaise
  <2>3. TypeOK'  BY <1>0, <2>1, <2>2 DEF TypeOK, lists, turns, toolVars
  <2>4. ListsInStep'  BY <1>0, <2>1 DEF ListsInStep, lists
  <2>5. ToolsReleased'  BY <1>0, <2>1 DEF ToolsReleased, toolVars
  <2>6. (OutputAligned /\ LogProbsAligned)'
    BY <2>1 DEF OutputAligned, LogProbsAligned
  <2> QED  BY <2>3, <2>4, <2>5, <2>6 DEF LoopInv
<1>5. CASE HandleInteracting
  <2>1. /\ state = "interacting" /\ state' \in {"terminated", "generating"}
        /\ userTurns' = userTurns + 1
        /\ UNCHANGED <<messages, assistantTurns, calls, live, output>>
        /\ \E n \in ObservedLengths : Observe(n)
    BY <1>5 DEF HandleInteracting, toolVars
  <2>2. /\ tokens' \in Seq(Sources) /\ mask' \in Seq({0, 1})
        /\ logprobs' \in Seq(Sources)
        /\ InStep(tokens', mask', logprobs') /\ mask' # <<>>
    BY <1>0, <2>1, ObserveStep
  <2>3. TypeOK'  BY <1>0, <2>1, <2>2 DEF TypeOK
  <2>4. ListsInStep'  BY <2>1, <2>2 DEF ListsInStep
  <2>5. ToolsReleased'  BY <1>0, <2>1 DEF ToolsReleased
  <2>6. (OutputAligned /\ LogProbsAligned)'
    BY <2>1 DEF OutputAligned, LogProbsAligned
  <2> QED  BY <2>3, <2>4, <2>5, <2>6 DEF LoopInv
<1>6. CASE Finish
  <2>1. /\ state = "terminated" /\ state' = "returned"
        /\ UNCHANGED <<lists, messages, turns, toolVars>>
    BY <1>6 DEF Finish
  <2>6. /\ output' \in [prompt : Seq(Sources), response : Seq(Sources),
                        mask : Seq({0, 1}), logprobs : Seq(Sources)]
        /\ OutputAligned' /\ LogProbsAligned'
    BY <1>0, <1>6, FinishAligned
  <2>7. TypeOK'  BY <1>0, <2>1, <2>6 DEF TypeOK, lists, turns, toolVars
  <2>8. ListsInStep'  BY <1>0, <2>1 DEF ListsInStep, lists
  <2>9. ToolsReleased'  BY <1>0, <2>1 DEF ToolsReleased, toolVars
  <2> QED  BY <2>6, <2>7, <2>8, <2>9 DEF LoopInv
<1>7. CASE \E i \in DOMAIN calls : CallTool(i)
  BY <1>7, CallStepAligned
<1>8. CASE GatherRaises
  <2>1. /\ state = "tools" /\ state' = "raised"
        /\ UNCHANGED <<lists, messages, turns, toolVars, output>>
    BY <1>8 DEF GatherRaises
  <2>2. TypeOK'  BY <1>0, <2>1 DEF TypeOK, lists, turns, toolVars
  <2>3. ListsInStep'  BY <1>0, <2>1 DEF ListsInStep
  <2>4. ToolsReleased'  BY <1>0, <2>1 DEF ToolsReleased, toolVars
  <2>5. (OutputAligned /\ LogProbsAligned)'
    BY <2>1 DEF OutputAligned, LogProbsAligned
  <2> QED  BY <2>2, <2>3, <2>4, <2>5 DEF LoopInv
<1>9. CASE HandlerRaises
  <2>1. /\ state \in {"pending", "generating", "interacting"} /\ state' = "raised"
        /\ UNCHANGED <<messages, turns, toolVars, output>>
    BY <1>9 DEF HandlerRaises
  <2>2. tokens' \in Seq(Sources) /\ mask' \in Seq({0, 1}) /\ logprobs' \in Seq(Sources)
    <3>1. CASE UNCHANGED lists  BY <3>1, <1>0 DEF TypeOK, lists
    <3>2. CASE state = "generating" /\ \E n \in GenLengths : Generate(n)
      <4>1. PICK n \in GenLengths : Generate(n)  BY <3>2
      <4> QED  BY <3>2, <4>1, <1>0, GenerateStep DEF Generate
    <3> QED  BY <1>9, <3>1, <3>2 DEF HandlerRaises
  <2>3. TypeOK'  BY <1>0, <2>1, <2>2 DEF TypeOK, turns, toolVars
  <2>4. ListsInStep'  BY <2>1 DEF ListsInStep
  <2>5. ToolsReleased'  BY <1>0, <2>1 DEF ToolsReleased, toolVars
  <2>6. (OutputAligned /\ LogProbsAligned)'
    BY <2>1 DEF OutputAligned, LogProbsAligned
  <2> QED  BY <2>3, <2>4, <2>5, <2>6 DEF LoopInv
<1>10. CASE UNCHANGED vars
  BY <1>0, <1>10 DEF LoopInv, TypeOK, ListsInStep, ToolsReleased, OutputAligned,
     LogProbsAligned, vars, lists, turns, toolVars
<1> QED
  BY <1>1, <1>2, <1>3, <1>4, <1>5, <1>6, <1>7, <1>8, <1>9, <1>10 DEF Next, Run, Over

-----------------------------------------------------------------------------
(* The theorems *)

(* Every variable of the trajectory keeps its type: in particular a tool       *)
(* instance is only ever alive for a call of the current turn.                 *)
THEOREM LoopTypeCorrect == Spec => []TypeOK
<1>1. LoopInv => TypeOK  BY DEF LoopInv
<1> QED  BY <1>1, AlignedInit, AlignedStep, PTL DEF Spec

(* For every prompt and response length, turn limit and number of turns, what  *)
(* run returns is the prompt, then at most response_length tokens, with a mask *)
(* that is 1 exactly at those the LLM generated (run, lines 165-182).          *)
THEOREM OutputAlignedTheorem == Spec => []OutputAligned
<1>1. LoopInv => OutputAligned  BY DEF LoopInv
<1> QED  BY <1>1, AlignedInit, AlignedStep, PTL DEF Spec

(* With log-probabilities wanted, each one returned is that of the token at    *)
(* its place; otherwise there are none.                                        *)
THEOREM LogProbsAlignedTheorem == Spec => []LogProbsAligned
<1>1. LoopInv => LogProbsAligned  BY DEF LoopInv
<1> QED  BY <1>1, AlignedInit, AlignedStep, PTL DEF Spec

(* However the parallel calls of _call_tool interleave and fail, inside the    *)
(* call or out of it (lines 425-449): no tool instance is alive when the model *)
(* is asked again or run returns, and none outlives its call, also where run   *)
(* has raised meanwhile, unless its own release raised.                        *)
THEOREM ToolsReleasedTheorem == Spec => []ToolsReleased
<1>1. LoopInv => ToolsReleased
  BY DEF LoopInv
<1> QED  BY <1>1, AlignedInit, AlignedStep, PTL DEF Spec

-----------------------------------------------------------------------------
(* The turn limits *)

\* While another turn may follow, its limit has not been passed.
TurnsInv ==
    /\ TurnsLimited
    /\ assistantTurns \in Nat /\ userTurns \in Nat
    /\ state = "pending" => assistantTurns = 0 /\ userTurns = 0
    /\ state \in {"generating", "tools", "interacting"} =>
          (MaxAssistantTurns # 0 => assistantTurns <= MaxAssistantTurns)
    /\ state \in {"tools", "interacting"} =>
          (MaxUserTurns # 0 => userTurns < MaxUserTurns)

\* One step per action; only three of them count a turn.
LEMMA TurnsStep == ASSUME TurnsInv, [Next]_vars PROVE TurnsInv'
<1> USE LimitAssumption DEF TurnsInv, TurnsLimited
<1>1. CASE HandlePending
  BY <1>1 DEF HandlePending, turns
<1>2. CASE HandleGenerating
  <2>1. /\ state = "generating" /\ assistantTurns' = assistantTurns + 1
        /\ userTurns' = userTurns
        /\ \/ state' = "terminated"
           \/ ~LimitReached /\ state' \in {"tools", "interacting", "terminated"}
    BY <1>2 DEF HandleGenerating
  <2> QED  BY <2>1 DEF LimitReached
<1>3. CASE HandleTools
  <2>1. /\ state = "tools" /\ assistantTurns' = assistantTurns
        /\ \/ state' = "terminated" /\ userTurns' = userTurns
           \/ state' = "generating" /\ userTurns' = userTurns + 1
    BY <1>3 DEF HandleTools, Answered
  <2> QED  BY <2>1
<1>4. CASE HandlerRaises \/ GatherRaises \/ ToolsRaise
  BY <1>4 DEF HandlerRaises, GatherRaises, ToolsRaise, turns
<1>5. CASE HandleInteracting
  BY <1>5 DEF HandleInteracting
<1>6. CASE Finish
  BY <1>6 DEF Finish, turns
<1>7. ASSUME NEW i \in DOMAIN calls, CallTool(i) PROVE TurnsInv'
  BY <1>7 DEF CallTool, RejectCall, CreateTool, ExecuteTool, ReleaseTool,
     RejectResponse, ReleaseRaises, CallStep, turns
<1>8. CASE Over \/ UNCHANGED vars
  BY <1>8 DEF Over, vars, turns
<1> QED
  BY <1>1, <1>2, <1>3, <1>4, <1>5, <1>6, <1>7, <1>8 DEF Next, Run

(* For all limits, the assistant takes at most one turn more than its maximum, *)
(* and tools and user no more than theirs (_handle_generating_state,           *)
(* lines 233-236).                                                             *)
THEOREM TurnsLimitedTheorem == Spec => []TurnsLimited
<1>1. Init => TurnsInv
  BY LimitAssumption DEF Init, TurnsInv, TurnsLimited
<1>2. TurnsInv /\ [Next]_vars => TurnsInv'
  BY TurnsStep
<1>3. TurnsInv => TurnsLimited
  BY DEF TurnsInv
<1> QED  BY <1>1, <1>2, <1>3, PTL DEF Spec

-----------------------------------------------------------------------------
(* The turns are the segments of the mask *)

StartsOf(m, b) == {i \in 1..Len(m) : m[i] = b /\ (i = 1 \/ m[i - 1] # b)}
EndsWith(m, b) == m # <<>> /\ m[Len(m)] = b

\* A run of another bit starts one segment, at its first place.
LEMMA SegmentStarts ==
    ASSUME NEW m \in Seq({0, 1}), NEW u \in Seq({0, 1}), NEW b \in {0, 1},
           NEW n \in Nat \ {0}, Grows(m, u, n, b), ~EndsWith(m, b)
    PROVE  /\ StartsOf(u, b) = StartsOf(m, b) \union {Len(m) + 1}
           /\ StartsOf(u, 1 - b) = StartsOf(m, 1 - b)
           /\ EndsWith(u, b) /\ ~EndsWith(u, 1 - b)
<1>1. /\ Len(m) \in Nat /\ Len(u) = Len(m) + n
      /\ \A i \in 1..Len(m) : u[i] = m[i]
      /\ \A i \in Len(m) + 1..Len(m) + n : u[i] = b
  BY DEF Grows
<1>2. m = <<>> \/ (Len(m) \in 1..Len(m) /\ m[Len(m)] # b)
  BY <1>1, EmptySeq DEF EndsWith
<1>3. m = <<>> => Len(m) = 0
  BY EmptySeq
<1>4. ASSUME NEW i \in 1..Len(m)
      PROVE  u[i] = m[i] /\ (i # 1 => u[i - 1] = m[i - 1])
  BY <1>1
<1>5. ASSUME NEW i \in Len(m) + 1..Len(m) + n
      PROVE  u[i] = b /\ (i # Len(m) + 1 => u[i - 1] = b)
  BY <1>1
<1>6. Len(m) + 1 = 1 \/ u[Len(m) + 1 - 1] # b
  BY <1>1, <1>2, <1>3
<1>7. 1..Len(u) = (1..Len(m)) \union (Len(m) + 1..Len(m) + n)
  BY <1>1
<1>8. StartsOf(u, b) = StartsOf(m, b) \union {Len(m) + 1}
  <2>1. ASSUME NEW i \in 1..Len(m)
        PROVE  i \in StartsOf(u, b) <=> i \in StartsOf(m, b)
    BY <1>1, <1>4, <1>7 DEF StartsOf
  <2>2. ASSUME NEW i \in Len(m) + 1..Len(m) + n
        PROVE  i \in StartsOf(u, b) <=> i = Len(m) + 1
    BY <1>1, <1>5, <1>6, <1>7 DEF StartsOf
  <2>3. StartsOf(u, b) \subseteq 1..Len(u) /\ StartsOf(m, b) \subseteq 1..Len(m)
        /\ Len(m) + 1 \in Len(m) + 1..Len(m) + n
    BY <1>1 DEF StartsOf
  <2> QED
    BY <1>1, <1>7, <2>1, <2>2, <2>3
<1>9. StartsOf(u, 1 - b) = StartsOf(m, 1 - b)
  <2>1. ASSUME NEW i \in 1..Len(m)
        PROVE  i \in StartsOf(u, 1 - b) <=> i \in StartsOf(m, 1 - b)
    BY <1>1, <1>4, <1>7 DEF StartsOf
  <2>2. ASSUME NEW i \in Len(m) + 1..Len(m) + n
        PROVE  i \notin StartsOf(u, 1 - b)
    BY <1>5 DEF StartsOf
  <2>3. StartsOf(u, 1 - b) \subseteq 1..Len(u) /\ StartsOf(m, 1 - b) \subseteq 1..Len(m)
    BY DEF StartsOf
  <2> QED
    BY <1>1, <1>7, <2>1, <2>2, <2>3
<1>10. u # <<>> /\ u[Len(u)] = b
  BY <1>1, EmptySeq
<1> QED
  BY <1>8, <1>9, <1>10 DEF EndsWith

\* Hence one more of these segments.
LEMMA SegmentCounted ==
    ASSUME NEW m \in Seq({0, 1}), NEW u \in Seq({0, 1}), NEW b \in {0, 1},
           NEW n \in Nat \ {0}, Grows(m, u, n, b), ~EndsWith(m, b)
    PROVE  /\ Cardinality(StartsOf(u, b)) = Cardinality(StartsOf(m, b)) + 1
           /\ Cardinality(StartsOf(u, 1 - b)) = Cardinality(StartsOf(m, 1 - b))
           /\ EndsWith(u, b) /\ ~EndsWith(u, 1 - b)
<1>1. /\ StartsOf(u, b) = StartsOf(m, b) \union {Len(m) + 1}
      /\ StartsOf(u, 1 - b) = StartsOf(m, 1 - b)
      /\ EndsWith(u, b) /\ ~EndsWith(u, 1 - b)
  BY SegmentStarts
<1>2. Len(m) \in Nat
  BY LenProperties
<1>3. IsFiniteSet(StartsOf(m, b)) /\ Len(m) + 1 \notin StartsOf(m, b)
  <2>1. IsFiniteSet(1..Len(m))
    BY <1>2, FS_Interval
  <2>2. StartsOf(m, b) \in SUBSET (1..Len(m))
    BY DEF StartsOf
  <2> QED
    BY <1>2, <2>1, <2>2, FS_Subset
<1> QED
  BY <1>1, <1>3, FS_AddElement

\* The model speaks where the mask does not end with its tokens, tools and user
\* answer where it does.
SegmentsInv ==
    /\ state # "raised" => /\ assistantTurns = Cardinality(StartsOf(mask, 1))
                           /\ userTurns = Cardinality(StartsOf(mask, 0))
    /\ state \in {"pending", "generating"} => ~EndsWith(mask, 1)
    /\ state \in {"tools", "interacting"} => ~EndsWith(mask, 0)

LEMMA ObserveCounted ==
    ASSUME TypeOK, SegmentsInv, state \in {"tools", "interacting"}, state' # "pending",
           state' \notin {"tools", "interacting"},
           \E n \in ObservedLengths : Observe(n),
           userTurns' = userTurns + 1, assistantTurns' = assistantTurns
    PROVE  SegmentsInv'
<1>1. PICK n \in ObservedLengths : mask' = mask \o Times(n, 0)
  BY DEF Observe
<1>2. n \in Nat \ {0} /\ mask \in Seq({0, 1}) /\ 0 \in {0, 1}
  BY LengthAssumption DEF TypeOK
<1>3. mask' \in Seq({0, 1}) /\ Grows(mask, mask', n, 0)
  BY <1>1, <1>2, GrownProperties
<1>4. /\ Cardinality(StartsOf(mask', 0)) = Cardinality(StartsOf(mask, 0)) + 1
      /\ Cardinality(StartsOf(mask', 1 - 0)) = Cardinality(StartsOf(mask, 1 - 0))
      /\ EndsWith(mask', 0) /\ ~EndsWith(mask', 1 - 0)
  BY <1>2, <1>3, SegmentCounted DEF SegmentsInv
<1>5. 1 - 0 = 1
  OBVIOUS
<1> QED
  BY <1>4, <1>5 DEF SegmentsInv

\* One step per action that appends to the mask.
LEMMA SegmentsStep == ASSUME LoopInv, SegmentsInv, [Next]_vars PROVE SegmentsInv'
<1>0. TypeOK
  BY DEF LoopInv
<1>1. CASE HandlePending
  BY <1>1 DEF HandlePending, SegmentsInv, turns
<1>2. CASE HandleGenerating
  <2>1. /\ state = "generating" /\ state' \in {"tools", "interacting", "terminated"}
        /\ assistantTurns' = assistantTurns + 1 /\ userTurns' = userTurns
        /\ \E n \in GenLengths : mask' = mask \o Times(n, 1)
    BY <1>2 DEF HandleGenerating, Generate
  <2>2. PICK n \in GenLengths : mask' = mask \o Times(n, 1)
    BY <2>1
  <2>3. n \in Nat \ {0} /\ mask \in Seq({0, 1}) /\ 1 \in {0, 1}
    BY <1>0, LengthAssumption DEF TypeOK
  <2>4. mask' \in Seq({0, 1}) /\ Grows(mask, mask', n, 1)
    BY <2>2, <2>3, GrownProperties
  <2>5. /\ Cardinality(StartsOf(mask', 1)) = Cardinality(StartsOf(mask, 1)) + 1
        /\ Cardinality(StartsOf(mask', 1 - 1)) = Cardinality(StartsOf(mask, 1 - 1))
        /\ EndsWith(mask', 1) /\ ~EndsWith(mask', 1 - 1)
    BY <2>1, <2>3, <2>4, SegmentCounted DEF SegmentsInv
  <2>6. 1 - 1 = 0
    OBVIOUS
  <2> QED
    BY <2>1, <2>5, <2>6 DEF SegmentsInv
<1>3. CASE HandleTools
  <2>1. /\ state = "tools" /\ assistantTurns' = assistantTurns
        /\ \/ state' = "terminated" /\ UNCHANGED <<mask, userTurns>>
           \/ /\ state' = "generating" /\ userTurns' = userTurns + 1
              /\ \E n \in ObservedLengths : Observe(n)
    BY <1>3 DEF HandleTools, Answered, lists
  <2>2. CASE state' = "terminated"
    BY <2>1, <2>2 DEF SegmentsInv
  <2>3. CASE state' = "generating"
    BY <1>0, <2>1, <2>3, ObserveCounted
  <2> QED
    BY <2>1, <2>2, <2>3
<1>4. CASE HandleInteracting
  BY <1>0, <1>4, ObserveCounted DEF HandleInteracting
<1>5. CASE HandlerRaises \/ GatherRaises \/ ToolsRaise \/ Finish
  BY <1>5 DEF HandlerRaises, GatherRaises, ToolsRaise, Finish, SegmentsInv, lists, turns
<1>6. ASSUME NEW i \in DOMAIN calls, CallTool(i) PROVE SegmentsInv'
  BY <1>6 DEF CallTool, RejectCall, CreateTool, ExecuteTool, ReleaseTool,
     RejectResponse, ReleaseRaises, CallStep,
     SegmentsInv, lists, turns
<1>7. CASE Over \/ UNCHANGED vars
  BY <1>7 DEF Over, vars, SegmentsInv, lists, turns
<1> QED
  BY <1>1, <1>2, <1>3, <1>4, <1>5, <1>6, <1>7 DEF Next, Run

(* For all lengths, limits and calls: the observations in the mask are the       *)
(* user_turns, and what the model said in between its assistant_turns, which      *)
(* num_turns adds up (run, lines 165-182).                                        *)
THEOREM TurnsAreSegmentsTheorem == Spec => []TurnsAreSegments
<1>1. Init => SegmentsInv
  <2>1. ASSUME Init PROVE StartsOf(mask, 0) = {} /\ StartsOf(mask, 1) = {}
    BY <2>1, EmptySeq DEF Init, StartsOf
  <2>2. Init => mask = <<>> /\ assistantTurns = 0 /\ userTurns = 0 /\ state = "pending"
    BY DEF Init
  <2> QED
    BY <2>1, <2>2, FS_EmptySet DEF SegmentsInv, EndsWith
<1>2. SegmentsInv => TurnsAreSegments
  BY DEF SegmentsInv, TurnsAreSegments, StartsOf
<1> QED
  BY <1>1, <1>2, AlignedInit, AlignedStep, SegmentsStep, PTL DEF Spec

-----------------------------------------------------------------------------
(* Progress: what the end of run rests on besides fairness. *)

(* Tokens the response may still take, the handlers the turn still goes through, *)
(* the steps each of its calls still takes.                                      *)
Room == IF Len(mask) < ResponseLength THEN ResponseLength - Len(mask) ELSE 0
Handlers ==
    [pending |-> 5, generating |-> 4, tools |-> 3, interacting |-> 3,
     terminated |-> 2, returned |-> 0, raised |-> 0]
CallSteps ==
    [new |-> 3, created |-> 2, executed |-> 1,
     answered |-> 0, failed |-> 0, unreleased |-> 0]

CallsAdvance ==
    /\ DOMAIN calls' = DOMAIN calls
    /\ \A i \in DOMAIN calls : CallSteps[calls'[i]] <= CallSteps[calls[i]]
    /\ \E i \in DOMAIN calls : CallSteps[calls'[i]] < CallSteps[calls[i]]

Advances ==
    \/ Room' < Room
    \/ /\ Room' = Room
       /\ \/ Handlers[state'] < Handlers[state]
          \/ state' = state /\ CallsAdvance

Bounded ==
    /\ Room \in Nat /\ Handlers[state] \in Nat
    /\ \A i \in DOMAIN calls : CallSteps[calls[i]] \in Nat

\* The user is asked only while the response has room.
RoomForUser == state = "interacting" => Len(mask) < ResponseLength

LEMMA TypeBounded == TypeOK => Bounded
<1> SUFFICES ASSUME TypeOK PROVE Bounded
  OBVIOUS
<1>1. Room \in Nat
  <2>1. Len(mask) \in Nat
    BY LenProperties DEF TypeOK
  <2> QED
    BY <2>1, LengthAssumption DEF Room
<1>2. Handlers[state] \in Nat
  BY DEF TypeOK, Handlers
<1>3. ASSUME NEW i \in DOMAIN calls PROVE CallSteps[calls[i]] \in Nat
  <2>1. calls[i] \in CallStates
    BY ElementOfSeq, LenProperties DEF TypeOK, CallStates
  <2> QED
    BY <2>1 DEF CallSteps, CallStates
<1> QED
  BY <1>1, <1>2, <1>3 DEF Bounded

\* A message that joins the mask takes room, while there is some.
LEMMA RoomTaken ==
    ASSUME TypeOK, NEW n \in Nat \ {0}, NEW b \in {0, 1}, mask' = mask \o Times(n, b)
    PROVE  /\ Len(mask) \in Nat /\ Len(mask') = Len(mask) + n
           /\ Len(mask) < ResponseLength => Room' < Room
           /\ Len(mask) >= ResponseLength => Room' = Room
<1>1. Len(mask) \in Nat /\ Len(mask') = Len(mask) + n
  <2>1. mask \in Seq({0, 1}) /\ n \in Nat
    BY DEF TypeOK
  <2>2. Grows(mask, mask \o Times(n, b), n, b)
    BY <2>1, GrownProperties
  <2> QED
    BY <2>2 DEF Grows
<1> QED
  BY <1>1, LengthAssumption DEF Room

LEMMA RoomStep == ASSUME TypeOK, RoomForUser, [Next]_vars PROVE RoomForUser'
<1>1. CASE HandleGenerating
  <2>1. PICK n \in GenLengths :
             /\ mask' = mask \o Times(n, 1)
             /\ state' = "interacting" => Len(mask) + n < ResponseLength
    BY <1>1 DEF HandleGenerating, Generate
  <2>2. Len(mask') = Len(mask) + n
    BY <2>1, RoomTaken, LengthAssumption
  <2> QED
    BY <2>1, <2>2 DEF RoomForUser
<1>2. CASE state' # "interacting" \/ UNCHANGED <<state, mask>>
  BY <1>2 DEF RoomForUser
<1> QED
  BY <1>1, <1>2
     DEF Next, Run, Over, HandlePending, HandlerRaises, HandleTools, GatherRaises,
         ToolsRaise, HandleInteracting, Finish, CallTool, RejectCall, CreateTool,
         ExecuteTool, ReleaseTool, RejectResponse, ReleaseRaises, CallStep, lists, vars

LEMMA CallAdvances == ASSUME TypeOK, NEW i \in DOMAIN calls, CallTool(i) PROVE Advances
<1>1. PICK from, to \in CallStates :
           CallStep(i, from, to) /\ CallSteps[to] < CallSteps[from]
  BY DEF CallTool, RejectCall, CreateTool, ExecuteTool, ReleaseTool, RejectResponse,
     ReleaseRaises, CallSteps, CallStates
<1>2. /\ calls[i] = from /\ calls' = [calls EXCEPT ![i] = to]
      /\ UNCHANGED <<state, mask>>
  BY <1>1 DEF CallStep, lists
<1>3. \A k \in DOMAIN calls : CallSteps[calls[k]] \in Nat
  BY TypeBounded DEF Bounded
<1>4. /\ DOMAIN calls' = DOMAIN calls /\ calls'[i] = to
      /\ \A k \in DOMAIN calls : k # i => calls'[k] = calls[k]
  BY <1>2
<1>5. CallsAdvance
  <2>1. CallSteps[calls'[i]] < CallSteps[calls[i]]
    BY <1>1, <1>2, <1>4
  <2>2. ASSUME NEW k \in DOMAIN calls PROVE CallSteps[calls'[k]] <= CallSteps[calls[k]]
    <3>1. CallSteps[calls[k]] \in Nat /\ CallSteps[to] \in Nat
      BY <1>3 DEF CallSteps, CallStates
    <3>2. CASE k = i
      BY <1>4, <2>1, <3>1, <3>2
    <3>3. CASE k # i
      BY <1>4, <3>1, <3>3
    <3> QED
      BY <3>2, <3>3
  <2> QED
    BY <1>4, <2>1, <2>2 DEF CallsAdvance
<1> QED
  BY <1>2, <1>5 DEF Advances, Room

LEMMA NextAdvances == TypeOK /\ RoomForUser /\ [Next]_vars => [Advances]_vars
<1> SUFFICES ASSUME TypeOK, RoomForUser, Next PROVE Advances \/ UNCHANGED vars
  OBVIOUS
<1>0. Len(mask) \in Nat /\ ResponseLength \in Nat
      /\ \A n \in GenLengths \cup ObservedLengths : n \in Nat \ {0}
  BY LenProperties, LengthAssumption DEF TypeOK
<1>1. CASE HandlePending \/ GatherRaises \/ ToolsRaise \/ Finish
  BY <1>1 DEF HandlePending, GatherRaises, ToolsRaise, Answered, Finish, Advances, Handlers,
     Room, lists
<1>2. CASE HandleGenerating
  <2>1. PICK n \in GenLengths :
             /\ mask' = mask \o Times(n, 1)
             /\ state = "generating"
             /\ Len(mask) + n >= ResponseLength => state' = "terminated"
    <3>1. PICK n \in GenLengths, k \in CallCounts :
               /\ mask' = mask \o Times(n, 1)
               /\ \/ state' = "terminated"
                  \/ Len(mask) + n < ResponseLength
      BY <1>2 DEF HandleGenerating, Generate
    <3>2. state = "generating" /\ n \in Nat
      BY <1>0, <1>2 DEF HandleGenerating
    <3> QED
      BY <1>0, <3>1, <3>2
  <2>2. CASE Len(mask) < ResponseLength
    BY <1>0, <2>1, <2>2, RoomTaken DEF Advances
  <2>3. CASE Len(mask) >= ResponseLength
    <3>1. state' = "terminated"
      <4>1. n \in Nat
        BY <1>0
      <4> QED
        BY <1>0, <2>1, <2>3, <4>1
    <3>2. Room' = Room
      BY <1>0, <2>1, <2>3, RoomTaken
    <3> QED
      BY <2>1, <3>1, <3>2 DEF Advances, Handlers
  <2> QED
    BY <1>0, <2>2, <2>3
<1>3. CASE HandleTools
  <2>1. PICK n \in ObservedLengths :
             \/ state' = "terminated" /\ mask' = mask
             \/ Len(mask) + n < ResponseLength /\ mask' = mask \o Times(n, 0)
    BY <1>3 DEF HandleTools, Observe, lists
  <2>2. CASE state' = "terminated" /\ mask' = mask
    BY <1>3, <2>2 DEF HandleTools, Answered, Advances, Handlers, Room
  <2>3. CASE Len(mask) + n < ResponseLength /\ mask' = mask \o Times(n, 0)
    <3>1. Len(mask) < ResponseLength
      BY <1>0, <2>3
    <3> QED
      BY <1>0, <2>3, <3>1, RoomTaken DEF Advances
  <2> QED
    BY <2>1, <2>2, <2>3
<1>4. CASE HandleInteracting
  <2>1. PICK n \in ObservedLengths : mask' = mask \o Times(n, 0)
    BY <1>4 DEF HandleInteracting, Observe
  <2>2. Len(mask) < ResponseLength
    BY <1>4 DEF HandleInteracting, RoomForUser
  <2> QED
    BY <1>0, <2>1, <2>2, RoomTaken DEF Advances
<1>5. ASSUME NEW i \in DOMAIN calls, CallTool(i) PROVE Advances
  BY <1>5, CallAdvances
<1>6. CASE HandlerRaises
  <2>1. state \in {"pending", "generating", "interacting"} /\ state' = "raised"
    BY <1>6 DEF HandlerRaises
  <2>2. CASE UNCHANGED lists
    BY <2>1, <2>2 DEF Advances, Handlers, Room, lists
  <2>3. ASSUME NEW n \in GenLengths, Len(mask) + n < ResponseLength, Generate(n)
        PROVE  Advances
    <3>1. mask' = mask \o Times(n, 1) /\ Len(mask) < ResponseLength /\ n \in Nat \ {0}
      BY <1>0, <2>3 DEF Generate
    <3> QED
      BY <3>1, RoomTaken DEF Advances
  <2> QED
    BY <1>6, <2>2, <2>3 DEF HandlerRaises
<1> QED
  BY <1>1, <1>2, <1>3, <1>4, <1>5, <1>6 DEF Next, Run, Over

(* No trajectory is endless, whatever limits of turns are set: every step takes   *)
(* room of the response, ends a handler, or lets a call of this turn get further  *)
(* (run; _handle_generating_state, lines 247-252; _handle_processing_tools_state). *)
THEOREM EveryStepAdvances == Spec => []Bounded /\ [][Advances]_vars
<1>1. LoopInv => TypeOK /\ Bounded
  BY TypeBounded DEF LoopInv
<1>2. Init => RoomForUser
  BY DEF Init, RoomForUser
<1> QED
  BY <1>1, <1>2, AlignedInit, AlignedStep, RoomStep, NextAdvances, PTL DEF Spec
=============================================================================
