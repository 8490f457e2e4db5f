------------------------- MODULE ServerManager_proofs -------------------------
(***************************************************************************)
(* Load balance for every number of managers, servers, trajectories and     *)
(* turns, and every size of the cache; and the session that sticks to a     *)
(* server where the cache holds all trajectories of its manager.            *)
(***************************************************************************)
EXTENDS ServerManager, SequenceTheorems, FiniteSetTheorems, TLAPS

\* The counts are numbers, and balanced.
CountInv ==
    /\ count \in [Managers -> [Servers -> Nat]]
    /\ Balanced

\* Only a miss of the cache counts, and it takes the top of its manager's heap.
LEMMA CountStep == ASSUME CountInv, [Next]_vars PROVE CountInv'
<1> USE DEF CountInv, Balanced
<1>1. ASSUME NEW r \in Requests, ChooseLeast(r) PROVE CountInv'
  <2>1. Home[r] \in Managers  BY ManagerAssumption
  <2>2. PICK s \in Servers :
            /\ Least(Home[r], s)
            /\ count' = [count EXCEPT ![Home[r]][s] = @ + 1]
    BY <1>1 DEF ChooseLeast
  <2>3. \A t \in Servers : count[Home[r]][s] <= count[Home[r]][t]
    BY <2>1, <2>2 DEF Least
  <2>4. count' \in [Managers -> [Servers -> Nat]]
    BY <2>1, <2>2
  <2>5. ASSUME NEW m \in Managers, NEW t \in Servers
        PROVE  count'[m][t] = IF m = Home[r] /\ t = s THEN count[m][t] + 1
                                                      ELSE count[m][t]
    BY <2>1, <2>2
  <2>6. Balanced'
    <3> SUFFICES ASSUME NEW m \in Managers, NEW x \in Servers, NEW y \in Servers
                 PROVE  count'[m][x] <= count'[m][y] + 1
      OBVIOUS
    <3>1. count[m][x] \in Nat /\ count[m][y] \in Nat /\ count[m][x] <= count[m][y] + 1
      OBVIOUS
    <3>2. CASE m = Home[r] /\ x = s
      BY <2>3, <2>5, <3>1, <3>2
    <3>3. CASE ~(m = Home[r] /\ x = s)
      BY <2>5, <3>1, <3>3
    <3> QED  BY <3>2, <3>3
  <2> QED  BY <2>4, <2>6
<1>2. ASSUME NEW r \in Requests, ChooseCached(r) \/ Receive(r) PROVE CountInv'
  BY <1>2 DEF ChooseCached, Receive
<1>3. CASE Over \/ UNCHANGED vars
  BY <1>3 DEF Over, vars
<1> QED  BY <1>1, <1>2, <1>3 DEF Next

(* "least requests load balancing": at every manager the assignments to any   *)
(* two servers differ by at most one, whatever the cache does                 *)
(* (_choose_server, lines 74-83).                                             *)
THEOREM BalancedTheorem == Spec => []Balanced
<1>1. Init => CountInv  BY DEF Init, CountInv, Balanced
<1>2. CountInv /\ [Next]_vars => CountInv'  BY CountStep
<1>3. CountInv => Balanced  BY DEF CountInv
<1> QED  BY <1>1, <1>2, <1>3, PTL DEF Spec

-----------------------------------------------------------------------------
(* Sticky sessions *)

Entry == [request : Requests, server : Servers]
Names(c) == {c[i].request : i \in DOMAIN c}

LEMMA EntriesOf ==
    ASSUME NEW c \in Seq(Entry)
    PROVE  \A i \in DOMAIN c : c[i] \in Entry /\ c[i].request \in Requests
<1>1. \A i \in DOMAIN c : c[i] \in Entry
  BY LenProperties, ElementOfSeq
<1> QED
  BY <1>1 DEF Entry

\* What a hit does to the cache: the entries are permuted.
Shift(n, k) == [i \in 1..n |-> IF i < k THEN i ELSE IF i < n THEN i + 1 ELSE k]

LEMMA TouchPermutes ==
    ASSUME NEW m, cache[m] \in Seq(Entry), NEW k \in DOMAIN cache[m]
    PROVE  /\ Touched(m, k) \in Seq(Entry)
           /\ Len(Touched(m, k)) = Len(cache[m])
           /\ \A i \in 1..Len(cache[m]) :
                 Touched(m, k)[i] = cache[m][Shift(Len(cache[m]), k)[i]]
<1> DEFINE c == cache[m]
           n == Len(c)
           front == SubSeq(c, 1, k - 1)
           back  == SubSeq(c, k + 1, n)
<1>1. n \in Nat /\ DOMAIN c = 1..n /\ k \in 1..n /\ \A i \in 1..n : c[i] \in Entry
  BY LenProperties, ElementOfSeq
<1>2. /\ front \in Seq(Entry) /\ Len(front) = k - 1
      /\ \A i \in 1..k - 1 : front[i] = c[i]
  <2>1. 1 \in Int /\ k - 1 \in Int /\ \A i \in 1..k - 1 : c[i] \in Entry
    BY <1>1
  <2>2. /\ front \in Seq(Entry)
        /\ Len(front) = IF 1 <= k - 1 THEN (k - 1) - 1 + 1 ELSE 0
        /\ \A i \in 1..(k - 1) - 1 + 1 : front[i] = c[1 + i - 1]
    BY <2>1, SubSeqProperties
  <2> HIDE DEF front
  <2>3. Len(front) = k - 1
    BY <1>1, <2>2
  <2> QED
    BY <1>1, <2>2, <2>3
<1>3. /\ back \in Seq(Entry) /\ Len(back) = n - k
      /\ \A i \in 1..n - k : back[i] = c[k + i]
  <2>1. k + 1 \in Int /\ n \in Int /\ \A i \in k + 1..n : c[i] \in Entry
    BY <1>1
  <2>2. /\ back \in Seq(Entry)
        /\ Len(back) = IF k + 1 <= n THEN n - (k + 1) + 1 ELSE 0
        /\ \A i \in 1..n - (k + 1) + 1 : back[i] = c[(k + 1) + i - 1]
    <3>1. ASSUME NEW a \in Int, NEW b \in Int, NEW d, \A i \in a..b : d[i] \in Entry
          PROVE  /\ SubSeq(d, a, b) \in Seq(Entry)
                 /\ Len(SubSeq(d, a, b)) = IF a <= b THEN b - a + 1 ELSE 0
                 /\ \A i \in 1..b - a + 1 : SubSeq(d, a, b)[i] = d[a + i - 1]
      BY <3>1, SubSeqProperties
    <3> QED
      BY <2>1, <3>1
  <2> HIDE DEF back
  <2>3. Len(back) = n - k
    BY <1>1, <2>2
  <2>4. ASSUME NEW i \in 1..n - k PROVE back[i] = c[k + i]
    <3>1. i \in 1..n - (k + 1) + 1 /\ (k + 1) + i - 1 = k + i
      BY <1>1
    <3>2. back[i] = c[(k + 1) + i - 1]
      BY <2>2, <3>1
    <3> QED
      BY <3>1, <3>2
  <2> QED
    BY <2>2, <2>3, <2>4
<1> DEFINE rest == front \o back
<1> HIDE DEF front, back
<1>4. /\ rest \in Seq(Entry) /\ Len(rest) = Len(front) + Len(back)
      /\ \A i \in 1..Len(front) + Len(back) :
            rest[i] = IF i <= Len(front) THEN front[i] ELSE back[i - Len(front)]
  BY <1>2, <1>3, ConcatProperties
<1> HIDE DEF rest
<1>5. Len(rest) = n - 1
  BY <1>1, <1>2, <1>3, <1>4
<1>6. ASSUME NEW i \in 1..n - 1
      PROVE  rest[i] = c[IF i < k THEN i ELSE i + 1]
  <2>1. CASE i < k
    BY <1>1, <1>2, <1>3, <1>4, <2>1
  <2>2. CASE ~(i < k)
    <3>1. i - (k - 1) \in 1..n - k /\ k + (i - (k - 1)) = i + 1
      BY <1>1, <2>2
    <3>2. rest[i] = back[i - (k - 1)]
      <4>1. Len(front) = k - 1 /\ i \in 1..Len(front) + Len(back)
        BY <1>1, <1>2, <1>3
      <4>2. ~(i <= Len(front))
        BY <1>1, <4>1, <2>2
      <4> QED
        BY <1>4, <4>1, <4>2
    <3> QED
      BY <1>3, <2>2, <3>1, <3>2
  <2> QED
    BY <2>1, <2>2
<1>7. Touched(m, k) = Append(rest, c[k])
  BY DEF Touched, RemoveAt, rest, front, back
<1>8. /\ Append(rest, c[k]) \in Seq(Entry) /\ Len(Append(rest, c[k])) = Len(rest) + 1
      /\ \A i \in 1..Len(rest) : Append(rest, c[k])[i] = rest[i]
      /\ Append(rest, c[k])[Len(rest) + 1] = c[k]
  <2> DEFINE e == c[k]
  <2>1. e \in Entry /\ rest \in Seq(Entry)
    BY <1>1, <1>4
  <2> HIDE DEF e
  <2>2. /\ Append(rest, e) \in Seq(Entry) /\ Len(Append(rest, e)) = Len(rest) + 1
        /\ \A i \in 1..Len(rest) : Append(rest, e)[i] = rest[i]
        /\ Append(rest, e)[Len(rest) + 1] = e
    BY <2>1, AppendProperties
  <2> QED
    BY <2>2 DEF e
<1>9. ASSUME NEW i \in 1..n
      PROVE  Append(rest, c[k])[i] = c[Shift(n, k)[i]]
  <2>1. CASE i = n
    BY <1>1, <1>5, <1>8, <2>1 DEF Shift
  <2>2. CASE i # n
    <3>1. i \in 1..n - 1
      BY <1>1, <2>2
    <3>2. Append(rest, c[k])[i] = c[IF i < k THEN i ELSE i + 1]
      BY <1>5, <1>6, <1>8, <3>1
    <3> QED
      BY <1>1, <3>1, <3>2 DEF Shift
  <2> QED
    BY <2>1, <2>2
<1>10. Len(Append(rest, c[k])) = n
  BY <1>1, <1>5, <1>8
<1> QED
  BY <1>7, <1>8, <1>9, <1>10

\* The entries of a permuted cache are those it had, none twice.
Distinct(c) == \A i, j \in DOMAIN c : c[i].request = c[j].request => i = j

LEMMA TouchKeeps ==
    ASSUME NEW m, cache[m] \in Seq(Entry), NEW k \in DOMAIN cache[m], Distinct(cache[m])
    PROVE  /\ Distinct(Touched(m, k))
           /\ \A i \in DOMAIN Touched(m, k) :
                 \E j \in DOMAIN cache[m] : Touched(m, k)[i] = cache[m][j]
           /\ Names(cache[m]) \subseteq Names(Touched(m, k))
<1> DEFINE c == cache[m]
           n == Len(c)
           t == Touched(m, k)
<1>1. n \in Nat /\ DOMAIN c = 1..n /\ k \in 1..n
  BY LenProperties
<1>2. /\ t \in Seq(Entry) /\ Len(t) = n /\ DOMAIN t = 1..n
      /\ \A i \in 1..n : t[i] = c[Shift(n, k)[i]]
  BY TouchPermutes, LenProperties
<1>0. Distinct(c)
  OBVIOUS
<1> HIDE DEF c, n, t
<1>3. /\ \A i \in 1..n : Shift(n, k)[i] \in 1..n
      /\ \A i, j \in 1..n : Shift(n, k)[i] = Shift(n, k)[j] => i = j
      /\ \A j \in 1..n : \E i \in 1..n : Shift(n, k)[i] = j
  <2>1. \A i \in 1..n : Shift(n, k)[i] = IF i < k THEN i ELSE IF i < n THEN i + 1 ELSE k
    BY DEF Shift
  <2>2. \A i \in 1..n : Shift(n, k)[i] \in 1..n
    BY <1>1, <2>1
  <2>3. \A i, j \in 1..n : Shift(n, k)[i] = Shift(n, k)[j] => i = j
    BY <1>1, <2>1
  <2>4. ASSUME NEW j \in 1..n PROVE \E i \in 1..n : Shift(n, k)[i] = j
    <3>1. CASE j < k
      BY <1>1, <2>1, <3>1
    <3>2. CASE j = k
      <4>1. n \in 1..n /\ Shift(n, k)[n] = k
        BY <1>1, <2>1
      <4> QED
        BY <3>2, <4>1
    <3>3. CASE j > k
      <4>1. j - 1 \in 1..n /\ ~(j - 1 < k) /\ j - 1 < n
        BY <1>1, <3>3
      <4>2. Shift(n, k)[j - 1] = j
        BY <2>1, <4>1
      <4> QED
        BY <4>1, <4>2
    <3> QED
      BY <1>1, <3>1, <3>2, <3>3
  <2> QED
    BY <2>2, <2>3, <2>4
<1>4. Distinct(t)
  <2> SUFFICES ASSUME NEW i \in 1..n, NEW j \in 1..n, t[i].request = t[j].request
               PROVE  i = j
    BY <1>2 DEF Distinct
  <2> DEFINE a == Shift(n, k)[i]
             b == Shift(n, k)[j]
  <2>1. a \in 1..n /\ b \in 1..n /\ t[i] = c[a] /\ t[j] = c[b] /\ (a = b => i = j)
    BY <1>2, <1>3, Zenon
  <2> HIDE DEF a, b
  <2> QED
    BY <1>0, <1>1, <2>1 DEF Distinct
<1>5. \A i \in DOMAIN t : \E j \in DOMAIN c : t[i] = c[j]
  <2>1. DOMAIN t = 1..n /\ DOMAIN c = 1..n
    BY <1>1, <1>2, Zenon
  <2>2. \A i \in 1..n : Shift(n, k)[i] \in 1..n /\ t[i] = c[Shift(n, k)[i]]
    BY <1>2, <1>3, Zenon
  <2> QED
    BY <2>1, <2>2, Zenon
<1>6. Names(c) \subseteq Names(t)
  <2> SUFFICES ASSUME NEW j \in 1..n PROVE c[j].request \in Names(t)
    BY <1>1 DEF Names
  <2>1. PICK i \in 1..n : Shift(n, k)[i] = j
    BY <1>3
  <2>2. t[i] = c[j]
    BY <1>2, <2>1
  <2> QED
    BY <1>2, <2>2 DEF Names
<1> QED
  BY <1>4, <1>5, <1>6 DEF c, t

\* A cache of distinct trajectories, one of which is left out, has room for it.
LEMMA RoomForOne ==
    ASSUME NEW c \in Seq(Entry), Distinct(c), NEW S, IsFiniteSet(S),
           Names(c) \subseteq S, NEW r \in S, r \notin Names(c)
    PROVE  Len(c) < Cardinality(S) /\ Len(c) \in Nat /\ Cardinality(S) \in Nat
<1> DEFINE n == Len(c)
           f == [i \in 1..n |-> c[i].request]
<1>1. n \in Nat /\ DOMAIN c = 1..n
  BY LenProperties
<1>2. IsFiniteSet(S \ {r}) /\ Cardinality(S \ {r}) = Cardinality(S) - 1
  BY FS_RemoveElement
<1>3. f \in Injection(1..n, S \ {r})
  <2>1. \A i \in 1..n : f[i] = c[i].request /\ f[i] \in S \ {r}
    BY <1>1 DEF Names
  <2>2. \A i, j \in 1..n : f[i] = f[j] => i = j
    BY <1>1, <2>1 DEF Distinct
  <2>3. f \in [1..n -> S \ {r}]
    BY <2>1
  <2> HIDE DEF f, n
  <2> QED
    BY <2>2, <2>3 DEF Injection, IsInjective
<1>4. IsFiniteSet(1..n) /\ Cardinality(1..n) <= Cardinality(S \ {r})
  BY <1>2, <1>3, FS_Injection
<1>5. Cardinality(1..n) = n
  <2>1. \A b \in Nat : 1 \in Int /\ b \in Int /\ (IF 1 > b THEN 0 ELSE b - 1 + 1) = b
    OBVIOUS
  <2>2. \A b \in Nat : Cardinality(1..b) = IF 1 > b THEN 0 ELSE b - 1 + 1
    BY <2>1, FS_Interval
  <2> QED
    BY <1>1, <2>1, <2>2, Zenon
<1>6. Cardinality(S) \in Nat
  BY FS_CardinalityType
<1> QED
  BY <1>1, <1>2, <1>4, <1>5, <1>6

\* Where the cache holds all of a manager's trajectories, it has an entry for each
\* that was sent somewhere, and only to the server of that entry.
Tenants(m) == {x \in Requests : Home[x] = m}
Roomy(m) == Cardinality(Tenants(m)) <= CacheSize

StickyInv ==
    /\ cache \in [Managers -> Seq(Entry)]
    /\ visited \in [Requests -> SUBSET Servers]
    /\ \A m \in Managers : Roomy(m) =>
          /\ Distinct(cache[m])
          /\ \A i \in DOMAIN cache[m] :
                /\ Home[cache[m][i].request] = m
                /\ visited[cache[m][i].request] = {cache[m][i].server}
          /\ \A r \in Tenants(m) : visited[r] # {} => r \in Names(cache[m])

\* A hit sends the trajectory where it was.
LEMMA HitSticks ==
    ASSUME StickyInv, NEW r \in Requests, ChooseCached(r) PROVE StickyInv'
<1> DEFINE m == Home[r]
<1>1. m \in Managers /\ cache[m] \in Seq(Entry)
  BY ManagerAssumption DEF StickyInv
<1>2. PICK k \in DOMAIN cache[m] :
          /\ cache[m][k].request = r
          /\ visited' = [visited EXCEPT ![r] = @ \union {cache[m][k].server}]
          /\ cache' = [cache EXCEPT ![m] = Touched(m, k)]
  BY DEF ChooseCached, Send
<1>3. cache[m][k] \in Entry
  BY <1>1, LenProperties, ElementOfSeq
<1>4. cache' \in [Managers -> Seq(Entry)] /\ visited' \in [Requests -> SUBSET Servers]
  BY <1>1, <1>2, <1>3, TouchPermutes DEF StickyInv, Entry
<1>5. ASSUME NEW x \in Managers, Roomy(x)
      PROVE  /\ Distinct(cache'[x])
             /\ \A i \in DOMAIN cache'[x] :
                   /\ Home[cache'[x][i].request] = x
                   /\ visited'[cache'[x][i].request] = {cache'[x][i].server}
             /\ \A y \in Tenants(x) : visited'[y] # {} => y \in Names(cache'[x])
  <2>1. CASE x = m
    <3>1. visited' = visited
      BY <1>2, <1>5, <2>1 DEF StickyInv
    <3>2. /\ Distinct(Touched(m, k))
          /\ \A i \in DOMAIN Touched(m, k) :
                \E j \in DOMAIN cache[m] : Touched(m, k)[i] = cache[m][j]
          /\ Names(cache[m]) \subseteq Names(Touched(m, k))
      BY <1>1, <1>5, <2>1, TouchKeeps DEF StickyInv
    <3>3. cache'[x] = Touched(m, k)
      BY <1>1, <1>2, <2>1 DEF StickyInv
    <3> DEFINE t == Touched(m, k)
    <3> HIDE DEF t
    <3>4. \A i \in DOMAIN cache[m] :
             /\ Home[cache[m][i].request] = m
             /\ visited[cache[m][i].request] = {cache[m][i].server}
      BY <1>5, <2>1 DEF StickyInv
    <3>5. \A i \in DOMAIN t :
             /\ Home[t[i].request] = m
             /\ visited'[t[i].request] = {t[i].server}
      BY <3>1, <3>2, <3>4 DEF t
    <3>6. \A y \in Tenants(m) : visited[y] # {} => y \in Names(cache[m])
      BY <1>5, <2>1 DEF StickyInv
    <3>7. \A y \in Tenants(m) : visited'[y] # {} => y \in Names(t)
      BY <3>1, <3>2, <3>6 DEF t
    <3> QED
      BY <2>1, <3>2, <3>3, <3>5, <3>7 DEF t
  <2>2. CASE x # m
    <3>1. cache'[x] = cache[x]
      BY <1>2, <2>2 DEF StickyInv
    <3>2. \A y \in Requests : Home[y] = x => visited'[y] = visited[y]
      BY <1>2, <2>2 DEF StickyInv
    <3>3. \A i \in DOMAIN cache[x] : cache[x][i].request \in Requests
      BY EntriesOf DEF StickyInv
    <3> QED
      BY <1>5, <3>1, <3>2, <3>3 DEF StickyInv, Tenants
  <2> QED
    BY <2>1, <2>2
<1> QED
  BY <1>4, <1>5 DEF StickyInv, Roomy, Tenants

\* A miss finds room in the cache where it holds all, and is the first turn.
LEMMA MissSticks ==
    ASSUME StickyInv, NEW r \in Requests, ChooseLeast(r) PROVE StickyInv'
<1> DEFINE m == Home[r]
<1>1. m \in Managers /\ cache[m] \in Seq(Entry) /\ CacheSize \in Nat \ {0}
  BY ManagerAssumption DEF StickyInv
<1>2. PICK s \in Servers :
          /\ visited' = [visited EXCEPT ![r] = @ \union {s}]
          /\ cache' = [cache EXCEPT ![m] = Inserted(m, [request |-> r, server |-> s])]
  BY DEF ChooseLeast, Send
<1>3. r \notin Names(cache[m])
  BY DEF ChooseLeast, CachedBy, Names
<1> DEFINE e == [request |-> r, server |-> s]
<1>4. e \in Entry /\ e.request = r /\ e.server = s
  BY DEF Entry
<1> HIDE DEF e
<1>5. Inserted(m, e) \in Seq(Entry)
  <2>1. cache[m] # <<>> => Tail(cache[m]) \in Seq(Entry)
    BY <1>1, HeadTailProperties
  <2>2. Len(cache[m]) < CacheSize \/ cache[m] # <<>>
    BY <1>1, EmptySeq
  <2> QED
    BY <1>1, <1>4, <2>1, <2>2, AppendProperties DEF Inserted
<1>6. cache'[m] = Inserted(m, e) /\ \A x \in Managers : x # m => cache'[x] = cache[x]
  BY <1>1, <1>2 DEF StickyInv, e
<1>7. cache' \in [Managers -> Seq(Entry)] /\ visited' \in [Requests -> SUBSET Servers]
  BY <1>1, <1>2, <1>5 DEF StickyInv, e
<1>8. ASSUME NEW x \in Managers, Roomy(x)
      PROVE  /\ Distinct(cache'[x])
             /\ \A i \in DOMAIN cache'[x] :
                   /\ Home[cache'[x][i].request] = x
                   /\ visited'[cache'[x][i].request] = {cache'[x][i].server}
             /\ \A y \in Tenants(x) : visited'[y] # {} => y \in Names(cache'[x])
  <2>0. \A i \in DOMAIN cache[x] : cache[x][i] \in Entry /\ cache[x][i].request \in Requests
    BY EntriesOf DEF StickyInv
  <2>1. CASE x = m
    <3> DEFINE c == cache[m]
               n == Len(c)
    <3>1. /\ Distinct(c)
          /\ \A i \in DOMAIN c : Home[c[i].request] = m /\ visited[c[i].request] = {c[i].server}
          /\ \A y \in Tenants(m) : visited[y] # {} => y \in Names(c)
      BY <1>8, <2>1 DEF StickyInv
    <3>2. Names(c) \subseteq Tenants(m) /\ r \in Tenants(m)
      BY <2>0, <2>1, <3>1 DEF Names, Tenants
    <3>3. IsFiniteSet(Tenants(m))
      <4>1. IsFiniteSet(Requests) /\ Tenants(m) \in SUBSET Requests
        BY ManagerAssumption DEF Tenants
      <4> QED
        BY <4>1, FS_Subset
    <3>4. n < CacheSize /\ n \in Nat
      <4>1. n < Cardinality(Tenants(m)) /\ n \in Nat /\ Cardinality(Tenants(m)) \in Nat
        BY <1>1, <1>3, <3>1, <3>2, <3>3, RoomForOne
      <4> QED
        BY <1>1, <1>8, <2>1, <4>1 DEF Roomy
    <3>5. cache'[x] = Append(c, e)
      BY <1>6, <2>1, <3>4 DEF Inserted
    <3>6. visited[r] = {}
      BY <1>3, <3>1, <3>2
    <3>7. visited'[r] = {s} /\ \A y \in Requests : y # r => visited'[y] = visited[y]
      BY <1>2, <3>6 DEF StickyInv
    <3> DEFINE t == Append(c, e)
    <3>8. /\ DOMAIN c = 1..n /\ DOMAIN t = 1..n + 1
          /\ \A i \in 1..n : t[i] = c[i]
          /\ t[n + 1] = e
      <4>1. t \in Seq(Entry) /\ Len(t) = n + 1
            /\ (\A i \in 1..n : t[i] = c[i]) /\ t[n + 1] = e
        BY <1>1, <1>4, AppendProperties
      <4> QED
        BY <1>1, <4>1, LenProperties
    <3> HIDE DEF c, n, t
    <3>9. \A i \in 1..n + 1 : i \in 1..n \/ i = n + 1
      BY <3>4
    <3>10. \A i \in 1..n : t[i] = c[i] /\ c[i].request \in Names(c) /\ c[i].request # r
      BY <1>3, <3>8 DEF Names, c
    <3>11. Distinct(t)
      <4> SUFFICES ASSUME NEW i \in 1..n + 1, NEW j \in 1..n + 1,
                          t[i].request = t[j].request
                   PROVE  i = j
        BY <3>8 DEF Distinct
      <4> QED
        BY <1>4, <3>1, <3>8, <3>9, <3>10 DEF Distinct
    <3>12. ASSUME NEW i \in DOMAIN t
           PROVE  Home[t[i].request] = m /\ visited'[t[i].request] = {t[i].server}
      <4>1. CASE i \in 1..n
        <5>1. t[i] = c[i] /\ c[i].request # r /\ c[i].request \in Requests
          BY <2>0, <2>1, <3>8, <3>10, <4>1 DEF c
        <5> QED
          BY <3>1, <3>7, <3>8, <4>1, <5>1
      <4>2. CASE i = n + 1
        BY <1>4, <3>7, <3>8, <4>2
      <4> QED
        BY <3>8, <3>9, <4>1, <4>2
    <3>13. \A y \in Tenants(m) : visited'[y] # {} => y \in Names(t)
      <4> SUFFICES ASSUME NEW y \in Tenants(m), visited'[y] # {} PROVE y \in Names(t)
        OBVIOUS
      <4>1. CASE y = r
        <5>1. n + 1 \in DOMAIN t
          BY <3>4, <3>8
        <5> QED
          BY <1>4, <3>8, <4>1, <5>1 DEF Names
      <4>2. CASE y # r
        <5>1. y \in Names(c)
          BY <3>1, <3>7, <4>2 DEF Tenants
        <5>2. PICK i \in 1..n : c[i].request = y
          BY <3>8, <5>1 DEF Names
        <5>3. i \in DOMAIN t /\ t[i].request = y
          BY <3>4, <3>8, <5>2
        <5> QED
          BY <5>3 DEF Names
      <4> QED
        BY <4>1, <4>2
    <3> QED
      BY <2>1, <3>5, <3>11, <3>12, <3>13 DEF t
  <2>2. CASE x # m
    <3>1. cache'[x] = cache[x]
      BY <1>6, <2>2
    <3>2. \A y \in Requests : Home[y] = x => visited'[y] = visited[y]
      BY <1>2, <2>2 DEF StickyInv
    <3> QED
      BY <1>8, <2>0, <3>1, <3>2 DEF StickyInv, Tenants
  <2> QED
    BY <2>1, <2>2
<1> QED
  BY <1>7, <1>8 DEF StickyInv, Roomy, Tenants

(* A trajectory whose manager has no more of them than its cache holds goes to  *)
(* one server in all of its turns (_choose_server, lines 75-82).                *)
THEOREM StickyTheorem == Spec => []Sticky
<1>1. Init => StickyInv
  <2>1. ASSUME Init PROVE cache \in [Managers -> Seq(Entry)] /\ visited \in [Requests -> SUBSET Servers]
    BY <2>1, EmptySeq DEF Init
  <2>2. ASSUME Init, NEW m \in Managers PROVE DOMAIN cache[m] = {}
    BY <2>2 DEF Init
  <2>3. Init => \A r \in Requests : visited[r] = {}
    BY DEF Init
  <2> QED
    BY <2>1, <2>2, <2>3 DEF StickyInv, Distinct, Tenants
<1>2. StickyInv /\ [Next]_vars => StickyInv'
  <2>1. ASSUME StickyInv, NEW r \in Requests, Receive(r) PROVE StickyInv'
    BY <2>1 DEF Receive, StickyInv
  <2>2. ASSUME StickyInv, Over \/ UNCHANGED vars PROVE StickyInv'
    <3>1. cache' = cache /\ visited' = visited
      BY <2>2 DEF Over, vars
    <3> QED
      BY <2>2, <3>1 DEF StickyInv
  <2> QED
    BY <2>1, <2>2, HitSticks, MissSticks DEF Next
<1>3. StickyInv => Sticky
  <2> SUFFICES ASSUME StickyInv, NEW r \in Requests,
                      Cardinality(Neighbours(r)) <= CacheSize
               PROVE  Cardinality(visited[r]) <= 1
    BY DEF Sticky
  <2>1. Home[r] \in Managers /\ r \in Tenants(Home[r]) /\ Roomy(Home[r])
    BY ManagerAssumption DEF Neighbours, Tenants, Roomy
  <2>2. CASE visited[r] = {}
    BY <2>2, FS_EmptySet
  <2>3. CASE visited[r] # {}
    <3>1. PICK i \in DOMAIN cache[Home[r]] : cache[Home[r]][i].request = r
      BY <2>1, <2>3 DEF StickyInv, Names
    <3>2. visited[r] = {cache[Home[r]][i].server}
      BY <2>1, <3>1 DEF StickyInv
    <3>3. Cardinality(visited[r]) = 1
      BY <3>2, FS_Singleton, Zenon
    <3> QED
      BY <3>3
  <2> QED
    BY <2>2, <2>3
<1> QED
  BY <1>1, <1>2, <1>3, PTL DEF Spec
=======================================================================
