------------------------ MODULE SeqlenBalancing_proofs ------------------------
(***************************************************************************)
(* For every batch: the sets of a state differ by at most one sample.  Two   *)
(* states are merged largest to smallest, so what the one has more the other *)
(* has less, and the spread does not grow.                                  *)
(*                                                                         *)
(* The partitions returned share the samples out exactly.  The states of the *)
(* heap hold every sample once between them, and a merge keeps that.  That no *)
(* set of the last one is empty follows from their shape: a state with an    *)
(* empty set has no set of two samples, as a merge puts the empty sets of one *)
(* state, the last ones, opposite the first ones of the other.  They are the  *)
(* last ones beside samples of length 0 too, for a tie is settled by size.   *)
(***************************************************************************)
EXTENDS SeqlenBalancing, FiniteSetTheorems, SequenceTheorems, TLAPS

IsState(s) == s \in [1..k -> [sum : Nat, items : Seq(Items)]]

Sorted(s) == \A i, j \in 1..k : i <= j => s[i].sum >= s[j].sum

\* Nobody asks for a micro-batch: State has raised.
NoPartition == k = 0 /\ heap = {} /\ parts = <<>>

SpreadInv ==
    /\ lens \in [Items -> Nat] /\ k \in Items
    /\ \A s \in heap : IsState(s) /\ Sorted(s)
    /\ SpreadBounded

\* The sums at both ends differ by no more than the spread.
LEMMA WithinSpread ==
    ASSUME k \in Nat \ {0}, NEW s, IsState(s), Sorted(s), NEW a \in 1..k, NEW b \in 1..k
    PROVE  s[a].sum - s[b].sum <= Spread(s)
<1>1. s[1].sum >= s[a].sum /\ s[b].sum >= s[k].sum
  BY DEF Sorted
<1>2. s[1].sum \in Nat /\ s[a].sum \in Nat /\ s[b].sum \in Nat /\ s[k].sum \in Nat
  BY DEF IsState
<1> QED
  BY <1>1, <1>2 DEF Spread

\* Sorting gives a state again, with the same sets in decreasing order.
LEMMA SortsSorted ==
    ASSUME k \in Items, NEW c, IsState(c), NEW u \in Sorts(c, Above)
    PROVE  IsState(u) /\ Sorted(u) /\ \A i \in 1..k : \E a \in 1..k : u[i] = c[a]
<1>1. PICK p \in Orders[k] :
        /\ \A j \in 1..k : \A i \in 1..(j - 1) : ~Above(c[p[j]], c[p[i]])
        /\ u = [i \in 1..k |-> c[p[i]]]
  BY DEF Sorts
<1>2. p \in [1..k -> 1..k]
  BY <1>1 DEF Orders, Items
<1>3. IsState(u)
  BY <1>1, <1>2 DEF IsState
<1>4. \A i \in 1..k : \E a \in 1..k : u[i] = c[a]
  BY <1>1, <1>2
<1>5. ASSUME NEW i \in 1..k, NEW j \in 1..k, i <= j PROVE u[i].sum >= u[j].sum
  <2>1. u[i].sum \in Nat /\ u[j].sum \in Nat
    BY <1>3 DEF IsState
  <2>2. CASE i = j
    BY <2>1, <2>2
  <2>3. CASE i # j
    <3>1. i \in 1..(j - 1)
      BY <1>5, <2>3
    <3>2. ~(u[j].sum > u[i].sum)
      BY <1>1, <3>1 DEF Above
    <3> QED
      BY <2>1, <3>2
  <2> QED
    BY <2>2, <2>3
<1> QED
  BY <1>3, <1>4, <1>5 DEF Sorted

\* The merged sets: largest with smallest.
LEMMA OppositeState ==
    ASSUME k \in Items, NEW s, NEW t, IsState(s), IsState(t)
    PROVE  /\ IsState(Opposite(s, t))
           /\ \A i \in 1..k : Opposite(s, t)[i].sum = s[i].sum + t[k + 1 - i].sum
<1>1. k \in Nat
  BY ItemsAssumption DEF Items
<1>2. ASSUME NEW i \in 1..k
      PROVE  /\ Opposite(s, t)[i] = [sum |-> s[i].sum + t[k + 1 - i].sum,
                                     items |-> s[i].items \o t[k + 1 - i].items]
             /\ Opposite(s, t)[i] \in [sum : Nat, items : Seq(Items)]
             /\ Opposite(s, t)[i].sum = s[i].sum + t[k + 1 - i].sum
  <2>1. k + 1 - i \in 1..k
    BY <1>1
  <2>2. Opposite(s, t)[i] = Union(s[i], t[k + 1 - i])
    BY DEF Opposite
  <2>3. /\ s[i].sum \in Nat /\ s[i].items \in Seq(Items)
        /\ t[k + 1 - i].sum \in Nat /\ t[k + 1 - i].items \in Seq(Items)
    BY <2>1 DEF IsState
  <2>4. s[i].items \o t[k + 1 - i].items \in Seq(Items)
    BY <2>3
  <2> QED
    BY <2>2, <2>3, <2>4 DEF Union
<1>3. /\ DOMAIN Opposite(s, t) = 1..k
      /\ Opposite(s, t) = [i \in 1..k |-> Opposite(s, t)[i]]
  BY DEF Opposite
<1>4. IsState(Opposite(s, t))
  <2> DEFINE c == Opposite(s, t)
  <2>1. DOMAIN c = 1..k /\ c = [i \in 1..k |-> c[i]]
        /\ \A i \in 1..k : c[i] \in [sum : Nat, items : Seq(Items)]
    BY <1>2, <1>3
  <2> HIDE DEF c
  <2>2. IsState(c)
    BY <2>1 DEF IsState
  <2> QED
    BY <2>2 DEF c
<1> QED
  BY <1>2, <1>4

LEMMA MergeSpread ==
    ASSUME k \in Items, NEW s, NEW t, IsState(s), IsState(t), Sorted(s), Sorted(t),
           NEW u \in Sorts(Opposite(s, t), Above)
    PROVE  Spread(u) <= Spread(s) \/ Spread(u) <= Spread(t)
<1> DEFINE c == Opposite(s, t)
<1>1. IsState(c) /\ \A i \in 1..k : c[i].sum = s[i].sum + t[k + 1 - i].sum
  BY OppositeState
<1>2. k \in Nat \ {0} /\ 1 \in 1..k /\ k \in 1..k
  BY ItemsAssumption DEF Items
<1>3. PICK a \in 1..k, b \in 1..k : u[1] = c[a] /\ u[k] = c[b]
  <2> HIDE DEF c
  <2>1. \A i \in 1..k : \E a \in 1..k : u[i] = c[a]
    BY <1>1, SortsSorted DEF c
  <2> QED
    BY <1>2, <2>1
<1> DEFINE x == k + 1 - a
           y == k + 1 - b
<1>4. x \in 1..k /\ y \in 1..k
  BY <1>2
<1>5. Spread(u) = (s[a].sum + t[x].sum) - (s[b].sum + t[y].sum)
  BY <1>1, <1>3 DEF Spread
<1>6. /\ s[a].sum \in Nat /\ s[b].sum \in Nat /\ t[x].sum \in Nat /\ t[y].sum \in Nat
      /\ Spread(s) \in Int /\ Spread(t) \in Int
  <2> HIDE DEF x, y
  <2>1. /\ s[a].sum \in Nat /\ s[b].sum \in Nat /\ s[1].sum \in Nat /\ s[k].sum \in Nat
    BY <1>2 DEF IsState
  <2>2. /\ t[x].sum \in Nat /\ t[y].sum \in Nat /\ t[1].sum \in Nat /\ t[k].sum \in Nat
    BY <1>2, <1>4 DEF IsState
  <2> QED
    BY <2>1, <2>2 DEF Spread
<1>7. s[a].sum - s[b].sum <= Spread(s) /\ t[x].sum - t[y].sum <= Spread(t)
  BY <1>2, <1>4, WithinSpread
<1>8. CASE a <= b
  <2>1. y <= x
    BY <1>2, <1>8
  <2>2. t[y].sum >= t[x].sum
    BY <1>4, <2>1 DEF Sorted
  <2> HIDE DEF x, y
  <2> QED
    BY <1>5, <1>6, <1>7, <2>2
<1>9. CASE b <= a
  <2>1. s[b].sum >= s[a].sum
    BY <1>9 DEF Sorted
  <2> HIDE DEF x, y
  <2> QED
    BY <1>5, <1>6, <1>7, <2>1
<1> QED
  BY <1>2, <1>8, <1>9

\* Otherwise there is a partition, and there are no more of them than samples.
LEMMA SomePartition ==
    ASSUME Init, ~NoPartition
    PROVE  k \in Items /\ k # 0 /\ (equal => NumItems % k = 0)
<1>1. PICK o \in Orders[NumItems] :
        /\ \/ equal /\ k \in {n \in Items : n <= MaxParts /\ NumItems % n = 0}
           \/ ~equal /\ k \in {n \in 0..MaxParts : Needed <= n /\ n <= NumItems}
        /\ heap = IF equal THEN Groups(o) ELSE IF k = 0 THEN {} ELSE Singles
  BY DEF Init
<1>2. parts = <<>>
  BY DEF Init
<1>3. CASE equal
  BY <1>1, <1>3, ItemsAssumption DEF Items
<1>4. CASE ~equal
  <2>1. k \in 0..MaxParts /\ k <= NumItems
    BY <1>1, <1>4
  <2>2. k # 0
    BY <1>1, <1>2, <1>4 DEF NoPartition
  <2> QED
    BY <1>4, <2>1, <2>2, ItemsAssumption DEF Items
<1> QED
  BY <1>3, <1>4

\* Then nothing more happens.
LEMMA NoPartitionStays == NoPartition /\ [Next]_vars => NoPartition'
<1> SUFFICES ASSUME NoPartition, [Next]_vars PROVE NoPartition'
  OBVIOUS
<1>1. ~Merge
  BY DEF Merge, NoPartition
<1>2. ~Return
  BY DEF Return, NoPartition
<1> QED
  BY <1>1, <1>2 DEF Next, vars, NoPartition

\* States of one sample differ by its length, those of k neighbours in the sorted
\* list by less than the longest.
LEMMA InitSpread == Init => NoPartition \/ SpreadInv
<1> SUFFICES ASSUME Init, ~NoPartition PROVE SpreadInv
  OBVIOUS
<1>1. lens \in [Items -> Nat] /\ k \in Items /\ k \in Nat \ {0} /\ Items \subseteq Nat
  <2>1. lens \in [Items -> Nat] /\ k \in Items
    BY ItemsAssumption, SomePartition DEF Init
  <2> QED
    BY <2>1, ItemsAssumption DEF Items
<1>2. PICK o \in Orders[NumItems] :
        Increasing(o) /\ heap = IF equal THEN Groups(o) ELSE Singles
  BY SomePartition DEF Init
<1>3. o \in [Items -> Items]
  BY <1>2, ItemsAssumption DEF Orders, Items
<1>4. ASSUME NEW s \in Singles
      PROVE  IsState(s) /\ Sorted(s) /\ \E i \in Items : Spread(s) <= lens[i]
  <2>1. PICK i \in Items : s = [j \in 1..k |-> IF j = 1 THEN Single(i) ELSE Empty]
    BY <1>4 DEF Singles
  <2>2. IsState(s)
    BY <1>1, <2>1 DEF IsState, Single, Empty
  <2>3. Sorted(s)
    BY <1>1, <2>1 DEF Sorted, Single, Empty
  <2>4. s[1].sum = lens[i] /\ s[k].sum \in Nat
    BY <1>1, <2>1, <2>2 DEF Single, IsState
  <2>5. Spread(s) <= lens[i]
    BY <1>1, <2>4 DEF Spread
  <2> QED
    BY <2>2, <2>3, <2>5
<1>5. ASSUME NEW s \in Groups(o)
      PROVE  IsState(s) /\ Sorted(s) /\ \E i \in Items : Spread(s) <= lens[i]
  <2>1. PICK g \in 1..(NumItems \div k) :
          s = [j \in 1..k |-> Single(o[k * g + 1 - j])]
    BY <1>5 DEF Groups
  <2> DEFINE at(j) == k * g + 1 - j
  <2>2. k * g \in Nat /\ k <= k * g /\ k * g <= NumItems
    <3>1. g >= 1 /\ g \in Nat /\ g <= NumItems \div k /\ NumItems \div k \in Nat
      BY <1>1, ItemsAssumption
    <3>2. k * (NumItems \div k) <= NumItems
      BY <1>1, ItemsAssumption
    <3>3. k * g <= k * (NumItems \div k)
      BY <1>1, <3>1
    <3>4. k <= k * g /\ k * g \in Nat
      BY <1>1, <3>1
    <3> QED
      BY <1>1, <3>1, <3>2, <3>3, <3>4, ItemsAssumption
  <2>3. \A j \in 1..k : at(j) \in Items
    BY <1>1, <2>2, ItemsAssumption DEF Items
  <2>4. \A j \in 1..k : s[j].sum = lens[o[at(j)]] /\ lens[o[at(j)]] \in Nat
    BY <1>1, <1>3, <2>1, <2>3 DEF Single
  <2>5. IsState(s)
    <3>1. \A i \in Items : Single(i) \in [sum : Nat, items : Seq(Items)]
      BY <1>1 DEF Single
    <3>2. \A j \in 1..k : Single(o[at(j)]) \in [sum : Nat, items : Seq(Items)]
      BY <1>3, <2>3, <3>1
    <3>3. s = [j \in 1..k |-> Single(o[at(j)])]
      BY <2>1
    <3> HIDE DEF at
    <3> QED
      BY <3>2, <3>3 DEF IsState
  <2>6. \A i, j \in Items : i < j => lens[o[i]] <= lens[o[j]]
    <3> SUFFICES ASSUME NEW i \in Items, NEW j \in Items, i < j
                 PROVE  lens[o[i]] <= lens[o[j]]
      OBVIOUS
    <3>1. i \in 1..(j - 1)
      BY ItemsAssumption DEF Items
    <3>2. lens[o[i]] < lens[o[j]] \/ lens[o[i]] = lens[o[j]]
      BY <1>2, <3>1 DEF Increasing
    <3>3. lens[o[i]] \in Nat /\ lens[o[j]] \in Nat
      BY <1>1, <1>3
    <3> QED
      BY <3>2, <3>3
  <2>7. \A i, j \in 1..k : i < j => at(j) < at(i)
    BY <1>1, <2>2
  <2> HIDE DEF at
  <2>8. Sorted(s)
    <3> SUFFICES ASSUME NEW i \in 1..k, NEW j \in 1..k, i <= j
                 PROVE  s[i].sum >= s[j].sum
      BY DEF Sorted
    <3>1. CASE i = j
      BY <2>4, <3>1
    <3>2. CASE i < j
      BY <2>3, <2>4, <2>6, <2>7, <3>2
    <3> QED
      BY <1>1, <3>1, <3>2
  <2>9. Spread(s) <= lens[o[at(1)]] /\ o[at(1)] \in Items
    <3>1. 1 \in 1..k /\ k \in 1..k
      BY <1>1
    <3>2. s[1].sum = lens[o[at(1)]] /\ s[k].sum \in Nat /\ s[1].sum \in Nat
      BY <2>4, <3>1
    <3> QED
      BY <1>3, <2>3, <3>1, <3>2 DEF Spread
  <2> QED
    BY <2>5, <2>8, <2>9
<1> QED
  BY <1>1, <1>2, <1>4, <1>5 DEF SpreadInv, SpreadBounded

LEMMA NextSpread == SpreadInv /\ [Next]_vars => SpreadInv'
<1> SUFFICES ASSUME SpreadInv, [Next]_vars PROVE SpreadInv'
  OBVIOUS
<1>1. CASE Merge
  <2>1. PICK s \in heap, t \in heap :
          /\ \E u \in Sorts(Opposite(s, t), Above) : heap' = (heap \ {s, t}) \cup {u}
          /\ lens' = lens /\ k' = k
    BY <1>1 DEF Merge
  <2>2. PICK u \in Sorts(Opposite(s, t), Above) : heap' = (heap \ {s, t}) \cup {u}
    BY <2>1
  <2>3. k \in Items /\ IsState(s) /\ Sorted(s) /\ IsState(t) /\ Sorted(t)
    BY DEF SpreadInv
  <2>4. IsState(u) /\ Sorted(u)
    BY <2>2, <2>3, OppositeState, SortsSorted
  <2>5. Spread(u) <= Spread(s) \/ Spread(u) <= Spread(t)
    BY <2>2, <2>3, MergeSpread
  <2>6. \E i \in Items : Spread(u) <= lens[i]
    <3>1. PICK i \in Items, j \in Items : Spread(s) <= lens[i] /\ Spread(t) <= lens[j]
      BY DEF SpreadInv, SpreadBounded
    <3>2. lens[i] \in Nat /\ lens[j] \in Nat
      BY DEF SpreadInv
    <3>3. Spread(s) \in Int /\ Spread(t) \in Int /\ Spread(u) \in Int
      BY <2>3, <2>4, ItemsAssumption DEF IsState, Spread, Items
    <3> QED
      BY <2>5, <3>1, <3>2, <3>3
  <2>7. \A v : (IsState(v) <=> IsState(v)') /\ (Sorted(v) <=> Sorted(v)')
               /\ Spread(v)' = Spread(v)
    BY <2>1 DEF IsState, Sorted, Spread
  <2> QED
    BY <2>1, <2>2, <2>4, <2>6, <2>7 DEF SpreadInv, SpreadBounded
<1>2. CASE Return \/ UNCHANGED vars
  <2>1. lens' = lens /\ k' = k /\ heap' = heap
    BY <1>2 DEF Return, vars
  <2> QED
    BY <2>1 DEF SpreadInv, SpreadBounded, IsState, Sorted, Spread
<1> QED
  BY <1>1, <1>2 DEF Next

\* No two partitions differ by more than one sample (karmarkar_karp), whatever the
\* lengths and however many partitions.
THEOREM SpreadBoundedTheorem == Spec => []SpreadBounded
<1>1. NoPartition \/ SpreadInv => SpreadBounded
  BY DEF SpreadInv, NoPartition, SpreadBounded
<1> QED
  BY InitSpread, NextSpread, NoPartitionStays, <1>1, PTL DEF Spec

------------------------------------------------------------------------------
(* The partitions are exact *)

\* The j-th set of state s: how many samples it has, and which is the n-th.
Size(s, j) == Len(s[j].items)
Item(s, j, n) == s[j].items[n]

\* Sample i is in some set of state s.
Has(s, i) == \E j \in 1..k : \E n \in 1..Size(s, j) : Item(s, j, n) = i

\* No sample is twice in a state.
Once(s) == \A a, b \in 1..k : \A m \in 1..Size(s, a), n \in 1..Size(s, b) :
             Item(s, a, m) = Item(s, b, n) => a = b /\ m = n

\* An empty set weighs nothing, and comes after those that have samples.
Weighed(s) == \A j \in 1..k : Size(s, j) = 0 => s[j].sum = 0
Sunk(s)    == \A a, b \in 1..k : Size(s, a) = 0 /\ Size(s, b) # 0 => b < a

\* As long as a state has an empty set, the others have one sample at most.
Thin(s) == \A a, b \in 1..k : Size(s, a) = 0 => Size(s, b) <= 1

\* The sets of a state have as many samples, and some.
Even(s) == \A a, b \in 1..k : Size(s, a) > 0 /\ Size(s, a) = Size(s, b)

IsProper(s) == /\ IsState(s) /\ Sorted(s) /\ Once(s) /\ Weighed(s) /\ Sunk(s) /\ Thin(s)
               /\ equal => Even(s)

\* Every sample is in exactly one state of the heap.
Covered == \A i \in Items : \E s \in heap : Has(s, i)
Apart   == \A s, t \in heap : \A i \in Items : Has(s, i) /\ Has(t, i) => s = t

ExactInv ==
    /\ lens \in [Items -> Nat] /\ k \in Items /\ IsFiniteSet(heap)
    /\ \A s \in heap : IsProper(s)
    /\ Covered /\ Apart /\ PartitionExact

\* An order of n things reaches each of them.
LEMMA OrdersOnto ==
    ASSUME NEW n \in Items, NEW p \in Orders[n]
    PROVE  /\ p \in [1..n -> 1..n] /\ IsInjective(p)
           /\ \A a \in 1..n : \E i \in 1..n : p[i] = a
<1>1. p \in [1..n -> 1..n] /\ IsInjective(p)
  BY DEF Orders, Items
<1>2. p \in Injection(1..n, 1..n)
  BY <1>1 DEF Injection
<1>3. IsFiniteSet(1..n)
  <2>1. n \in Int /\ 1 \in Int
    BY ItemsAssumption DEF Items
  <2> QED
    BY <2>1, FS_Interval
<1>4. p \in Surjection(1..n, 1..n)
  BY <1>2, <1>3, FS_Injection
<1> QED
  BY <1>1, <1>4 DEF Surjection

\* The sets of a state, and the place of one opposite another.
LEMMA StateParts ==
    ASSUME k \in Items, NEW s, IsState(s), NEW j \in 1..k
    PROVE  /\ s[j].sum \in Nat /\ Size(s, j) \in Nat
           /\ \A n \in 1..Size(s, j) : Item(s, j, n) \in Items
           /\ k + 1 - j \in 1..k /\ k + 1 - (k + 1 - j) = j
<1>1. k \in Nat \ {0}
  BY ItemsAssumption DEF Items
<1>2. s[j].sum \in Nat /\ s[j].items \in Seq(Items)
  BY DEF IsState
<1>3. k + 1 - j \in 1..k /\ k + 1 - (k + 1 - j) = j
  BY <1>1
<1> QED
  BY <1>2, <1>3, LenProperties, ElementOfSeq DEF Size, Item

\* The sets of two states merged: the samples of the one, then those of the other.
LEMMA OppositeItems ==
    ASSUME k \in Items, NEW s, NEW t, IsState(s), IsState(t), NEW i \in 1..k, NEW j \in 1..k,
           j = k + 1 - i
    PROVE  LET c == Opposite(s, t)
           IN  /\ Size(c, i) = Size(s, i) + Size(t, j)
               /\ \A n \in 1..Size(s, i) : n \in 1..Size(c, i) /\ Item(c, i, n) = Item(s, i, n)
               /\ \A n \in 1..Size(t, j) : /\ n + Size(s, i) \in 1..Size(c, i)
                                          /\ Item(c, i, n + Size(s, i)) = Item(t, j, n)
               /\ \A n \in 1..Size(c, i) :
                    \/ n \in 1..Size(s, i) /\ Item(c, i, n) = Item(s, i, n)
                    \/ /\ n - Size(s, i) \in 1..Size(t, j)
                       /\ Item(c, i, n) = Item(t, j, n - Size(s, i))
<1> DEFINE c == Opposite(s, t)[i].items
           a == s[i].items
           b == t[j].items
<1>1. c = a \o b
  BY DEF Opposite, Union
<1>2. a \in Seq(Items) /\ b \in Seq(Items)
  BY DEF IsState
<1> HIDE DEF a, b, c
<1>3. /\ Len(c) = Len(a) + Len(b) /\ Len(a) \in Nat /\ Len(b) \in Nat
      /\ \A n \in 1..Len(a) + Len(b) : c[n] = IF n <= Len(a) THEN a[n] ELSE b[n - Len(a)]
  BY <1>1, <1>2, ConcatProperties, LenProperties
<1>4. \A n \in 1..Len(a) : n \in 1..Len(c) /\ c[n] = a[n]
  BY <1>3
<1>5. ASSUME NEW n \in 1..Len(b) PROVE n + Len(a) \in 1..Len(c) /\ c[n + Len(a)] = b[n]
  <2>1. /\ n + Len(a) \in 1..Len(a) + Len(b) /\ ~(n + Len(a) <= Len(a))
        /\ (n + Len(a)) - Len(a) = n
    BY <1>3
  <2> QED
    BY <2>1, <1>3
<1>6. ASSUME NEW n \in 1..Len(c)
      PROVE  \/ n \in 1..Len(a) /\ c[n] = a[n]
             \/ n - Len(a) \in 1..Len(b) /\ c[n] = b[n - Len(a)]
  <2>1. n \in 1..Len(a) + Len(b)
    BY <1>3
  <2>2. CASE n <= Len(a)
    BY <2>1, <2>2, <1>3
  <2>3. CASE ~(n <= Len(a))
    BY <2>1, <2>3, <1>3
  <2> QED
    BY <2>2, <2>3
<1> QED
  BY <1>3, <1>4, <1>5, <1>6, Zenon DEF a, b, c, Size, Item

\* Two states without a sample in common merge into one that has the samples of
\* both, each of them once.
LEMMA OppositeOnce ==
    ASSUME k \in Items, NEW s, NEW t, IsState(s), IsState(t), Once(s), Once(t),
           \A i \in Items : ~(Has(s, i) /\ Has(t, i))
    PROVE  /\ Once(Opposite(s, t))
           /\ \A i \in Items : Has(Opposite(s, t), i) <=> Has(s, i) \/ Has(t, i)
<1> DEFINE c == Opposite(s, t)
           far(i) == k + 1 - i
<1>1. \A i \in 1..k : far(i) \in 1..k /\ far(far(i)) = i /\ Size(s, i) \in Nat
  BY StateParts
<1>2. ASSUME NEW i \in 1..k, NEW j \in 1..k, j = far(i)
      PROVE  /\ \A n \in 1..Size(s, i) : n \in 1..Size(c, i) /\ Item(c, i, n) = Item(s, i, n)
             /\ \A n \in 1..Size(t, j) : /\ n + Size(s, i) \in 1..Size(c, i)
                                        /\ Item(c, i, n + Size(s, i)) = Item(t, j, n)
             /\ \A n \in 1..Size(c, i) :
                  \/ n \in 1..Size(s, i) /\ Item(c, i, n) = Item(s, i, n)
                  \/ /\ n - Size(s, i) \in 1..Size(t, j)
                     /\ Item(c, i, n) = Item(t, j, n - Size(s, i))
  BY <1>2, OppositeItems
<1>3. ASSUME NEW i \in 1..k, NEW n \in 1..Size(s, i)
      PROVE  Item(s, i, n) \in Items /\ Has(s, Item(s, i, n))
  BY StateParts DEF Has
<1>4. ASSUME NEW i \in 1..k, NEW n \in 1..Size(t, i)
      PROVE  Item(t, i, n) \in Items /\ Has(t, Item(t, i, n))
  BY StateParts DEF Has
<1> HIDE DEF c, far
<1>5. Once(c)
  <2> SUFFICES ASSUME NEW a \in 1..k, NEW b \in 1..k,
                      NEW m \in 1..Size(c, a), NEW n \in 1..Size(c, b),
                      Item(c, a, m) = Item(c, b, n)
               PROVE  a = b /\ m = n
    BY DEF Once
  <2> DEFINE x == m - Size(s, a)
             y == n - Size(s, b)
             e == far(a)
             d == far(b)
  <2>1. e \in 1..k /\ d \in 1..k
    BY <1>1
  <2>2. /\ \/ m \in 1..Size(s, a) /\ Item(c, a, m) = Item(s, a, m)
           \/ x \in 1..Size(t, e) /\ Item(c, a, m) = Item(t, e, x)
        /\ \/ n \in 1..Size(s, b) /\ Item(c, b, n) = Item(s, b, n)
           \/ y \in 1..Size(t, d) /\ Item(c, b, n) = Item(t, d, y)
    BY <1>2, <2>1
  <2>3. (e = d => a = b) /\ (a = b /\ x = y => m = n)
    BY <1>1
  <2> HIDE DEF x, y, e, d
  <2>4. CASE m \in 1..Size(s, a) /\ n \in 1..Size(s, b)
             /\ Item(s, a, m) = Item(s, b, n)
    BY <2>4 DEF Once
  <2>5. CASE x \in 1..Size(t, e) /\ y \in 1..Size(t, d) /\ Item(t, e, x) = Item(t, d, y)
    <3>1. e = d /\ x = y
      BY <2>1, <2>5 DEF Once
    <3> QED
      BY <3>1, <2>3
  <2>6. ~ \E i \in Items : Has(s, i) /\ Has(t, i)
    OBVIOUS
  <2>7. ~ /\ m \in 1..Size(s, a) /\ y \in 1..Size(t, d) /\ Item(s, a, m) = Item(t, d, y)
    BY <1>3, <1>4, <2>1, <2>6
  <2>8. ~ /\ n \in 1..Size(s, b) /\ x \in 1..Size(t, e) /\ Item(s, b, n) = Item(t, e, x)
    BY <1>3, <1>4, <2>1, <2>6
  <2> QED
    BY <2>2, <2>4, <2>5, <2>7, <2>8
<1>6. ASSUME NEW i \in Items, Has(c, i) PROVE Has(s, i) \/ Has(t, i)
  <2>1. PICK j \in 1..k : \E n \in 1..Size(c, j) : Item(c, j, n) = i
    BY <1>6 DEF Has
  <2>2. PICK n \in 1..Size(c, j) : Item(c, j, n) = i
    BY <2>1
  <2>3. far(j) \in 1..k
    BY <1>1
  <2>4. \/ n \in 1..Size(s, j) /\ i = Item(s, j, n)
        \/ n - Size(s, j) \in 1..Size(t, far(j)) /\ i = Item(t, far(j), n - Size(s, j))
    BY <2>2, <2>3, <1>2
  <2> QED
    BY <2>3, <2>4, <1>3, <1>4
<1>7. ASSUME NEW i \in Items, Has(s, i) PROVE Has(c, i)
  <2>1. PICK j \in 1..k : \E n \in 1..Size(s, j) : Item(s, j, n) = i
    BY <1>7 DEF Has
  <2>2. PICK n \in 1..Size(s, j) : Item(s, j, n) = i
    BY <2>1
  <2>3. n \in 1..Size(c, j) /\ Item(c, j, n) = i
    BY <2>2, <1>1, <1>2
  <2> QED
    BY <2>3 DEF Has
<1>8. ASSUME NEW i \in Items, Has(t, i) PROVE Has(c, i)
  <2>1. PICK j \in 1..k : \E n \in 1..Size(t, j) : Item(t, j, n) = i
    BY <1>8 DEF Has
  <2>2. PICK n \in 1..Size(t, j) : Item(t, j, n) = i
    BY <2>1
  <2> DEFINE e == far(j)
             m == n + Size(s, e)
  <2>3. e \in 1..k /\ far(e) = j
    BY <1>1
  <2> HIDE DEF e
  <2>4. m \in 1..Size(c, e) /\ Item(c, e, m) = i
    BY <2>2, <2>3, <1>2
  <2> HIDE DEF m
  <2> QED
    BY <2>3, <2>4 DEF Has
<1> QED
  BY <1>5, <1>6, <1>7, <1>8 DEF c

\* What the sets of two states merged weigh and count.
LEMMA OppositeShape ==
    ASSUME k \in Items, NEW s, NEW t, IsState(s), IsState(t), Sunk(s), Sunk(t),
           Weighed(s), Weighed(t), Thin(s), Thin(t), equal => Even(s) /\ Even(t)
    PROVE  LET c == Opposite(s, t) IN Weighed(c) /\ Thin(c) /\ (equal => Even(c))
<1> DEFINE c == Opposite(s, t)
           far(i) == k + 1 - i
<1>1. \A i \in 1..k : /\ far(i) \in 1..k
                      /\ s[i].sum \in Nat /\ Size(s, i) \in Nat
                      /\ t[i].sum \in Nat /\ Size(t, i) \in Nat
  BY StateParts
<1>2. \A i \in 1..k : Size(c, i) = Size(s, i) + Size(t, far(i))
  BY <1>1, OppositeItems
<1>3. \A i \in 1..k : c[i].sum = s[i].sum + t[far(i)].sum
  BY OppositeState
<1>4. k \in Nat
  BY ItemsAssumption DEF Items
<1> HIDE DEF c
<1>5. Weighed(c)
  <2> SUFFICES ASSUME NEW i \in 1..k, Size(c, i) = 0 PROVE c[i].sum = 0
    BY DEF Weighed
  <2> DEFINE e == far(i)
  <2>1. e \in 1..k /\ c[i].sum = s[i].sum + t[e].sum /\ Size(c, i) = Size(s, i) + Size(t, e)
    BY <1>1, <1>2, <1>3
  <2> HIDE DEF e
  <2>2. Size(s, i) \in Nat /\ Size(t, e) \in Nat
    BY <1>1, <2>1
  <2>3. Size(s, i) = 0 /\ Size(t, e) = 0
    BY <2>1, <2>2
  <2>4. s[i].sum = 0 /\ t[e].sum = 0
    BY <2>1, <2>3 DEF Weighed
  <2> QED
    BY <2>1, <2>4
<1>6. Thin(c)
  <2> SUFFICES ASSUME NEW a \in 1..k, NEW b \in 1..k, Size(c, a) = 0 PROVE Size(c, b) <= 1
    BY DEF Thin
  <2> DEFINE e == far(a)
             d == far(b)
  <2>1. /\ e \in 1..k /\ d \in 1..k /\ ~(b < a /\ d < e)
        /\ Size(c, a) = Size(s, a) + Size(t, e) /\ Size(c, b) = Size(s, b) + Size(t, d)
    BY <1>1, <1>2, <1>4
  <2> HIDE DEF e, d
  <2>2. /\ Size(s, a) \in Nat /\ Size(t, e) \in Nat /\ Size(s, b) \in Nat /\ Size(t, d) \in Nat
    BY <1>1, <2>1
  <2>3. Size(s, a) = 0 /\ Size(t, e) = 0
    BY <2>1, <2>2
  <2>4. Size(s, b) <= 1 /\ Size(t, d) <= 1
    BY <2>1, <2>3 DEF Thin
  <2>5. Size(s, b) # 0 => b < a
    BY <2>3 DEF Sunk
  <2>6. Size(t, d) # 0 => d < e
    BY <2>1, <2>3 DEF Sunk
  <2> QED
    BY <2>1, <2>2, <2>4, <2>5, <2>6
<1>7. ASSUME equal PROVE Even(c)
  <2> SUFFICES ASSUME NEW a \in 1..k, NEW b \in 1..k
               PROVE  Size(c, a) > 0 /\ Size(c, a) = Size(c, b)
    BY DEF Even
  <2> DEFINE e == far(a)
             d == far(b)
  <2>1. /\ e \in 1..k /\ d \in 1..k
        /\ Size(c, a) = Size(s, a) + Size(t, e) /\ Size(c, b) = Size(s, b) + Size(t, d)
    BY <1>1, <1>2
  <2> HIDE DEF e, d
  <2>2. /\ Size(s, a) \in Nat /\ Size(t, e) \in Nat
        /\ Size(s, a) > 0 /\ Size(s, a) = Size(s, b) /\ Size(t, e) = Size(t, d)
    BY <1>1, <1>7, <2>1 DEF Even
  <2> QED
    BY <2>1, <2>2
<1> QED
  BY <1>5, <1>6, <1>7 DEF c

\* Sorting the sets of a state moves them, and nothing else.
LEMMA SortsProper ==
    ASSUME k \in Items, NEW c, IsState(c), Once(c), Weighed(c), Thin(c), equal => Even(c),
           NEW u \in Sorts(c, Above)
    PROVE  IsProper(u) /\ \A i \in Items : Has(u, i) <=> Has(c, i)
<1>1. PICK p \in Orders[k] :
        /\ u = [i \in 1..k |-> c[p[i]]]
        /\ \A j \in 1..k : \A i \in 1..(j - 1) : ~Above(c[p[j]], c[p[i]])
  BY DEF Sorts
<1>2. /\ p \in [1..k -> 1..k] /\ IsInjective(p)
      /\ \A a \in 1..k : \E i \in 1..k : p[i] = a
  BY OrdersOnto
<1>3. ASSUME NEW i \in 1..k
      PROVE  /\ p[i] \in 1..k /\ u[i].sum = c[p[i]].sum /\ Size(u, i) = Size(c, p[i])
             /\ \A n : Item(u, i, n) = Item(c, p[i], n)
  BY <1>1, <1>2 DEF Size, Item
<1>4. IsState(u) /\ Sorted(u)
  BY SortsSorted
<1>5. \A i, j \in 1..k : p[i] = p[j] => i = j
  BY <1>2 DEF IsInjective
<1>6. Once(u)
  <2> SUFFICES ASSUME NEW a \in 1..k, NEW b \in 1..k,
                      NEW m \in 1..Size(u, a), NEW n \in 1..Size(u, b),
                      Item(u, a, m) = Item(u, b, n)
               PROVE  a = b /\ m = n
    BY DEF Once
  <2>1. /\ p[a] \in 1..k /\ p[b] \in 1..k
        /\ m \in 1..Size(c, p[a]) /\ n \in 1..Size(c, p[b])
        /\ Item(c, p[a], m) = Item(c, p[b], n)
    BY <1>3
  <2>2. p[a] = p[b] /\ m = n
    BY <2>1 DEF Once
  <2> QED
    BY <2>2, <1>5
<1>7. Weighed(u) /\ Thin(u) /\ (equal => Even(u))
  BY <1>3 DEF Weighed, Thin, Even
<1>11. ASSUME NEW j \in 1..k, NEW i \in 1..(j - 1) PROVE ~Above(u[j], u[i])
  <2>1. i \in 1..k
    BY ItemsAssumption DEF Items
  <2> QED
    BY <1>1, <2>1
<1>10. Sunk(u)
  <2> SUFFICES ASSUME NEW a \in 1..k, NEW b \in 1..k, Size(u, a) = 0, Size(u, b) # 0, ~(b < a)
               PROVE  FALSE
    BY DEF Sunk
  <2>1. /\ u[a].sum \in Nat /\ u[b].sum \in Nat /\ Size(u, b) \in Nat /\ k \in Nat
        /\ u[a].sum = 0 /\ a # b
    BY <1>4, <1>7, StateParts, ItemsAssumption DEF Weighed, Items
  <2>2. a \in 1..(b - 1)
    BY <2>1
  <2>3. ~Above(u[b], u[a])
    BY <1>11, <2>2
  <2>4. u[b].sum > u[a].sum \/ (u[b].sum = u[a].sum /\ Size(u, b) > Size(u, a))
    BY <2>1
  <2> QED
    BY <2>3, <2>4 DEF Above, Size
<1>8. ASSUME NEW i \in Items, Has(u, i) PROVE Has(c, i)
  <2>1. PICK j \in 1..k : \E n \in 1..Size(u, j) : Item(u, j, n) = i
    BY <1>8 DEF Has
  <2>2. \E n \in 1..Size(c, p[j]) : Item(c, p[j], n) = i
    BY <2>1, <1>3
  <2> QED
    BY <2>2, <1>3 DEF Has
<1>9. ASSUME NEW i \in Items, Has(c, i) PROVE Has(u, i)
  <2>1. PICK a \in 1..k : \E n \in 1..Size(c, a) : Item(c, a, n) = i
    BY <1>9 DEF Has
  <2>2. PICK j \in 1..k : p[j] = a
    BY <1>2
  <2>3. \E n \in 1..Size(u, j) : Item(u, j, n) = i
    BY <2>1, <2>2, <1>3
  <2> QED
    BY <2>3 DEF Has
<1> QED
  BY <1>4, <1>6, <1>7, <1>8, <1>9, <1>10 DEF IsProper

\* A step that keeps the lengths, the mode and the number of partitions.
LEMMA StateStays ==
    ASSUME UNCHANGED <<equal, k>>
    PROVE  \A s : /\ IsProper(s)' <=> IsProper(s)
                  /\ \A i : Has(s, i)' <=> Has(s, i)
  BY DEF IsProper, IsState, Sorted, Once, Weighed, Sunk, Thin, Even, Has, Size, Item

LEMMA MergeExact == ASSUME ExactInv, Merge PROVE ExactInv'
<1>1. PICK s \in heap, t \in heap :
        /\ s # t
        /\ \E u \in Sorts(Opposite(s, t), Above) : heap' = (heap \ {s, t}) \cup {u}
        /\ UNCHANGED <<lens, equal, k, parts>>
  BY DEF Merge
<1>2. PICK u \in Sorts(Opposite(s, t), Above) : heap' = (heap \ {s, t}) \cup {u}
  BY <1>1
<1>3. k \in Items /\ IsProper(s) /\ IsProper(t)
  BY DEF ExactInv
<1>4. \A i \in Items : ~(Has(s, i) /\ Has(t, i))
  BY <1>1 DEF ExactInv, Apart
<1> DEFINE c == Opposite(s, t)
<1>5. IsState(c)
  BY <1>3, OppositeState DEF IsProper
<1>6. Once(c) /\ \A i \in Items : Has(c, i) <=> Has(s, i) \/ Has(t, i)
  BY <1>3, <1>4, OppositeOnce DEF IsProper
<1>7. Weighed(c) /\ Thin(c) /\ (equal => Even(c))
  BY <1>3, OppositeShape DEF IsProper
<1> HIDE DEF c
<1>8. IsProper(u) /\ \A i \in Items : Has(u, i) <=> Has(s, i) \/ Has(t, i)
  <2>1. u \in Sorts(c, Above)
    BY DEF c
  <2> QED
    BY <1>3, <1>5, <1>6, <1>7, <2>1, SortsProper
<1>9. \A v : (IsProper(v)' <=> IsProper(v)) /\ \A i : Has(v, i)' <=> Has(v, i)
  BY <1>1, StateStays
<1>10. \A v \in heap' : IsProper(v)
  BY <1>2, <1>8 DEF ExactInv
<1>11. \A i \in Items : \E v \in heap' : Has(v, i)
  <2> SUFFICES ASSUME NEW i \in Items PROVE \E v \in heap' : Has(v, i)
    OBVIOUS
  <2>1. PICK v \in heap : Has(v, i)
    BY DEF ExactInv, Covered
  <2>2. CASE v \in {s, t}
    BY <2>1, <2>2, <1>2, <1>8
  <2>3. CASE v \notin {s, t}
    BY <2>1, <2>3, <1>2
  <2> QED
    BY <2>2, <2>3
<1>12. ASSUME NEW v \in heap', NEW w \in heap', NEW i \in Items, Has(v, i), Has(w, i)
       PROVE  v = w
  <2>1. \A x \in heap : Has(x, i) => \A y \in heap : Has(y, i) => x = y
    BY DEF ExactInv, Apart
  <2>2. ASSUME NEW x \in heap, x \notin {s, t}, Has(x, i) PROVE ~Has(u, i)
    BY <2>1, <2>2, <1>8
  <2> QED
    BY <2>1, <2>2, <1>2, <1>12
<1>13. lens' \in [Items -> Nat] /\ k' \in Items /\ PartitionExact'
  BY <1>1 DEF ExactInv, PartitionExact
<1>14. Covered' /\ Apart'
  BY <1>9, <1>11, <1>12 DEF Covered, Apart
<1>15. \A v \in heap' : IsProper(v)'
  BY <1>9, <1>10
<1>16. IsFiniteSet(heap')
  <2>1. IsFiniteSet(heap \ {s, t})
    BY FS_Difference DEF ExactInv
  <2> QED
    BY <2>1, <1>2, FS_AddElement
<1> QED
  BY <1>13, <1>14, <1>15, <1>16 DEF ExactInv

\* The places k * g + 1 - j of the sorted samples: the j-th of group g.
LEMMA GroupPlace ==
    ASSUME k \in Items, NEW g \in 1..(NumItems \div k), NEW j \in 1..k
    PROVE  k * g + 1 - j \in Items
<1>1. k \in Nat \ {0} /\ NumItems \in Nat \ {0}
  BY ItemsAssumption DEF Items
<1> DEFINE G == NumItems \div k
<1>2. G \in Int /\ k * G <= NumItems
  BY <1>1, SMTT(60)
<1>3. g >= 1 /\ g <= G /\ g \in Int
  BY <1>2
<1> HIDE DEF G
<1>4. k * g <= k * G /\ k <= k * g /\ k * g \in Int /\ k * G \in Int
  BY <1>1, <1>2, <1>3
<1> QED
  BY <1>1, <1>2, <1>4 DEF Items

LEMMA GroupsApart ==
    ASSUME k \in Items, NEW g \in Nat, NEW h \in Nat, NEW i \in 1..k, NEW j \in 1..k,
           k * g + 1 - i = k * h + 1 - j
    PROVE  g = h /\ i = j
<1>1. k \in Nat \ {0}
  BY ItemsAssumption DEF Items
<1>2. k * g \in Int /\ k * h \in Int /\ i \in Int /\ j \in Int
  BY <1>1
<1>3. k * g - k * h = i - j /\ i - j < k /\ j - i < k
  <2> DEFINE x == k * g
             y == k * h
  <2>1. x \in Int /\ y \in Int /\ x + 1 - i = y + 1 - j
    BY <1>2
  <2> HIDE DEF x, y
  <2>2. x - y = i - j /\ i - j < k /\ j - i < k
    BY <1>1, <2>1
  <2> QED
    BY <2>2 DEF x, y
<1>4. ~(g > h)
  <2> SUFFICES ASSUME g >= h + 1 PROVE FALSE
    OBVIOUS
  <2>1. k * g >= k * (h + 1) /\ k * (h + 1) = k * h + k
    BY <1>1
  <2> QED
    BY <1>1, <1>2, <1>3, <2>1
<1>5. ~(h > g)
  <2> SUFFICES ASSUME h >= g + 1 PROVE FALSE
    OBVIOUS
  <2>1. k * h >= k * (g + 1) /\ k * (g + 1) = k * g + k
    BY <1>1
  <2> QED
    BY <1>1, <1>2, <1>3, <2>1
<1>6. g = h
  BY <1>4, <1>5
<1> QED
  BY <1>2, <1>3, <1>6

LEMMA GroupsCover ==
    ASSUME k \in Items, NumItems % k = 0, NEW n \in Items
    PROVE  \E g \in 1..(NumItems \div k) : \E j \in 1..k : n = k * g + 1 - j
<1> DEFINE G == NumItems \div k
           x == n - 1
           d == x \div k
           j == k * (d + 1) + 1 - n
<1>1. k \in Nat \ {0} /\ NumItems \in Nat \ {0} /\ x \in Nat /\ x < NumItems /\ n \in Nat
  BY ItemsAssumption DEF Items
<1>2. G \in Int /\ NumItems = k * G
  BY <1>1, SMTT(60)
<1> HIDE DEF G, x
<1>3. d \in Int /\ k * d <= x /\ x < k * (d + 1)
  BY <1>1, SMTT(60)
<1> HIDE DEF d
<1>4. d >= 0
  <2> SUFFICES ASSUME d + 1 <= 0 PROVE FALSE
    BY <1>3
  <2>1. k * (d + 1) <= 0
    BY <1>1, <1>3, SMTT(60)
  <2>2. k * (d + 1) \in Int
    BY <1>1, <1>3
  <2> QED
    BY <2>1, <2>2, <1>1, <1>3
<1>5. d < G
  <2> SUFFICES ASSUME d >= G PROVE FALSE
    BY <1>2, <1>3
  <2>1. k * d >= k * G
    BY <1>1, <1>2, <1>3, SMTT(60)
  <2>2. k * d \in Int /\ k * G \in Int
    BY <1>1, <1>2, <1>3
  <2> QED
    BY <2>1, <2>2, <1>1, <1>2, <1>3
<1>6. d + 1 \in 1..G
  BY <1>2, <1>3, <1>4, <1>5
<1>7. k * (d + 1) = k * d + k /\ k * d \in Int
  BY <1>1, <1>3
<1> DEFINE y == k * d
<1>8. y \in Int /\ y <= x /\ x < y + k /\ j = y + k + 1 - n /\ x = n - 1
  BY <1>3, <1>7 DEF x
<1> HIDE DEF y, j
<1>9. j \in 1..k /\ n = y + k + 1 - j
  BY <1>1, <1>8
<1>10. n = k * (d + 1) + 1 - j
  BY <1>7, <1>9 DEF y
<1> QED
  BY <1>6, <1>9, <1>10 DEF G

LEMMA InitExact == Init => NoPartition \/ ExactInv
<1> SUFFICES ASSUME Init, ~NoPartition PROVE ExactInv
  OBVIOUS
<1>1. /\ lens \in [Items -> Nat] /\ k \in Items /\ k \in Nat \ {0}
      /\ parts = <<>> /\ (equal => NumItems % k = 0)
  <2>1. lens \in [Items -> Lengths] /\ k \in Items /\ parts = <<>>
    BY SomePartition DEF Init
  <2>2. equal => NumItems % k = 0
    BY SomePartition
  <2>3. lens \in [Items -> Nat]
    BY <2>1, ItemsAssumption
  <2> QED
    BY <2>1, <2>2, <2>3, ItemsAssumption DEF Items
<1>2. PICK o \in Orders[NumItems] : heap = IF equal THEN Groups(o) ELSE Singles
  BY SomePartition DEF Init
<1>3. /\ o \in [Items -> Items] /\ IsInjective(o)
      /\ \A i \in Items : \E n \in Items : o[n] = i
  <2>1. NumItems \in Items
    BY ItemsAssumption DEF Items
  <2> QED
    BY <2>1, <1>2, OrdersOnto DEF Items
<1>4. IsFiniteSet(Items)
  <2>1. NumItems \in Int /\ 1 \in Int
    BY ItemsAssumption
  <2> QED
    BY <2>1, FS_Interval DEF Items
<1>5. \A s \in heap : IsState(s) /\ Sorted(s)
  BY InitSpread DEF SpreadInv
<1>6. PartitionExact
  BY <1>1 DEF PartitionExact
<1>7. CASE ~equal
  <2> DEFINE s(i) == [j \in 1..k |-> IF j = 1 THEN Single(i) ELSE Empty]
             f == [i \in Items |-> s(i)]
  <2>1. heap = {s(i) : i \in Items}
    BY <1>2, <1>7 DEF Singles
  <2>2. ASSUME NEW i \in Items, NEW j \in 1..k
        PROVE  /\ Size(s(i), j) = IF j = 1 THEN 1 ELSE 0
               /\ s(i)[j].sum = IF j = 1 THEN lens[i] ELSE 0
               /\ j = 1 => Item(s(i), j, 1) = i
    BY DEF Single, Empty, Size, Item
  <2>3. IsFiniteSet(heap)
    <3>1. f \in Surjection(Items, heap)
      BY <2>1 DEF Surjection
    <3> HIDE DEF f
    <3> QED
      BY <3>1, <1>4, FS_Surjection
  <2>4. \A i \in Items : IsState(s(i)) /\ Sorted(s(i))
    BY <1>5, <2>1
  <2> HIDE DEF s
  <2>5. ASSUME NEW i \in Items PROVE IsProper(s(i))
    <3>1. Once(s(i))
      BY <2>2 DEF Once
    <3>2. Weighed(s(i))
      <4> SUFFICES ASSUME NEW j \in 1..k PROVE Size(s(i), j) = 0 => s(i)[j].sum = 0
        BY DEF Weighed
      <4>1. CASE j = 1
        BY <4>1, <1>1, <2>2
      <4>2. CASE j # 1
        BY <4>2, <2>2
      <4> QED
        BY <4>1, <4>2
    <3>3. Thin(s(i))
      BY <2>2 DEF Thin
    <3>4. Sunk(s(i))
      BY <1>1, <2>2 DEF Sunk
    <3> QED
      BY <1>7, <2>4, <3>1, <3>2, <3>3, <3>4 DEF IsProper
  <2>6. ASSUME NEW i \in Items, NEW x \in Items PROVE Has(s(i), x) <=> x = i
    <3>1. 1 \in 1..k
      BY <1>1
    <3> QED
      BY <2>2, <3>1 DEF Has
  <2>7. Covered /\ Apart
    BY <2>1, <2>6 DEF Covered, Apart
  <2> QED
    BY <1>1, <1>6, <2>1, <2>3, <2>5, <2>7 DEF ExactInv
<1>8. CASE equal
  <2> DEFINE R == 1..(NumItems \div k)
             at(g, j) == k * g + 1 - j
             s(g) == [j \in 1..k |-> Single(o[at(g, j)])]
             f == [g \in R |-> s(g)]
  <2>1. heap = {s(g) : g \in R}
    BY <1>2, <1>8 DEF Groups
  <2>2. \A g \in R, j \in 1..k : at(g, j) \in Items
    BY <1>1, GroupPlace
  <2>3. \A g, h \in R : \A i, j \in 1..k : at(g, i) = at(h, j) => g = h /\ i = j
    <3>1. \A g \in R : g \in Nat
      BY <1>1, ItemsAssumption
    <3> QED
      BY <3>1, <1>1, GroupsApart
  <2>4. \A n \in Items : \E g \in R : \E j \in 1..k : n = at(g, j)
    BY <1>1, <1>8, GroupsCover
  <2> HIDE DEF at
  <2>5. ASSUME NEW g \in R, NEW j \in 1..k
        PROVE  /\ Size(s(g), j) = 1 /\ Item(s(g), j, 1) = o[at(g, j)]
               /\ s(g)[j].sum = lens[o[at(g, j)]] /\ o[at(g, j)] \in Items
    BY <1>3, <2>2 DEF Single, Size, Item
  <2>6. IsFiniteSet(heap)
    <3>1. f \in Surjection(R, heap)
      BY <2>1 DEF Surjection
    <3>2. IsFiniteSet(R)
      <4>1. 1 \in Int /\ NumItems \div k \in Int
        BY <1>1, ItemsAssumption
      <4> QED
        BY <4>1, FS_Interval
    <3> HIDE DEF f, R
    <3> QED
      BY <3>1, <3>2, FS_Surjection
  <2>7. \A g \in R : IsState(s(g)) /\ Sorted(s(g))
    BY <1>5, <2>1
  <2>8. \A m, n \in Items : o[m] = o[n] => m = n
    BY <1>3 DEF IsInjective
  <2> HIDE DEF s, R
  <2>9. ASSUME NEW g \in R PROVE IsProper(s(g))
    <3>1. Once(s(g))
      <4> SUFFICES ASSUME NEW a \in 1..k, NEW b \in 1..k,
                          NEW m \in 1..Size(s(g), a), NEW n \in 1..Size(s(g), b),
                          Item(s(g), a, m) = Item(s(g), b, n)
                   PROVE  a = b /\ m = n
        BY DEF Once
      <4>1. m = 1 /\ n = 1
        BY <2>5
      <4>2. at(g, a) = at(g, b)
        BY <2>2, <2>5, <2>8, <4>1
      <4> QED
        BY <2>3, <4>1, <4>2
    <3>2. Weighed(s(g)) /\ Sunk(s(g))
      BY <2>5 DEF Weighed, Sunk
    <3>3. Thin(s(g)) /\ Even(s(g))
      BY <2>5 DEF Thin, Even
    <3> QED
      BY <2>7, <3>1, <3>2, <3>3 DEF IsProper
  <2>10. ASSUME NEW g \in R, NEW i \in Items
         PROVE  Has(s(g), i) <=> \E j \in 1..k : o[at(g, j)] = i
    BY <2>5 DEF Has
  <2>11. Covered
    <3> SUFFICES ASSUME NEW i \in Items PROVE \E g \in R : Has(s(g), i)
      BY <2>1 DEF Covered
    <3>1. PICK n \in Items : o[n] = i
      BY <1>3
    <3>2. PICK g \in R : \E j \in 1..k : n = at(g, j)
      BY <2>4
    <3> QED
      BY <3>1, <3>2, <2>10
  <2>12. Apart
    <3> SUFFICES ASSUME NEW g \in R, NEW h \in R, NEW i \in Items,
                        Has(s(g), i), Has(s(h), i)
                 PROVE  g = h
      BY <2>1 DEF Apart
    <3>1. PICK a \in 1..k : o[at(g, a)] = i
      BY <2>10
    <3>2. PICK b \in 1..k : o[at(h, b)] = i
      BY <2>10
    <3>3. at(g, a) = at(h, b)
      BY <3>1, <3>2, <2>2, <2>8
    <3> QED
      BY <3>3, <2>3
  <2> QED
    BY <1>1, <1>6, <2>1, <2>6, <2>9, <2>11, <2>12 DEF ExactInv
<1> QED
  BY <1>7, <1>8

\* What becomes of a set of the last state: the samples in it, as many as it holds.
LEMMA SetOf ==
    ASSUME k \in Items, NEW s, IsState(s), NEW a \in 1..k
    PROVE  /\ \A i : i \in Range(s[a].items) <=> \E n \in 1..Size(s, a) : Item(s, a, n) = i
           /\ Once(s) => Cardinality(Range(s[a].items)) = Size(s, a)
<1> DEFINE c == s[a].items
<1>1. c \in Seq(Items)
  BY DEF IsState
<1>2. DOMAIN c = 1..Len(c) /\ c \in [1..Len(c) -> Items] /\ Len(c) \in Nat
  BY <1>1, LenProperties
<1>3. Size(s, a) = Len(c) /\ \A n : Item(s, a, n) = c[n]
  BY DEF Size, Item
<1> HIDE DEF c
<1>4. \A i : i \in Range(c) <=> \E n \in 1..Size(s, a) : Item(s, a, n) = i
  BY <1>2, <1>3 DEF Range
<1>5. ASSUME Once(s) PROVE Cardinality(Range(c)) = Size(s, a)
  <2>1. IsInjective(c)
    BY <1>2, <1>3, <1>5 DEF Once, IsInjective
  <2>2. c \in [1..Len(c) -> Range(c)]
    BY <1>2 DEF Range
  <2>3. \A x \in Range(c) : \E n \in 1..Len(c) : c[n] = x
    BY <1>2 DEF Range
  <2>4. ExistsBijection(1..Len(c), Range(c))
    BY <2>1, <2>2, <2>3 DEF ExistsBijection, Bijection, Injection, Surjection
  <2>5. 1 \in Int /\ Len(c) \in Int
    BY <1>2
  <2>6. /\ IsFiniteSet(1..Len(c))
        /\ Cardinality(1..Len(c)) = IF 1 > Len(c) THEN 0 ELSE Len(c) - 1 + 1
    BY <2>5, FS_Interval, Zenon
  <2>7. Cardinality(1..Len(c)) = Len(c)
    BY <1>2, <2>6
  <2>8. Cardinality(Range(c)) = Cardinality(1..Len(c))
    BY <2>4, <2>6, FS_Bijection
  <2> QED
    BY <1>3, <2>7, <2>8
<1> QED
  BY <1>4, <1>5 DEF c

\* There are as many samples as partitions at least, so the last state has no
\* empty set: its sets would have one sample at most.
LEMMA NoEmptySet ==
    ASSUME k \in Items, NEW s, IsProper(s), \A i \in Items : Has(s, i), NEW e \in 1..k
    PROVE  Size(s, e) # 0
<1> SUFFICES ASSUME Size(s, e) = 0 PROVE FALSE
  OBVIOUS
<1> USE DEF IsProper
<1>1. \A j \in 1..k : Size(s, j) \in Nat /\ Size(s, j) <= 1
  BY StateParts DEF Thin
<1> DEFINE held(i, j) == \E n \in 1..Size(s, j) : Item(s, j, n) = i
           T == (1..k) \ {e}
           f == [i \in Items |-> CHOOSE j \in 1..k : held(i, j)]
<1>2. ASSUME NEW i \in Items PROVE f[i] \in 1..k /\ held(i, f[i])
  <2>1. \E j \in 1..k : held(i, j)
    BY DEF Has
  <2> HIDE DEF held
  <2> QED
    BY <2>1
<1>3. ASSUME NEW i \in Items PROVE f[i] \in T
  <2>1. ~held(i, e)
    OBVIOUS
  <2> HIDE DEF f, held
  <2> QED
    BY <2>1, <1>2
<1>4. f \in [Items -> T]
  <2> HIDE DEF T
  <2> QED
    BY <1>3
<1> HIDE DEF f
<1>5. /\ IsFiniteSet(1..k) /\ Cardinality(1..k) = k
      /\ IsFiniteSet(Items) /\ Cardinality(Items) = NumItems /\ k <= NumItems /\ k \in Nat
  <2>1. 1 \in Int /\ k \in Int /\ NumItems \in Int /\ k >= 1 /\ NumItems >= 1 /\ k <= NumItems
    BY ItemsAssumption DEF Items
  <2>2. /\ IsFiniteSet(1..k) /\ IsFiniteSet(1..NumItems)
        /\ Cardinality(1..k) = IF 1 > k THEN 0 ELSE k - 1 + 1
        /\ Cardinality(1..NumItems) = IF 1 > NumItems THEN 0 ELSE NumItems - 1 + 1
    BY <2>1, FS_Interval, Zenon
  <2> QED
    BY <2>1, <2>2 DEF Items
<1>6. IsFiniteSet(T) /\ Cardinality(T) = k - 1
  BY <1>5, FS_RemoveElement
<1>7. PICK x \in Items, y \in Items : x # y /\ f[x] = f[y]
  <2> HIDE DEF T
  <2>1. Cardinality(T) < Cardinality(Items)
    BY <1>5, <1>6, ItemsAssumption
  <2> QED
    BY <1>4, <1>5, <1>6, <2>1, FS_PigeonHole
<1> DEFINE a == f[x]
<1>8. a \in 1..k /\ held(x, a) /\ held(y, a)
  <2> HIDE DEF held
  <2> QED
    BY <1>2, <1>7
<1> HIDE DEF a
<1>9. Item(s, a, 1) = x /\ Item(s, a, 1) = y
  <2>1. PICK m \in 1..Size(s, a) : Item(s, a, m) = x
    BY <1>8
  <2>2. PICK n \in 1..Size(s, a) : Item(s, a, n) = y
    BY <1>8
  <2>3. m = 1 /\ n = 1
    BY <1>1, <1>8
  <2> QED
    BY <2>1, <2>2, <2>3
<1> QED
  BY <1>7, <1>9

\* Sets of as many samples each share the samples out evenly.
LEMMA EvenSets ==
    ASSUME k \in Items, NEW s, IsProper(s), equal, \A i \in Items : Has(s, i), NEW a \in 1..k
    PROVE  Size(s, a) * k = NumItems
<1> USE DEF IsProper
<1> DEFINE m == Size(s, a)
           P == (1..k) \X (1..m)
           f == [x \in P |-> Item(s, x[1], x[2])]
<1>1. m \in Nat /\ m > 0 /\ \A j \in 1..k : Size(s, j) = m
  BY StateParts DEF Even
<1>2. \A j \in 1..k : \A n \in 1..m : Item(s, j, n) \in Items
  BY <1>1, StateParts
<1> HIDE DEF m
<1>3. f \in [P -> Items]
  BY <1>2
<1>4. IsInjective(f)
  <2> SUFFICES ASSUME NEW x \in P, NEW y \in P, f[x] = f[y] PROVE x = y
    BY DEF IsInjective
  <2>1. /\ x[1] \in 1..k /\ x[2] \in 1..Size(s, x[1]) /\ x = <<x[1], x[2]>>
        /\ y[1] \in 1..k /\ y[2] \in 1..Size(s, y[1]) /\ y = <<y[1], y[2]>>
    BY <1>1
  <2>2. Item(s, x[1], x[2]) = Item(s, y[1], y[2])
    OBVIOUS
  <2>3. x[1] = y[1] /\ x[2] = y[2]
    BY <2>1, <2>2 DEF Once
  <2> QED
    BY <2>1, <2>3
<1>5. ASSUME NEW i \in Items PROVE \E x \in P : f[x] = i
  <2>1. PICK j \in 1..k : \E n \in 1..Size(s, j) : Item(s, j, n) = i
    BY DEF Has
  <2>2. PICK n \in 1..m : Item(s, j, n) = i
    BY <2>1, <1>1
  <2>3. <<j, n>> \in P /\ f[<<j, n>>] = i
    BY <2>2
  <2> QED
    BY <2>3
<1>6. ExistsBijection(P, Items)
  <2> HIDE DEF f, P
  <2>1. f \in Injection(P, Items) /\ f \in Surjection(P, Items)
    BY <1>3, <1>4, <1>5 DEF Injection, Surjection
  <2> QED
    BY <2>1 DEF ExistsBijection, Bijection
<1>7. 1 \in Int /\ k \in Int /\ NumItems \in Int /\ m \in Int /\ k >= 1 /\ NumItems >= 1 /\ m >= 1
  BY <1>1, ItemsAssumption DEF Items
<1>8. /\ IsFiniteSet(1..k) /\ IsFiniteSet(1..NumItems) /\ IsFiniteSet(1..m)
      /\ Cardinality(1..k) = IF 1 > k THEN 0 ELSE k - 1 + 1
      /\ Cardinality(1..NumItems) = IF 1 > NumItems THEN 0 ELSE NumItems - 1 + 1
      /\ Cardinality(1..m) = IF 1 > m THEN 0 ELSE m - 1 + 1
  BY <1>7, FS_Interval, Zenon
<1>9. IsFiniteSet(P) /\ Cardinality(P) = Cardinality(1..k) * Cardinality(1..m)
  BY <1>8, FS_Product
<1>10. Cardinality(Items) = Cardinality(P)
  <2> HIDE DEF P
  <2> QED
    BY <1>6, <1>9, FS_Bijection
<1>11. Cardinality(1..k) = k /\ Cardinality(1..m) = m /\ Cardinality(Items) = NumItems
  BY <1>7, <1>8 DEF Items
<1>12. NumItems = k * m
  BY <1>9, <1>10, <1>11
<1>13. m * k = NumItems
  BY <1>7, <1>12
<1> QED
  BY <1>13 DEF m

LEMMA ReturnExact == ASSUME ExactInv, Return PROVE ExactInv'
<1>1. Cardinality(heap) = 1 /\ UNCHANGED <<lens, equal, k, heap>>
  BY DEF Return
<1> DEFINE sets(s) == [i \in 1..k |-> Range(s[i].items)]
<1>2. PICK s \in heap : IF equal THEN parts' = sets(s) ELSE parts' \in Sorts(sets(s), Heavier)
  BY Zenon DEF Return
<1>3. k \in Items /\ k \in Nat \ {0} /\ IsFiniteSet(heap) /\ IsProper(s)
  BY ItemsAssumption DEF ExactInv, Items
<1>4. heap = {s}
  <2>1. PICK t : heap = {t}
    BY <1>1, <1>3, FS_Singleton
  <2> QED
    BY <2>1
<1>5. \A i \in Items : Has(s, i)
  BY <1>4 DEF ExactInv, Covered
<1>6. PICK p \in [1..k -> 1..k] :
        /\ IsInjective(p) /\ \A a \in 1..k : \E i \in 1..k : p[i] = a
        /\ parts' = [i \in 1..k |-> Range(s[p[i]].items)]
  <2>1. CASE equal
    <3> DEFINE p == [i \in 1..k |-> i]
    <3>1. p \in [1..k -> 1..k] /\ IsInjective(p) /\ \A a \in 1..k : p[a] = a
      BY DEF IsInjective
    <3>2. parts' = [i \in 1..k |-> Range(s[i].items)]
      BY <2>1, <1>2
    <3>3. parts' = [i \in 1..k |-> Range(s[p[i]].items)]
      BY <3>2
    <3> QED
      BY <3>1, <3>3
  <2>2. CASE ~equal
    <3> DEFINE c == sets(s)
    <3>1. parts' \in Sorts(c, Heavier)
      BY <2>2, <1>2
    <3> HIDE DEF c
    <3>2. PICK p \in Orders[k] : parts' = [i \in 1..k |-> c[p[i]]]
      BY <3>1 DEF Sorts
    <3>3. /\ p \in [1..k -> 1..k] /\ IsInjective(p)
          /\ \A a \in 1..k : \E i \in 1..k : p[i] = a
      BY <1>3, OrdersOnto
    <3>4. parts' = [i \in 1..k |-> Range(s[p[i]].items)]
      BY <3>2, <3>3 DEF c
    <3> QED
      BY <3>3, <3>4
  <2> QED
    BY <2>1, <2>2
<1>7. ASSUME NEW i \in 1..k
      PROVE  /\ p[i] \in 1..k /\ parts'[i] = Range(s[p[i]].items)
             /\ Size(s, p[i]) \in Nat /\ Size(s, p[i]) # 0
             /\ \A x : x \in parts'[i] <=> \E n \in 1..Size(s, p[i]) : Item(s, p[i], n) = x
             /\ Cardinality(parts'[i]) = Size(s, p[i])
  <2>1. p[i] \in 1..k /\ parts'[i] = Range(s[p[i]].items)
    BY <1>6
  <2>2. IsState(s) /\ Once(s)
    BY <1>3 DEF IsProper
  <2> DEFINE a == p[i]
  <2>3. a \in 1..k /\ parts'[i] = Range(s[a].items)
    BY <2>1
  <2> HIDE DEF a
  <2>4. Size(s, a) \in Nat /\ Size(s, a) # 0
    BY <2>2, <2>3, <1>3, <1>5, NoEmptySet, StateParts
  <2>5. /\ \A x : x \in Range(s[a].items) <=> \E n \in 1..Size(s, a) : Item(s, a, n) = x
        /\ Cardinality(Range(s[a].items)) = Size(s, a)
    BY <2>2, <2>3, <1>3, SetOf
  <2>6. /\ \A x : x \in parts'[i] <=> \E n \in 1..Size(s, a) : Item(s, a, n) = x
        /\ Cardinality(parts'[i]) = Size(s, a)
    BY <2>3, <2>5, Zenon
  <2> QED
    BY <2>3, <2>4, <2>6 DEF a
<1>8. \A i \in 1..k : parts'[i] # {}
  <2> SUFFICES ASSUME NEW i \in 1..k PROVE parts'[i] # {}
    OBVIOUS
  <2>1. 1 \in 1..Size(s, p[i])
    BY <1>7
  <2> QED
    BY <2>1, <1>7
<1>9. ASSUME NEW x \in Items PROVE Cardinality({i \in 1..k : x \in parts'[i]}) = 1
  <2> DEFINE Q == {i \in 1..k : x \in parts'[i]}
  <2>1. PICK a \in 1..k : \E n \in 1..Size(s, a) : Item(s, a, n) = x
    BY <1>5 DEF Has
  <2>2. PICK j \in 1..k : p[j] = a
    BY <1>6
  <2>3. j \in Q
    BY <2>1, <2>2, <1>7
  <2>4. ASSUME NEW i \in Q PROVE i = j
    <3>1. i \in 1..k /\ \E n \in 1..Size(s, p[i]) : Item(s, p[i], n) = x
      BY <1>7
    <3>2. p[i] = p[j]
      <4> DEFINE b == p[i]
      <4>1. b \in 1..k /\ \E n \in 1..Size(s, b) : Item(s, b, n) = x
        BY <3>1, <1>7
      <4> HIDE DEF b
      <4>2. b = a
        BY <2>1, <4>1, <1>3 DEF IsProper, Once
      <4> QED
        BY <2>2, <4>2 DEF b
    <3> QED
      BY <3>1, <3>2, <1>6 DEF IsInjective
  <2>5. Q = {j}
    <3> HIDE DEF Q
    <3> QED
      BY <2>3, <2>4
  <2> HIDE DEF Q
  <2>6. Cardinality(Q) = 1
    BY <2>5, FS_Singleton
  <2> QED
    BY <2>6 DEF Q
<1>10. ASSUME equal, NEW i \in 1..k PROVE Cardinality(parts'[i]) * k = NumItems
  BY <1>3, <1>5, <1>7, <1>10, EvenSets
<1>11. PartitionExact'
  BY <1>1, <1>8, <1>9, <1>10 DEF PartitionExact
<1>12. (\A v \in heap : IsProper(v))' /\ Covered' /\ Apart'
  BY <1>1, StateStays DEF ExactInv, Covered, Apart
<1> QED
  BY <1>1, <1>11, <1>12 DEF ExactInv

LEMMA NextExact == ExactInv /\ [Next]_vars => ExactInv'
<1> SUFFICES ASSUME ExactInv, [Next]_vars PROVE ExactInv'
  OBVIOUS
<1>1. CASE UNCHANGED vars
  <2>1. UNCHANGED <<lens, equal, k, heap, parts>>
    BY <1>1 DEF vars
  <2>2. (\A v \in heap : IsProper(v))' /\ Covered' /\ Apart' /\ PartitionExact'
    BY <2>1, StateStays DEF ExactInv, Covered, Apart, PartitionExact
  <2> QED
    BY <2>1, <2>2 DEF ExactInv
<1> QED
  BY <1>1, MergeExact, ReturnExact DEF Next

\* No partition is empty and each sample is in exactly one, whatever the lengths,
\* 0 too, and however many partitions; those of the ranks have the same size
\* (_check_and_sort_partitions and the assertions of karmarkar_karp).
THEOREM PartitionExactTheorem == Spec => []PartitionExact
<1>1. NoPartition \/ ExactInv => PartitionExact
  BY DEF ExactInv, NoPartition, PartitionExact
<1> QED
  BY InitExact, NextExact, NoPartitionStays, <1>1, PTL DEF Spec

==============================================================================
