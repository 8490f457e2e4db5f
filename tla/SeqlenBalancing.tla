--------------------------- MODULE SeqlenBalancing ---------------------------
(***************************************************************************)
(* verl/utils/seqlen_balancing.py: the samples of a batch are divided into  *)
(* partitions of similar length by the largest differencing method of       *)
(* Karmarkar and Karp.  The trainer divides the global batch among the ranks *)
(* (_balance_batch, equal sizes); actor, critic and reward model divide      *)
(* theirs into micro-batches of about max_token_len tokens                   *)
(* (rearrange_micro_batches), and put the outputs back into the order of the *)
(* samples (restore_dynamic_batch).                                         *)
(***************************************************************************)
EXTENDS Integers, Sequences, FiniteSets, Functions

CONSTANTS
    NumItems,   \* samples of the batch
    Lengths,    \* lengths a sample may have: attention_mask.sum, 0 for padding
    MaxTokens,  \* max_token_len
    MaxParts    \* bound of the model on the number of partitions

Items == 1..NumItems

ASSUME ItemsAssumption == NumItems \in Nat \ {0} /\ Lengths \subseteq Nat
ASSUME TokensAssumption == MaxTokens \in Nat \ {0} /\ \A l \in Lengths : MaxTokens >= l

VARIABLES
    lens,       \* seqlen_list
    equal,      \* equal_size
    k,          \* k_partitions
    heap,       \* states_pq: each state divides some samples into k sets
    parts       \* the partitions returned, in order; empty until then

vars == <<lens, equal, k, heap, parts>>

\* Set: its samples and their sum.
Empty == [sum |-> 0, items |-> <<>>]
Single(i) == [sum |-> lens[i], items |-> <<i>>]
Union(a, b) == [sum |-> a.sum + b.sum, items |-> a.items \o b.items]

\* Mutant: of two sets of one sum, that with fewer samples would be the larger.
AboveShorter(a, b) ==
    \/ a.sum > b.sum
    \/ a.sum = b.sum /\ Len(a.items) < Len(b.items)
    \/ /\ a.sum = b.sum /\ Len(a.items) = Len(b.items)
       /\ a.items # <<>> /\ Head(a.items) > Head(b.items)

\* Set.__lt__.  Sets share no sample, so their first ones settle a tie.
Above(a, b) ==
    \/ a.sum > b.sum
    \/ a.sum = b.sum /\ Len(a.items) > Len(b.items)
    \/ /\ a.sum = b.sum /\ Len(a.items) = Len(b.items)
       /\ a.items # <<>> /\ Head(a.items) > Head(b.items)

Orders == [n \in 1..NumItems |-> {p \in [1..n -> 1..n] : IsInjective(p)}]

\* sorted(..., reverse=True) of k things, by a relation of theirs.
Sorts(s, Over(_, _)) ==
    LET decreasing(p) == \A j \in 1..k : \A i \in 1..(j - 1) : ~Over(s[p[j]], s[p[i]])
    IN  {[i \in 1..k |-> s[p[i]]] : p \in {q \in Orders[k] : decreasing(q)}}

Spread(s) == s[1].sum - s[k].sum

\* State.__lt__: the state that is popped sooner.
Sooner(s, t) == \/ Spread(s) > Spread(t)
                \/ Spread(s) = Spread(t) /\ Above(s[1], t[1])

First(s, H) == s \in H /\ \A t \in H : ~Sooner(t, s)

-----------------------------------------------------------------------------
\* As many micro-batches as hold all tokens, but no more than samples.
Needed ==
    LET full == (SumFunction(lens) + MaxTokens - 1) \div MaxTokens
    IN  IF full < NumItems THEN full ELSE NumItems

\* sorted_seqlen_list: the samples by length, then by index.
Increasing(o) ==
    \A j \in Items : \A i \in 1..(j - 1) :
        lens[o[i]] < lens[o[j]] \/ (lens[o[i]] = lens[o[j]] /\ o[i] < o[j])

\* State: one sample and k - 1 empty sets, or k samples that are next to each
\* other in the sorted list, the longest first.
Singles == {[j \in 1..k |-> IF j = 1 THEN Single(i) ELSE Empty] : i \in Items}
Groups(o) == {[j \in 1..k |-> Single(o[k * g + 1 - j])] : g \in 1..(NumItems \div k)}

\* get_seqlen_balanced_partitions is called with equal sizes for the ranks, or for
\* micro-batches: other ranks, min_num_micro_batch and num_batches_divided_by may
\* ask for more of them than the rank needs.  If nobody asks for any, because the
\* batch is all padding, State has no set for the first sample and raises.
Init ==
    /\ lens \in [Items -> Lengths]
    /\ \E o \in Orders[NumItems] :
         /\ Increasing(o)
         /\ equal \in BOOLEAN
         /\ \/ equal /\ k \in {n \in Items : n <= MaxParts /\ NumItems % n = 0}
            \/ ~equal /\ k \in {n \in 0..MaxParts : Needed <= n /\ n <= NumItems}
         /\ heap = IF equal THEN Groups(o) ELSE IF k = 0 THEN {} ELSE Singles
    /\ parts = <<>>

\* Mutant: sets of the same rank would be merged.
OppositeAlike(s, t) == [i \in 1..k |-> Union(s[i], t[i])]

\* State.merge: the largest set of one takes the smallest of the other.
Opposite(s, t) == [i \in 1..k |-> Union(s[i], t[k + 1 - i])]

\* The two states of largest spread are popped, and merged into one.
Merge ==
    \E s, t \in heap :
        /\ s # t /\ First(s, heap) /\ First(t, heap \ {s})
        /\ \E u \in Sorts(Opposite(s, t), Above) : heap' = (heap \ {s, t}) \cup {u}
        /\ UNCHANGED <<lens, equal, k, parts>>

Work(P) == SumFunctionOnSet([i \in Items |-> lens[i] * lens[i]], P)
Heavier(P, Q) == \/ Work(P) > Work(Q)
                 \/ Work(P) = Work(Q) /\ \E j \in Q : \A i \in P : i > j

\* The sets of the last state are returned; micro-batches with the most attention
\* first (use_dynamic_bsz_balance).
Return ==
    /\ Cardinality(heap) = 1 /\ parts = <<>>
    /\ \E s \in heap :
         LET sets == [i \in 1..k |-> Range(s[i].items)]
         IN  IF equal THEN parts' = sets ELSE parts' \in Sorts(sets, Heavier)
    /\ UNCHANGED <<lens, equal, k, heap>>

Next == Merge \/ Return

Spec == Init /\ [][Next]_vars

-----------------------------------------------------------------------------
\* No partition is empty, even of samples without length, each sample is in exactly
\* one, and those of ranks have the same size: the assertions of get_seqlen_balanced_partitions hold
\* (seqlen_balancing.py:131-134, 187-195).
PartitionExact ==
    parts # <<>> =>
      /\ \A p \in 1..k : parts[p] # {}
      /\ \A i \in Items : Cardinality({p \in 1..k : i \in parts[p]}) = 1
      /\ equal => \A p \in 1..k : Cardinality(parts[p]) * k = NumItems

\* The largest set of a state exceeds the smallest by no more than some sample, so
\* a micro-batch exceeds max_token_len by no more (karmarkar_karp).
SpreadBounded == \A s \in heap : \E i \in Items : Spread(s) <= lens[i]

==============================================================================
