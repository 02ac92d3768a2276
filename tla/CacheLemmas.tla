-------------------------- MODULE CacheLemmas -------------------------------
(* What the caches rely on: the least of some numbers, the elements that    *)
(* retain keeps, and sums over finite sets.  The induction is on a smallest *)
(* counterexample, whose existence WFMin states without an operator.        *)
EXTENDS AccessOrder, FiniteSetsExt, FiniteSetTheorems, SequenceTheorems, TLAPS

\* Of some subsets of a finite set, one contains none of the others.
LEMMA SmallestSubset ==
    ASSUME NEW S, IsFiniteSet(S), NEW C \in SUBSET SUBSET S, C # {}
    PROVE  \E d \in C : \A e \in C : e \subseteq d => e = d
<1>1. IsWellFoundedOn(StrictSubsetOrdering(S), SUBSET S)
  BY FS_StrictSubsetOrderingWellFounded, FS_FiniteSubsetsOfFinite
<1>2. PICK d \in C : \A e \in C : ~(<<e, d>> \in StrictSubsetOrdering(S))
  BY <1>1, WFMin, Zenon
<1>3. \A e \in C : e \subseteq d => e = d
  BY <1>2 DEF StrictSubsetOrdering
<1>4. QED
  BY <1>3

\* Some numbers, if any, have a least one.
LEMMA LeastNatural ==
    ASSUME NEW T \in SUBSET Nat, T # {}
    PROVE  \E n \in T : \A m \in T : n <= m
<1>1. PICK top \in T : TRUE
  OBVIOUS
<1> DEFINE D == 0 .. top
           C == {d \in SUBSET D : \E n \in T : d = 0 .. n}
<1>2. 0 .. top \in C
  BY <1>1
<1>3. IsFiniteSet(D)
  BY FS_Interval
<1>4. PICK d \in C : \A e \in C : e \subseteq d => e = d
  <2>1. C \in SUBSET SUBSET D /\ C # {}
    BY <1>2
  <2> HIDE DEF C, D
  <2>2. QED
    BY <1>3, <2>1, SmallestSubset
<1>5. PICK n \in T : d = 0 .. n /\ 0 .. n \subseteq 0 .. top
  BY <1>4
<1>6. ASSUME NEW m \in T, m < n
      PROVE  FALSE
  <2>1. /\ 0 .. m \subseteq 0 .. n /\ n \notin 0 .. m /\ n \in 0 .. n
        /\ 0 .. m \in C
    BY <1>5, <1>6
  <2>2. QED
    BY <1>4, <1>5, <2>1
<1>7. QED
  BY <1>6

-----------------------------------------------------------------------------
(* retain *)

\* f is what retain computes, up to the n-th element.
Retaining(f, order, S, n) ==
    f = [i \in 0 .. n |->
            IF i = 0 THEN << >>
            ELSE IF order[i] \in S THEN Append(f[i - 1], order[i]) ELSE f[i - 1]]

LEMMA RetainingExists ==
    ASSUME NEW order, NEW S
    PROVE  \A n \in Nat : \E f : Retaining(f, order, S, n)
<1> DEFINE T == {n \in Nat : ~ \E f : Retaining(f, order, S, n)}
<1> SUFFICES ASSUME T # {} PROVE FALSE
  OBVIOUS
<1>1. PICK n \in T : \A m \in T : n <= m
  <2>1. T \in SUBSET Nat
    OBVIOUS
  <2> HIDE DEF T
  <2>2. QED
    BY <2>1, LeastNatural
<1>2. n # 0
  <2>1. Retaining([i \in 0 .. 0 |-> << >>], order, S, 0)
    BY DEF Retaining
  <2>2. QED
    BY <2>1
<1>3. PICK f : Retaining(f, order, S, n - 1)
  BY <1>1, <1>2
<1> DEFINE next(e, i) == IF order[i] \in S THEN Append(e[i - 1], order[i]) ELSE e[i - 1]
           g == [i \in 0 .. n |-> IF i < n THEN f[i] ELSE next(f, n)]
<1>4. ASSUME NEW i \in 0 .. n
      PROVE  g[i] = IF i = 0 THEN << >> ELSE next(g, i)
  <2>1. CASE i < n
    <3>1. g[i] = f[i] /\ (i # 0 => g[i - 1] = f[i - 1])
      BY <2>1
    <3>2. i \in 0 .. n - 1
      BY <2>1
    <3>3. f[i] = IF i = 0 THEN << >> ELSE next(f, i)
      BY <1>3, <3>2 DEF Retaining
    <3> HIDE DEF g
    <3>4. QED
      BY <3>1, <3>3
  <2>2. CASE i = n
    <3>1. g[i] = next(f, n) /\ g[n - 1] = f[n - 1]
      BY <1>2, <2>2
    <3> HIDE DEF g
    <3>2. QED
      BY <1>2, <2>2, <3>1
  <2>3. QED
    BY <2>1, <2>2
<1>5. Retaining(g, order, S, n)
  BY <1>4, Zenon DEF Retaining
<1>6. QED
  BY <1>5

\* What a property of every prefix must satisfy: retain is the last of its steps.
LEMMA RetainSteps ==
    ASSUME NEW order, NEW S, Len(order) \in Nat
    PROVE  \E f : /\ retain(order, S) = f[Len(order)]
                  /\ f[0] = << >>
                  /\ \A i \in 1 .. Len(order) :
                        f[i] = IF order[i] \in S THEN Append(f[i - 1], order[i])
                               ELSE f[i - 1]
<1> DEFINE f == CHOOSE f : Retaining(f, order, S, Len(order))
<1>1. Retaining(f, order, S, Len(order))
  BY RetainingExists
<1>2. retain(order, S) = f[Len(order)]
  BY DEF retain, Retaining
<1> HIDE DEF f
<1>3. /\ f[0] = << >>
      /\ \A i \in 1 .. Len(order) :
            f[i] = IF order[i] \in S THEN Append(f[i - 1], order[i]) ELSE f[i - 1]
  <2>1. \A i \in 0 .. Len(order) :
           f[i] = IF i = 0 THEN << >>
                  ELSE IF order[i] \in S THEN Append(f[i - 1], order[i]) ELSE f[i - 1]
    BY <1>1, Zenon DEF Retaining
  <2>2. QED
    BY <2>1
<1>4. QED
  BY <1>2, <1>3

\* p is the elements of S among the first n of the order: each as often as it
\* is there.
KeptOf(p, order, K, S, n) ==
    /\ p \in Seq(K) /\ Len(p) <= n
    /\ {p[i] : i \in 1 .. Len(p)} = {order[i] : i \in 1 .. n} \cap S
    /\ (\A i, j \in 1 .. Len(order) : order[i] = order[j] => i = j)
          => \A i, j \in 1 .. Len(p) : p[i] = p[j] => i = j

LEMMA KeptNext ==
    ASSUME NEW K, NEW order \in Seq(K), NEW S, NEW n \in 1 .. Len(order), NEW p,
           KeptOf(p, order, K, S, n - 1)
    PROVE  KeptOf(IF order[n] \in S THEN Append(p, order[n]) ELSE p, order, K, S, n)
<1>1. 1 .. n = (1 .. n - 1) \cup {n} /\ order[n] \in K /\ n \in Nat
  OBVIOUS
<1>2. /\ p \in Seq(K) /\ Len(p) <= n - 1
      /\ {p[i] : i \in 1 .. Len(p)} = {order[i] : i \in 1 .. n - 1} \cap S
      /\ (\A i, j \in 1 .. Len(order) : order[i] = order[j] => i = j)
            => \A i, j \in 1 .. Len(p) : p[i] = p[j] => i = j
  BY Zenon DEF KeptOf
<1> Len(p) \in Nat
  BY <1>2
<1>3. CASE order[n] \notin S
  <2>1. {order[i] : i \in 1 .. n} \cap S = {order[i] : i \in 1 .. n - 1} \cap S
    BY <1>1, <1>3
  <2>2. Len(p) <= n
    BY <1>1, <1>2
  <2>3. KeptOf(p, order, K, S, n)
    BY <1>2, <2>1, <2>2, Zenon DEF KeptOf
  <2>4. QED
    BY <1>3, <2>3
<1>4. CASE order[n] \in S
  <2> DEFINE q == Append(p, order[n])
  <2>1. /\ q \in Seq(K) /\ Len(q) = Len(p) + 1 /\ q[Len(p) + 1] = order[n]
        /\ \A i \in 1 .. Len(p) : q[i] = p[i]
        /\ 1 .. Len(q) = (1 .. Len(p)) \cup {Len(p) + 1}
    BY <1>1, <1>2
  <2> HIDE DEF q
  <2>2. {q[i] : i \in 1 .. Len(q)} = {p[i] : i \in 1 .. Len(p)} \cup {order[n]}
    <3>1. \A x : x \in {q[i] : i \in 1 .. Len(q)}
             <=> x \in {q[i] : i \in 1 .. Len(p)} \/ x = order[n]
      BY <2>1
    <3>2. {q[i] : i \in 1 .. Len(p)} = {p[i] : i \in 1 .. Len(p)}
      BY <2>1
    <3>3. QED
      BY <3>1, <3>2
  <2>3. {order[i] : i \in 1 .. n} \cap S
           = ({order[i] : i \in 1 .. n - 1} \cap S) \cup {order[n]}
    BY <1>1, <1>4
  <2>4. ASSUME \A i, j \in 1 .. Len(order) : order[i] = order[j] => i = j,
               NEW i \in 1 .. Len(q), NEW j \in 1 .. Len(q), q[i] = q[j]
        PROVE  i = j
    <3>1. \A l \in 1 .. Len(p) : p[l] # order[n]
      <4>1. SUFFICES ASSUME NEW l \in 1 .. Len(p), p[l] = order[n] PROVE FALSE
        OBVIOUS
      <4>2. p[l] \in {order[h] : h \in 1 .. n - 1}
        BY <1>2
      <4>3. PICK m \in 1 .. n - 1 : p[l] = order[m]
        BY <4>2
      <4>4. m \in 1 .. Len(order) /\ m # n
        OBVIOUS
      <4>5. QED
        BY <2>4, <4>1, <4>3, <4>4
    <3>2. \A l, m \in 1 .. Len(p) : p[l] = p[m] => l = m
      BY <1>2, <2>4
    <3>3. QED
      BY <2>1, <2>4, <3>1, <3>2
  <2>5. KeptOf(q, order, K, S, n)
    <3>1. Len(q) <= n
      BY <1>1, <1>2, <2>1
    <3>2. {q[i] : i \in 1 .. Len(q)} = {order[i] : i \in 1 .. n} \cap S
      BY <1>2, <2>2, <2>3
    <3>3. (\A i, j \in 1 .. Len(order) : order[i] = order[j] => i = j)
             => \A i, j \in 1 .. Len(q) : q[i] = q[j] => i = j
      BY <2>4
    <3>4. QED
      BY <2>1, <3>1, <3>2, <3>3, Zenon DEF KeptOf
  <2>6. QED
    BY <1>4, <2>5 DEF q
<1>5. QED
  BY <1>3, <1>4

\* retain keeps the elements of S that the order has, and the last one last.
LEMMA RetainProperties ==
    ASSUME NEW K, NEW order \in Seq(K), NEW S
    PROVE  /\ KeptOf(retain(order, S), order, K, S, Len(order))
           /\ Len(order) > 0 /\ order[Len(order)] \in S
                 => LET kept == retain(order, S)
                    IN  Len(kept) > 0 /\ kept[Len(kept)] = order[Len(order)]
<1>1. PICK f : /\ retain(order, S) = f[Len(order)]
               /\ f[0] = << >>
               /\ \A i \in 1 .. Len(order) :
                     f[i] = IF order[i] \in S THEN Append(f[i - 1], order[i])
                            ELSE f[i - 1]
  BY RetainSteps
<1> DEFINE Bad == {n \in 0 .. Len(order) : ~KeptOf(f[n], order, K, S, n)}
<1>2. Bad = {}
  <2> SUFFICES ASSUME Bad # {} PROVE FALSE
    OBVIOUS
  <2>1. PICK n \in Bad : \A m \in Bad : n <= m
    <3>1. Bad \in SUBSET Nat
      OBVIOUS
    <3> HIDE DEF Bad
    <3>2. QED
      BY <3>1, LeastNatural
  <2>2. KeptOf(f[0], order, K, S, 0)
    BY <1>1 DEF KeptOf
  <2>3. n - 1 \in 0 .. Len(order) /\ n \in 1 .. Len(order)
    BY <2>1, <2>2
  <2>4. KeptOf(f[n - 1], order, K, S, n - 1)
    BY <2>1, <2>3
  <2>5. KeptOf(f[n], order, K, S, n)
    BY <1>1, <2>3, <2>4, KeptNext
  <2>6. QED
    BY <2>1, <2>5
<1>3. \A n \in 0 .. Len(order) : KeptOf(f[n], order, K, S, n)
  BY <1>2
<1> HIDE DEF Bad
<1>4. Len(order) \in Nat
  OBVIOUS
<1>5. ASSUME Len(order) > 0, order[Len(order)] \in S
      PROVE  LET kept == retain(order, S)
             IN  Len(kept) > 0 /\ kept[Len(kept)] = order[Len(order)]
  <2>1. Len(order) \in 1 .. Len(order) /\ Len(order) - 1 \in 0 .. Len(order)
    BY <1>4, <1>5
  <2>2. f[Len(order) - 1] \in Seq(K)
    BY <1>3, <2>1 DEF KeptOf
  <2>3. f[Len(order)] = Append(f[Len(order) - 1], order[Len(order)])
    BY <1>1, <1>5, <2>1
  <2>4. order[Len(order)] \in K
    BY <2>1
  <2>5. QED
    BY <1>1, <2>2, <2>3, <2>4
<1>6. QED
  BY <1>1, <1>3, <1>4, <1>5

\* The same, in the words of the caches.
LEMMA RetainKeeps ==
    ASSUME NEW K, NEW order \in Seq(K), NEW S
    PROVE  /\ retain(order, S) \in Seq(K)
           /\ ToSet(retain(order, S)) = ToSet(order) \cap S
           /\ IsInjective(order) => IsInjective(retain(order, S))
<1> DEFINE kept == retain(order, S)
<1>1. KeptOf(kept, order, K, S, Len(order))
  BY RetainProperties
<1>2. /\ kept \in Seq(K)
      /\ {kept[i] : i \in 1 .. Len(kept)} = {order[i] : i \in 1 .. Len(order)} \cap S
      /\ (\A i, j \in 1 .. Len(order) : order[i] = order[j] => i = j)
            => \A i, j \in 1 .. Len(kept) : kept[i] = kept[j] => i = j
  BY <1>1, Zenon DEF KeptOf
<1>3. DOMAIN order = 1 .. Len(order) /\ DOMAIN kept = 1 .. Len(kept)
  BY <1>2
<1> HIDE DEF kept
<1>4. ToSet(kept) = ToSet(order) \cap S
  BY <1>2, <1>3, Zenon DEF ToSet
<1>5. IsInjective(order) => IsInjective(kept)
  BY <1>2, <1>3, Zenon DEF IsInjective
<1>6. QED
  BY <1>2, <1>4, <1>5 DEF kept

\* A key that is used is last in the order, and there once.
LEMMA TouchKeeps ==
    ASSUME NEW K, NEW order \in Seq(K), NEW k \in K
    PROVE  LET used == touch(order, k)
           IN  /\ used \in Seq(K)
               /\ ToSet(used) = ToSet(order) \cup {k}
               /\ IsInjective(order) => IsInjective(used)
               /\ Len(used) > 0 /\ used[Len(used)] = k
<1> DEFINE kept == retain(order, ToSet(order) \ {k})
           used == Append(kept, k)
<1>1. /\ kept \in Seq(K)
      /\ ToSet(kept) = ToSet(order) \ {k}
      /\ IsInjective(order) => IsInjective(kept)
  BY RetainKeeps
<1> HIDE DEF kept
<1>2. /\ used \in Seq(K) /\ Len(used) = Len(kept) + 1 /\ Len(kept) \in Nat
      /\ used[Len(kept) + 1] = k /\ \A i \in 1 .. Len(kept) : used[i] = kept[i]
      /\ DOMAIN used = (1 .. Len(kept)) \cup {Len(kept) + 1}
      /\ DOMAIN kept = 1 .. Len(kept)
  BY <1>1
<1> HIDE DEF used
<1>3. ToSet(used) = ToSet(kept) \cup {k}
  BY <1>2 DEF ToSet
<1>4. ASSUME IsInjective(order)
      PROVE  IsInjective(used)
  <2>1. \A i, j \in 1 .. Len(kept) : kept[i] = kept[j] => i = j
    BY <1>1, <1>2, <1>4 DEF IsInjective
  <2>2. \A i \in 1 .. Len(kept) : kept[i] # k
    <3>1. \A i \in 1 .. Len(kept) : kept[i] \in ToSet(kept)
      BY <1>2 DEF ToSet
    <3>2. QED
      BY <1>1, <3>1
  <2>3. QED
    BY <1>2, <2>1, <2>2 DEF IsInjective
<1>5. touch(order, k) = used
  BY DEF touch, used, kept
<1>6. QED
  BY <1>1, <1>2, <1>3, <1>4, <1>5

\* Without its first n keys the order has the others, the last one last.
LEMMA DroppingKeeps ==
    ASSUME NEW K, NEW order \in Seq(K), IsInjective(order), NEW n \in 0 .. Len(order)
    PROVE  LET rest == SubSeq(order, n + 1, Len(order))
           IN  /\ rest \in Seq(K)
               /\ ToSet(rest) = ToSet(order) \ {order[i] : i \in 1 .. n}
               /\ IsInjective(rest)
<1> DEFINE rest == SubSeq(order, n + 1, Len(order))
<1>1. /\ Len(order) \in Nat /\ n \in Nat /\ n <= Len(order)
      /\ DOMAIN order = 1 .. Len(order)
      /\ \A i \in 1 .. Len(order) : order[i] \in K
  OBVIOUS
<1>2. /\ rest \in Seq(K) /\ Len(rest) = Len(order) - n
      /\ DOMAIN rest = 1 .. Len(order) - n
      /\ \A i \in 1 .. Len(order) - n : rest[i] = order[n + i]
  <2>1. n + 1 \in Int /\ Len(order) \in Int /\ \A i \in n + 1 .. Len(order) : order[i] \in K
    BY <1>1
  <2>2. /\ rest \in Seq(K)
        /\ Len(rest) = IF n + 1 <= Len(order) THEN Len(order) - (n + 1) + 1 ELSE 0
        /\ \A i \in 1 .. Len(order) - (n + 1) + 1 : rest[i] = order[(n + 1) + i - 1]
    BY <2>1, SubSeqProperties
  <2> HIDE DEF rest
  <2>3. Len(rest) = Len(order) - n /\ Len(order) - (n + 1) + 1 = Len(order) - n
    BY <1>1, <2>2
  <2>4. \A i \in 1 .. Len(order) - n : (n + 1) + i - 1 = n + i
    BY <1>1
  <2>5. \A i \in 1 .. Len(order) - n : rest[i] = order[n + i]
    BY <2>2, <2>3, <2>4
  <2>6. DOMAIN rest = 1 .. Len(rest)
    BY <2>2
  <2>7. QED
    BY <2>2, <2>3, <2>5, <2>6
<1> HIDE DEF rest
<1>3. \A i, j \in 1 .. Len(order) : order[i] = order[j] => i = j
  BY <1>1 DEF IsInjective
<1>4. \A i \in 1 .. Len(order) - n : n + i \in 1 .. Len(order) /\ ~(n + i \in 1 .. n)
  BY <1>1
<1>5. ToSet(rest) \subseteq ToSet(order) \ {order[i] : i \in 1 .. n}
  <2> SUFFICES ASSUME NEW i \in 1 .. Len(order) - n
               PROVE  rest[i] \in ToSet(order) \ {order[j] : j \in 1 .. n}
    BY <1>2 DEF ToSet
  <2>1. rest[i] = order[n + i] /\ n + i \in 1 .. Len(order) /\ ~(n + i \in 1 .. n)
    BY <1>2, <1>4
  <2>2. \A j \in 1 .. n : j \in 1 .. Len(order)
    BY <1>1
  <2>3. \A j \in 1 .. n : order[j] # order[n + i]
    BY <1>3, <2>1, <2>2
  <2>4. order[n + i] \in ToSet(order)
    BY <1>1, <2>1 DEF ToSet
  <2>5. QED
    BY <2>1, <2>3, <2>4
<1>6. ToSet(order) \ {order[i] : i \in 1 .. n} \subseteq ToSet(rest)
  <2> SUFFICES ASSUME NEW i \in 1 .. Len(order), order[i] \notin {order[j] : j \in 1 .. n}
               PROVE  order[i] \in ToSet(rest)
    BY <1>1 DEF ToSet
  <2>1. i \notin 1 .. n
    OBVIOUS
  <2>2. i - n \in 1 .. Len(order) - n /\ n + (i - n) = i
    BY <1>1, <2>1
  <2>3. rest[i - n] = order[i]
    BY <1>2, <2>2
  <2>4. QED
    BY <1>2, <2>2, <2>3 DEF ToSet
<1>7. IsInjective(rest)
  <2> SUFFICES ASSUME NEW i \in 1 .. Len(order) - n, NEW j \in 1 .. Len(order) - n,
                      rest[i] = rest[j]
               PROVE  i = j
    BY <1>2 DEF IsInjective
  <2>1. n + i = n + j
    BY <1>2, <1>3, <1>4
  <2>2. QED
    BY <1>1, <2>1
<1>8. QED
  BY <1>2, <1>5, <1>6, <1>7 DEF rest

\* The first n keys of an order.
LEMMA PrefixNames ==
    ASSUME NEW K, NEW order \in Seq(K), NEW n \in 0 .. Len(order)
    PROVE  ToSet(SubSeq(order, 1, n)) = {order[i] : i \in 1 .. n}
<1> DEFINE front == SubSeq(order, 1, n)
<1>1. Len(order) \in Nat /\ n \in Nat /\ \A i \in 1 .. n : order[i] \in K
  OBVIOUS
<1>2. /\ front \in Seq(K) /\ Len(front) = IF 1 <= n THEN n - 1 + 1 ELSE 0
      /\ \A i \in 1 .. n - 1 + 1 : front[i] = order[1 + i - 1]
  BY <1>1, SubSeqProperties
<1> HIDE DEF front
<1>3. Len(front) = n /\ n - 1 + 1 = n /\ \A i \in 1 .. n : 1 + i - 1 = i
  BY <1>1, <1>2
<1>4. DOMAIN front = 1 .. n /\ \A i \in 1 .. n : front[i] = order[i]
  BY <1>2, <1>3
<1>5. QED
  BY <1>4 DEF ToSet, front

\* An order that names no key twice is as long as it has keys.
LEMMA OrderCounts ==
    ASSUME NEW K, NEW order \in Seq(K), IsInjective(order)
    PROVE  IsFiniteSet(ToSet(order)) /\ Cardinality(ToSet(order)) = Len(order)
<1>1. Len(order) \in Nat /\ DOMAIN order = 1 .. Len(order)
  OBVIOUS
<1>2. IsFiniteSet(1 .. Len(order)) /\ Cardinality(1 .. Len(order)) = Len(order)
  BY <1>1, FS_Interval
<1>3. /\ order \in Surjection(1 .. Len(order), ToSet(order))
      /\ order \in Injection(1 .. Len(order), ToSet(order))
  BY <1>1 DEF Surjection, Injection, ToSet, IsInjective
<1>4. QED
  BY <1>2, <1>3, FS_Surjection

-----------------------------------------------------------------------------
(* Sums over finite sets *)

\* g is the sum of f over every subset of S, as MapThenSumSet takes it.
Summed(g, f, S) ==
    g = [s \in SUBSET S |->
            IF s = {} THEN 0
            ELSE LET x == CHOOSE x \in s : TRUE IN f[x] + g[s \ {x}]]

Sum(f, S) == (CHOOSE g : Summed(g, f, S))[S]

LEMMA SummedExists ==
    ASSUME NEW f, NEW S, IsFiniteSet(S)
    PROVE  Summed(CHOOSE g : Summed(g, f, S), f, S)
<1> DEFINE x(s) == CHOOSE x \in s : TRUE
           next(g, s) == IF s = {} THEN 0 ELSE f[x(s)] + g[s \ {x(s)}]
           Upto(g, n) == \A s \in SUBSET S : Cardinality(s) <= n => g[s] = next(g, s)
           T == {n \in Nat : ~ \E g : Upto(g, n)}
<1>0. \A s \in SUBSET S : s # {} => x(s) \in s
  OBVIOUS
<1>1. \A s \in SUBSET S : /\ IsFiniteSet(s) /\ Cardinality(s) \in Nat
                          /\ Cardinality(s) <= Cardinality(S)
                          /\ \A y \in s : Cardinality(s \ {y}) = Cardinality(s) - 1
                          /\ s = {} <=> Cardinality(s) = 0
  BY FS_Subset, FS_CardinalityType, FS_RemoveElement, FS_EmptySet
<1>2. T = {}
  <2> SUFFICES ASSUME T # {} PROVE FALSE
    OBVIOUS
  <2>1. PICK n \in T : \A m \in T : n <= m
    <3>1. T \in SUBSET Nat
      OBVIOUS
    <3> HIDE DEF T
    <3>2. QED
      BY <3>1, LeastNatural
  <2>2. n # 0
    <3>1. \A s \in SUBSET S : Cardinality(s) <= 0 => s = {}
      BY <1>1
    <3> DEFINE zero == [s \in SUBSET S |-> 0]
    <3>2. \A s \in SUBSET S : Cardinality(s) <= 0 => zero[s] = next(zero, s)
      BY <3>1
    <3>3. Upto(zero, 0)
      BY <3>2
    <3> HIDE DEF zero, Upto
    <3>4. QED
      BY <3>3
  <2>3. PICK g : Upto(g, n - 1)
    <3>1. n \in Nat /\ n - 1 \in Nat /\ ~(n <= n - 1)
      BY <2>1, <2>2
    <3>2. n - 1 \notin T
      <4> HIDE DEF T
      <4>1. QED
        BY <2>1, <3>1
    <3> HIDE DEF Upto
    <3>3. QED
      BY <3>1, <3>2
  <2> DEFINE h == [s \in SUBSET S |-> next(g, s)]
  <2>4. ASSUME NEW s \in SUBSET S, Cardinality(s) <= n
        PROVE  h[s] = next(h, s)
    <3>1. CASE s = {}
      BY <3>1
    <3>2. CASE s # {}
      <4> DEFINE r == s \ {x(s)}
      <4>1. r \in SUBSET S /\ Cardinality(r) <= n - 1
        <5>1. x(s) \in s
          BY <1>0, <3>2
        <5> HIDE DEF x
        <5>2. r \in SUBSET S /\ Cardinality(r) = Cardinality(s) - 1
          BY <1>1, <5>1
        <5>3. Cardinality(s) \in Nat /\ n \in Nat
          BY <1>1
        <5> HIDE DEF r
        <5>4. QED
          BY <2>4, <5>2, <5>3
      <4>2. g[r] = next(g, r) /\ h[r] = next(g, r)
        BY <2>3, <4>1
      <4>3. h[s] = f[x(s)] + g[r]
        BY <3>2
      <4>4. next(h, s) = f[x(s)] + h[r]
        BY <3>2
      <4>5. QED
        BY <4>2, <4>3, <4>4
    <3>3. QED
      BY <3>1, <3>2
  <2>5. Upto(h, n)
    BY <2>4
  <2> HIDE DEF Upto, h
  <2>6. n \in Nat /\ ~ \E a : Upto(a, n)
    OBVIOUS
  <2>7. QED
    BY <2>5, <2>6
<1>3. PICK g : Upto(g, Cardinality(S))
  <2>1. Cardinality(S) \in Nat
    BY FS_CardinalityType
  <2> HIDE DEF Upto
  <2>2. QED
    BY <1>2, <2>1
<1> DEFINE h == [s \in SUBSET S |-> next(g, s)]
<1>4. ASSUME NEW s \in SUBSET S
      PROVE  h[s] = next(h, s)
  <2>1. CASE s = {}
    BY <2>1
  <2>2. CASE s # {}
    <3> DEFINE r == s \ {x(s)}
    <3>1. r \in SUBSET S
      OBVIOUS
    <3>2. g[r] = next(g, r) /\ h[r] = next(g, r)
      BY <1>1, <1>3, <3>1
    <3>3. h[s] = f[x(s)] + g[r] /\ next(h, s) = f[x(s)] + h[r]
      BY <2>2
    <3>4. QED
      BY <3>2, <3>3
  <2>3. QED
    BY <2>1, <2>2
<1>5. Summed(h, f, S)
  <2>1. h = [s \in SUBSET S |-> next(h, s)]
    BY <1>4, Zenon
  <2>2. QED
    BY <2>1, Zenon DEF Summed
<1>6. QED
  BY <1>5, Zenon

\* What the sums over the subsets of S are, one by one.
LEMMA SummedValues ==
    ASSUME NEW f, NEW S, NEW g, Summed(g, f, S)
    PROVE  \A s \in SUBSET S :
              IF s = {} THEN g[s] = 0
              ELSE \E x \in s : /\ x = CHOOSE y \in s : TRUE
                                /\ g[s] = f[x] + g[s \ {x}]
<1>1. ASSUME NEW s \in SUBSET S
      PROVE  g[s] = IF s = {} THEN 0
                    ELSE LET x == CHOOSE x \in s : TRUE IN f[x] + g[s \ {x}]
  BY Zenon DEF Summed
<1>2. \A s \in SUBSET S : s # {} => (CHOOSE y \in s : TRUE) \in s
  OBVIOUS
<1>3. QED
  BY <1>1, <1>2

\* Sums of naturals are naturals, and any element of a set may be taken first.
Additive(g, f, S) ==
    \A s \in SUBSET S : g[s] \in Nat /\ \A x \in s : g[s] = f[x] + g[s \ {x}]

LEMMA SummedIsAdditive ==
    ASSUME NEW f, NEW S, NEW g, IsFiniteSet(S), Summed(g, f, S),
           \A x \in S : f[x] \in Nat
    PROVE  Additive(g, f, S)
<1> DEFINE Good(s) == g[s] \in Nat /\ \A x \in s : g[s] = f[x] + g[s \ {x}]
           Bad == {s \in SUBSET S : ~Good(s)}
<1> SUFFICES ASSUME Bad # {} PROVE FALSE
  BY DEF Additive
<1>1. PICK s \in Bad : \A r \in Bad : r \subseteq s => r = s
  <2>1. Bad \in SUBSET SUBSET S
    OBVIOUS
  <2> HIDE DEF Bad
  <2>2. QED
    BY <2>1, SmallestSubset
<1>2. s # {}
  <2>1. g[{}] = 0
    BY SummedValues
  <2>2. Good({})
    BY <2>1
  <2>3. QED
    BY <1>1, <2>2
<1>3. PICK y \in s : g[s] = f[y] + g[s \ {y}]
  BY <1>2, SummedValues
<1>4. ASSUME NEW r \in SUBSET s, r # s
      PROVE  Good(r)
  BY <1>1, <1>4
<1>5. f[y] \in Nat /\ Good(s \ {y})
  BY <1>4
<1>6. ASSUME NEW x \in s, x # y
      PROVE  g[s] = f[x] + g[s \ {x}]
  <2>1. f[x] \in Nat /\ Good(s \ {x})
    BY <1>4
  <2>2. (s \ {y}) \ {x} = (s \ {x}) \ {y} /\ Good((s \ {x}) \ {y})
    BY <1>4
  <2> DEFINE rest == (s \ {x}) \ {y}
  <2>3. /\ g[s \ {y}] = f[x] + g[(s \ {y}) \ {x}]
        /\ g[s \ {x}] = f[y] + g[rest]
    BY <1>5, <1>6, <2>1
  <2>4. g[s \ {y}] = f[x] + g[rest]
    BY <2>2, <2>3
  <2>5. g[rest] \in Nat
    BY <2>2
  <2>6. f[x] \in Nat /\ f[y] \in Nat
    BY <1>5, <2>1
  <2> HIDE DEF Good, rest
  <2>7. QED
    BY <1>3, <2>3, <2>4, <2>5, <2>6
<1>7. Good(s)
  <2>1. g[s \ {y}] \in Nat
    BY <1>5
  <2>2. g[s] \in Nat
    BY <1>3, <1>5, <2>1
  <2>3. QED
    BY <1>3, <1>6, <2>2
<1>8. QED
  BY <1>1, <1>7

\* Functions that agree on S have the same sums over every subset of S.
LEMMA SumsAgree ==
    ASSUME NEW f, NEW h, NEW T, IsFiniteSet(T), NEW S \in SUBSET T,
           \A x \in S : f[x] = h[x],
           NEW a, Summed(a, f, S), NEW b, Summed(b, h, T)
    PROVE  \A s \in SUBSET S : a[s] = b[s]
<1> DEFINE Bad == {s \in SUBSET S : a[s] # b[s]}
<1> SUFFICES ASSUME Bad # {} PROVE FALSE
  OBVIOUS
<1>1. PICK s \in Bad : \A r \in Bad : r \subseteq s => r = s
  <2>1. Bad \in SUBSET SUBSET S
    OBVIOUS
  <2> HIDE DEF Bad
  <2>2. QED
    BY FS_Subset, <2>1, SmallestSubset
<1>2. s # {}
  <2>1. a[{}] = 0 /\ b[{}] = 0
    BY SummedValues
  <2>2. QED
    BY <2>1
<1>3. PICK x \in s : x = (CHOOSE y \in s : TRUE) /\ a[s] = f[x] + a[s \ {x}]
  BY <1>2, SummedValues
<1>4. b[s] = h[x] + b[s \ {x}]
  <2>1. s \in SUBSET T
    OBVIOUS
  <2>2. PICK y \in s : y = (CHOOSE z \in s : TRUE) /\ b[s] = h[y] + b[s \ {y}]
    BY <1>2, <2>1, SummedValues
  <2>3. y = x
    BY <1>3, <2>2
  <2>4. QED
    BY <2>2, <2>3
<1>5. a[s \ {x}] = b[s \ {x}]
  BY <1>1
<1>6. QED
  BY <1>3, <1>4, <1>5

\* Functions that agree on S have the same sum over it.
LEMMA SumCongruent ==
    ASSUME NEW f, NEW h, NEW S, IsFiniteSet(S), \A x \in S : f[x] = h[x]
    PROVE  Sum(f, S) = Sum(h, S)
<1>1. /\ Summed(CHOOSE g : Summed(g, f, S), f, S)
      /\ Summed(CHOOSE g : Summed(g, h, S), h, S)
  BY SummedExists
<1>2. QED
  BY <1>1, SumsAgree DEF Sum

\* A sum of naturals over fewer elements is no greater, whatever else the two
\* functions are.
LEMMA SumMonotone ==
    ASSUME NEW f, NEW h, NEW T, IsFiniteSet(T), NEW S \in SUBSET T,
           \A x \in T : h[x] \in Nat, \A x \in S : f[x] = h[x]
    PROVE  Sum(f, S) \in Nat /\ Sum(h, T) \in Nat /\ Sum(f, S) <= Sum(h, T)
<1>1. IsFiniteSet(S)
  BY FS_Subset
<1>2. PICK a : Summed(a, f, S) /\ Sum(f, S) = a[S]
  BY <1>1, SummedExists DEF Sum
<1>3. PICK b : Summed(b, h, T) /\ Sum(h, T) = b[T]
  BY SummedExists DEF Sum
<1>4. \A s \in SUBSET S : a[s] = b[s]
  <2>1. ASSUME NEW c, Summed(c, f, S), NEW d, Summed(d, h, T)
        PROVE  \A s \in SUBSET S : c[s] = d[s]
    BY <2>1, SumsAgree
  <2>2. QED
    BY <1>2, <1>3, <2>1
<1>5. \A s \in SUBSET T : /\ b[s] \in Nat
                          /\ \A x \in s : b[s] = h[x] + b[s \ {x}]
  <2>1. Additive(b, h, T)
    BY <1>3, SummedIsAdditive
  <2>2. QED
    BY <2>1, Zenon DEF Additive
<1>6. b[S] <= b[T]
  <2> DEFINE Bad == {t \in SUBSET T : S \subseteq t /\ ~(b[S] <= b[t])}
  <2> SUFFICES ASSUME Bad # {} PROVE FALSE
    OBVIOUS
  <2>1. PICK t \in Bad : \A r \in Bad : r \subseteq t => r = t
    <3>1. Bad \in SUBSET SUBSET T
      OBVIOUS
    <3> HIDE DEF Bad
    <3>2. QED
      BY <3>1, SmallestSubset
  <2>2. PICK x \in t : x \notin S
    <3>1. b[S] <= b[S]
      BY <1>5
    <3>2. t # S /\ S \subseteq t
      BY <3>1
    <3> HIDE DEF Bad
    <3>3. QED
      BY <3>2
  <2>3. b[t] = h[x] + b[t \ {x}] /\ h[x] \in Nat /\ b[t \ {x}] \in Nat
    BY <1>5
  <2>4. b[S] <= b[t \ {x}]
    BY <2>1, <2>2
  <2>5. QED
    BY <1>5, <2>3, <2>4
<1>7. QED
  BY <1>2, <1>3, <1>4, <1>5, <1>6

\* Nothing adds up to nothing.
LEMMA SumOfNothing == \A f : Sum(f, {}) = 0
<1>1. ASSUME NEW f
      PROVE  Sum(f, {}) = 0
  <2>1. Summed(CHOOSE g : Summed(g, f, {}), f, {})
    BY SummedExists, FS_EmptySet
  <2>2. QED
    BY <2>1, SummedValues DEF Sum
<1>2. QED
  BY <1>1
=============================================================================
