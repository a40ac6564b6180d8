---------------------------- MODULE SequenceFacts ----------------------------
(***************************************************************************)
(* Facts about naturals and sequences that the proofs of several           *)
(* components need.                                                        *)
(***************************************************************************)
EXTENDS Subsequences, SequenceTheorems, FiniteSetTheorems, FunctionTheorems, WellFoundedInduction, TLAPS

\* Every set of naturals has a least element: the sets below its elements are finite, and
\* inclusion is well founded on finite sets.
LEMMA LeastNatural ==
    ASSUME NEW T \in SUBSET Nat, T # {}
    PROVE  \E n \in T : \A m \in T : n <= m
<1> DEFINE Below(n) == 0 .. (n - 1)
           R == StrictSubsetOrdering(Nat)
           W == {Below(n) : n \in T}
<1>1. W # {}
    OBVIOUS
<1>2. W \subseteq FiniteSubsetsOf(Nat)
    <2>1. \A n \in Nat : IsFiniteSet(Below(n)) /\ Below(n) \subseteq Nat
        BY FS_Interval
    <2> QED
        BY <2>1 DEF FiniteSubsetsOf
<1>3. \E x \in W : \A y \in W : <<y, x>> \notin R
    <2>1. IsWellFoundedOn(R, FiniteSubsetsOf(Nat))
        BY FS_StrictSubsetOrderingWellFounded
    <2> HIDE DEF W, R
    <2> QED
        BY <1>1, <1>2, <2>1, WFMin
<1>4. PICK n \in T : \A m \in T : <<Below(m), Below(n)>> \notin R
    BY <1>3
<1>5. ASSUME NEW m \in T, m < n PROVE FALSE
    <2>1. Below(m) \subseteq Below(n) /\ m \in Below(n) /\ m \notin Below(m)
        BY <1>5
    <2>2. Below(m) \in SUBSET Nat /\ Below(n) \in SUBSET Nat
        OBVIOUS
    <2>3. <<Below(m), Below(n)>> \in R
        <3> HIDE DEF Below
        <3> QED
            BY <2>1, <2>2 DEF StrictSubsetOrdering
    <2> QED
        BY <1>4, <2>3
<1>6. \A m \in T : n \in Nat /\ m \in Nat
    OBVIOUS
<1> QED
    BY <1>5, <1>6

\* Induction, as a fact about sets of naturals.
LEMMA SetInduction ==
    ASSUME NEW T, 0 \in T, \A n \in Nat : n \in T => n + 1 \in T
    PROVE  Nat \subseteq T
<1> SUFFICES ASSUME Nat \ T # {} PROVE FALSE
    OBVIOUS
<1>1. PICK n \in Nat \ T : \A m \in Nat \ T : n <= m
    BY LeastNatural
<1>2. n # 0 /\ n - 1 \in Nat /\ (n - 1) + 1 = n /\ n - 1 < n
    BY <1>1
<1>3. n - 1 \in T
    BY <1>1, <1>2
<1> QED
    BY <1>1, <1>2, <1>3

-----------------------------------------------------------------------------
(* The elements of a sequence, and how the queue operations change them.   *)

Elems(q) == {q[i] : i \in 1..Len(q)}

\* A send adds the job behind the others.
LEMMA AppendFacts ==
    ASSUME NEW S, NEW q \in Seq(S), NEW x \in S
    PROVE  /\ Append(q, x) \in Seq(S)
           /\ Len(Append(q, x)) = Len(q) + 1
           /\ Elems(Append(q, x)) = Elems(q) \cup {x}
<1>1. Append(q, x) \in Seq(S) /\ Len(Append(q, x)) = Len(q) + 1
    OBVIOUS
<1>2. \A i \in 1..Len(q) : Append(q, x)[i] = q[i]
    OBVIOUS
<1>3. Append(q, x)[Len(q) + 1] = x
    OBVIOUS
<1>4. Len(q) \in Nat
    OBVIOUS
<1>5. Elems(Append(q, x)) \subseteq Elems(q) \cup {x}
    BY <1>1, <1>2, <1>3, <1>4 DEF Elems
<1>6. Elems(q) \subseteq Elems(Append(q, x))
    BY <1>1, <1>2, <1>4 DEF Elems
<1>7. x \in Elems(Append(q, x))
    BY <1>1, <1>3, <1>4 DEF Elems
<1> QED
    BY <1>1, <1>5, <1>6, <1>7

\* A receive takes the first one.
LEMMA TailFacts ==
    ASSUME NEW S, NEW q \in Seq(S), q # <<>>
    PROVE  /\ Head(q) \in S
           /\ Tail(q) \in Seq(S)
           /\ Len(Tail(q)) = Len(q) - 1
           /\ Elems(q) = Elems(Tail(q)) \cup {Head(q)}
<1>1. Len(q) \in Nat \ {0} /\ Head(q) = q[1] /\ Head(q) \in S
    OBVIOUS
<1>2. Tail(q) \in Seq(S) /\ Len(Tail(q)) = Len(q) - 1
    OBVIOUS
<1>3. \A i \in 1..Len(Tail(q)) : Tail(q)[i] = q[i + 1]
    OBVIOUS
<1>4. Elems(Tail(q)) \subseteq Elems(q)
    BY <1>1, <1>2, <1>3 DEF Elems
<1>5. Head(q) \in Elems(q)
    BY <1>1 DEF Elems
<1>6. ASSUME NEW i \in 1..Len(q)
        PROVE  q[i] \in Elems(Tail(q)) \cup {Head(q)}
  <2>1. CASE i = 1
      BY <1>1, <2>1
  <2>2. CASE i # 1
    <3>1. i - 1 \in 1..Len(Tail(q)) /\ Tail(q)[i - 1] = q[i]
        BY <1>1, <1>2, <1>3, <2>2
    <3> QED
        BY <3>1 DEF Elems
  <2> QED
      BY <2>1, <2>2
<1> QED
    BY <1>1, <1>2, <1>4, <1>5, <1>6 DEF Elems

\* A defer adds the call in front of the others.
LEMMA PushFacts ==
    ASSUME NEW S, NEW q \in Seq(S), NEW x \in S
    PROVE  /\ <<x>> \o q \in Seq(S)
           /\ Elems(<<x>> \o q) = {x} \cup Elems(q)
<1>1. <<x>> \o q \in Seq(S) /\ Len(<<x>> \o q) = Len(q) + 1 /\ Len(q) \in Nat
    OBVIOUS
<1>2. (<<x>> \o q)[1] = x
    OBVIOUS
<1>3. \A i \in 1..Len(q) : (<<x>> \o q)[i + 1] = q[i]
    OBVIOUS
<1>4. ASSUME NEW i \in 1..(Len(q) + 1)
        PROVE  (<<x>> \o q)[i] \in {x} \cup Elems(q)
  <2>1. CASE i = 1
      BY <1>2, <2>1
  <2>2. CASE i # 1
    <3>1. i - 1 \in 1..Len(q) /\ (<<x>> \o q)[i] = q[i - 1]
        BY <1>1, <1>3, <2>2
    <3> QED
        BY <3>1 DEF Elems
  <2> QED
      BY <2>1, <2>2
<1>5. ASSUME NEW i \in 1..Len(q)
        PROVE  q[i] \in Elems(<<x>> \o q)
  <2>1. i + 1 \in 1..Len(<<x>> \o q) /\ (<<x>> \o q)[i + 1] = q[i]
      BY <1>1, <1>3
  <2> QED
      BY <2>1 DEF Elems
<1>6. x \in Elems(<<x>> \o q)
    BY <1>1, <1>2 DEF Elems
<1> QED
    BY <1>1, <1>4, <1>5, <1>6 DEF Elems

\* What was put in front is the head.
LEMMA ConsFacts ==
    ASSUME NEW S, NEW q \in Seq(S), NEW x \in S
    PROVE  /\ <<x>> \o q # <<>>
           /\ Head(<<x>> \o q) = x
           /\ Tail(<<x>> \o q) = q
<1> DEFINE r == <<x>> \o q
<1>1. r \in Seq(S) /\ Len(r) = Len(q) + 1 /\ Len(q) \in Nat /\ r # <<>> /\ Head(r) = x
    OBVIOUS
<1>2. \A i \in 1 .. Len(q) : r[i + 1] = q[i]
    OBVIOUS
<1>3. Tail(r) = q
    <2>1. Tail(r) \in Seq(S) /\ Len(Tail(r)) = Len(q) /\ \A i \in 1 .. Len(Tail(r)) : Tail(r)[i] = r[i + 1]
        <3> HIDE DEF r
        <3> QED
            BY <1>1, HeadTailProperties
    <2> HIDE DEF r
    <2> QED
        BY <1>2, <2>1, SeqEqual
<1> QED
    BY <1>1, <1>3

\* The empty channel or stack has no elements.
LEMMA EmptyElems == Elems(<<>>) = {}
  BY DEF Elems

-----------------------------------------------------------------------------
(* The recursion of Kept.                                                  *)

\* What the loop has kept after element n is f[n].
KeepTurn(f, q, K, n) == IF q[n] \in K THEN Append(f[n - 1], q[n]) ELSE f[n - 1]
KeepLoop(f, q, K, m) == f = [n \in 0 .. m |-> IF n = 0 THEN <<>> ELSE KeepTurn(f, q, K, n)]

\* It begins with nothing and every turn adds to what was there.
KeepSteps(f, q, K, m) ==
    /\ f[0] = <<>>
    /\ \A n \in 0 .. m - 1 : f[n + 1] = IF q[n + 1] \in K THEN Append(f[n], q[n + 1]) ELSE f[n]

\* The loop keeps an element or passes it over.
LEMMA LoopSteps ==
    ASSUME NEW q, NEW K, NEW m \in Nat, NEW f, KeepLoop(f, q, K, m)
    PROVE  KeepSteps(f, q, K, m)
<1>1. \A n \in 0 .. m : f[n] = IF n = 0 THEN <<>> ELSE KeepTurn(f, q, K, n)
    BY DEF KeepLoop
<1>2. \A n \in 0 .. m - 1 : n + 1 \in 0 .. m /\ n + 1 # 0 /\ (n + 1) - 1 = n
    OBVIOUS
<1> QED
    BY <1>1, <1>2 DEF KeepTurn, KeepSteps

\* There is such a loop for every number of elements.
LEMMA LoopExists ==
    ASSUME NEW q, NEW K, NEW m \in Nat
    PROVE  \E f : KeepLoop(f, q, K, m)
<1> DEFINE T == {n \in Nat : \E f : KeepLoop(f, q, K, n)}
<1>1. 0 \in T
    <2>1. KeepLoop([n \in 0 .. 0 |-> <<>>], q, K, 0)
        BY DEF KeepLoop
    <2> QED
        BY <2>1
<1>2. ASSUME NEW n \in Nat, n \in T PROVE n + 1 \in T
    <2>1. PICK f : KeepLoop(f, q, K, n)
        BY <1>2
    <2> DEFINE g == [k \in 0 .. n + 1 |->
                        IF k <= n THEN f[k]
                        ELSE IF q[n + 1] \in K THEN Append(f[n], q[n + 1]) ELSE f[n]]
    <2>2. \A k \in 0 .. n : f[k] = IF k = 0 THEN <<>> ELSE KeepTurn(f, q, K, k)
        BY <2>1 DEF KeepLoop
    <2>3. \A k \in 0 .. n + 1 : g[k] = IF k = 0 THEN <<>> ELSE KeepTurn(g, q, K, k)
        <3> TAKE k \in 0 .. n + 1
        <3>1. CASE k = 0
            BY <2>2, <3>1
        <3>2. CASE k \in 1 .. n
            <4>1. k - 1 \in 0 .. n /\ g[k - 1] = f[k - 1] /\ g[k] = f[k]
                BY <3>2
            <4> QED
                BY <2>2, <3>2, <4>1 DEF KeepTurn
        <3>3. CASE k = n + 1
            <4>1. g[n] = f[n] /\ g[n + 1] = IF q[n + 1] \in K THEN Append(f[n], q[n + 1]) ELSE f[n]
                OBVIOUS
            <4> QED
                BY <3>3, <4>1 DEF KeepTurn
        <3> QED
            BY <3>1, <3>2, <3>3
    <2>4. KeepLoop(g, q, K, n + 1)
        BY <2>3 DEF KeepLoop
    <2> QED
        BY <2>4
<1> QED
    BY <1>1, <1>2, SetInduction

\* Kept is what the loop has after the last element.
LEMMA KeptLoop ==
    ASSUME NEW S, NEW q \in Seq(S), NEW K
    PROVE  Len(q) \in Nat /\ \E f : KeepLoop(f, q, K, Len(q)) /\ Kept(q, K) = f[Len(q)]
<1>1. Len(q) \in Nat
    OBVIOUS
<1>2. KeepLoop(CHOOSE f : KeepLoop(f, q, K, Len(q)), q, K, Len(q))
    BY <1>1, LoopExists
<1>3. Kept(q, K) = (CHOOSE f : KeepLoop(f, q, K, Len(q)))[Len(q)]
    BY DEF Kept, KeepLoop, KeepTurn
<1> QED
    BY <1>1, <1>2, <1>3

\* The loop over the first elements of a sequence does not depend on the others.
SameUpTo(f, g, m) == \A n \in 0 .. m : f[n] = g[n]

\* Two loops over lists that begin alike agree as far as the lists do.
LEMMA LoopIsUnique ==
    ASSUME NEW q, NEW r, NEW K, NEW m \in Nat, NEW k \in Nat, m <= k,
           NEW f, NEW g, KeepLoop(f, q, K, m), KeepLoop(g, r, K, k), \A i \in 1 .. m : q[i] = r[i]
    PROVE  SameUpTo(f, g, m)
<1> DEFINE T == {n \in Nat : n <= m => f[n] = g[n]}
<1>1. KeepSteps(f, q, K, m)
    BY LoopSteps
<1>2. KeepSteps(g, r, K, k)
    BY LoopSteps
<1>3. 0 \in T
    BY <1>1, <1>2 DEF KeepSteps
<1>4. ASSUME NEW n \in Nat, n \in T PROVE n + 1 \in T
    <2> SUFFICES ASSUME n + 1 <= m PROVE f[n + 1] = g[n + 1]
        OBVIOUS
    <2>1. f[n] = g[n] /\ n \in 0 .. m - 1 /\ n \in 0 .. k - 1 /\ q[n + 1] = r[n + 1]
        BY <1>4
    <2>2. f[n + 1] = IF q[n + 1] \in K THEN Append(f[n], q[n + 1]) ELSE f[n]
        BY <1>1, <2>1 DEF KeepSteps
    <2>3. g[n + 1] = IF r[n + 1] \in K THEN Append(g[n], r[n + 1]) ELSE g[n]
        BY <1>2, <2>1 DEF KeepSteps
    <2> QED
        BY <2>1, <2>2, <2>3
<1> HIDE DEF T
<1>5. Nat \subseteq T
    BY <1>3, <1>4, SetInduction
<1> QED
    BY <1>5 DEF T, SameUpTo

\* What is kept has the type of the sequence and is in the set.
LEMMA LoopType ==
    ASSUME NEW S, NEW q \in Seq(S), NEW K, NEW f, KeepLoop(f, q, K, Len(q))
    PROVE  \A n \in 0 .. Len(q) : f[n] \in Seq(S \cap K)
<1> DEFINE m == Len(q)
           T == {n \in Nat : n <= m => f[n] \in Seq(S \cap K)}
<1>1. m \in Nat /\ \A i \in 1 .. m : q[i] \in S
    OBVIOUS
<1> HIDE DEF m
<1>2. f[0] = <<>> /\ \A n \in 0 .. m - 1 : f[n + 1] = IF q[n + 1] \in K THEN Append(f[n], q[n + 1]) ELSE f[n]
    <2>1. KeepSteps(f, q, K, m)
        BY <1>1, LoopSteps DEF m
    <2> QED
        BY <2>1 DEF KeepSteps
<1>3. 0 \in T
    <2>1. <<>> \in Seq(S \cap K)
        OBVIOUS
    <2> QED
        BY <1>2, <2>1
<1>4. ASSUME NEW n \in Nat, n \in T PROVE n + 1 \in T
    <2> SUFFICES ASSUME n + 1 <= m PROVE f[n + 1] \in Seq(S \cap K)
        OBVIOUS
    <2>1. f[n] \in Seq(S \cap K) /\ n \in 0 .. m - 1 /\ q[n + 1] \in S
        BY <1>1, <1>4
    <2>2. CASE q[n + 1] \in K
        <3>1. f[n + 1] = Append(f[n], q[n + 1]) /\ q[n + 1] \in S \cap K
            BY <1>2, <2>1, <2>2
        <3> QED
            BY <2>1, <3>1, AppendProperties
    <2>3. CASE q[n + 1] \notin K
        BY <1>2, <2>1, <2>3
    <2> QED
        BY <2>2, <2>3
<1> HIDE DEF T
<1>5. Nat \subseteq T
    BY <1>3, <1>4, SetInduction
<1> QED
    BY <1>1, <1>5 DEF T, m

-----------------------------------------------------------------------------
(* What Kept returns.                                                      *)

\* Kept is a list of elements that K keeps.
THEOREM KeptType ==
    ASSUME NEW S, NEW q \in Seq(S), NEW K
    PROVE  Kept(q, K) \in Seq(S \cap K) /\ Kept(q, K) \in Seq(S)
<1>1. PICK f : KeepLoop(f, q, K, Len(q)) /\ Kept(q, K) = f[Len(q)]
    BY KeptLoop
<1>2. Len(q) \in 0 .. Len(q)
    OBVIOUS
<1>3. Kept(q, K) \in Seq(S \cap K)
    BY <1>1, <1>2, LoopType
<1> QED
    BY <1>3, SeqMonotonic

\* Of nothing, nothing is kept.
THEOREM KeptOfEmpty == \A K : Kept(<<>>, K) = <<>>
<1> SUFFICES ASSUME NEW K PROVE Kept(<<>>, K) = <<>>
    OBVIOUS
<1>1. <<>> \in Seq({}) /\ Len(<<>>) = 0
    OBVIOUS
<1>2. PICK f : KeepLoop(f, <<>>, K, 0) /\ Kept(<<>>, K) = f[0]
    BY <1>1, KeptLoop
<1>3. KeepSteps(f, <<>>, K, 0)
    BY <1>2, LoopSteps
<1> QED
    BY <1>2, <1>3 DEF KeepSteps

\* The list is gone through from its front: one element more is kept or not.
THEOREM KeptOfAppend ==
    ASSUME NEW S, NEW q \in Seq(S), NEW e \in S, NEW K
    PROVE  Kept(Append(q, e), K) = IF e \in K THEN Append(Kept(q, K), e) ELSE Kept(q, K)
<1> DEFINE r == Append(q, e)
           m == Len(q)
<1>1. r \in Seq(S) /\ Len(r) = m + 1 /\ r[m + 1] = e /\ \A i \in 1 .. m : q[i] = r[i]
    OBVIOUS
<1>2. m \in Nat
    OBVIOUS
<1>3. PICK f : KeepLoop(f, q, K, m) /\ Kept(q, K) = f[m]
    BY KeptLoop
<1>4. PICK g : KeepLoop(g, r, K, m + 1) /\ Kept(r, K) = g[m + 1]
    BY <1>1, KeptLoop
<1> HIDE DEF r, m
<1>5. m \in 0 .. m /\ m <= m + 1 /\ m + 1 \in Nat /\ m \in 0 .. (m + 1) - 1
    BY <1>2
<1>6. f[m] = g[m]
    <2>1. KeepLoop(f, q, K, m) /\ KeepLoop(g, r, K, m + 1) /\ \A i \in 1 .. m : q[i] = r[i]
        BY <1>1, <1>3, <1>4
    <2>2. SameUpTo(f, g, m)
        BY <1>2, <1>5, <2>1, LoopIsUnique
    <2> QED
        BY <1>5, <2>2 DEF SameUpTo
<1>7. g[m + 1] = IF e \in K THEN Append(g[m], e) ELSE g[m]
    <2>1. KeepSteps(g, r, K, m + 1)
        BY <1>4, <1>5, LoopSteps
    <2> QED
        BY <1>1, <1>5, <2>1 DEF KeepSteps
<1> QED
    BY <1>3, <1>4, <1>6, <1>7 DEF r

\* The first element is kept, or not, before the others.
THEOREM KeptOfTail ==
    ASSUME NEW S, NEW q \in Seq(S), q # <<>>, NEW K
    PROVE  Kept(q, K) = IF Head(q) \in K THEN <<Head(q)>> \o Kept(Tail(q), K) ELSE Kept(Tail(q), K)
<1> DEFINE r == Tail(q)
           m == Len(r)
           h == IF Head(q) \in K THEN <<Head(q)>> ELSE <<>>
<1>1. /\ r \in Seq(S) /\ m \in Nat /\ Len(q) = m + 1 /\ Head(q) = q[1] /\ h \in Seq(S)
      /\ \A i \in 1 .. m : r[i] = q[i + 1] /\ r[i] \in S
    OBVIOUS
<1>2. PICK f : KeepLoop(f, q, K, m + 1) /\ Kept(q, K) = f[m + 1]
    BY <1>1, KeptLoop
<1>3. PICK g : KeepLoop(g, r, K, m) /\ Kept(r, K) = g[m]
    BY <1>1, KeptLoop
<1>4. h = IF q[1] \in K THEN Append(<<>>, q[1]) ELSE <<>>
    <2>1. Append(<<>>, Head(q)) = <<Head(q)>>
        OBVIOUS
    <2> QED
        BY <1>1, <2>1
<1>5. (h = <<>> /\ Head(q) \notin K) \/ (h = <<Head(q)>> /\ Head(q) \in K)
    OBVIOUS
<1> DEFINE Ahead(n) == f[n + 1] = h \o g[n]
           U == {n \in Nat : n <= m => Ahead(n)}
<1> HIDE DEF r, m, h
<1>6. KeepSteps(f, q, K, m + 1) /\ KeepSteps(g, r, K, m)
    BY <1>1, <1>2, <1>3, LoopSteps
<1>7. f[0] = <<>> /\ g[0] = <<>>
    BY <1>6 DEF KeepSteps
<1>8. \A n \in 0 .. m : g[n] \in Seq(S)
    <2>1. \A n \in 0 .. m : g[n] \in Seq(S \cap K)
        BY <1>1, <1>3, LoopType DEF m
    <2> QED
        BY <2>1, SeqMonotonic
<1>9. Ahead(0)
    <2>1. \A n \in 0 .. (m + 1) - 1 : n = 0 => f[n + 1] = IF q[n + 1] \in K THEN Append(f[n], q[n + 1]) ELSE f[n]
        BY <1>6 DEF KeepSteps
    <2>2. 0 \in 0 .. (m + 1) - 1
        BY <1>1
    <2>3. f[1] = IF q[1] \in K THEN Append(f[0], q[1]) ELSE f[0]
        BY <2>1, <2>2
    <2>4. h \o g[0] = h
        BY <1>1, <1>7, ConcatEmptySeq
    <2> QED
        BY <1>4, <1>7, <2>3, <2>4
<1>10. ASSUME NEW n \in 0 .. m - 1, Ahead(n) PROVE Ahead(n + 1)
    <2> DEFINE e == r[n + 1]
               p == g[n]
               k == n + 1
    <2>1. n \in Nat /\ k \in 1 .. m /\ k \in 0 .. (m + 1) - 1 /\ n \in 0 .. m
        BY <1>1
    <2>2. e \in S /\ e = q[k + 1] /\ p \in Seq(S)
        BY <1>1, <1>8, <2>1
    <2>3. f[k + 1] = IF q[k + 1] \in K THEN Append(f[k], q[k + 1]) ELSE f[k]
        <3> HIDE DEF k
        <3> QED
            BY <1>6, <2>1 DEF KeepSteps
    <2>4. g[k] = IF e \in K THEN Append(p, e) ELSE p
        BY <1>6, <2>1 DEF KeepSteps
    <2>5. f[k] = h \o p
        BY <1>10
    <2> HIDE DEF e, p, k
    <2>6. Append(h \o p, e) = (h \o p) \o <<e>> /\ Append(p, e) = p \o <<e>>
        BY <1>1, <2>2, AppendIsConcat, ConcatProperties
    <2>7. (h \o p) \o <<e>> = h \o (p \o <<e>>)
        <3> DEFINE u == <<e>>
        <3>1. h \in Seq(S) /\ p \in Seq(S) /\ u \in Seq(S)
            BY <1>1, <2>2
        <3> HIDE DEF u, h
        <3>2. (h \o p) \o u = h \o (p \o u)
            BY <3>1, ConcatAssociative
        <3> QED
            BY <3>2 DEF u
    <2>8. f[k + 1] = h \o g[k]
        BY <2>2, <2>3, <2>4, <2>5, <2>6, <2>7
    <2> QED
        BY <2>8 DEF k
<1>11. Nat \subseteq U
    <2> HIDE DEF Ahead
    <2>1. 0 \in U
        BY <1>9
    <2>2. ASSUME NEW n \in Nat, n \in U PROVE n + 1 \in U
        BY <1>1, <1>10, <2>2
    <2> HIDE DEF U
    <2> QED
        BY <2>1, <2>2, SetInduction
<1>12. Ahead(m)
    <2> HIDE DEF Ahead
    <2> QED
        BY <1>1, <1>11
<1>13. f[m + 1] = h \o g[m] /\ <<>> \o g[m] = g[m]
    BY <1>1, <1>8, <1>12, ConcatEmptySeq
<1> QED
    BY <1>2, <1>3, <1>5, <1>13 DEF r

\* Induction on sequences, as a fact about sets of them.
LEMMA SequenceInduction ==
    ASSUME NEW S, NEW T, <<>> \in T, \A q \in Seq(S), e \in S : q \in T => Append(q, e) \in T
    PROVE  Seq(S) \subseteq T
<1> DEFINE U == {n \in Nat : \A p \in Seq(S) : Len(p) = n => p \in T}
<1>1. 0 \in U
    <2>1. \A p \in Seq(S) : Len(p) = 0 => p = <<>>
        OBVIOUS
    <2> QED
        BY <2>1
<1>2. ASSUME NEW n \in Nat, n \in U PROVE n + 1 \in U
    <2> SUFFICES ASSUME NEW p \in Seq(S), Len(p) = n + 1 PROVE p \in T
        OBVIOUS
    <2>1. PICK r \in Seq(S) : \E e \in S : p = Append(r, e)
        <3>1. p # <<>>
            OBVIOUS
        <3> QED
            BY <3>1, SequenceEmptyOrAppend
    <2>2. Len(r) = n
        BY <2>1
    <2> QED
        BY <1>2, <2>1, <2>2
<1>3. Nat \subseteq U
    <2> HIDE DEF U
    <2> QED
        BY <1>1, <1>2, SetInduction
<1>4. \A p \in Seq(S) : Len(p) \in Nat
    OBVIOUS
<1> QED
    BY <1>3, <1>4

\* A sequence of which everything is kept is what it was.
THEOREM KeptWhole ==
    ASSUME NEW K, NEW q \in Seq(K)
    PROVE  Kept(q, K) = q
<1> DEFINE T == {p \in Seq(K) : Kept(p, K) = p}
<1>1. <<>> \in T
    BY KeptOfEmpty
<1>2. \A p \in Seq(K), e \in K : p \in T => Append(p, e) \in T
    BY KeptOfAppend
<1> HIDE DEF T
<1>3. Seq(K) \subseteq T
    BY <1>1, <1>2, SequenceInduction
<1> QED
    BY <1>3 DEF T

\* The elements that are kept are those in the set.
THEOREM KeptElements ==
    ASSUME NEW S, NEW q \in Seq(S), NEW K
    PROVE  Elems(Kept(q, K)) = Elems(q) \cap K
<1> DEFINE T == {p \in Seq(S) : Elems(Kept(p, K)) = Elems(p) \cap K}
<1>1. <<>> \in T
    BY KeptOfEmpty, EmptyElems
<1>2. ASSUME NEW p \in Seq(S), NEW e \in S, p \in T PROVE Append(p, e) \in T
    <2>1. Kept(p, K) \in Seq(S) /\ Append(p, e) \in Seq(S)
        <3>1. Kept(p, K) \in Seq(S)
            BY KeptType
        <3> QED
            BY <3>1, AppendProperties
    <2>2. Elems(Append(p, e)) = Elems(p) \cup {e} /\ Elems(Append(Kept(p, K), e)) = Elems(Kept(p, K)) \cup {e}
        BY <2>1, AppendFacts
    <2>3. Kept(Append(p, e), K) = IF e \in K THEN Append(Kept(p, K), e) ELSE Kept(p, K)
        BY KeptOfAppend
    <2> QED
        BY <1>2, <2>1, <2>2, <2>3
<1> HIDE DEF T
<1>3. Seq(S) \subseteq T
    BY <1>1, <1>2, SequenceInduction
<1> QED
    BY <1>3 DEF T

\* To keep twice is to keep what is in both sets.
THEOREM KeptOfKept ==
    ASSUME NEW S, NEW q \in Seq(S), NEW K, NEW L
    PROVE  Kept(Kept(q, K), L) = Kept(q, K \cap L)
<1> DEFINE T == {p \in Seq(S) : Kept(Kept(p, K), L) = Kept(p, K \cap L)}
<1>1. <<>> \in T
    BY KeptOfEmpty
<1>2. ASSUME NEW p \in Seq(S), NEW e \in S, p \in T PROVE Append(p, e) \in T
    <2>1. Kept(p, K) \in Seq(S) /\ Append(p, e) \in Seq(S)
        <3>1. Kept(p, K) \in Seq(S)
            BY KeptType
        <3> QED
            BY <3>1, AppendProperties
    <2>2. Kept(Append(p, e), K) = IF e \in K THEN Append(Kept(p, K), e) ELSE Kept(p, K)
        BY KeptOfAppend
    <2>3. Kept(Append(p, e), K \cap L) = IF e \in K \cap L THEN Append(Kept(p, K \cap L), e) ELSE Kept(p, K \cap L)
        BY KeptOfAppend
    <2>4. Kept(Append(Kept(p, K), e), L) = IF e \in L THEN Append(Kept(Kept(p, K), L), e) ELSE Kept(Kept(p, K), L)
        BY <2>1, KeptOfAppend
    <2>5. Kept(Kept(p, K), L) = Kept(p, K \cap L)
        BY <1>2
    <2>6. Kept(Kept(Append(p, e), K), L) = Kept(Append(p, e), K \cap L)
        <3> DEFINE M == K \cap L
        <3>1. e \in M <=> e \in K /\ e \in L
            OBVIOUS
        <3> HIDE DEF M
        <3>2. CASE e \in K /\ e \in L
            BY <2>2, <2>3, <2>4, <2>5, <3>1, <3>2 DEF M
        <3>3. CASE e \in K /\ e \notin L
            BY <2>2, <2>3, <2>4, <2>5, <3>1, <3>3 DEF M
        <3>4. CASE e \notin K
            BY <2>2, <2>3, <2>5, <3>1, <3>4 DEF M
        <3> QED
            BY <3>2, <3>3, <3>4
    <2> QED
        BY <2>1, <2>6
<1> HIDE DEF T
<1>3. Seq(S) \subseteq T
    BY <1>1, <1>2, SequenceInduction
<1> QED
    BY <1>3 DEF T

\* As many are kept as there are places with an element of the set.
THEOREM KeptCount ==
    ASSUME NEW S, NEW q \in Seq(S), NEW K
    PROVE  /\ IsFiniteSet({i \in 1 .. Len(q) : q[i] \in K})
           /\ Cardinality({i \in 1 .. Len(q) : q[i] \in K}) = Len(Kept(q, K))
<1> DEFINE At(p) == {i \in 1 .. Len(p) : p[i] \in K}
           T == {p \in Seq(S) : IsFiniteSet(At(p)) /\ Cardinality(At(p)) = Len(Kept(p, K))}
<1>1. <<>> \in T
    <2>1. At(<<>>) = {}
        OBVIOUS
    <2> HIDE DEF At
    <2>2. IsFiniteSet(At(<<>>)) /\ Cardinality(At(<<>>)) = 0
        BY <2>1, FS_EmptySet
    <2>3. Kept(<<>>, K) = <<>> /\ Len(<<>>) = 0 /\ <<>> \in Seq(S)
        BY KeptOfEmpty
    <2> QED
        BY <2>2, <2>3
<1>2. ASSUME NEW p \in Seq(S), NEW e \in S, p \in T PROVE Append(p, e) \in T
    <2> DEFINE n == Len(p) + 1
    <2>1. Kept(p, K) \in Seq(S) /\ Append(p, e) \in Seq(S)
        <3>1. Kept(p, K) \in Seq(S)
            BY KeptType
        <3> QED
            BY <3>1, AppendProperties
    <2>2. Kept(Append(p, e), K) = IF e \in K THEN Append(Kept(p, K), e) ELSE Kept(p, K)
        BY KeptOfAppend
    <2>3. At(Append(p, e)) = IF e \in K THEN At(p) \cup {n} ELSE At(p)
        <3>1. Len(p) \in Nat /\ Len(Append(p, e)) = n /\ Append(p, e)[n] = e
            OBVIOUS
        <3>2. \A i \in 1 .. Len(p) : Append(p, e)[i] = p[i]
            OBVIOUS
        <3>3. \A i \in 1 .. n : i = n \/ i \in 1 .. Len(p)
            BY <3>1
        <3>4. n \in 1 .. n /\ \A i \in 1 .. Len(p) : i \in 1 .. n
            BY <3>1
        <3> HIDE DEF n
        <3> QED
            BY <3>1, <3>2, <3>3, <3>4
    <2>4. n \notin At(p) /\ Len(Append(Kept(p, K), e)) = Len(Kept(p, K)) + 1
        BY <2>1
    <2> HIDE DEF At, n
    <2>5. IsFiniteSet(At(p)) /\ Cardinality(At(p)) = Len(Kept(p, K))
        BY <1>2
    <2>6. IsFiniteSet(At(p) \cup {n}) /\ Cardinality(At(p) \cup {n}) = Cardinality(At(p)) + 1
        BY <2>4, <2>5, FS_AddElement
    <2> QED
        BY <2>1, <2>2, <2>3, <2>4, <2>5, <2>6
<1> HIDE DEF T
<1>3. Seq(S) \subseteq T
    BY <1>1, <1>2, SequenceInduction
<1> QED
    BY <1>3 DEF T

-----------------------------------------------------------------------------
(* Lists put together and cut, and what Kept leaves of a rising list.      *)

\* The elements of two lists put together.
LEMMA ConcatElems ==
    ASSUME NEW S, NEW a \in Seq(S), NEW b \in Seq(S)
    PROVE  Elems(a \o b) = Elems(a) \cup Elems(b)
<1> DEFINE c == a \o b
           m == Len(a)
           n == Len(b)
<1>1. m \in Nat /\ n \in Nat /\ Len(c) = m + n
    OBVIOUS
<1>2. (\A i \in 1 .. m : c[i] = a[i]) /\ (\A i \in 1 .. n : c[m + i] = b[i])
    OBVIOUS
<1> HIDE DEF c, m, n
<1>3. ASSUME NEW i \in 1 .. m + n PROVE c[i] \in Elems(a) \cup Elems(b)
    <2>1. CASE i \in 1 .. m
        BY <1>2, <2>1 DEF Elems, m
    <2>2. CASE i \notin 1 .. m
        <3>1. i - m \in 1 .. n /\ m + (i - m) = i
            BY <1>1, <2>2
        <3> QED
            BY <1>2, <3>1 DEF Elems, n
    <2> QED
        BY <2>1, <2>2
<1>4. \A i \in 1 .. m : i \in 1 .. m + n
    BY <1>1
<1>5. \A i \in 1 .. n : m + i \in 1 .. m + n
    BY <1>1
<1>6. Elems(c) = {c[i] : i \in 1 .. m + n}
    BY <1>1 DEF Elems
<1>7. Elems(a) = {a[i] : i \in 1 .. m} /\ Elems(b) = {b[i] : i \in 1 .. n}
    BY DEF Elems, m, n
<1>8. Elems(c) = Elems(a) \cup Elems(b)
    BY <1>2, <1>3, <1>4, <1>5, <1>6, <1>7
<1> QED
    BY <1>8 DEF c

\* A part of a list.
LEMMA PartElems ==
    ASSUME NEW S, NEW q \in Seq(S), NEW a \in Nat \ {0}, NEW b \in Int, b <= Len(q)
    PROVE  /\ SubSeq(q, a, b) \in Seq(S)
           /\ Elems(SubSeq(q, a, b)) = {q[i] : i \in a .. b}
<1>1. Len(q) \in Nat /\ \A i \in a .. b : i \in 1 .. Len(q) /\ q[i] \in S
    OBVIOUS
<1> DEFINE p == SubSeq(q, a, b)
<1>2. /\ p \in Seq(S) /\ Len(p) = (IF a <= b THEN b - a + 1 ELSE 0)
      /\ \A i \in 1 .. b - a + 1 : p[i] = q[a + i - 1]
    BY <1>1, SubSeqProperties
<1>3. 1 .. Len(p) = 1 .. b - a + 1
    BY <1>2
<1> HIDE DEF p
<1>4. \A i \in 1 .. b - a + 1 : a + i - 1 \in a .. b
    OBVIOUS
<1>5. \A i \in a .. b : i - a + 1 \in 1 .. b - a + 1 /\ a + (i - a + 1) - 1 = i
    OBVIOUS
<1>6. Elems(p) = {q[i] : i \in a .. b}
    <2>1. Elems(p) = {p[i] : i \in 1 .. b - a + 1}
        BY <1>3 DEF Elems
    <2>2. \A i \in 1 .. b - a + 1 : p[i] \in {q[j] : j \in a .. b}
        BY <1>2, <1>4
    <2>3. \A j \in a .. b : q[j] \in {p[i] : i \in 1 .. b - a + 1}
        <3> TAKE j \in a .. b
        <3>1. p[j - a + 1] = q[j] /\ j - a + 1 \in 1 .. b - a + 1
            BY <1>2, <1>5
        <3> QED
            BY <3>1
    <2> QED
        BY <2>1, <2>2, <2>3
<1> QED
    BY <1>2, <1>6 DEF p

\* A list cut in three has the elements of its parts.
LEMMA CutElems ==
    ASSUME NEW S, NEW q \in Seq(S), NEW a \in Nat, NEW b \in Nat, 1 <= a, a <= b, b <= Len(q) + 1
    PROVE  Elems(q) = Elems(SubSeq(q, 1, a - 1)) \cup Elems(SubSeq(q, a, b - 1)) \cup Elems(SubSeq(q, b, Len(q)))
<1>1. Len(q) \in Nat /\ a - 1 <= Len(q) /\ b - 1 <= Len(q) /\ a \in Nat \ {0} /\ b \in Nat \ {0}
    OBVIOUS
<1>2. /\ Elems(SubSeq(q, 1, a - 1)) = {q[i] : i \in 1 .. a - 1}
      /\ Elems(SubSeq(q, a, b - 1)) = {q[i] : i \in a .. b - 1}
      /\ Elems(SubSeq(q, b, Len(q))) = {q[i] : i \in b .. Len(q)}
    BY <1>1, PartElems
<1>3. 1 .. Len(q) = (1 .. a - 1) \cup (a .. b - 1) \cup (b .. Len(q))
    BY <1>1
<1> QED
    BY <1>2, <1>3 DEF Elems

\* What is kept of a sequence rises along whatever the sequence does.
LEMMA KeptRises ==
    ASSUME NEW S, NEW R, NEW q \in Seq(S), NEW K, Rises(q, R)
    PROVE  Rises(Kept(q, K), R)
<1> DEFINE T == {p \in Seq(S) : Rises(p, R) => Rises(Kept(p, K), R)}
<1>1. <<>> \in T
    <2>1. Kept(<<>>, K) = <<>>
        BY KeptOfEmpty
    <2> QED
        BY <2>1
<1>2. ASSUME NEW p \in Seq(S), NEW e \in S, p \in T PROVE Append(p, e) \in T
    <2> DEFINE r == Append(p, e)
               m == Len(p)
    <2>1. /\ r \in Seq(S) /\ Len(r) = m + 1 /\ r[m + 1] = e /\ m \in Nat /\ \A i \in 1 .. m : r[i] = p[i]
          /\ DOMAIN r = 1 .. m + 1 /\ DOMAIN p = 1 .. m
        OBVIOUS
    <2> HIDE DEF r, m
    <2> SUFFICES ASSUME Rises(r, R) PROVE Rises(Kept(r, K), R)
        BY <2>1 DEF r
    <2>2. \A i \in 1 .. m : i \in 1 .. m + 1 /\ i < m + 1
        BY <2>1
    <2>3. m + 1 \in 1 .. m + 1
        BY <2>1
    <2>4. \A i \in 1 .. m : <<p[i], e>> \in R
        BY <2>1, <2>2, <2>3 DEF Rises
    <2>5. Rises(p, R)
        BY <2>1, <2>2 DEF Rises
    <2> DEFINE k == Kept(p, K)
    <2>6. k \in Seq(S) /\ Rises(k, R)
        BY <1>2, <2>5, KeptType
    <2>7. \A n \in 1 .. Len(k) : <<k[n], e>> \in R
        <3>1. Elems(k) \subseteq Elems(p)
            BY KeptElements
        <3> HIDE DEF k
        <3> QED
            BY <2>4, <3>1 DEF Elems, m
    <2>8. Kept(r, K) = IF e \in K THEN Append(k, e) ELSE k
        BY KeptOfAppend DEF r
    <2> HIDE DEF k
    <2>9. Rises(Append(k, e), R)
        <3> DEFINE s == Append(k, e)
        <3>1. /\ DOMAIN s = 1 .. Len(k) + 1 /\ s[Len(k) + 1] = e /\ Len(k) \in Nat /\ DOMAIN k = 1 .. Len(k)
              /\ \A n \in 1 .. Len(k) : s[n] = k[n]
            BY <2>6
        <3> HIDE DEF s
        <3>2. ASSUME NEW i \in 1 .. Len(k) + 1, NEW j \in 1 .. Len(k) + 1, i < j PROVE <<s[i], s[j]>> \in R
            <4>1. i \in 1 .. Len(k)
                BY <3>1, <3>2
            <4>2. CASE j = Len(k) + 1
                BY <2>7, <3>1, <4>1, <4>2
            <4>3. CASE j # Len(k) + 1
                <5>1. j \in 1 .. Len(k)
                    BY <3>1, <4>3
                <5> QED
                    BY <2>6, <3>1, <3>2, <4>1, <5>1 DEF Rises
            <4> QED
                BY <4>2, <4>3
        <3> QED
            BY <3>1, <3>2 DEF Rises, s
    <2> QED
        BY <2>6, <2>8, <2>9
<1> HIDE DEF T
<1>3. Seq(S) \subseteq T
    BY <1>1, <1>2, SequenceInduction
<1> QED
    BY <1>3 DEF T

Rising(q) == \A i \in 1 .. Len(q) : \A j \in 1 .. Len(q) : i < j => q[i] < q[j]

\* What is kept of a rising list rises.
LEMMA KeptIsRising ==
    ASSUME NEW q \in Seq(Nat), NEW K, Rising(q)
    PROVE  Rising(Kept(q, K))
<1> DEFINE R == {p \in Nat \X Nat : p[1] < p[2]}
<1>1. ASSUME NEW r \in Seq(Nat) PROVE Rises(r, R) <=> Rising(r)
    <2>1. DOMAIN r = 1 .. Len(r) /\ \A i \in 1 .. Len(r) : r[i] \in Nat
        OBVIOUS
    <2>2. \A i \in 1 .. Len(r), j \in 1 .. Len(r) : <<r[i], r[j]>> \in R <=> r[i] < r[j]
        BY <2>1
    <2> HIDE DEF R
    <2> QED
        BY <2>1, <2>2 DEF Rises, Rising
<1>2. Kept(q, K) \in Seq(Nat)
    BY KeptType
<1> HIDE DEF R
<1>3. Rises(Kept(q, K), R)
    BY <1>1, KeptRises
<1> QED
    BY <1>1, <1>2, <1>3

-----------------------------------------------------------------------------
(* A set in the order of a relation.                                       *)

\* R puts the elements of S in a row.
Orders(R, S) ==
    /\ \A x \in S : <<x, x>> \notin R
    /\ \A x \in S, y \in S : x # y => <<x, y>> \in R \/ <<y, x>> \in R
    /\ \A x \in S, y \in S, z \in S : <<x, y>> \in R /\ <<y, z>> \in R => <<x, z>> \in R

\* Those before an element, and how many they are.
Preceding(R, S, x) == {y \in S : <<y, x>> \in R}
PlaceIn(R, S)      == [x \in S |-> Cardinality(Preceding(R, S, x)) + 1]

\* The ranks are the places of a row, each of one element, and grow along the relation.
LEMMA PlaceFacts ==
    ASSUME NEW S, IsFiniteSet(S), NEW R, Orders(R, S)
    PROVE  /\ PlaceIn(R, S) \in Bijection(S, 1 .. Cardinality(S))
           /\ \A x \in S, y \in S : <<x, y>> \in R => PlaceIn(R, S)[x] < PlaceIn(R, S)[y]
<1> DEFINE r == PlaceIn(R, S)
           n == Cardinality(S)
<1>1. n \in Nat
    BY FS_CardinalityType
<1>2. ASSUME NEW x \in S
      PROVE  IsFiniteSet(Preceding(R, S, x)) /\ Cardinality(Preceding(R, S, x)) \in Nat /\ Cardinality(Preceding(R, S, x)) < n
    <2>1. Preceding(R, S, x) \in SUBSET S /\ x \notin Preceding(R, S, x) /\ Preceding(R, S, x) # S
        BY DEF Orders, Preceding
    <2>2. IsFiniteSet(Preceding(R, S, x)) /\ Cardinality(Preceding(R, S, x)) <= n /\ n # Cardinality(Preceding(R, S, x))
        BY <2>1, FS_Subset
    <2>3. Cardinality(Preceding(R, S, x)) \in Nat
        BY <2>2, FS_CardinalityType
    <2> QED
        BY <1>1, <2>2, <2>3
<1>3. \A x \in S : r[x] = Cardinality(Preceding(R, S, x)) + 1
    BY DEF PlaceIn
<1>4. r \in [S -> 1 .. n]
    <2>1. \A x \in S : Cardinality(Preceding(R, S, x)) + 1 \in 1 .. n
        BY <1>1, <1>2
    <2> QED
        BY <2>1 DEF PlaceIn
<1>5. ASSUME NEW x \in S, NEW y \in S, <<x, y>> \in R PROVE r[x] < r[y]
    <2>1. Preceding(R, S, x) \in SUBSET Preceding(R, S, y) /\ x \in Preceding(R, S, y) /\ x \notin Preceding(R, S, x)
        BY <1>5 DEF Orders, Preceding
    <2>2. Cardinality(Preceding(R, S, x)) <= Cardinality(Preceding(R, S, y)) /\ Cardinality(Preceding(R, S, x)) # Cardinality(Preceding(R, S, y))
        BY <1>2, <2>1, FS_Subset
    <2>3. Cardinality(Preceding(R, S, x)) < Cardinality(Preceding(R, S, y))
        BY <1>2, <2>2
    <2> QED
        BY <1>2, <1>3, <2>3
<1> HIDE DEF r, n
<1>6. \A x \in S, y \in S : r[x] = r[y] => x = y
    <2> SUFFICES ASSUME NEW x \in S, NEW y \in S, r[x] = r[y], x # y PROVE FALSE
        OBVIOUS
    <2>1. r[x] < r[y] \/ r[y] < r[x]
        BY <1>5 DEF Orders
    <2> QED
        BY <1>1, <1>4, <2>1
<1>7. r \in Injection(S, 1 .. n)
    BY <1>4, <1>6 DEF Injection, IsInjective
<1>8. IsFiniteSet(1 .. n) /\ Cardinality(1 .. n) = n
    BY <1>1, FS_Interval
<1>9. r \in Surjection(S, 1 .. n)
    BY <1>7, <1>8, FS_Injection DEF n
<1> QED
    BY <1>5, <1>7, <1>9 DEF Bijection, r, n

\* A set that a relation puts in a row has its elements, each once, along that relation.
LEMMA SortedFacts ==
    ASSUME NEW S, IsFiniteSet(S), NEW R, Orders(R, S)
    PROVE  /\ Sorted(S, R) \in Seq(S) /\ Len(Sorted(S, R)) = Cardinality(S)
           /\ Elems(Sorted(S, R)) = S
           /\ Rises(Sorted(S, R), R)
<1> DEFINE r == PlaceIn(R, S)
           n == Cardinality(S)
           w == [i \in 1 .. n |-> CHOOSE x \in S : r[x] = i]
           q == Sorted(S, R)
<1>1. n \in Nat
    BY FS_CardinalityType
<1>2. /\ r \in [S -> 1 .. n]
      /\ \A i \in 1 .. n : \E x \in S : r[x] = i
      /\ \A x \in S, y \in S : <<x, y>> \in R => r[x] < r[y]
    BY PlaceFacts DEF Bijection, Injection, Surjection
<1> HIDE DEF r
<1>3. \A i \in 1 .. n : w[i] \in S /\ r[w[i]] = i
    BY <1>2
<1>4. w \in [1 .. n -> S]
    BY <1>3
<1> HIDE DEF w
<1>5. ASSUME NEW i \in 1 .. n, NEW j \in 1 .. n, i < j PROVE <<w[i], w[j]>> \in R
    <2>1. w[i] \in S /\ w[j] \in S /\ w[i] # w[j] /\ r[w[i]] = i /\ r[w[j]] = j
        BY <1>3, <1>5
    <2>2. <<w[i], w[j]>> \in R \/ <<w[j], w[i]>> \in R
        BY <2>1 DEF Orders
    <2>3. <<w[j], w[i]>> \notin R
        BY <1>1, <1>2, <1>5, <2>1
    <2> QED
        BY <2>2, <2>3
<1>6. Rises(w, R)
    <2>1. DOMAIN w = 1 .. n
        BY <1>4
    <2> QED
        BY <1>5, <2>1 DEF Rises
<1>7. q \in [1 .. n -> S] /\ Rises(q, R)
    BY <1>4, <1>6 DEF Sorted
<1> HIDE DEF q, n
<1>8. q \in Seq(S) /\ Len(q) = n
    BY <1>1, <1>7
<1>9. \A i \in 1 .. n, j \in 1 .. n : q[i] = q[j] => i = j
    <2> SUFFICES ASSUME NEW i \in 1 .. n, NEW j \in 1 .. n, q[i] = q[j], i # j PROVE FALSE
        OBVIOUS
    <2>1. i < j \/ j < i
        BY <1>1
    <2>2. <<q[i], q[j]>> \in R \/ <<q[j], q[i]>> \in R
        BY <1>7, <2>1 DEF Rises
    <2>3. q[i] \in S
        BY <1>7
    <2> QED
        BY <2>2, <2>3 DEF Orders
<1>10. Elems(q) = S
    <2>1. q \in Injection(1 .. n, S)
        BY <1>7, <1>9 DEF Injection, IsInjective
    <2>2. IsFiniteSet(1 .. n) /\ Cardinality(1 .. n) = n
        BY <1>1, FS_Interval
    <2>3. q \in Surjection(1 .. n, S)
        BY <2>1, <2>2, FS_Injection DEF n
    <2> QED
        BY <1>8, <2>3 DEF Surjection, Elems
<1> QED
    BY <1>7, <1>8, <1>10 DEF q, n

-----------------------------------------------------------------------------
(* A loop over a sequence, given by what one turn makes of the value so    *)
(* far: it has values, and they are of the type that a turn keeps.         *)

\* g has the values of the first m turns.
IsRun(g, f, b, q, m) == g[0] = b /\ \A n \in 1 .. m : g[n] = f[g[n - 1]][q[n]]

\* Every turn has a value.
LEMMA RunExists ==
    ASSUME NEW S, NEW T, NEW f \in [S -> [T -> S]], NEW b \in S, NEW q \in Seq(T)
    PROVE  \E g \in [0 .. Len(q) -> S] : IsRun(g, f, b, q, Len(q))
<1> DEFINE K == {n \in Nat : n <= Len(q) => \E g \in [0 .. n -> S] : IsRun(g, f, b, q, n)}
<1>1. 0 \in K
    <2>1. [n \in 0 .. 0 |-> b] \in [0 .. 0 -> S] /\ IsRun([n \in 0 .. 0 |-> b], f, b, q, 0)
        BY DEF IsRun
    <2> QED
        BY <2>1
<1>2. ASSUME NEW n \in Nat, n \in K PROVE n + 1 \in K
    <2> SUFFICES ASSUME n + 1 <= Len(q) PROVE \E g \in [0 .. n + 1 -> S] : IsRun(g, f, b, q, n + 1)
        OBVIOUS
    <2>1. Len(q) \in Nat /\ n <= Len(q)
        OBVIOUS
    <2>2. PICK g \in [0 .. n -> S] : IsRun(g, f, b, q, n)
        BY <1>2, <2>1
    <2>3. f[g[n]][q[n + 1]] \in S
        <3>1. n \in 0 .. n /\ n + 1 \in 1 .. Len(q)
            BY <2>1
        <3>2. g[n] \in S /\ q[n + 1] \in T
            BY <3>1
        <3>3. f[g[n]] \in [T -> S]
            BY <3>2
        <3> QED
            BY <3>2, <3>3
    <2> DEFINE h == [k \in 0 .. n + 1 |-> IF k <= n THEN g[k] ELSE f[g[n]][q[n + 1]]]
    <2>4. h \in [0 .. n + 1 -> S]
        BY <2>3
    <2>5. h[n + 1] = f[g[n]][q[n + 1]] /\ \A k \in 0 .. n : h[k] = g[k]
        OBVIOUS
    <2> HIDE DEF h
    <2>6. IsRun(h, f, b, q, n + 1)
        <3>1. h[0] = b
            BY <2>2, <2>5 DEF IsRun
        <3>2. ASSUME NEW k \in 1 .. n + 1 PROVE h[k] = f[h[k - 1]][q[k]]
            <4>1. CASE k = n + 1
                <5>1. k - 1 = n /\ n \in 0 .. n
                    BY <4>1
                <5>2. h[n] = g[n]
                    BY <2>5, <5>1
                <5> QED
                    BY <2>5, <4>1, <5>1, <5>2
            <4>2. CASE k # n + 1
                <5>1. k \in 1 .. n /\ k \in 0 .. n /\ k - 1 \in 0 .. n
                    BY <4>2
                <5>2. g[k] = f[g[k - 1]][q[k]]
                    BY <2>2, <5>1 DEF IsRun
                <5>3. h[k] = g[k] /\ h[k - 1] = g[k - 1]
                    BY <2>5, <5>1
                <5> QED
                    BY <5>2, <5>3
            <4> QED
                BY <4>1, <4>2
        <3> QED
            BY <3>1, <3>2 DEF IsRun
    <2> QED
        BY <2>4, <2>6
<1> HIDE DEF K
<1>3. Nat \subseteq K
    BY <1>1, <1>2, SetInduction
<1>4. Len(q) \in K /\ Len(q) \in Nat
    BY <1>3
<1> QED
    BY <1>4 DEF K

\* What holds before the first turn, and after a turn if before it, holds to the end.
LEMMA RunInvariant ==
    ASSUME NEW m \in Nat, NEW I, NEW v, v[0] \in I[0],
           \A n \in 1 .. m : v[n - 1] \in I[n - 1] => v[n] \in I[n]
    PROVE  \A n \in 0 .. m : v[n] \in I[n]
<1> DEFINE K == {n \in Nat : n <= m => v[n] \in I[n]}
<1>1. 0 \in K
    OBVIOUS
<1>2. ASSUME NEW n \in Nat, n \in K PROVE n + 1 \in K
    <2> SUFFICES ASSUME n + 1 <= m PROVE v[n + 1] \in I[n + 1]
        OBVIOUS
    <2>1. n + 1 \in 1 .. m /\ (n + 1) - 1 = n /\ v[n] \in I[n]
        BY <1>2
    <2> QED
        BY <2>1
<1> HIDE DEF K
<1>3. Nat \subseteq K
    BY <1>1, <1>2, SetInduction
<1> QED
    BY <1>3 DEF K

-----------------------------------------------------------------------------
\* g has the values of the first m turns.
HasTurns(g, f, b, m) == g[0] = b /\ \A n \in 1 .. m : g[n] = f[n][g[n - 1]]

\* Every turn has a value, and what the turns keep holds of each.
LEMMA TurnsExist ==
    ASSUME NEW m \in Nat, NEW I, NEW f, NEW b \in I[0],
           \A n \in 1 .. m : \A s \in I[n - 1] : f[n][s] \in I[n]
    PROVE  \E g : /\ g = [n \in 0 .. m |-> g[n]]
                  /\ HasTurns(g, f, b, m)
                  /\ \A n \in 0 .. m : g[n] \in I[n]
<1> DEFINE Good(g, k) == HasTurns(g, f, b, k) /\ \A n \in 0 .. k : g[n] \in I[n]
           K == {k \in Nat : k <= m => \E g : Good(g, k)}
<1>1. 0 \in K
    <2>1. Good([n \in 0 .. 0 |-> b], 0)
        BY DEF HasTurns
    <2> QED
        BY <2>1
<1>2. ASSUME NEW k \in Nat, k \in K PROVE k + 1 \in K
    <2> SUFFICES ASSUME k + 1 <= m PROVE \E g : Good(g, k + 1)
        OBVIOUS
    <2>1. PICK g : Good(g, k)
        BY <1>2
    <2> DEFINE h == [n \in 0 .. k + 1 |-> IF n <= k THEN g[n] ELSE f[k + 1][g[k]]]
    <2>2. h[k + 1] = f[k + 1][g[k]] /\ \A n \in 0 .. k : h[n] = g[n]
        OBVIOUS
    <2> HIDE DEF h
    <2>3. g[k] \in I[k] /\ h[k + 1] \in I[k + 1]
        <3>1. k \in 0 .. k /\ k + 1 \in 1 .. m /\ (k + 1) - 1 = k
            OBVIOUS
        <3> QED
            BY <2>1, <2>2, <3>1
    <2>4. \A n \in 0 .. k + 1 : n \in 0 .. k \/ n = k + 1
        OBVIOUS
    <2>5. \A n \in 0 .. k + 1 : h[n] \in I[n]
        BY <2>1, <2>2, <2>3, <2>4
    <2>6. ASSUME NEW n \in 1 .. k + 1 PROVE h[n] = f[n][h[n - 1]]
        <3>1. n - 1 \in 0 .. k /\ h[n - 1] = g[n - 1]
            BY <2>2
        <3>2. CASE n = k + 1
            BY <2>2, <3>1, <3>2
        <3>3. CASE n # k + 1
            <4>1. n \in 1 .. k /\ n \in 0 .. k
                BY <3>3
            <4> QED
                BY <2>1, <2>2, <3>1, <4>1 DEF HasTurns
        <3> QED
            BY <3>2, <3>3
    <2>7. h[0] = b
        BY <2>1, <2>2 DEF HasTurns
    <2> QED
        BY <2>5, <2>6, <2>7 DEF HasTurns
<1> HIDE DEF K
<1>3. m \in K
    BY <1>1, <1>2, SetInduction
<1>4. PICK g : Good(g, m)
    BY <1>3 DEF K
<1> DEFINE h == [n \in 0 .. m |-> g[n]]
<1>5. \A n \in 0 .. m : h[n] = g[n]
    OBVIOUS
<1>6. h = [n \in 0 .. m |-> h[n]]
    OBVIOUS
<1> HIDE DEF h
<1>7. HasTurns(h, f, b, m)
    <2>1. \A n \in 1 .. m : n \in 0 .. m /\ n - 1 \in 0 .. m
        OBVIOUS
    <2> QED
        BY <1>4, <1>5, <2>1 DEF HasTurns
<1> QED
    BY <1>4, <1>5, <1>6, <1>7

=============================================================================
