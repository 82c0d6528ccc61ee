---------------------------- MODULE QueueLemmas -----------------------------
(***************************************************************************)
(* The three changes a queue without repetitions goes through (a waiter    *)
(* joins at the end, the head is served, one in the middle walks away) as  *)
(* facts about its members, for the proofs about waiting lines.            *)
(***************************************************************************)
EXTENDS SequencesExt, SequenceTheorems, TLAPS

-----------------------------------------------------------------------------
\* A waiter that joins is the one member more, and the line stays without
\* repetitions.
LEMMA AppendToQueue ==
  ASSUME NEW S, NEW q \in Seq(S), NEW c \in S, c \notin ToSet(q), IsInjective(q)
  PROVE  /\ Append(q, c) \in Seq(S)
         /\ ToSet(Append(q, c)) = ToSet(q) \cup {c}
         /\ IsInjective(Append(q, c))
<1> DEFINE r == Append(q, c)
           n == Len(q)
<1>1. /\ n \in Nat /\ DOMAIN q = 1..n
      /\ r \in Seq(S) /\ DOMAIN r = 1..(n + 1)
      /\ \A i \in 1..n : r[i] = q[i]
      /\ r[n + 1] = c
  BY AppendProperties, LenProperties
<1> HIDE DEF r, n
<1>2. \A x : x \in ToSet(r) <=> x \in ToSet(q) \cup {c}
  <2>1. \A i \in 1..(n + 1) : i \in 1..n \/ i = n + 1
    BY <1>1
  <2>2. n + 1 \in 1..(n + 1) /\ \A i \in 1..n : i \in 1..(n + 1)
    BY <1>1
  <2> QED  BY <1>1, <2>1, <2>2 DEF ToSet
<1>3. IsInjective(r)
  <2>1. \A i \in 1..n : r[i] # c
    BY <1>1 DEF ToSet
  <2> QED  BY <1>1, <2>1 DEF IsInjective
<1> QED  BY <1>1, <1>2, <1>3 DEF r

\* Serving the head takes the head away and nobody else.
LEMMA TailOfQueue ==
  ASSUME NEW S, NEW q \in Seq(S), q # <<>>, IsInjective(q)
  PROVE  /\ Tail(q) \in Seq(S)
         /\ Head(q) \in ToSet(q)
         /\ ToSet(Tail(q)) = ToSet(q) \ {Head(q)}
         /\ IsInjective(Tail(q))
<1> DEFINE r == Tail(q)
           n == Len(q)
           h == Head(q)
<1>1. /\ n \in Nat \ {0} /\ DOMAIN q = 1..n /\ h = q[1]
      /\ r \in Seq(S) /\ DOMAIN r = 1..(n - 1)
      /\ \A i \in 1..(n - 1) : r[i] = q[i + 1]
  BY HeadTailProperties, LenProperties, EmptySeq
<1> HIDE DEF r, n, h
<1>2. h \in ToSet(q)
  BY <1>1 DEF ToSet
<1>3. \A x \in ToSet(r) : x \in ToSet(q) \ {h}
  BY <1>1 DEF ToSet, IsInjective
<1>4. ASSUME NEW x \in ToSet(q), x # h
      PROVE  x \in ToSet(r)
  <2>1. PICK i \in 1..n : x = q[i]
    BY <1>1 DEF ToSet
  <2>2. i - 1 \in 1..(n - 1) /\ r[i - 1] = x
    BY <1>1, <1>4, <2>1
  <2> QED  BY <1>1, <2>2 DEF ToSet
<1>5. ASSUME NEW i \in 1..(n - 1), NEW j \in 1..(n - 1), r[i] = r[j]
      PROVE  i = j
  <2>1. i + 1 \in 1..n /\ j + 1 \in 1..n /\ q[i + 1] = q[j + 1]
    BY <1>1, <1>5
  <2>2. i + 1 = j + 1
    BY <1>1, <2>1 DEF IsInjective
  <2> QED  BY <2>2
<1>6. IsInjective(r)
  BY <1>1, <1>5 DEF IsInjective
<1> QED  BY <1>1, <1>2, <1>3, <1>4, <1>6 DEF r, h

\* Walking away from any place takes that one waiter away and nobody else.
LEMMA RemoveFromQueue ==
  ASSUME NEW S, NEW q \in Seq(S), NEW i \in DOMAIN q, IsInjective(q)
  PROVE  /\ RemoveAt(q, i) \in Seq(S)
         /\ ToSet(RemoveAt(q, i)) = ToSet(q) \ {q[i]}
         /\ IsInjective(RemoveAt(q, i))
<1> DEFINE n == Len(q)
           a == SubSeq(q, 1, i - 1)
           b == SubSeq(q, i + 1, n)
           r == a \o b
<1>1. n \in Nat /\ DOMAIN q = 1..n /\ i \in 1..n
  BY LenProperties
<1>2. /\ a \in Seq(S) /\ Len(a) = i - 1
      /\ \A j \in 1..(i - 1) : a[j] = q[j]
  BY <1>1, SubSeqProperties
<1>3. /\ b \in Seq(S) /\ Len(b) = n - i
      /\ \A j \in 1..(n - i) : b[j] = q[i + j]
  BY <1>1, SubSeqProperties
<1>4. /\ r \in Seq(S) /\ DOMAIN r = 1..(n - 1)
      /\ \A j \in 1..(n - 1) : r[j] = IF j < i THEN q[j] ELSE q[j + 1]
  <2> HIDE DEF a, b, n
  <2>0. /\ r \in Seq(S) /\ Len(r) = Len(a) + Len(b)
        /\ \A j \in 1..(Len(a) + Len(b)) :
             r[j] = IF j <= Len(a) THEN a[j] ELSE b[j - Len(a)]
    BY <1>2, <1>3, ConcatProperties
  <2>1. /\ r \in Seq(S) /\ Len(r) = n - 1
        /\ \A j \in 1..(n - 1) : r[j] = IF j <= i - 1 THEN a[j] ELSE b[j - (i - 1)]
    <3> HIDE DEF r
    <3>1. Len(a) + Len(b) = n - 1
      BY <1>1, <1>2, <1>3
    <3> QED  BY <1>2, <2>0, <3>1
  <2>2. DOMAIN r = 1..(n - 1)
    BY <2>1, LenProperties
  <2>3. ASSUME NEW j \in 1..(n - 1), j < i
        PROVE  r[j] = q[j]
    BY <1>1, <1>2, <2>1, <2>3
  <2>4. ASSUME NEW j \in 1..(n - 1), ~(j < i)
        PROVE  r[j] = q[j + 1]
    <3>1. /\ j - (i - 1) \in 1..(n - i) /\ i + (j - (i - 1)) = j + 1
          /\ ~(j <= i - 1) /\ j \in Int
      BY <1>1, <2>4
    <3> QED  BY <1>2, <1>3, <2>1, <3>1
  <2> QED  BY <2>1, <2>2, <2>3, <2>4
<1>5. RemoveAt(q, i) = r
  BY DEF RemoveAt
<1> HIDE DEF r, n, a, b
<1>6. ASSUME NEW j \in 1..(n - 1)
      PROVE  r[j] \in ToSet(q) \ {q[i]}
  <2>1. \E k \in 1..n : k # i /\ r[j] = q[k]
    BY <1>1, <1>4
  <2> QED  BY <1>1, <2>1 DEF ToSet, IsInjective
<1>7. ASSUME NEW x \in ToSet(q), x # q[i]
      PROVE  x \in ToSet(r)
  <2>1. PICK j \in 1..n : x = q[j]
    BY <1>1 DEF ToSet
  <2>2. CASE j < i
    <3>1. j \in 1..(n - 1) /\ r[j] = x
      BY <1>1, <1>4, <2>1, <2>2
    <3> QED  BY <1>4, <3>1 DEF ToSet
  <2>3. CASE j > i
    <3>1. j - 1 \in 1..(n - 1) /\ r[j - 1] = x
      BY <1>1, <1>4, <2>1, <2>3
    <3> QED  BY <1>4, <3>1 DEF ToSet
  <2> QED  BY <1>1, <1>7, <2>1, <2>2, <2>3
<1>8. ASSUME NEW j \in 1..(n - 1), NEW k \in 1..(n - 1), r[j] = r[k]
      PROVE  j = k
  <2> DEFINE at(m) == IF m < i THEN m ELSE m + 1
  <2>1. at(j) \in 1..n /\ at(k) \in 1..n /\ q[at(j)] = q[at(k)]
    BY <1>1, <1>4, <1>8
  <2>2. at(j) = at(k)
    BY <1>1, <2>1 DEF IsInjective
  <2> QED  BY <1>1, <2>2
<1>9. ToSet(r) = ToSet(q) \ {q[i]}
  BY <1>4, <1>6, <1>7 DEF ToSet
<1>10. IsInjective(r)
  BY <1>4, <1>8 DEF IsInjective
<1> QED  BY <1>4, <1>5, <1>9, <1>10

=============================================================================
