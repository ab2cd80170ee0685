------------------------------ MODULE ListLemmas ------------------------------
(***************************************************************************)
(* What the operations on lists that the models are built from do to the   *)
(* elements of a list: Redis lists, and deques of waiting tasks.           *)
(***************************************************************************)
EXTENDS Sequences, SequencesExt, FiniteSetTheorems, SequenceTheorems, TLAPS

(* A list with one element more at its end. *)
LEMMA AppendLemma ==
  ASSUME NEW S, NEW s \in Seq(S), NEW e \in S
  PROVE  /\ Append(s, e) \in Seq(S)
         /\ ToSet(Append(s, e)) = ToSet(s) \cup {e}
         /\ IsInjective(s) /\ e \notin ToSet(s) => IsInjective(Append(s, e))
<1>1. /\ Append(s, e) \in Seq(S)
      /\ Len(Append(s, e)) = Len(s) + 1
      /\ \A i \in 1 .. Len(s) : Append(s, e)[i] = s[i]
      /\ Append(s, e)[Len(s) + 1] = e
  BY AppendProperties
<1>2. DOMAIN Append(s, e) = DOMAIN s \cup {Len(s) + 1}
  BY <1>1, LenProperties
<1> QED
  BY <1>1, <1>2, LenProperties DEF ToSet, IsInjective

(* A list with one element more at its head. *)
LEMMA PushLemma ==
  ASSUME NEW S, NEW s \in Seq(S), NEW e \in S
  PROVE  /\ <<e>> \o s \in Seq(S)
         /\ Len(<<e>> \o s) = Len(s) + 1
         /\ (<<e>> \o s)[1] = e
         /\ \A i \in 1 .. Len(s) : (<<e>> \o s)[i + 1] = s[i]
         /\ ToSet(<<e>> \o s) = ToSet(s) \cup {e}
         /\ IsInjective(s) /\ e \notin ToSet(s) => IsInjective(<<e>> \o s)
<1> DEFINE r == <<e>> \o s
<1>1. /\ r \in Seq(S)
      /\ Len(r) = Len(s) + 1
      /\ r[1] = e
      /\ \A i \in 1 .. Len(s) : r[i + 1] = s[i]
  OBVIOUS
<1>2. /\ DOMAIN r = 1 .. Len(s) + 1
      /\ DOMAIN s = 1 .. Len(s)
      /\ Len(s) \in Nat
  BY <1>1
<1>3. \A i \in DOMAIN r : i = 1 \/ (i - 1 \in DOMAIN s /\ r[i] = s[i - 1])
  BY <1>1, <1>2
<1> HIDE DEF r
<1>4. ToSet(r) = ToSet(s) \cup {e}
  <2>1. ASSUME NEW i \in DOMAIN r PROVE r[i] \in ToSet(s) \cup {e}
    BY <1>1, <1>3 DEF ToSet
  <2>2. ASSUME NEW x \in ToSet(s) PROVE x \in ToSet(r)
    <3>1. PICK i \in DOMAIN s : x = s[i]
      BY DEF ToSet
    <3>2. i + 1 \in DOMAIN r /\ r[i + 1] = x
      BY <1>1, <1>2, <3>1
    <3> QED  BY <3>2 DEF ToSet
  <2>3. e \in ToSet(r)
    BY <1>1, <1>2 DEF ToSet
  <2> QED  BY <2>1, <2>2, <2>3 DEF ToSet
<1>5. ASSUME IsInjective(s), e \notin ToSet(s) PROVE IsInjective(r)
  <2> SUFFICES ASSUME NEW i \in DOMAIN r, NEW j \in DOMAIN r, r[i] = r[j]
               PROVE  i = j
    BY DEF IsInjective
  <2>1. CASE i = 1 /\ j = 1
    BY <2>1
  <2>2. CASE i = 1 /\ j # 1
    BY <1>1, <1>3, <1>5, <2>2 DEF ToSet
  <2>3. CASE i # 1 /\ j = 1
    BY <1>1, <1>3, <1>5, <2>3 DEF ToSet
  <2>4. CASE i # 1 /\ j # 1
    BY <1>2, <1>3, <1>5, <2>4 DEF IsInjective
  <2> QED  BY <2>1, <2>2, <2>3, <2>4
<1> QED
  BY <1>1, <1>4, <1>5 DEF r

(* What taking the first element of a list leaves. *)
LEMMA TailLemma ==
  ASSUME NEW S, NEW s \in Seq(S), s # <<>>
  PROVE  /\ Head(s) \in S
         /\ Head(s) \in ToSet(s)
         /\ Tail(s) \in Seq(S)
         /\ Len(Tail(s)) = Len(s) - 1
         /\ \A i \in 1 .. Len(s) - 1 : Tail(s)[i] = s[i + 1]
         /\ IsInjective(s) => /\ IsInjective(Tail(s))
                              /\ ToSet(Tail(s)) = ToSet(s) \ {Head(s)}
<1> DEFINE r == Tail(s)
<1>1. /\ Len(s) \in Nat \ {0}
      /\ DOMAIN s = 1 .. Len(s)
      /\ Head(s) = s[1]
      /\ r \in Seq(S)
      /\ Len(r) = Len(s) - 1
      /\ \A i \in 1 .. Len(s) - 1 : r[i] = s[i + 1]
  OBVIOUS
<1>2. DOMAIN r = 1 .. Len(s) - 1
  BY <1>1
<1> HIDE DEF r
<1>3. Head(s) \in S /\ Head(s) \in ToSet(s)
  BY <1>1, ElementOfSeq DEF ToSet
<1>4. ASSUME IsInjective(s)
      PROVE  IsInjective(r) /\ ToSet(r) = ToSet(s) \ {Head(s)}
  <2>1. ASSUME NEW i \in DOMAIN r, NEW j \in DOMAIN r, r[i] = r[j] PROVE i = j
    <3>1. /\ i + 1 \in DOMAIN s /\ j + 1 \in DOMAIN s
          /\ s[i + 1] = s[j + 1] /\ i \in Nat /\ j \in Nat
      BY <1>1, <1>2, <2>1
    <3>2. i + 1 = j + 1
      BY <3>1, <1>4 DEF IsInjective
    <3> QED  BY <3>1, <3>2
  <2>2. ASSUME NEW i \in DOMAIN r PROVE r[i] \in ToSet(s) \ {Head(s)}
    <3>1. i + 1 \in DOMAIN s /\ i + 1 # 1 /\ 1 \in DOMAIN s /\ r[i] = s[i + 1]
      BY <1>1, <1>2
    <3>2. s[i + 1] # s[1]
      BY <3>1, <1>4 DEF IsInjective
    <3> QED  BY <1>1, <3>1, <3>2 DEF ToSet
  <2>3. ASSUME NEW x \in ToSet(s), x # Head(s) PROVE x \in ToSet(r)
    <3>1. PICK i \in DOMAIN s : x = s[i]
      BY DEF ToSet
    <3>2. i - 1 \in DOMAIN r /\ r[i - 1] = x
      BY <1>1, <1>2, <2>3, <3>1
    <3> QED  BY <3>2 DEF ToSet
  <2> QED  BY <2>1, <2>2, <2>3 DEF ToSet, IsInjective
<1> QED
  BY <1>1, <1>3, <1>4 DEF r

(* A list without its k-th element.                                        *)
LEMMA RemoveAtLemma ==
  ASSUME NEW S, NEW s \in Seq(S), NEW k \in DOMAIN s
  PROVE  /\ RemoveAt(s, k) \in Seq(S)
         /\ Len(RemoveAt(s, k)) = Len(s) - 1
         /\ IsInjective(s) => /\ IsInjective(RemoveAt(s, k))
                              /\ ToSet(RemoveAt(s, k)) = ToSet(s) \ {s[k]}
<1>1. Len(s) \in Nat /\ DOMAIN s = 1 .. Len(s)
  BY LenProperties
<1>2. k \in 1 .. Len(s)
  BY <1>1
<1> DEFINE a == SubSeq(s, 1, k - 1)
           b == SubSeq(s, k + 1, Len(s))
           r == a \o b
<1>5. RemoveAt(s, k) = r
  BY DEF RemoveAt
<1>6. /\ a \in Seq(S) /\ Len(a) = k - 1
      /\ \A i \in 1 .. k - 1 : a[i] = s[i]
  BY <1>1
<1>7. /\ b \in Seq(S) /\ Len(b) = Len(s) - k
      /\ \A i \in 1 .. Len(s) - k : b[i] = s[k + i]
  <2>1. \A i \in k + 1 .. Len(s) : s[i] \in S
    BY <1>1, ElementOfSeq
  <2>2. b \in Seq(S) /\ Len(b) = Len(s) - k
    <3>1. /\ b \in Seq(S)
          /\ Len(b) = IF k + 1 <= Len(s) THEN Len(s) - (k + 1) + 1 ELSE 0
      BY <1>1, <2>1, SubSeqProperties
    <3>2. (IF k + 1 <= Len(s) THEN Len(s) - (k + 1) + 1 ELSE 0) = Len(s) - k
      <4>1. k \in Int /\ Len(s) \in Int /\ k <= Len(s)
        BY <1>1
      <4>2. CASE k + 1 <= Len(s)
        BY <4>1, <4>2
      <4>3. CASE ~(k + 1 <= Len(s))
        <5>1. k = Len(s)
          BY <4>1, <4>3
        <5> QED  BY <4>1, <4>3, <5>1
      <4> QED  BY <4>2, <4>3
    <3> QED  BY <3>1, <3>2
  <2>3. ASSUME NEW i \in 1 .. Len(s) - k PROVE b[i] = s[k + i]
    <3>1. (k + 1) + i - 1 = k + i /\ Len(s) - (k + 1) + 1 = Len(s) - k
      BY <1>1
    <3> QED  BY <1>1, <2>1, <3>1, SubSeqProperties
  <2> QED  BY <2>2, <2>3
<1> HIDE DEF a, b
<1>8. /\ r \in Seq(S)
      /\ Len(r) = Len(s) - 1
      /\ \A i \in 1 .. Len(s) - 1 :
           r[i] = IF i <= k - 1 THEN a[i] ELSE b[i - (k - 1)]
  <2>1. Len(a) + Len(b) = Len(s) - 1
    BY <1>1, <1>6, <1>7
  <2>2. /\ r \in Seq(S)
        /\ Len(r) = Len(a) + Len(b)
        /\ \A i \in 1 .. Len(a) + Len(b) :
             r[i] = IF i <= Len(a) THEN a[i] ELSE b[i - Len(a)]
    BY <1>6, <1>7, ConcatProperties
  <2> QED  BY <1>6, <2>1, <2>2
<1> HIDE DEF r
<1>9. DOMAIN r = 1 .. Len(s) - 1
  BY <1>8, LenProperties
<1> DEFINE from(i) == IF i < k THEN i ELSE i + 1
<1>10. ASSUME NEW i \in DOMAIN r
       PROVE  from(i) \in DOMAIN s \ {k} /\ r[i] = s[from(i)]
  <2>1. CASE i < k
    BY <1>1, <1>6, <1>8, <1>9, <2>1
  <2>2. CASE i >= k
    <3>1. i - (k - 1) \in 1 .. Len(s) - k /\ k + (i - (k - 1)) = i + 1
      BY <1>1, <1>9, <2>2
    <3>2. r[i] = s[i + 1]
      <4>1. r[i] = b[i - (k - 1)]
        BY <1>1, <1>8, <1>9, <2>2
      <4>2. b[i - (k - 1)] = s[k + (i - (k - 1))]
        BY <1>7, <3>1
      <4> QED  BY <3>1, <4>1, <4>2
    <3> QED  BY <1>1, <1>9, <2>2, <3>2
  <2> QED  BY <1>1, <1>9, <2>1, <2>2
<1>11. ASSUME IsInjective(s) PROVE IsInjective(r)
  <2> SUFFICES ASSUME NEW i \in DOMAIN r, NEW j \in DOMAIN r, r[i] = r[j]
               PROVE  i = j
    BY DEF IsInjective
  <2>1. from(i) = from(j)
    <3> HIDE DEF from
    <3> QED  BY <1>10, <1>11 DEF IsInjective
  <2> QED  BY <1>1, <1>9, <2>1
<1>12. ASSUME IsInjective(s), NEW i \in DOMAIN r PROVE r[i] \in ToSet(s) \ {s[k]}
  <2> HIDE DEF from
  <2>1. s[from(i)] # s[k]
    BY <1>1, <1>2, <1>10, <1>12 DEF IsInjective
  <2> QED  BY <1>2, <1>10, <2>1 DEF ToSet
<1>13. ASSUME NEW x \in ToSet(s), x # s[k] PROVE x \in ToSet(r)
  <2>1. PICK j \in DOMAIN s : x = s[j]
    BY DEF ToSet
  <2>2. \E i \in DOMAIN r : from(i) = j
    <3>1. CASE j < k
      BY <1>1, <1>9, <3>1
    <3>2. CASE j > k
      <4>1. j - 1 \in DOMAIN r /\ from(j - 1) = j
        BY <1>1, <1>9, <3>2
      <4> HIDE DEF from
      <4> QED  BY <4>1
    <3> QED  BY <1>1, <1>2, <1>13, <2>1, <3>1, <3>2
  <2> QED  BY <1>10, <2>1, <2>2 DEF ToSet
<1>14. ASSUME IsInjective(s) PROVE ToSet(r) = ToSet(s) \ {s[k]}
  BY <1>12, <1>13, <1>14 DEF ToSet
<1> QED
  BY <1>5, <1>8, <1>11, <1>14

(* A list without an element that it holds once at most.                   *)
LEMMA RemoveFirstLemma ==
  ASSUME NEW S, NEW s \in Seq(S), IsInjective(s), NEW e
  PROVE  /\ RemoveFirst(s, e) \in Seq(S)
         /\ IsInjective(RemoveFirst(s, e))
         /\ ToSet(RemoveFirst(s, e)) = ToSet(s) \ {e}
<1>1. Len(s) \in Nat /\ DOMAIN s = 1 .. Len(s)
  BY LenProperties
<1>2. CASE \E i \in 1 .. Len(s) : s[i] = e
  <2>1. PICK k \in 1 .. Len(s) : s[k] = e
    BY <1>2
  <2> DEFINE I == {i \in 1 .. Len(s) : s[i] = e}
  <2>2. I = {k}
    BY <1>1, <2>1 DEF IsInjective
  <2>3. RemoveFirst(s, e) = RemoveAt(s, Min(I))
    BY <1>2, <2>1 DEF RemoveFirst, SelectInSeq
  <2>4. Min(I) = k
    BY <2>2 DEF Min
  <2> HIDE DEF I
  <2>5. RemoveFirst(s, e) = RemoveAt(s, k)
    BY <2>3, <2>4
  <2>6. k \in DOMAIN s
    BY <1>1
  <2>7. /\ RemoveAt(s, k) \in Seq(S)
        /\ IsInjective(RemoveAt(s, k))
        /\ ToSet(RemoveAt(s, k)) = ToSet(s) \ {s[k]}
    BY <2>6, RemoveAtLemma
  <2> QED  BY <2>1, <2>5, <2>7
<1>3. CASE ~ \E i \in 1 .. Len(s) : s[i] = e
  BY <1>1, <1>3 DEF RemoveFirst, ToSet
<1> QED
  BY <1>2, <1>3

(* A list holds no more distinct elements than its length.                 *)
LEMMA ListCardinality ==
  ASSUME NEW S, NEW s \in Seq(S)
  PROVE  /\ IsFiniteSet(ToSet(s))
         /\ Cardinality(ToSet(s)) \in Nat
         /\ Cardinality(ToSet(s)) <= Len(s)
<1>1. Len(s) \in Nat /\ DOMAIN s = 1 .. Len(s)
  BY LenProperties
<1>2. IsFiniteSet(1 .. Len(s)) /\ Cardinality(1 .. Len(s)) = Len(s)
  BY <1>1, FS_Interval
<1>3. s \in Surjection(1 .. Len(s), ToSet(s))
  <2>1. s \in [1 .. Len(s) -> ToSet(s)]
    BY <1>1 DEF ToSet
  <2> QED  BY <1>1, <2>1 DEF Surjection, ToSet
<1> QED
  BY <1>2, <1>3, FS_Surjection, FS_CardinalityType
-------------------------------------------------------------------------------
\* n splits the list q into tracks in D and tracks that are not.
Splits(q, D, n) == /\ n \in 0 .. Len(q)
                   /\ \A i \in DOMAIN q : q[i] \in D <=> i <= n

(* Where the list splits is the number of its tracks in D.                 *)
LEMMA SplitIsCount ==
  ASSUME NEW S, NEW q \in Seq(S), NEW D, NEW n, Splits(q, D, n)
  PROVE  Cardinality({i \in DOMAIN q : q[i] \in D}) = n
<1>1. {i \in DOMAIN q : q[i] \in D} = 1 .. n
  BY LenProperties DEF Splits
<1>2. Cardinality(1 .. n) = n
  BY LenProperties, FS_Interval DEF Splits
<1> QED
  BY <1>1, <1>2

(* The front and the rest of a list.                                       *)
LEMMA FrontAndRest ==
  ASSUME NEW S, NEW q \in Seq(S), NEW n \in 0 .. Len(q)
  PROVE  /\ SubSeq(q, 1, n) \in Seq(S)
         /\ Len(SubSeq(q, 1, n)) = n
         /\ \A i \in 1 .. n : SubSeq(q, 1, n)[i] = q[i]
         /\ SubSeq(q, n + 1, Len(q)) \in Seq(S)
         /\ Len(SubSeq(q, n + 1, Len(q))) = Len(q) - n
         /\ \A i \in 1 .. Len(q) - n : SubSeq(q, n + 1, Len(q))[i] = q[n + i]
<1>1. /\ n \in Nat /\ n <= Len(q) /\ Len(q) \in Nat /\ \A i \in 1 .. Len(q) : q[i] \in S
  BY LenProperties, ElementOfSeq
<1>2. /\ SubSeq(q, 1, n) \in Seq(S) /\ Len(SubSeq(q, 1, n)) = n
      /\ \A i \in 1 .. n : SubSeq(q, 1, n)[i] = q[i]
  BY <1>1
<1> DEFINE b == SubSeq(q, n + 1, Len(q))
<1>3. n + 1 \in Int /\ Len(q) \in Int /\ \A i \in n + 1 .. Len(q) : q[i] \in S
  BY <1>1
<1>4. /\ b \in Seq(S)
      /\ Len(b) = IF n + 1 <= Len(q) THEN Len(q) - (n + 1) + 1 ELSE 0
      /\ \A i \in 1 .. Len(q) - (n + 1) + 1 : b[i] = q[(n + 1) + i - 1]
  BY <1>3, SubSeqProperties
<1> HIDE DEF b
<1>5. Len(b) = Len(q) - n
  <2>1. CASE n = Len(q)
    BY <1>1, <1>4, <2>1
  <2>2. CASE n < Len(q)
    <3>1. n + 1 <= Len(q) /\ Len(q) - (n + 1) + 1 = Len(q) - n
      BY <1>1, <2>2
    <3> QED  BY <1>4, <3>1
  <2> QED  BY <1>1, <2>1, <2>2
<1>6. \A i \in 1 .. Len(q) - n : b[i] = q[n + i]
  <2>1. Len(q) - (n + 1) + 1 = Len(q) - n /\ \A i \in 1 .. Len(q) - n : (n + 1) + i - 1 = n + i
    BY <1>1
  <2> QED  BY <1>4, <2>1
<1> QED
  BY <1>2, <1>4, <1>5, <1>6 DEF b

(* Both together hold what the list holds.                                 *)
LEMMA FrontAndRestHoldAll ==
  ASSUME NEW S, NEW q \in Seq(S), NEW n \in 0 .. Len(q)
  PROVE  ToSet(SubSeq(q, 1, n)) \cup ToSet(SubSeq(q, n + 1, Len(q))) = ToSet(q)
<1> DEFINE a == SubSeq(q, 1, n)
           b == SubSeq(q, n + 1, Len(q))
<1>1. /\ DOMAIN a = 1 .. n /\ DOMAIN b = 1 .. Len(q) - n /\ DOMAIN q = 1 .. Len(q)
      /\ \A i \in 1 .. n : a[i] = q[i]
      /\ \A i \in 1 .. Len(q) - n : b[i] = q[n + i]
      /\ n \in Nat /\ Len(q) \in Nat /\ n <= Len(q)
  BY FrontAndRest, LenProperties
<1> HIDE DEF a, b
<1>2. ASSUME NEW x \in ToSet(a) PROVE x \in ToSet(q)
  BY <1>1 DEF ToSet
<1>3. ASSUME NEW x \in ToSet(b) PROVE x \in ToSet(q)
  <2>1. PICK i \in 1 .. Len(q) - n : b[i] = x
    BY <1>1 DEF ToSet
  <2>2. n + i \in 1 .. Len(q) /\ q[n + i] = x
    BY <1>1, <2>1
  <2> QED  BY <1>1, <2>2 DEF ToSet
<1>4. ASSUME NEW x \in ToSet(q) PROVE x \in ToSet(a) \cup ToSet(b)
  <2>1. PICK i \in 1 .. Len(q) : q[i] = x
    BY <1>1 DEF ToSet
  <2>2. CASE i <= n
    BY <1>1, <2>1, <2>2 DEF ToSet
  <2>3. CASE ~(i <= n)
    <3>1. i - n \in 1 .. Len(q) - n /\ n + (i - n) = i
      BY <1>1, <2>3
    <3> QED  BY <1>1, <2>1, <3>1 DEF ToSet
  <2> QED  BY <2>2, <2>3
<1> QED
  BY <1>2, <1>3, <1>4 DEF a, b

(* Of a list without repetitions, the two have no element in common, and   *)
(* the front has as many elements as its length says.                      *)
LEMMA FrontAndRestApart ==
  ASSUME NEW S, NEW q \in Seq(S), NEW n \in 0 .. Len(q), IsInjective(q)
  PROVE  /\ IsInjective(SubSeq(q, n + 1, Len(q)))
         /\ ToSet(SubSeq(q, 1, n)) \cap ToSet(SubSeq(q, n + 1, Len(q))) = {}
         /\ IsFiniteSet(ToSet(SubSeq(q, 1, n)))
         /\ Cardinality(ToSet(SubSeq(q, 1, n))) = n
<1> DEFINE a == SubSeq(q, 1, n)
           b == SubSeq(q, n + 1, Len(q))
<1>1. /\ DOMAIN a = 1 .. n /\ DOMAIN b = 1 .. Len(q) - n /\ DOMAIN q = 1 .. Len(q)
      /\ \A i \in 1 .. n : a[i] = q[i]
      /\ \A i \in 1 .. Len(q) - n : b[i] = q[n + i]
      /\ n \in Nat /\ Len(q) \in Nat /\ n <= Len(q)
      /\ a \in Seq(S)
  BY FrontAndRest, LenProperties
<1> HIDE DEF a, b
<1>2. \A i, j \in 1 .. Len(q) : q[i] = q[j] => i = j
  BY <1>1 DEF IsInjective
<1>3. IsInjective(b)
  <2> SUFFICES ASSUME NEW i \in DOMAIN b, NEW j \in DOMAIN b, b[i] = b[j]
               PROVE  i = j
    BY DEF IsInjective
  <2>1. n + i \in 1 .. Len(q) /\ n + j \in 1 .. Len(q) /\ i \in Int /\ j \in Int
    BY <1>1
  <2>2. q[n + i] = q[n + j]
    BY <1>1
  <2>3. n + i = n + j
    BY <1>2, <2>1, <2>2
  <2> QED  BY <1>1, <2>1, <2>3
<1>4. ASSUME NEW x \in ToSet(a), x \in ToSet(b) PROVE FALSE
  <2>1. PICK i \in 1 .. n : a[i] = x
    BY <1>1 DEF ToSet
  <2>2. PICK j \in 1 .. Len(q) - n : b[j] = x
    BY <1>1, <1>4 DEF ToSet
  <2>3. i \in 1 .. Len(q) /\ n + j \in 1 .. Len(q) /\ i # n + j
    BY <1>1
  <2>4. q[i] = q[n + j]
    BY <1>1, <2>1, <2>2
  <2> QED  BY <1>2, <2>3, <2>4
<1>5. IsFiniteSet(1 .. n) /\ Cardinality(1 .. n) = n
  BY <1>1, FS_Interval
<1>6. a \in Bijection(1 .. n, ToSet(a))
  <2>1. a \in [1 .. n -> ToSet(a)]
    BY <1>1 DEF ToSet
  <2>2. \A i, j \in 1 .. n : a[i] = a[j] => i = j
    <3> SUFFICES ASSUME NEW i \in 1 .. n, NEW j \in 1 .. n, a[i] = a[j]
                 PROVE  i = j
      OBVIOUS
    <3>1. i \in 1 .. Len(q) /\ j \in 1 .. Len(q) /\ q[i] = q[j]
      BY <1>1
    <3> QED  BY <1>2, <3>1
  <2>3. \A x \in ToSet(a) : \E i \in 1 .. n : a[i] = x
    BY <1>1 DEF ToSet
  <2> QED  BY <2>1, <2>2, <2>3 DEF Bijection, Injection, Surjection, IsInjective
<1>7. IsFiniteSet(ToSet(a)) /\ Cardinality(ToSet(a)) = n
  BY <1>5, <1>6, FS_Bijection DEF ExistsBijection
<1> QED
  BY <1>3, <1>4, <1>7 DEF a, b
(* Taking another element out of a list leaves the last one at its end.    *)
LEMMA LastStays ==
  ASSUME NEW S, NEW s \in Seq(S), s # <<>>, IsInjective(s), NEW e, e # s[Len(s)]
  PROVE  LET r == RemoveFirst(s, e) IN r # <<>> /\ r[Len(r)] = s[Len(s)]
<1>1. Len(s) \in Nat \ {0} /\ DOMAIN s = 1 .. Len(s)
  BY EmptySeq, LenProperties
<1>2. CASE \E i \in 1 .. Len(s) : s[i] = e
  <2>1. PICK k \in 1 .. Len(s) : s[k] = e
    BY <1>2
  <2> DEFINE I == {i \in 1 .. Len(s) : s[i] = e}
  <2>2. I = {k}
    BY <1>1, <2>1 DEF IsInjective
  <2>3. RemoveFirst(s, e) = RemoveAt(s, Min(I))
    BY <1>2, <2>1 DEF RemoveFirst, SelectInSeq
  <2>4. Min(I) = k
    BY <2>2 DEF Min
  <2> HIDE DEF I
  <2> DEFINE a == SubSeq(s, 1, k - 1)
             b == SubSeq(s, k + 1, Len(s))
  <2>5. RemoveFirst(s, e) = a \o b
    BY <2>3, <2>4 DEF RemoveAt
  <2>6. k \in Nat \ {0} /\ k < Len(s) /\ k - 1 \in 0 .. Len(s) /\ k \in 0 .. Len(s)
    BY <1>1, <2>1
  <2>7. a \in Seq(S) /\ Len(a) = k - 1
    BY <2>6, FrontAndRest
  <2>8. /\ b \in Seq(S) /\ Len(b) = Len(s) - k
        /\ \A i \in 1 .. Len(s) - k : b[i] = s[k + i]
    BY <2>6, FrontAndRest
  <2> HIDE DEF a, b
  <2>9. /\ a \o b \in Seq(S) /\ Len(a \o b) = Len(s) - 1
        /\ (a \o b)[Len(s) - 1] = b[Len(s) - k]
    <3>1. /\ Len(a) + Len(b) = Len(s) - 1 /\ Len(s) - 1 \in 1 .. Len(s) - 1
          /\ ~(Len(s) - 1 <= Len(a)) /\ (Len(s) - 1) - Len(a) = Len(s) - k
      BY <1>1, <2>6, <2>7, <2>8
    <3>2. /\ a \o b \in Seq(S) /\ Len(a \o b) = Len(a) + Len(b)
          /\ \A i \in 1 .. Len(a) + Len(b) :
               (a \o b)[i] = IF i <= Len(a) THEN a[i] ELSE b[i - Len(a)]
      BY <2>7, <2>8, ConcatProperties
    <3> QED  BY <3>1, <3>2
  <2>10. b[Len(s) - k] = s[Len(s)]
    <3>1. Len(s) - k \in 1 .. Len(s) - k /\ k + (Len(s) - k) = Len(s)
      BY <1>1, <2>6
    <3> QED  BY <2>8, <3>1
  <2>11. Len(a \o b) # 0
    BY <1>1, <2>6, <2>9
  <2> QED  BY <2>5, <2>9, <2>10, <2>11
<1>3. CASE ~ \E i \in 1 .. Len(s) : s[i] = e
  BY <1>3 DEF RemoveFirst
<1> QED
  BY <1>2, <1>3
===============================================================================
