---------------------------- MODULE SequenceFacts ----------------------------
(* Lemmas about sequences that the proofs of several modules use.          *)
EXTENDS Integers, Sequences, SequencesExt, Filter, SequenceTheorems, WellFoundedInduction, TLAPS

\* What RemoveAt leaves: the elements before i, then those after it.
LEMMA RemoveAtFacts ==
  ASSUME NEW S, NEW s \in Seq(S), NEW i \in 1 .. Len(s)
  PROVE  /\ RemoveAt(s, i) \in Seq(S)
         /\ Len(RemoveAt(s, i)) = Len(s) - 1
         /\ \A j \in 1 .. (Len(s) - 1) :
              RemoveAt(s, i)[j] = IF j < i THEN s[j] ELSE s[j + 1]
<1> DEFINE n == Len(s)
           p == SubSeq(s, 1, i - 1)
           q == SubSeq(s, i + 1, n)
<1>1. n \in Nat /\ i \in Int /\ 1 <= i /\ i <= n
  BY LenProperties
<1>2. \A j \in 1 .. n : s[j] \in S
  BY ElementOfSeq
<1>3. /\ p \in Seq(S) /\ Len(p) = i - 1
      /\ \A j \in 1 .. (i - 1) : p[j] = s[j]
  <2>1. \A j \in 1 .. (i - 1) : s[j] \in S
    BY <1>1, <1>2
  <2>2. i - 1 \in Int /\ 1 \in Int
    BY <1>1
  <2>3. /\ p \in Seq(S) /\ Len(p) = IF 1 <= i - 1 THEN i - 1 - 1 + 1 ELSE 0
        /\ \A j \in 1 .. (i - 1 - 1 + 1) : p[j] = s[1 + j - 1]
    BY <2>1, <2>2, SubSeqProperties
  <2> QED
    BY <1>1, <2>3
<1>4. /\ q \in Seq(S) /\ Len(q) = n - i
      /\ \A j \in 1 .. (n - i) : q[j] = s[i + j]
  <2>1. \A j \in (i + 1) .. n : s[j] \in S
    BY <1>1, <1>2
  <2>2. i + 1 \in Int /\ n \in Int
    BY <1>1
  <2>3. /\ q \in Seq(S) /\ Len(q) = IF i + 1 <= n THEN n - (i + 1) + 1 ELSE 0
        /\ \A j \in 1 .. (n - (i + 1) + 1) : q[j] = s[i + 1 + j - 1]
    BY <2>1, <2>2, SubSeqProperties
  <2> QED
    BY <1>1, <2>3
<1>5. RemoveAt(s, i) = p \o q
  BY DEF RemoveAt
<1> HIDE DEF p, q
<1>6. /\ p \o q \in Seq(S) /\ Len(p \o q) = n - 1
      /\ \A j \in 1 .. (n - 1) : (p \o q)[j] = IF j <= i - 1 THEN p[j] ELSE q[j - (i - 1)]
  <2>1. /\ p \o q \in Seq(S)
        /\ Len(p \o q) = Len(p) + Len(q)
        /\ \A j \in 1 .. (Len(p) + Len(q)) :
             (p \o q)[j] = IF j <= Len(p) THEN p[j] ELSE q[j - Len(p)]
    BY <1>3, <1>4, ConcatProperties
  <2> QED
    BY <1>1, <1>3, <1>4, <2>1
<1>7. ASSUME NEW j \in 1 .. (n - 1)
      PROVE  (p \o q)[j] = IF j < i THEN s[j] ELSE s[j + 1]
  <2> j \in Int /\ (p \o q)[j] = IF j <= i - 1 THEN p[j] ELSE q[j - (i - 1)]
    BY <1>1, <1>6
  <2>1. CASE j < i
    <3>1. j \in 1 .. (i - 1) /\ j <= i - 1
      BY <1>1, <2>1
    <3> QED
      BY <1>3, <2>1, <3>1
  <2>2. CASE j >= i
    <3>1. j - (i - 1) \in 1 .. (n - i) /\ i + (j - (i - 1)) = j + 1
      BY <1>1, <2>2
    <3> QED
      BY <1>1, <1>4, <1>6, <2>2, <3>1
  <2> QED
    BY <1>1, <2>1, <2>2
<1> QED
  BY <1>5, <1>6, <1>7

\* A function on 1 .. n is a sequence.
LEMMA FunctionIsSeq ==
  ASSUME NEW S, NEW n \in Nat, NEW f \in [1 .. n -> S]
  PROVE  f \in Seq(S)
  BY SeqDef

\* Where element j of RemoveAt(s, i) was in s.
OldIndex(i, j) == IF j < i THEN j ELSE j + 1

\* RemoveAt keeps every element but the i-th, once and in order.
LEMMA RemoveAtKeeps ==
  ASSUME NEW S, NEW s \in Seq(S), NEW i \in 1 .. Len(s), NEW t, t = RemoveAt(s, i)
  PROVE  /\ t \in Seq(S) /\ DOMAIN t = 1 .. (Len(s) - 1)
         /\ \A j \in DOMAIN t : /\ OldIndex(i, j) \in (1 .. Len(s)) \ {i}
                                /\ t[j] = s[OldIndex(i, j)]
         /\ \A j, k \in DOMAIN t : j < k <=> OldIndex(i, j) < OldIndex(i, k)
         /\ \A k \in (1 .. Len(s)) \ {i} : \E j \in DOMAIN t : t[j] = s[k]
<1> DEFINE n == Len(s)
<1>1. n \in Nat /\ i \in 1 .. n
  BY LenProperties
<1>2. /\ t \in Seq(S) /\ Len(t) = n - 1
      /\ \A j \in 1 .. (n - 1) : t[j] = IF j < i THEN s[j] ELSE s[j + 1]
  BY RemoveAtFacts
<1>3. DOMAIN t = 1 .. (n - 1)
  BY <1>2, LenProperties
<1> HIDE DEF n
<1>4. \A j \in DOMAIN t : /\ OldIndex(i, j) \in (1 .. n) \ {i}
                          /\ t[j] = s[OldIndex(i, j)]
  BY <1>1, <1>2, <1>3 DEF OldIndex
<1>5. \A j, k \in DOMAIN t : j < k <=> OldIndex(i, j) < OldIndex(i, k)
  BY <1>1, <1>3 DEF OldIndex
<1>6. ASSUME NEW k \in (1 .. n) \ {i} PROVE \E j \in DOMAIN t : t[j] = s[k]
  <2>1. CASE k < i
    <3>1. k \in DOMAIN t /\ t[k] = s[k]
      BY <1>1, <1>2, <1>3, <2>1
    <3> QED
      BY <3>1
  <2>2. CASE k > i
    <3>1. k - 1 \in DOMAIN t /\ t[k - 1] = s[(k - 1) + 1] /\ (k - 1) + 1 = k
      BY <1>1, <1>2, <1>3, <2>2
    <3> QED
      BY <3>1
  <2> QED
    BY <1>1, <2>1, <2>2
<1> QED
  BY <1>2, <1>3, <1>4, <1>5, <1>6 DEF n

\* Append keeps the elements where they are and adds one.
LEMMA AppendKeeps ==
  ASSUME NEW S, NEW s \in Seq(S), NEW e \in S, NEW t, t = Append(s, e)
  PROVE  /\ t \in Seq(S) /\ DOMAIN t = 1 .. (Len(s) + 1) /\ Len(s) \in Nat
         /\ DOMAIN s = 1 .. Len(s)
         /\ \A j \in DOMAIN s : t[j] = s[j]
         /\ t[Len(s) + 1] = e
         /\ t # <<>>
  BY AppendProperties, LenProperties

\* The head of a sequence is its first element.
LEMMA HeadIsFirst ==
  ASSUME NEW S, NEW s \in Seq(S), s # <<>>
  PROVE  1 \in DOMAIN s /\ Head(s) = s[1]
<1>1. Len(s) \in Nat \ {0} /\ DOMAIN s = 1 .. Len(s)
  <2>1. Len(s) # 0
    BY EmptySeq, Zenon
  <2> QED
    BY <2>1, LenProperties
<1> QED
  BY <1>1

\* A sequence without its last element is a sequence.
LEMMA FrontIsSeq ==
  ASSUME NEW S, NEW s \in Seq(S), s # <<>>
  PROVE  Front(s) \in Seq(S)
<1>1. Len(s) \in Nat /\ \A i \in 1 .. (Len(s) - 1) : s[i] \in S
  BY LenProperties, ElementOfSeq
<1> QED
  BY <1>1, SubSeqProperties DEF Front

\* The tail of a list of one message is empty.
LEMMA ShortTail ==
  ASSUME NEW S, NEW s \in Seq(S), s # <<>>, Len(s) <= 1
  PROVE  Head(s) = s[1] /\ Tail(s) = <<>> /\ Head(s) \in S
<1>1. Len(s) = 1
  <2>1. Len(s) \in Nat \ {0}
    BY EmptySeq, Zenon
  <2> QED
    BY <2>1
<1>2. Head(s) \in S /\ Len(Tail(s)) = 0 /\ Tail(s) \in Seq(S)
  BY <1>1, HeadTailProperties
<1>3. Tail(s) = <<>>
  BY <1>2, EmptySeq
<1>4. Head(s) = s[1]
  BY <1>1
<1> QED
  BY <1>2, <1>3, <1>4

\* Appending a number above all others keeps a sequence increasing.
LEMMA AppendAbove ==
  ASSUME NEW s \in Seq(Nat), NEW e \in Nat,
         \A i, j \in DOMAIN s : i < j => s[i] < s[j],
         \A i \in DOMAIN s : s[i] < e
  PROVE  /\ \A i, j \in DOMAIN Append(s, e) : i < j => Append(s, e)[i] < Append(s, e)[j]
         /\ \A i \in DOMAIN Append(s, e) : Append(s, e)[i] <= e
         /\ Range(Append(s, e)) = Range(s) \cup {e}
<1> DEFINE t == Append(s, e)
           n == Len(s)
<1>1. /\ n \in Nat /\ DOMAIN s = 1 .. n /\ DOMAIN t = 1 .. (n + 1)
      /\ \A i \in 1 .. n : t[i] = s[i] /\ s[i] \in Nat
      /\ t[n + 1] = e
  BY AppendProperties, LenProperties
<1> HIDE DEF t, n
<1>2. \A i \in 1 .. (n + 1) : i \in 1 .. n \/ i = n + 1
  BY <1>1
<1>3. \A i, j \in DOMAIN t : i < j => t[i] < t[j]
  BY <1>1, <1>2
<1>4. \A i \in DOMAIN t : t[i] <= e
  BY <1>1, <1>2
<1>5. Range(t) = Range(s) \cup {e}
  BY <1>1, <1>2 DEF Range
<1> QED
  BY <1>3, <1>4, <1>5 DEF t

\* Append adds one element to the range.
LEMMA RangeOfAppend ==
  ASSUME NEW e \in Nat, NEW s \in Seq(Nat)
  PROVE  Range(Append(s, e)) = Range(s) \cup {e}
<1> DEFINE t == Append(s, e)
           n == Len(s)
<1>1. /\ n \in Nat /\ DOMAIN s = 1 .. n /\ DOMAIN t = 1 .. (n + 1)
      /\ \A i \in 1 .. n : t[i] = s[i]
      /\ t[n + 1] = e
  BY AppendProperties, LenProperties
<1> HIDE DEF t, n
<1>2. /\ \A i \in 1 .. (n + 1) : i \in 1 .. n \/ i = n + 1
      /\ 1 .. n \subseteq 1 .. (n + 1) /\ n + 1 \in 1 .. (n + 1)
  BY <1>1
<1>3. Range(t) = Range(s) \cup {e}
  BY <1>1, <1>2 DEF Range
<1> QED
  BY <1>3 DEF t

\* The elements of a sequence are all different.
Distinct(s) == \A i, j \in DOMAIN s : s[i] = s[j] => i = j

\* x is an element of s.
Has(s, x) == \E i \in DOMAIN s : s[i] = x

\* Taking the front of such a sequence leaves the others, once each.
LEMMA TailOfDistinct ==
  ASSUME NEW S, NEW s \in Seq(S), s # <<>>, Distinct(s)
  PROVE  /\ Head(s) \in S /\ Tail(s) \in Seq(S) /\ Distinct(Tail(s))
         /\ Has(s, Head(s))
         /\ \A x : Has(Tail(s), x) <=> Has(s, x) /\ x # Head(s)
<1> DEFINE n == Len(s)
           t == Tail(s)
<1>1. n \in Nat \ {0} /\ DOMAIN s = 1 .. n /\ Head(s) = s[1] /\ Head(s) \in S
  <2>1. n \in Nat \ {0}
    BY EmptySeq, Zenon
  <2> QED
    BY <2>1, LenProperties, HeadTailProperties
<1>2. /\ t \in Seq(S) /\ DOMAIN t = 1 .. (n - 1)
      /\ \A i \in 1 .. (n - 1) : t[i] = s[i + 1]
  BY <1>1, HeadTailProperties, LenProperties
<1> HIDE DEF n, t
<1>3. Distinct(t)
  <2> SUFFICES ASSUME NEW i \in 1 .. (n - 1), NEW j \in 1 .. (n - 1), t[i] = t[j]
               PROVE  i = j
    BY <1>2 DEF Distinct
  <2>1. i + 1 \in DOMAIN s /\ j + 1 \in DOMAIN s /\ s[i + 1] = s[j + 1]
    BY <1>1, <1>2
  <2> QED
    BY <1>1, <2>1 DEF Distinct
<1>4. Has(s, Head(s))
  BY <1>1 DEF Has
<1>5. ASSUME NEW x, Has(t, x) PROVE Has(s, x) /\ x # Head(s)
  <2>1. PICK i \in 1 .. (n - 1) : t[i] = x
    BY <1>2, <1>5 DEF Has
  <2>2. s[i + 1] = x /\ i + 1 \in DOMAIN s /\ i + 1 # 1 /\ 1 \in DOMAIN s
    BY <1>1, <1>2, <2>1
  <2> QED
    BY <1>1, <2>2 DEF Has, Distinct
<1>6. ASSUME NEW x, Has(s, x), x # Head(s) PROVE Has(t, x)
  <2>1. PICK i \in 1 .. n : s[i] = x
    BY <1>1, <1>6 DEF Has
  <2>2. i # 1
    BY <1>1, <1>6, <2>1
  <2>3. i - 1 \in 1 .. (n - 1) /\ (i - 1) + 1 = i
    BY <1>1, <2>2
  <2>4. t[i - 1] = x
    BY <1>2, <2>1, <2>3
  <2> QED
    BY <1>2, <2>3, <2>4 DEF Has
<1> QED
  BY <1>1, <1>2, <1>3, <1>4, <1>5, <1>6 DEF t

\* Appending an element: it and the others are elements, once each if it is new.
LEMMA AppendToDistinct ==
  ASSUME NEW S, NEW s \in Seq(S), NEW e \in S
  PROVE  /\ Append(s, e) \in Seq(S)
         /\ \A x : Has(Append(s, e), x) <=> Has(s, x) \/ x = e
         /\ Distinct(s) /\ ~Has(s, e) => Distinct(Append(s, e))
<1> DEFINE n == Len(s)
           t == Append(s, e)
<1>1. /\ n \in Nat /\ DOMAIN s = 1 .. n /\ t \in Seq(S) /\ DOMAIN t = 1 .. (n + 1)
      /\ \A i \in 1 .. n : t[i] = s[i]
      /\ t[n + 1] = e
  BY AppendProperties, LenProperties
<1> HIDE DEF n, t
<1>2. \A i \in 1 .. (n + 1) : i \in 1 .. n \/ i = n + 1
  BY <1>1
<1>3. 1 .. n \subseteq 1 .. (n + 1) /\ n + 1 \in 1 .. (n + 1)
  BY <1>1
<1>4. \A x : Has(t, x) <=> Has(s, x) \/ x = e
  BY <1>1, <1>2, <1>3, Zenon DEF Has
<1>5. Distinct(s) /\ ~Has(s, e) => Distinct(t)
  BY <1>1, <1>2, Zenon DEF Has, Distinct
<1> QED
  BY <1>1, <1>4, <1>5 DEF t

Increasing(s) == \A i, j \in DOMAIN s : i < j => s[i] < s[j]

\* Everything in S is below everything in T.
Less(S, T) == \A x \in S : \A y \in T : x < y

\* The front of a sequence and the rest.
LEMMA RangeOfTail ==
  ASSUME NEW S, NEW s \in Seq(S), s # <<>>
  PROVE  /\ Tail(s) \in Seq(S) /\ Head(s) \in S /\ Len(Tail(s)) = Len(s) - 1
         /\ Range(s) = {Head(s)} \cup Range(Tail(s))
<1> DEFINE n == Len(s)
           t == Tail(s)
<1>1. n \in Nat \ {0} /\ DOMAIN s = 1 .. n /\ Head(s) = s[1] /\ Head(s) \in S
  <2>1. n \in Nat \ {0}
    BY EmptySeq, Zenon
  <2> QED
    BY <2>1, LenProperties, HeadTailProperties
<1>2. /\ t \in Seq(S) /\ Len(t) = n - 1 /\ DOMAIN t = 1 .. (n - 1)
      /\ \A i \in 1 .. (n - 1) : t[i] = s[i + 1]
  BY <1>1, HeadTailProperties, LenProperties
<1> HIDE DEF n, t
<1>3. ASSUME NEW x \in Range(s) PROVE x \in {Head(s)} \cup Range(t)
  <2>1. PICK i \in 1 .. n : s[i] = x
    BY <1>1, <1>3 DEF Range
  <2>2. CASE i = 1
    BY <1>1, <2>1, <2>2
  <2>3. CASE i # 1
    <3>1. i - 1 \in 1 .. (n - 1) /\ (i - 1) + 1 = i
      BY <1>1, <2>3
    <3>2. t[i - 1] = x
      BY <1>2, <2>1, <3>1
    <3> QED
      BY <1>2, <3>1, <3>2 DEF Range
  <2> QED
    BY <2>2, <2>3
<1>4. ASSUME NEW x \in Range(t) PROVE x \in Range(s)
  <2>1. PICK i \in 1 .. (n - 1) : t[i] = x
    BY <1>2, <1>4 DEF Range
  <2>2. i + 1 \in 1 .. n /\ s[i + 1] = x
    BY <1>1, <1>2, <2>1
  <2> QED
    BY <1>1, <2>2 DEF Range
<1>5. Head(s) \in Range(s)
  BY <1>1 DEF Range
<1> QED
  BY <1>1, <1>2, <1>3, <1>4, <1>5 DEF t, n

\* The front of an increasing sequence is below the rest, which increases.
LEMMA TailOfIncreasing ==
  ASSUME NEW s \in Seq(Nat), s # <<>>, Increasing(s)
  PROVE  Increasing(Tail(s)) /\ Less({Head(s)}, Range(Tail(s)))
<1> DEFINE n == Len(s)
           t == Tail(s)
<1>1. n \in Nat \ {0} /\ DOMAIN s = 1 .. n /\ Head(s) = s[1]
  <2>1. n \in Nat \ {0}
    BY EmptySeq, Zenon
  <2> QED
    BY <2>1, LenProperties, HeadTailProperties
<1>2. /\ t \in Seq(Nat) /\ DOMAIN t = 1 .. (n - 1)
      /\ \A i \in 1 .. (n - 1) : t[i] = s[i + 1] /\ i + 1 \in 1 .. n /\ 1 < i + 1 /\ 1 \in 1 .. n
  BY <1>1, HeadTailProperties, LenProperties
<1> HIDE DEF n, t
<1>3. Increasing(t)
  <2> SUFFICES ASSUME NEW i \in 1 .. (n - 1), NEW j \in 1 .. (n - 1), i < j
               PROVE  t[i] < t[j]
    BY <1>2 DEF Increasing
  <2>1. i + 1 \in DOMAIN s /\ j + 1 \in DOMAIN s /\ i + 1 < j + 1
    BY <1>1, <1>2
  <2> QED
    BY <1>2, <2>1 DEF Increasing
<1>4. Less({Head(s)}, Range(t))
  <2> SUFFICES ASSUME NEW i \in 1 .. (n - 1) PROVE s[1] < t[i]
    BY <1>1, <1>2 DEF Less, Range
  <2> QED
    BY <1>1, <1>2 DEF Increasing
<1> QED
  BY <1>3, <1>4 DEF t

\* A sequence that increases goes on to do so with something larger.
LEMMA AppendToIncreasing ==
  ASSUME NEW s \in Seq(Nat), NEW e \in Nat, Increasing(s), Less(Range(s), {e})
  PROVE  Increasing(Append(s, e))
<1>1. /\ \A i, j \in DOMAIN s : i < j => s[i] < s[j]
      /\ \A i \in DOMAIN s : s[i] < e
  BY DEF Increasing, Less, Range
<1> QED
  BY <1>1, AppendAbove DEF Increasing

\* Two sequences one behind the other.
LEMMA RangeOfConcat ==
  ASSUME NEW S, NEW s \in Seq(S), NEW t \in Seq(S)
  PROVE  s \o t \in Seq(S) /\ Range(s \o t) = Range(s) \cup Range(t)
<1> DEFINE n == Len(s)
           m == Len(t)
           u == s \o t
<1>1. /\ n \in Nat /\ m \in Nat /\ DOMAIN s = 1 .. n /\ DOMAIN t = 1 .. m
      /\ u \in Seq(S) /\ Len(u) = n + m /\ DOMAIN u = 1 .. (n + m)
      /\ \A i \in 1 .. (n + m) : u[i] = IF i <= n THEN s[i] ELSE t[i - n]
  BY LenProperties, ConcatProperties
<1> HIDE DEF n, m, u
<1>2. ASSUME NEW i \in 1 .. n PROVE s[i] \in Range(u)
  <2>1. i \in DOMAIN u /\ u[i] = s[i]
    BY <1>1
  <2> QED
    BY <2>1 DEF Range
<1>3. ASSUME NEW i \in 1 .. m PROVE t[i] \in Range(u)
  <2>1. n + i \in DOMAIN u /\ ~(n + i <= n) /\ (n + i) - n = i
    BY <1>1
  <2>2. u[n + i] = t[i]
    BY <1>1, <2>1
  <2> QED
    BY <2>1, <2>2 DEF Range
<1>4. ASSUME NEW i \in 1 .. (n + m) PROVE u[i] \in Range(s) \cup Range(t)
  <2>1. CASE i <= n
    <3>1. i \in 1 .. n /\ u[i] = s[i]
      BY <1>1, <2>1
    <3> QED
      BY <1>1, <3>1 DEF Range
  <2>2. CASE ~(i <= n)
    <3>1. i - n \in 1 .. m
      BY <1>1, <2>2
    <3> QED
      BY <1>1, <2>2, <3>1 DEF Range
  <2> QED
    BY <2>1, <2>2
<1>5. Range(u) = Range(s) \cup Range(t)
  BY <1>1, <1>2, <1>3, <1>4 DEF Range
<1> QED
  BY <1>1, <1>5 DEF u

\* They increase if each does and the first is below the second.
LEMMA ConcatIncreasing ==
  ASSUME NEW s \in Seq(Nat), NEW t \in Seq(Nat), Increasing(s), Increasing(t),
         Less(Range(s), Range(t))
  PROVE  Increasing(s \o t)
<1> DEFINE n == Len(s)
           m == Len(t)
           u == s \o t
<1>1. /\ n \in Nat /\ m \in Nat /\ DOMAIN s = 1 .. n /\ DOMAIN t = 1 .. m
      /\ u \in Seq(Nat) /\ Len(u) = n + m /\ DOMAIN u = 1 .. (n + m)
      /\ \A i \in 1 .. (n + m) : u[i] = IF i <= n THEN s[i] ELSE t[i - n]
  BY LenProperties, ConcatProperties
<1> HIDE DEF n, m, u
<1>2. ASSUME NEW i \in 1 .. (n + m), NEW j \in 1 .. (n + m), i < j PROVE u[i] < u[j]
  <2>1. CASE j <= n
    <3>1. i \in DOMAIN s /\ j \in DOMAIN s /\ u[i] = s[i] /\ u[j] = s[j]
      BY <1>1, <1>2, <2>1
    <3> QED
      BY <1>2, <3>1 DEF Increasing
  <2>2. CASE i <= n /\ ~(j <= n)
    <3>1. i \in 1 .. n /\ j - n \in 1 .. m
      BY <1>1, <2>2
    <3>2. u[i] \in Range(s) /\ u[j] \in Range(t)
      BY <1>1, <2>2, <3>1 DEF Range
    <3> QED
      BY <3>2 DEF Less
  <2>3. CASE ~(i <= n)
    <3>1. i - n \in 1 .. m /\ j - n \in 1 .. m /\ i - n < j - n /\ ~(j <= n)
      BY <1>1, <1>2, <2>3
    <3> QED
      BY <1>1, <2>3, <3>1 DEF Increasing
  <2> QED
    BY <1>2, <2>1, <2>2, <2>3
<1>3. Increasing(u)
  BY <1>1, <1>2 DEF Increasing
<1> QED
  BY <1>3 DEF u

-----------------------------------------------------------------------------
(* Induction over the numbers, for what the recursion of Only yields.       *)

Below == {ss \in Nat \X Nat : ss[1] < ss[2]}

\* A set of numbers has a least one.
LEMMA LeastNat ==
  ASSUME NEW T, T \subseteq Nat, T # {}
  PROVE  \E n \in T : \A m \in T : n <= m
<1>1. IsWellFoundedOn(Below, Nat)
  BY NatLessThanWellFounded DEF OpToRel, Below
<1>2. PICK n \in T : \A m \in T : <<m, n>> \notin Below
  BY <1>1, WFMin
<1>3. \A m \in T : ~(m < n)
  BY <1>2 DEF Below
<1> QED
  BY <1>3

\* So what holds of 0 and goes from each number to the next holds of all up to N.
LEMMA UpTo ==
  ASSUME NEW N \in Nat, NEW T, 0 \in T,
         \A n \in 0 .. (N - 1) : n \in T => n + 1 \in T
  PROVE  0 .. N \subseteq T
<1> SUFFICES ASSUME (0 .. N) \ T # {} PROVE FALSE
  OBVIOUS
<1>1. PICK n \in (0 .. N) \ T : \A m \in (0 .. N) \ T : n <= m
  <2>1. (0 .. N) \ T \subseteq Nat
    OBVIOUS
  <2> QED
    BY <2>1, LeastNat
<1>2. n # 0 /\ n - 1 \in 0 .. (N - 1) /\ n - 1 \in 0 .. N /\ (n - 1) + 1 = n /\ ~(n <= n - 1)
  BY <1>1
<1> QED
  BY <1>1, <1>2

\* What the recursion of Only says of its function.
IsKept(f, s, T, m) ==
  /\ DOMAIN f = 0 .. m
  /\ \A n \in 0 .. m : f[n] = IF n = 0 THEN <<>>
                              ELSE IF s[n] \in T THEN Append(f[n - 1], s[n]) ELSE f[n - 1]

\* There is such a function.
LEMMA KeptExists ==
  ASSUME NEW S, NEW s \in Seq(S), NEW T
  PROVE  \E f : f = [n \in 0 .. Len(s) |->
                       IF n = 0 THEN <<>>
                       ELSE IF s[n] \in T THEN Append(f[n - 1], s[n]) ELSE f[n - 1]]
<1> DEFINE N == Len(s)
           E == {m \in Nat : \E f : IsKept(f, s, T, m)}
<1>1. N \in Nat
  BY LenProperties
<1> HIDE DEF N
<1>2. 0 \in E
  <2>1. IsKept([n \in 0 .. 0 |-> <<>>], s, T, 0)
    BY DEF IsKept
  <2> QED
    BY <2>1
<1>3. ASSUME NEW m \in 0 .. (N - 1), m \in E PROVE m + 1 \in E
  <2>1. m \in Nat /\ m + 1 \in Nat
    BY <1>1
  <2>2. PICK f : IsKept(f, s, T, m)
    BY <1>3
  <2>3. PICK x : x = IF s[m + 1] \in T THEN Append(f[m], s[m + 1]) ELSE f[m]
    OBVIOUS
  <2>4. PICK g : g = [n \in 0 .. (m + 1) |-> IF n <= m THEN f[n] ELSE x]
    OBVIOUS
  <2>5. DOMAIN g = 0 .. (m + 1) /\ g[m + 1] = x /\ g[m] = f[m]
        /\ \A n \in 0 .. m : g[n] = f[n] /\ n \in 0 .. (m + 1) /\ (n # 0 => g[n - 1] = f[n - 1])
    BY <2>1, <2>4
  <2>6. \A n \in 0 .. (m + 1) : n \in 0 .. m \/ n = m + 1
    BY <2>1
  <2>7. ASSUME NEW n \in 0 .. (m + 1)
        PROVE  g[n] = IF n = 0 THEN <<>>
                      ELSE IF s[n] \in T THEN Append(g[n - 1], s[n]) ELSE g[n - 1]
    <3>1. CASE n \in 0 .. m
      BY <2>2, <2>5, <3>1 DEF IsKept
    <3>2. CASE n = m + 1
      <4>1. n # 0 /\ n - 1 = m
        BY <2>1, <3>2
      <4> QED
        BY <2>3, <2>5, <3>2, <4>1
    <3> QED
      BY <2>6, <3>1, <3>2
  <2>8. IsKept(g, s, T, m + 1)
    BY <2>5, <2>7 DEF IsKept
  <2> QED
    BY <2>1, <2>8
<1>4. 0 .. N \subseteq E
  BY <1>1, <1>2, <1>3, UpTo
<1>5. PICK f : IsKept(f, s, T, N)
  BY <1>1, <1>4
<1>6. PICK g : g = [n \in 0 .. N |-> f[n]]
  OBVIOUS
<1>7. \A n \in 0 .. N : g[n] = f[n] /\ (n # 0 => g[n - 1] = f[n - 1])
  BY <1>1, <1>6
<1>8. \A n \in 0 .. N : f[n] = IF n = 0 THEN <<>>
                       ELSE IF s[n] \in T THEN Append(g[n - 1], s[n]) ELSE g[n - 1]
  BY <1>5, <1>7 DEF IsKept
<1>9. g = [n \in 0 .. N |->
                       IF n = 0 THEN <<>>
                       ELSE IF s[n] \in T THEN Append(g[n - 1], s[n]) ELSE g[n - 1]]
  BY <1>6, <1>8
<1> QED
  BY <1>9 DEF N

\* Where the elements of t are among the first n of s: in order, and all that are in T.
Places(g, t, s, T, n) ==
  /\ g \in [1 .. Len(t) -> 1 .. n]
  /\ \A j, k \in 1 .. Len(t) : j < k => g[j] < g[k]
  /\ \A k \in 1 .. Len(t) : t[k] = s[g[k]] /\ t[k] \in T
  /\ \A i \in 1 .. n : s[i] \in T => \E k \in 1 .. Len(t) : g[k] = i

\* One step of the recursion: an element that is not kept,
LEMMA PlacesSkip ==
  ASSUME NEW S, NEW s \in Seq(S), NEW T, NEW n \in Nat, n < Len(s), NEW t \in Seq(S), NEW g,
         Places(g, t, s, T, n), s[n + 1] \notin T
  PROVE  Places(g, t, s, T, n + 1)
<1>1. 1 .. n \subseteq 1 .. (n + 1) /\ \A i \in 1 .. (n + 1) : i \in 1 .. n \/ i = n + 1
  OBVIOUS
<1>2. Len(t) \in Nat
  BY LenProperties
<1> QED
  BY <1>1, <1>2 DEF Places

\* and one that is.
LEMMA PlacesAdd ==
  ASSUME NEW S, NEW s \in Seq(S), NEW T, NEW n \in Nat, n < Len(s), NEW t \in Seq(S), NEW g,
         Places(g, t, s, T, n), s[n + 1] \in T
  PROVE  \E h : Places(h, Append(t, s[n + 1]), s, T, n + 1)
<1>1. PICK l : l = Len(t)
  OBVIOUS
<1>2. PICK u : u = Append(t, s[n + 1])
  OBVIOUS
<1>3. Len(s) \in Nat /\ n + 1 \in 1 .. Len(s) /\ s[n + 1] \in S
  <2>1. Len(s) \in Nat /\ n + 1 \in 1 .. Len(s)
    BY LenProperties
  <2> QED
    BY <2>1, ElementOfSeq
<1>4. /\ l \in Nat /\ Len(u) = l + 1 /\ u[l + 1] = s[n + 1]
      /\ \A k \in 1 .. l : u[k] = t[k]
  BY <1>1, <1>2, <1>3, LenProperties, AppendProperties
<1>5. PICK h : h = [k \in 1 .. (l + 1) |-> IF k <= l THEN g[k] ELSE n + 1]
  OBVIOUS
<1>6. /\ 1 .. n \subseteq 1 .. (n + 1) /\ n + 1 \in 1 .. (n + 1)
      /\ \A i \in 1 .. (n + 1) : i \in 1 .. n \/ i = n + 1
      /\ 1 .. l \subseteq 1 .. (l + 1) /\ l + 1 \in 1 .. (l + 1)
      /\ \A k \in 1 .. (l + 1) : k \in 1 .. l \/ k = l + 1
      /\ \A k \in 1 .. l : k <= l
      /\ ~(l + 1 <= l)
  BY <1>4
<1>7. /\ \A k \in 1 .. l : h[k] = g[k] /\ g[k] \in 1 .. n
      /\ h[l + 1] = n + 1
  BY <1>1, <1>5, <1>6 DEF Places
<1>8. h \in [1 .. (l + 1) -> 1 .. (n + 1)]
  <2>1. DOMAIN h = 1 .. (l + 1) /\ h = [k \in DOMAIN h |-> h[k]]
    BY <1>5
  <2>2. \A k \in 1 .. (l + 1) : h[k] \in 1 .. (n + 1)
    BY <1>6, <1>7
  <2> QED
    BY <2>1, <2>2
<1>9. ASSUME NEW j \in 1 .. (l + 1), NEW k \in 1 .. (l + 1), j < k PROVE h[j] < h[k]
  <2>1. j \in 1 .. l
    BY <1>4, <1>9
  <2>2. CASE k \in 1 .. l
    BY <1>1, <1>7, <1>9, <2>1, <2>2 DEF Places
  <2>3. CASE k = l + 1
    <3>1. h[j] \in 1 .. n /\ h[k] = n + 1
      BY <1>7, <2>1, <2>3
    <3> QED
      BY <3>1
  <2> QED
    BY <1>6, <2>2, <2>3
<1>10. ASSUME NEW k \in 1 .. (l + 1) PROVE u[k] = s[h[k]] /\ u[k] \in T
  BY <1>1, <1>4, <1>6, <1>7 DEF Places
<1>11. ASSUME NEW i \in 1 .. (n + 1), s[i] \in T PROVE \E k \in 1 .. (l + 1) : h[k] = i
  <2>1. CASE i \in 1 .. n
    BY <1>1, <1>6, <1>7, <1>11, <2>1 DEF Places
  <2>2. CASE i = n + 1
    BY <1>6, <1>7, <2>2
  <2> QED
    BY <1>6, <2>1, <2>2
<1>12. Places(h, u, s, T, n + 1)
  BY <1>4, <1>8, <1>9, <1>10, <1>11 DEF Places
<1> QED
  BY <1>2, <1>12

\* Only keeps the elements of T, in their order.
LEMMA OnlyPlaces ==
  ASSUME NEW S, NEW s \in Seq(S), NEW T
  PROVE  /\ Only(s, T) \in Seq(S)
         /\ \E g : Places(g, Only(s, T), s, T, Len(s))
<1>0. \E f : f = [n \in 0 .. Len(s) |->
                       IF n = 0 THEN <<>>
                       ELSE IF s[n] \in T THEN Append(f[n - 1], s[n]) ELSE f[n - 1]]
  BY KeptExists
<1> DEFINE f == CHOOSE f : f = [n \in 0 .. Len(s) |->
                       IF n = 0 THEN <<>>
                       ELSE IF s[n] \in T THEN Append(f[n - 1], s[n]) ELSE f[n - 1]]
<1>1. f = [n \in 0 .. Len(s) |->
                       IF n = 0 THEN <<>>
                       ELSE IF s[n] \in T THEN Append(f[n - 1], s[n]) ELSE f[n - 1]]
  BY <1>0, Zenon
<1>2. Only(s, T) = f[Len(s)]
  BY Zenon DEF Only
<1> HIDE DEF f
<1>3. PICK N : N = Len(s)
  OBVIOUS
<1>4. N \in Nat /\ \A i \in 1 .. N : s[i] \in S
  BY <1>3, LenProperties, ElementOfSeq
<1> DEFINE P == {n \in Nat : f[n] \in Seq(S) /\ \E g : Places(g, f[n], s, T, n)}
<1>5. 0 \in P
  <2>1. f[0] = <<>>
    BY <1>1, <1>3, <1>4
  <2>2. <<>> \in Seq(S) /\ Len(<<>>) = 0 /\ 1 .. 0 = {}
    BY EmptySeq
  <2>3. [k \in 1 .. 0 |-> 0] \in [1 .. 0 -> 1 .. 0]
    BY <2>2
  <2>4. Places([k \in 1 .. 0 |-> 0], <<>>, s, T, 0)
    BY <2>2, <2>3 DEF Places
  <2> QED
    BY <2>1, <2>2, <2>4
<1>6. ASSUME NEW n \in 0 .. (N - 1), n \in P PROVE n + 1 \in P
  <2>1. n \in Nat /\ n < Len(s) /\ n + 1 \in Nat /\ n + 1 \in 0 .. N /\ n + 1 # 0 /\ (n + 1) - 1 = n
        /\ n + 1 \in 1 .. N
    BY <1>3, <1>4
  <2>2. f[n + 1] = IF s[n + 1] \in T THEN Append(f[n], s[n + 1]) ELSE f[n]
    BY <1>1, <1>3, <2>1
  <2>3. f[n] \in Seq(S) /\ s[n + 1] \in S
    BY <1>4, <1>6, <2>1
  <2>4. PICK g : Places(g, f[n], s, T, n)
    BY <1>6
  <2>5. PICK t \in Seq(S) : t = f[n]
    BY <2>3
  <2>6. CASE s[n + 1] \in T
    <3>1. \E h : Places(h, Append(t, s[n + 1]), s, T, n + 1)
      BY <2>1, <2>4, <2>5, <2>6, PlacesAdd
    <3>2. Append(t, s[n + 1]) \in Seq(S)
      BY <2>3, <2>5, AppendProperties
    <3> QED
      BY <2>1, <2>2, <2>5, <2>6, <3>1, <3>2
  <2>7. CASE s[n + 1] \notin T
    <3>1. Places(g, t, s, T, n + 1)
      BY <2>1, <2>4, <2>5, <2>7, PlacesSkip
    <3> QED
      BY <2>1, <2>2, <2>5, <2>7, <3>1
  <2> QED
    BY <2>6, <2>7
<1> HIDE DEF P
<1>7. N \in P
  <2>1. 0 .. N \subseteq P
    BY <1>4, <1>5, <1>6, UpTo
  <2> QED
    BY <1>4, <2>1
<1> QED
  BY <1>2, <1>3, <1>7 DEF P

\* So its elements are those of s in T, each once if it is once in s, and the first
\* of s stays the first.
LEMMA OnlyFacts ==
  ASSUME NEW S, NEW s \in Seq(S), NEW T
  PROVE  /\ Only(s, T) \in Seq(S)
         /\ \A x : Has(Only(s, T), x) <=> Has(s, x) /\ x \in T
         /\ Distinct(s) => Distinct(Only(s, T))
         /\ s # <<>> /\ s[1] \in T => Only(s, T) # <<>> /\ Only(s, T)[1] = s[1]
<1>1. PICK t \in Seq(S) : t = Only(s, T)
  BY OnlyPlaces
<1>2. PICK N : N = Len(s)
  OBVIOUS
<1>3. PICK l : l = Len(t)
  OBVIOUS
<1>4. N \in Nat /\ l \in Nat /\ DOMAIN s = 1 .. N /\ DOMAIN t = 1 .. l
  BY <1>2, <1>3, LenProperties
<1>5. PICK g : Places(g, t, s, T, N)
  BY <1>1, <1>2, OnlyPlaces
<1>6. /\ \A k \in 1 .. l : g[k] \in 1 .. N /\ t[k] = s[g[k]] /\ t[k] \in T
      /\ \A j, k \in 1 .. l : j < k => g[j] < g[k]
      /\ \A i \in 1 .. N : s[i] \in T => \E k \in 1 .. l : g[k] = i
  BY <1>3, <1>5 DEF Places
<1>7. ASSUME NEW x PROVE Has(t, x) <=> Has(s, x) /\ x \in T
  <2>1. ASSUME Has(t, x) PROVE Has(s, x) /\ x \in T
    <3>1. PICK k \in 1 .. l : t[k] = x
      BY <1>4, <2>1 DEF Has
    <3> QED
      BY <1>4, <1>6, <3>1 DEF Has
  <2>2. ASSUME Has(s, x), x \in T PROVE Has(t, x)
    <3>1. PICK i \in 1 .. N : s[i] = x
      BY <1>4, <2>2 DEF Has
    <3>2. PICK k \in 1 .. l : g[k] = i
      BY <1>6, <2>2, <3>1
    <3> QED
      BY <1>4, <1>6, <3>1, <3>2 DEF Has
  <2> QED
    BY <2>1, <2>2
<1>8. ASSUME Distinct(s), NEW j \in 1 .. l, NEW k \in 1 .. l, t[j] = t[k] PROVE j = k
  <2>1. g[j] = g[k]
    BY <1>4, <1>6, <1>8 DEF Distinct
  <2>2. g[j] \in 1 .. N /\ ~(j < k) /\ ~(k < j)
    BY <1>4, <1>6, <2>1
  <2> QED
    BY <1>4, <2>2
<1>9. ASSUME s # <<>>, s[1] \in T PROVE t # <<>> /\ t[1] = s[1]
  <2>1. N # 0
    BY <1>2, <1>9, EmptySeq, Zenon
  <2>2. 1 \in 1 .. N
    BY <1>4, <2>1
  <2>3. PICK k \in 1 .. l : g[k] = 1
    BY <1>6, <1>9, <2>2
  <2>4. 1 \in 1 .. l /\ (k = 1 \/ 1 < k)
    BY <1>4, <2>3
  <2>5. g[1] = 1
    <3>1. g[1] \in 1 .. N /\ (1 < k => g[1] < g[k])
      BY <1>6, <2>3, <2>4
    <3> QED
      BY <1>4, <2>3, <2>4, <3>1
  <2>6. t[1] = s[1]
    BY <1>6, <2>4, <2>5
  <2>7. t # <<>>
    BY <1>3, <2>4, EmptySeq
  <2> QED
    BY <2>6, <2>7
<1>10. Distinct(s) => Distinct(t)
  BY <1>4, <1>8 DEF Distinct
<1> QED
  BY <1>1, <1>7, <1>9, <1>10

\* The elements of a sequence as a set.
LEMMA RangeHas ==
  ASSUME NEW s, NEW x
  PROVE  x \in Range(s) <=> Has(s, x)
BY DEF Range, Has

Rotated(s, n) == SubSeq(s, n + 1, Len(s)) \o SubSeq(s, 1, n)

\* Moving the first n elements to the end keeps the elements, once each.
LEMMA RotateKeeps ==
  ASSUME NEW S, NEW s \in Seq(S), NEW n \in 0 .. Len(s), Distinct(s)
  PROVE  /\ Rotated(s, n) \in Seq(S) /\ Distinct(Rotated(s, n))
         /\ \A x : Has(Rotated(s, n), x) => Has(s, x)
<1>0. PICK t : t = Rotated(s, n)
  OBVIOUS
<1>1. PICK l : l = Len(s)
  OBVIOUS
<1>2. l \in Nat /\ n \in Nat /\ n <= l /\ DOMAIN s = 1 .. l /\ \A j \in 1 .. l : s[j] \in S
  BY <1>1, LenProperties, ElementOfSeq
<1>3. PICK p : p = SubSeq(s, n + 1, l)
  OBVIOUS
<1>4. PICK q : q = SubSeq(s, 1, n)
  OBVIOUS
<1>5. /\ p \in Seq(S) /\ Len(p) = l - n
      /\ \A j \in 1 .. (l - n) : p[j] = s[n + j]
  <2>1. \A j \in (n + 1) .. l : s[j] \in S
    BY <1>2
  <2>2. /\ p \in Seq(S) /\ Len(p) = IF n + 1 <= l THEN l - (n + 1) + 1 ELSE 0
        /\ \A j \in 1 .. (l - (n + 1) + 1) : p[j] = s[n + 1 + j - 1]
    BY <1>2, <1>3, <2>1, SubSeqProperties
  <2> QED
    BY <1>2, <2>2
<1>6. /\ q \in Seq(S) /\ Len(q) = n
      /\ \A j \in 1 .. n : q[j] = s[j]
  <2>1. \A j \in 1 .. n : s[j] \in S
    BY <1>2
  <2>2. /\ q \in Seq(S) /\ Len(q) = IF 1 <= n THEN n - 1 + 1 ELSE 0
        /\ \A j \in 1 .. (n - 1 + 1) : q[j] = s[1 + j - 1]
    BY <1>2, <1>4, <2>1, SubSeqProperties
  <2> QED
    BY <1>2, <2>2
<1>7. /\ t \in Seq(S) /\ Len(t) = l
      /\ \A j \in 1 .. l : t[j] = IF j <= l - n THEN p[j] ELSE q[j - (l - n)]
  <2>1. /\ t \in Seq(S) /\ Len(t) = Len(p) + Len(q)
        /\ \A j \in 1 .. (Len(p) + Len(q)) : t[j] = IF j <= Len(p) THEN p[j] ELSE q[j - Len(p)]
    <3>1. t = p \o q
      BY <1>0, <1>1, <1>3, <1>4 DEF Rotated
    <3>2. p \in Seq(S) /\ q \in Seq(S)
      BY <1>5, <1>6
    <3>3. /\ p \o q \in Seq(S) /\ Len(p \o q) = Len(p) + Len(q)
          /\ \A j \in 1 .. (Len(p) + Len(q)) :
               (p \o q)[j] = IF j <= Len(p) THEN p[j] ELSE q[j - Len(p)]
      BY <3>2, ConcatProperties
    <3> QED
      BY <3>1, <3>3
  <2>2. Len(p) + Len(q) = l /\ Len(p) = l - n
    BY <1>2, <1>5, <1>6
  <2> QED
    BY <2>1, <2>2
<1>8. DOMAIN t = 1 .. l
  BY <1>7, LenProperties
<1>9. PICK old : old = [j \in 1 .. l |-> IF j <= l - n THEN n + j ELSE j - (l - n)]
  OBVIOUS
<1>10. ASSUME NEW j \in 1 .. l PROVE old[j] \in 1 .. l /\ t[j] = s[old[j]]
  <2>1. CASE j <= l - n
    <3>1. j \in 1 .. (l - n) /\ n + j \in 1 .. l /\ old[j] = n + j
      BY <1>2, <1>9, <2>1
    <3> QED
      BY <1>5, <1>7, <2>1, <3>1
  <2>2. CASE ~(j <= l - n)
    <3>1. j - (l - n) \in 1 .. n /\ j - (l - n) \in 1 .. l /\ old[j] = j - (l - n)
      BY <1>2, <1>9, <2>2
    <3> QED
      BY <1>6, <1>7, <2>2, <3>1
  <2> QED
    BY <2>1, <2>2
<1>11. ASSUME NEW i \in 1 .. l, NEW j \in 1 .. l, old[i] = old[j] PROVE i = j
  <2>1. ASSUME NEW k \in 1 .. l
        PROVE  old[k] = IF k <= l - n THEN n + k ELSE k - (l - n)
    BY <1>9
  <2>2. old[i] = IF i <= l - n THEN n + i ELSE i - (l - n)
    BY <2>1
  <2>3. old[j] = IF j <= l - n THEN n + j ELSE j - (l - n)
    BY <2>1
  <2>4. l \in Nat /\ n \in Nat /\ n <= l /\ i \in Int /\ j \in Int /\ 1 <= i /\ i <= l /\ 1 <= j /\ j <= l
    BY <1>2
  <2>5. (IF i <= l - n THEN n + i ELSE i - (l - n)) = (IF j <= l - n THEN n + j ELSE j - (l - n))
    BY <1>11, <2>2, <2>3
  <2> QED
    BY <2>4, <2>5
<1>12. Distinct(t)
  <2> SUFFICES ASSUME NEW i \in 1 .. l, NEW j \in 1 .. l, t[i] = t[j] PROVE i = j
    BY <1>8 DEF Distinct
  <2>1. old[i] \in DOMAIN s /\ old[j] \in DOMAIN s /\ s[old[i]] = s[old[j]]
    BY <1>2, <1>10
  <2>2. old[i] = old[j]
    BY <2>1 DEF Distinct
  <2> QED
    BY <1>11, <2>2
<1>13. ASSUME NEW x, Has(t, x) PROVE Has(s, x)
  <2>1. PICK j \in 1 .. l : t[j] = x
    BY <1>8, <1>13 DEF Has
  <2> QED
    BY <1>2, <1>10, <2>1 DEF Has
<1> QED
  BY <1>0, <1>7, <1>12, <1>13

\* w is the m elements of p and the e elements of q behind them.
Parts(w, p, q, m, e) ==
  /\ m \in Nat /\ e \in Nat
  /\ Len(w) = m + e /\ DOMAIN w = 1 .. (m + e) /\ DOMAIN p = 1 .. m
  /\ \A i \in 1 .. m : w[i] = p[i] /\ i \in DOMAIN w
  /\ \A i \in 1 .. e : w[m + i] = q[i] /\ m + i \in DOMAIN w
  /\ DOMAIN q = 1 .. e

\* Two sequences, one behind the other.
LEMMA PartsAre ==
  ASSUME NEW S, NEW p \in Seq(S), NEW q \in Seq(S)
  PROVE  p \o q \in Seq(S) /\ Parts(p \o q, p, q, Len(p), Len(q))
<1>1. /\ p \o q \in Seq(S) /\ Len(p \o q) = Len(p) + Len(q)
      /\ \A i \in 1 .. Len(p) + Len(q) : (p \o q)[i] = IF i <= Len(p) THEN p[i] ELSE q[i - Len(p)]
  BY ConcatProperties
<1>2. /\ Len(p) \in Nat /\ Len(q) \in Nat
      /\ DOMAIN p = 1 .. Len(p) /\ DOMAIN q = 1 .. Len(q)
      /\ DOMAIN (p \o q) = 1 .. (Len(p) + Len(q))
  BY <1>1, LenProperties
<1>3. ASSUME NEW i \in 1 .. Len(p) PROVE (p \o q)[i] = p[i] /\ i \in DOMAIN (p \o q)
  <2>1. i \in 1 .. Len(p) + Len(q) /\ i <= Len(p)
    BY <1>2
  <2> QED
    BY <1>1, <1>2, <2>1, Zenon
<1>4. ASSUME NEW i \in 1 .. Len(q)
      PROVE  (p \o q)[Len(p) + i] = q[i] /\ Len(p) + i \in DOMAIN (p \o q)
  <2>1. /\ Len(p) + i \in 1 .. Len(p) + Len(q) /\ ~(Len(p) + i <= Len(p))
        /\ Len(p) + i - Len(p) = i
    BY <1>2
  <2>2. PICK j : j = Len(p) + i
    OBVIOUS
  <2>3. j \in 1 .. Len(p) + Len(q) /\ ~(j <= Len(p)) /\ j - Len(p) = i
    BY <2>1, <2>2
  <2>4. (p \o q)[j] = q[j - Len(p)]
    BY <1>1, <2>3
  <2> QED
    BY <1>2, <2>2, <2>3, <2>4
<1> QED
  BY <1>1, <1>2, <1>3, <1>4 DEF Parts

\* s is its first n elements h, and the others, t.
CutAt(s, n, h, t) ==
  /\ h = SubSeq(s, 1, n) /\ t = SubSeq(s, n + 1, Len(s)) /\ s = h \o t
  /\ Len(h) = n /\ Len(t) = Len(s) - n

\* A sequence can be cut anywhere.
LEMMA CutFacts ==
  ASSUME NEW S, NEW s \in Seq(S), NEW n \in 0 .. Len(s)
  PROVE  \E h, t \in Seq(S) : CutAt(s, n, h, t)
<1>1. PICK l \in Nat : l = Len(s)
  OBVIOUS
<1>2. \A i \in 1 .. l : s[i] \in S
  BY <1>1, ElementOfSeq
<1>3. PICK h : h = SubSeq(s, 1, n)
  OBVIOUS
<1>4. PICK t : t = SubSeq(s, n + 1, l)
  OBVIOUS
<1>5. h \in Seq(S) /\ Len(h) = n
  <2>1. \A j \in 1 .. n : s[j] \in S
    BY <1>1, <1>2
  <2>2. h \in Seq(S) /\ Len(h) = IF 1 <= n THEN n - 1 + 1 ELSE 0
    BY <1>1, <1>3, <2>1, SubSeqProperties
  <2> QED
    BY <1>1, <2>2
<1>6. t \in Seq(S) /\ Len(t) = l - n
  <2>1. \A j \in (n + 1) .. l : s[j] \in S
    BY <1>1, <1>2
  <2>2. t \in Seq(S) /\ Len(t) = IF n + 1 <= l THEN l - (n + 1) + 1 ELSE 0
    BY <1>1, <1>4, <2>1, SubSeqProperties
  <2> QED
    BY <1>1, <2>2
<1>7. s = h \o t
  <2>1. 1 \in 1 .. Len(s) + 1 /\ n \in 1 - 1 .. Len(s) /\ Len(s) \in n .. Len(s)
    BY <1>1
  <2>2. SubSeq(s, 1, n) \o SubSeq(s, n + 1, Len(s)) = SubSeq(s, 1, Len(s))
    BY <2>1, ConcatAdjacentSubSeq
  <2> QED
    BY <1>1, <1>3, <1>4, <2>2, SubSeqFull
<1> QED
  BY <1>1, <1>3, <1>4, <1>5, <1>6, <1>7 DEF CutAt

\* The first element of a sequence goes to the end of one before it.
LEMMA HeadGoesOver ==
  ASSUME NEW T, NEW r \in Seq(T), NEW f \in Seq(T), f # <<>>
  PROVE  /\ Append(r, Head(f)) \in Seq(T) /\ Tail(f) \in Seq(T)
         /\ Append(r, Head(f)) \o Tail(f) = r \o f
<1>1. PICK x \in T, t \in Seq(T) : x = Head(f) /\ t = Tail(f)
  BY HeadTailProperties
<1>2. PICK m \in Nat, l \in Nat : m = Len(r) /\ l = Len(t)
  BY LenProperties
<1>3. Len(f) = l + 1 /\ \A i \in 1 .. l : t[i] = f[i + 1]
  <2>1. Len(t) = Len(f) - 1 /\ Len(f) \in Nat
    BY <1>1, HeadTailProperties, LenProperties
  <2>2. \A i \in 1 .. Len(t) : t[i] = f[i + 1]
    BY <1>1, HeadTailProperties
  <2> QED
    BY <1>2, <2>1, <2>2
<1>4. f[1] = x
  BY <1>1
<1>5. PICK a \in Seq(T) : a = Append(r, x)
  BY AppendProperties
<1>6. Len(a) = m + 1 /\ a[m + 1] = x /\ \A i \in 1 .. m : a[i] = r[i]
  BY <1>2, <1>5, AppendProperties
<1>7. /\ a \o t \in Seq(T) /\ Len(a \o t) = m + 1 + l
      /\ \A i \in 1 .. m + 1 + l : (a \o t)[i] = IF i <= m + 1 THEN a[i] ELSE t[i - (m + 1)]
  <2>1. a \o t \in Seq(T) /\ Len(a \o t) = Len(a) + Len(t)
    BY ConcatProperties
  <2>2. \A i \in 1 .. Len(a) + Len(t) : (a \o t)[i] = IF i <= Len(a) THEN a[i] ELSE t[i - Len(a)]
    BY ConcatProperties
  <2> QED
    BY <1>2, <1>6, <2>1, <2>2, Zenon
<1>8. /\ r \o f \in Seq(T) /\ Len(r \o f) = m + (l + 1)
      /\ \A i \in 1 .. m + (l + 1) : (r \o f)[i] = IF i <= m THEN r[i] ELSE f[i - m]
  <2>1. r \o f \in Seq(T) /\ Len(r \o f) = Len(r) + Len(f)
    BY ConcatProperties
  <2>2. \A i \in 1 .. Len(r) + Len(f) : (r \o f)[i] = IF i <= Len(r) THEN r[i] ELSE f[i - Len(r)]
    BY ConcatProperties
  <2> QED
    BY <1>2, <1>3, <2>1, <2>2, Zenon
<1>9. ASSUME NEW i \in 1 .. m + 1 + l PROVE (a \o t)[i] = (r \o f)[i]
  <2>0. i \in 1 .. m + (l + 1)
    OBVIOUS
  <2>1. CASE i <= m
    <3>1. i <= m + 1 /\ i \in 1 .. m
      BY <2>1
    <3> QED
      BY <1>6, <1>7, <1>8, <2>0, <2>1, <3>1
  <2>2. CASE i = m + 1
    <3>1. ~(i <= m) /\ i <= m + 1 /\ i - m = 1
      BY <2>2
    <3> QED
      BY <1>4, <1>6, <1>7, <1>8, <2>0, <2>2, <3>1
  <2>3. CASE i > m + 1
    <3>1. PICK j \in 1 .. l : j = i - (m + 1) /\ j + 1 = i - m
      BY <2>3
    <3>2. ~(i <= m) /\ ~(i <= m + 1)
      BY <2>3
    <3>3. (a \o t)[i] = t[j]
      BY <1>7, <3>1, <3>2
    <3>4. (r \o f)[i] = f[j + 1]
      BY <1>8, <2>0, <3>1, <3>2
    <3> QED
      BY <1>3, <3>3, <3>4
  <2>4. i <= m \/ i = m + 1 \/ i > m + 1
    OBVIOUS
  <2> QED
    BY <2>1, <2>2, <2>3, <2>4, Zenon
<1>10. a \o t = r \o f
  <2>1. Len(a \o t) = Len(r \o f)
    BY <1>7, <1>8
  <2> QED
    BY <1>7, <1>8, <1>9, <2>1, SeqEqual
<1> QED
  BY <1>1, <1>5, <1>10

SameUpTo(s, t, l) == \A i \in 1 .. l : s[i] = t[i]

\* Two such functions agree as far as the sequences do.
LEMMA KeptAgree ==
  ASSUME NEW f, NEW g, NEW s, NEW t, NEW T, NEW l \in Nat, NEW n \in Nat, l <= n,
         IsKept(f, s, T, l), IsKept(g, t, T, n), SameUpTo(s, t, l)
  PROVE  f[l] = g[l]
<1> DEFINE E == {k \in Nat : f[k] = g[k]}
<1>1. 0 \in E
  BY DEF IsKept
<1>2. ASSUME NEW k \in 0 .. (l - 1), k \in E PROVE k + 1 \in E
  <2>1. k + 1 \in 0 .. l /\ k + 1 \in 0 .. n /\ k + 1 # 0 /\ (k + 1) - 1 = k /\ k + 1 \in Nat
    OBVIOUS
  <2>2. s[k + 1] = t[k + 1]
    BY DEF SameUpTo
  <2>3. f[k + 1] = IF s[k + 1] \in T THEN Append(f[k], s[k + 1]) ELSE f[k]
    BY <2>1 DEF IsKept
  <2>4. g[k + 1] = IF t[k + 1] \in T THEN Append(g[k], t[k + 1]) ELSE g[k]
    BY <2>1 DEF IsKept
  <2> QED
    BY <1>2, <2>1, <2>2, <2>3, <2>4
<1> HIDE DEF E
<1>3. 0 .. l \subseteq E
  BY <1>1, <1>2, UpTo
<1> QED
  BY <1>3 DEF E

\* The result of Only is the last value of any such function.
LEMMA OnlyIs ==
  ASSUME NEW S, NEW s \in Seq(S), NEW T
  PROVE  \E f : IsKept(f, s, T, Len(s)) /\ Only(s, T) = f[Len(s)]
<1>0. \E f : f = [n \in 0 .. Len(s) |->
                       IF n = 0 THEN <<>>
                       ELSE IF s[n] \in T THEN Append(f[n - 1], s[n]) ELSE f[n - 1]]
  BY KeptExists
<1> DEFINE f == CHOOSE f : f = [n \in 0 .. Len(s) |->
                       IF n = 0 THEN <<>>
                       ELSE IF s[n] \in T THEN Append(f[n - 1], s[n]) ELSE f[n - 1]]
<1>1. f = [n \in 0 .. Len(s) |->
                       IF n = 0 THEN <<>>
                       ELSE IF s[n] \in T THEN Append(f[n - 1], s[n]) ELSE f[n - 1]]
  BY <1>0, Zenon
<1>2. Only(s, T) = f[Len(s)]
  BY Zenon DEF Only
<1> HIDE DEF f
<1>3. IsKept(f, s, T, Len(s))
  BY <1>1 DEF IsKept
<1> QED
  BY <1>2, <1>3

\* One element more is kept if it is in T.
LEMMA OnlyAppend ==
  ASSUME NEW S, NEW s \in Seq(S), NEW x \in S, NEW T, NEW t, t = Append(s, x)
  PROVE  /\ Only(t, T) = IF x \in T THEN Append(Only(s, T), x) ELSE Only(s, T)
         /\ Only(s, T) \in Seq(S)
<1>1. PICK n \in Nat : n = Len(s)
  BY LenProperties
<1>2. /\ t \in Seq(S) /\ Len(t) = n + 1 /\ t[n + 1] = x
      /\ \A i \in 1 .. n : s[i] = t[i]
  BY <1>1, AppendProperties
<1>3. PICK f : IsKept(f, s, T, n) /\ Only(s, T) = f[n]
  BY <1>1, OnlyIs
<1>4. PICK g : IsKept(g, t, T, n + 1) /\ Only(t, T) = g[n + 1]
  BY <1>2, OnlyIs
<1>5. f[n] = g[n]
  <2>1. PICK k \in Nat : k = n + 1
    OBVIOUS
  <2>2. n <= k /\ IsKept(f, s, T, n) /\ IsKept(g, t, T, k) /\ SameUpTo(s, t, n)
    BY <1>2, <1>3, <1>4, <2>1 DEF SameUpTo
  <2> QED
    BY <2>2, KeptAgree, Zenon
<1>6. n + 1 \in 0 .. n + 1 /\ n + 1 # 0 /\ (n + 1) - 1 = n
  OBVIOUS
<1>7. g[n + 1] = IF t[n + 1] \in T THEN Append(g[n], t[n + 1]) ELSE g[n]
  BY <1>4, <1>6 DEF IsKept
<1> QED
  BY <1>2, <1>3, <1>4, <1>5, <1>7, OnlyFacts

\* Of two sequences, the elements of the first come first.
LEMMA OnlyConcat ==
  ASSUME NEW S, NEW p \in Seq(S), NEW q \in Seq(S), NEW T
  PROVE  Only(p \o q, T) = Only(p, T) \o Only(q, T)
<1>1. PICK n \in Nat : n = Len(q)
  BY LenProperties
<1> DEFINE E == {m \in Nat : Only(p \o SubSeq(q, 1, m), T) = Only(p, T) \o Only(SubSeq(q, 1, m), T)}
<1>2. PICK a \in Seq(S) : a = Only(p, T)
  BY OnlyFacts
<1>3. 0 \in E
  <2>1. SubSeq(q, 1, 0) = <<>> /\ p \o <<>> = p /\ a \o <<>> = a /\ <<>> \in Seq(S)
    BY SubSeqEmpty, ConcatEmptySeq, EmptySeq
  <2>2. Only(<<>>, T) = <<>>
    <3>1. PICK f : IsKept(f, <<>>, T, 0) /\ Only(<<>>, T) = f[0]
      BY <2>1, OnlyIs, EmptySeq
    <3> QED
      BY <3>1 DEF IsKept
  <2> QED
    BY <1>2, <2>1, <2>2
<1>4. ASSUME NEW m \in 0 .. (n - 1), m \in E PROVE m + 1 \in E
  <2>1. PICK c \in Seq(S) : c = SubSeq(q, 1, m)
    <3>1. m \in 0 .. Len(q)
      BY <1>1
    <3>2. PICK h \in Seq(S), t \in Seq(S) : CutAt(q, m, h, t)
      BY <3>1, CutFacts
    <3> QED
      BY <3>2 DEF CutAt
  <2>2. PICK x \in S : x = q[m + 1]
    BY <1>1, ElementOfSeq
  <2>3. SubSeq(q, 1, m + 1) = Append(c, x)
    BY <1>1, <2>1, <2>2, SubSeqRecursiveSecond
  <2>4. p \o c \in Seq(S)
    BY ConcatProperties
  <2>5. p \o Append(c, x) = Append(p \o c, x)
    <3>1. Append(c, x) = c \o <<x>> /\ Append(p \o c, x) = (p \o c) \o <<x>> /\ <<x>> \in Seq(S)
      BY <2>4, AppendIsConcat
    <3> QED
      BY <3>1, ConcatAssociative
  <2>6. PICK d \in Seq(S) : d = Only(c, T)
    BY OnlyFacts
  <2>7. a \o Append(d, x) = Append(a \o d, x)
    <3>1. Append(d, x) = d \o <<x>> /\ a \o d \in Seq(S) /\ <<x>> \in Seq(S)
      BY AppendIsConcat, ConcatProperties
    <3>2. Append(a \o d, x) = (a \o d) \o <<x>>
      BY <3>1, AppendIsConcat
    <3> QED
      BY <3>1, <3>2, ConcatAssociative
  <2>8. Only(p \o c, T) = a \o d
    BY <1>2, <1>4, <2>1, <2>6
  <2>9. Only(Append(p \o c, x), T) = IF x \in T THEN Append(a \o d, x) ELSE a \o d
    <3>1. PICK b \in Seq(S) : b = p \o c
      BY <2>4
    <3>2. PICK t : t = Append(b, x)
      OBVIOUS
    <3>3. Only(t, T) = IF x \in T THEN Append(Only(b, T), x) ELSE Only(b, T)
      BY <3>2, OnlyAppend
    <3> QED
      BY <2>8, <3>1, <3>2, <3>3
  <2>10. Only(Append(c, x), T) = IF x \in T THEN Append(d, x) ELSE d
    <3>1. PICK t : t = Append(c, x)
      OBVIOUS
    <3>2. Only(t, T) = IF x \in T THEN Append(Only(c, T), x) ELSE Only(c, T)
      BY <3>1, OnlyAppend
    <3> QED
      BY <2>6, <3>1, <3>2
  <2>11. Only(p \o Append(c, x), T) = a \o Only(Append(c, x), T)
    BY <2>5, <2>7, <2>9, <2>10
  <2> QED
    BY <1>2, <2>3, <2>11, m + 1 \in Nat, Zenon
<1> HIDE DEF E
<1>5. n \in E
  <2>1. 0 .. n \subseteq E
    BY <1>3, <1>4, UpTo
  <2> QED
    BY <2>1
<1> QED
  BY <1>1, <1>5, SubSeqFull DEF E

\* A function that is applied again and again to x.
Steps(f, x, G, m) ==
  /\ DOMAIN f = 0 .. m
  /\ \A n \in 0 .. m : f[n] = IF n = 0 THEN x ELSE G[f[n - 1]]

\* There is the function of its results.
LEMMA StepsExist ==
  ASSUME NEW S, NEW x \in S, NEW G \in [S -> S], NEW N \in Nat
  PROVE  \E f : Steps(f, x, G, N) /\ f = [n \in 0 .. N |-> f[n]]
                /\ \A n \in 0 .. N : f[n] \in S
<1> DEFINE E == {m \in Nat : \E f : Steps(f, x, G, m) /\ \A n \in 0 .. m : f[n] \in S}
<1>1. 0 \in E
  <2>1. Steps([n \in 0 .. 0 |-> x], x, G, 0)
    BY DEF Steps
  <2> QED
    BY <2>1
<1>2. ASSUME NEW m \in 0 .. (N - 1), m \in E PROVE m + 1 \in E
  <2>1. PICK f : Steps(f, x, G, m) /\ \A n \in 0 .. m : f[n] \in S
    BY <1>2
  <2>2. PICK y \in S : y = G[f[m]]
    BY <2>1
  <2>3. PICK g : g = [n \in 0 .. (m + 1) |-> IF n <= m THEN f[n] ELSE y]
    OBVIOUS
  <2>4. /\ DOMAIN g = 0 .. (m + 1) /\ g[m + 1] = y /\ g[m] = f[m]
        /\ \A n \in 0 .. m : g[n] = f[n] /\ (n # 0 => g[n - 1] = f[n - 1])
    BY <2>3
  <2>5. ASSUME NEW n \in 0 .. (m + 1)
        PROVE  g[n] = (IF n = 0 THEN x ELSE G[g[n - 1]]) /\ g[n] \in S
    <3>1. CASE n \in 0 .. m
      BY <2>1, <2>4, <3>1 DEF Steps
    <3>2. CASE n = m + 1
      BY <2>2, <2>4, <3>2
    <3> QED
      BY <3>1, <3>2
  <2>6. Steps(g, x, G, m + 1)
    BY <2>4, <2>5 DEF Steps
  <2> QED
    BY <2>5, <2>6
<1> HIDE DEF E
<1>3. N \in E
  <2>1. 0 .. N \subseteq E
    BY <1>1, <1>2, UpTo
  <2> QED
    BY <2>1
<1>4. PICK f : Steps(f, x, G, N) /\ \A n \in 0 .. N : f[n] \in S
  BY <1>3 DEF E
<1>5. PICK g : g = [n \in 0 .. N |-> f[n]]
  OBVIOUS
<1>6. \A n \in 0 .. N : g[n] = f[n] /\ (n # 0 => g[n - 1] = f[n - 1])
  BY <1>5
<1>7. Steps(g, x, G, N)
  BY <1>4, <1>5, <1>6 DEF Steps
<1> QED
  BY <1>4, <1>5, <1>6, <1>7
=============================================================================
