------------------------------ MODULE ListFacts -----------------------------
(***************************************************************************)
(* What the proofs of several components need to know of the linked lists  *)
(* of the code, which the models keep as sequences: what is left when the  *)
(* entry at a position is unlinked, what is there when one is linked in,   *)
(* and that a non-empty set of positions has a first one.                  *)
(***************************************************************************)
EXTENDS Lists, Integers, Sequences, SequencesExt, SequenceTheorems, WellFoundedInduction, TLAPS

\* A walk from the head meets the first of the positions it looks for.
LEMMA LeastElement ==
    ASSUME NEW T, T \subseteq Nat, T # {}
    PROVE  \E x \in T : \A y \in T : x <= y
<1> DEFINE R == OpToRel(<, Nat)
<1>1. IsWellFoundedOn(R, Nat)
  BY NatLessThanWellFounded
<1>2. \E x \in T : \A y \in T : ~ (<<y, x>> \in R)
  BY <1>1, WFMin
<1>3. \A x, y \in Nat : y < x => <<y, x>> \in R
  BY DEF OpToRel
<1> HIDE DEF R
<1>4. PICK x \in T : \A y \in T : ~ (<<y, x>> \in R)
  BY <1>2
<1>5. ASSUME NEW y \in T PROVE x <= y
  <2>1. x \in Nat /\ y \in Nat
    OBVIOUS
  <2>2. ~ (y < x)
    BY <1>3, <1>4, <2>1
  <2> QED BY <2>1, <2>2
<1> QED BY <1>5

\* The entries before position k, and those from position k on.
LEMMA PrefixProperties ==
    ASSUME NEW S, NEW s \in Seq(S), NEW k \in 1 .. Len(s) + 1
    PROVE  /\ SubSeq(s, 1, k - 1) \in Seq(S)
           /\ Len(SubSeq(s, 1, k - 1)) = k - 1
           /\ \A i \in 1 .. k - 1 : SubSeq(s, 1, k - 1)[i] = s[i]
<1>0. Len(s) \in Nat /\ k \in Nat /\ k >= 1 /\ \A i \in 1 .. Len(s) : s[i] \in S
  BY LenProperties, ElementOfSeq
<1> DEFINE n == k - 1
           a == SubSeq(s, 1, n)
<1>1. n \in Nat /\ 1 \in Int /\ \A i \in 1 .. n : s[i] \in S
  BY <1>0
<1> HIDE DEF n, a
<1>2. /\ a \in Seq(S)
      /\ Len(a) = IF 1 <= n THEN n - 1 + 1 ELSE 0
      /\ \A i \in 1 .. n - 1 + 1 : a[i] = s[1 + i - 1]
  BY <1>1, SubSeqProperties DEF a
<1>3. Len(a) = n
  BY <1>1, <1>2
<1>4. \A i \in 1 .. n : a[i] = s[i]
  <2> TAKE i \in 1 .. n
  <2>1. i \in 1 .. n - 1 + 1 /\ 1 + i - 1 = i
    BY <1>1
  <2> QED BY <1>2, <2>1
<1> QED BY <1>2, <1>3, <1>4 DEF a, n

LEMMA SuffixProperties ==
    ASSUME NEW S, NEW s \in Seq(S), NEW k \in 1 .. Len(s) + 1
    PROVE  /\ SubSeq(s, k, Len(s)) \in Seq(S)
           /\ Len(SubSeq(s, k, Len(s))) = Len(s) - k + 1
           /\ \A i \in 1 .. Len(s) - k + 1 : SubSeq(s, k, Len(s))[i] = s[k + i - 1]
<1>0. Len(s) \in Nat /\ k \in Nat /\ k >= 1 /\ \A i \in 1 .. Len(s) : s[i] \in S
  BY LenProperties, ElementOfSeq
<1> DEFINE b == SubSeq(s, k, Len(s))
<1>1. k \in Int /\ Len(s) \in Int /\ \A i \in k .. Len(s) : s[i] \in S
  BY <1>0
<1> HIDE DEF b
<1>2. /\ b \in Seq(S)
      /\ Len(b) = IF k <= Len(s) THEN Len(s) - k + 1 ELSE 0
      /\ \A i \in 1 .. Len(s) - k + 1 : b[i] = s[k + i - 1]
  BY <1>1, SubSeqProperties DEF b
<1>3. Len(b) = Len(s) - k + 1
  BY <1>0, <1>2
<1> QED BY <1>2, <1>3 DEF b

\* Unlinking the entry at position k.
LEMMA RemoveAtProperties ==
    ASSUME NEW S, NEW s \in Seq(S), NEW k \in 1 .. Len(s)
    PROVE  /\ RemoveAt(s, k) \in Seq(S)
           /\ Len(RemoveAt(s, k)) = Len(s) - 1
           /\ \A i \in 1 .. Len(s) - 1 :
                  RemoveAt(s, k)[i] = IF i < k THEN s[i] ELSE s[i + 1]
<1> DEFINE a == SubSeq(s, 1, k - 1)
           b == SubSeq(s, k + 1, Len(s))
<1>0. /\ Len(s) \in Nat /\ k \in Nat
      /\ k \in 1 .. Len(s) + 1 /\ k + 1 \in 1 .. Len(s) + 1
  BY LenProperties
<1>1. a \in Seq(S) /\ Len(a) = k - 1 /\ \A i \in 1 .. k - 1 : a[i] = s[i]
  BY <1>0, PrefixProperties
<1>2. /\ b \in Seq(S) /\ Len(b) = Len(s) - (k + 1) + 1
      /\ \A i \in 1 .. Len(s) - (k + 1) + 1 : b[i] = s[(k + 1) + i - 1]
  BY <1>0, SuffixProperties
<1>3. RemoveAt(s, k) = a \o b
  BY DEF RemoveAt
<1> HIDE DEF a, b
<1>4. /\ a \o b \in Seq(S) /\ Len(a \o b) = Len(a) + Len(b)
      /\ \A i \in 1 .. Len(a) + Len(b) :
             (a \o b)[i] = IF i <= Len(a) THEN a[i] ELSE b[i - Len(a)]
  BY <1>1, <1>2, ConcatProperties
<1>5. Len(a) + Len(b) = Len(s) - 1
  BY <1>0, <1>1, <1>2
<1>6. ASSUME NEW i \in 1 .. Len(s) - 1
      PROVE  (a \o b)[i] = IF i < k THEN s[i] ELSE s[i + 1]
  <2>1. CASE i < k
    BY <1>0, <1>1, <1>4, <1>5, <2>1
  <2>2. CASE i >= k
    <3>1. i - Len(a) \in 1 .. Len(s) - (k + 1) + 1 /\ (k + 1) + (i - Len(a)) - 1 = i + 1
      BY <1>0, <1>1, <2>2
    <3>2. (a \o b)[i] = b[i - Len(a)]
      BY <1>0, <1>1, <1>4, <1>5, <2>2
    <3>3. b[i - Len(a)] = s[i + 1]
      BY <1>2, <3>1
    <3> QED BY <1>0, <2>2, <3>2, <3>3
  <2>3. i < k \/ i >= k
    BY <1>0
  <2> QED BY <2>1, <2>2, <2>3
<1> QED BY <1>3, <1>4, <1>5, <1>6

\* Linking e in so that it gets position k.
LEMMA InsertAtProperties ==
    ASSUME NEW S, NEW s \in Seq(S), NEW k \in 1 .. Len(s) + 1, NEW e \in S
    PROVE  /\ InsertAt(s, k, e) \in Seq(S)
           /\ Len(InsertAt(s, k, e)) = Len(s) + 1
           /\ \A i \in 1 .. Len(s) + 1 :
                  InsertAt(s, k, e)[i] = IF i < k THEN s[i]
                                         ELSE IF i = k THEN e ELSE s[i - 1]
<1> DEFINE a == SubSeq(s, 1, k - 1)
           b == SubSeq(s, k, Len(s))
<1>0. Len(s) \in Nat /\ k \in Nat /\ k >= 1
  BY LenProperties
<1>1. a \in Seq(S) /\ Len(a) = k - 1 /\ \A i \in 1 .. k - 1 : a[i] = s[i]
  BY PrefixProperties
<1>2. /\ b \in Seq(S) /\ Len(b) = Len(s) - k + 1
      /\ \A i \in 1 .. Len(s) - k + 1 : b[i] = s[k + i - 1]
  BY SuffixProperties
<1>3. InsertAt(s, k, e) = (a \o <<e>>) \o b
  BY DEF InsertAt
<1> HIDE DEF a, b
<1>4. a \o <<e>> = Append(a, e)
  BY <1>1, AppendIsConcat
<1> DEFINE c == Append(a, e)
<1>5. c \in Seq(S) /\ Len(c) = k /\ c[k] = e /\ \A i \in 1 .. k - 1 : c[i] = s[i]
  <2>1. /\ c \in Seq(S) /\ Len(c) = Len(a) + 1
        /\ \A i \in 1 .. Len(a) : c[i] = a[i]
        /\ c[Len(a) + 1] = e
    BY <1>1, AppendProperties
  <2>2. Len(a) = k - 1 /\ Len(a) + 1 = k
    BY <1>0, <1>1
  <2> HIDE DEF c
  <2> QED BY <1>1, <2>1, <2>2
<1> HIDE DEF c
<1>6. /\ c \o b \in Seq(S) /\ Len(c \o b) = Len(c) + Len(b)
      /\ \A i \in 1 .. Len(c) + Len(b) :
             (c \o b)[i] = IF i <= Len(c) THEN c[i] ELSE b[i - Len(c)]
  BY <1>5, <1>2, ConcatProperties
<1>7. InsertAt(s, k, e) = c \o b
  BY <1>3, <1>4 DEF c
<1>8. Len(c) + Len(b) = Len(s) + 1
  BY <1>0, <1>2, <1>5
<1>9. ASSUME NEW i \in 1 .. Len(s) + 1
      PROVE  (c \o b)[i] = IF i < k THEN s[i] ELSE IF i = k THEN e ELSE s[i - 1]
  <2>1. CASE i <= k
    BY <1>0, <1>5, <1>6, <1>8, <2>1
  <2>2. CASE i > k
    <3>1. i - k \in 1 .. Len(s) - k + 1 /\ k + (i - k) - 1 = i - 1
      BY <1>0, <2>2
    <3>2. (c \o b)[i] = b[i - k]
      BY <1>0, <1>5, <1>6, <1>8, <2>2
    <3>3. b[i - k] = s[i - 1]
      BY <1>2, <3>1
    <3> QED BY <1>0, <2>2, <3>2, <3>3
  <2>3. i <= k \/ i > k
    BY <1>0
  <2> QED BY <2>1, <2>2, <2>3
<1> QED BY <1>6, <1>7, <1>8, <1>9

\* A list in which every entry is there once loses exactly the entry that is unlinked.
LEMMA RemoveFromDistinct ==
    ASSUME NEW S, NEW s \in Seq(S), IsInjective(s), NEW k \in 1 .. Len(s)
    PROVE  /\ Range(RemoveAt(s, k)) = Range(s) \ {s[k]}
           /\ IsInjective(RemoveAt(s, k))
<1> DEFINE t == RemoveAt(s, k)
<1>1. /\ t \in Seq(S) /\ Len(t) = Len(s) - 1 /\ Len(s) \in Nat /\ k \in Nat
      /\ \A i \in 1 .. Len(s) - 1 : t[i] = IF i < k THEN s[i] ELSE s[i + 1]
  BY RemoveAtProperties, LenProperties
<1> HIDE DEF t
<1>2. DOMAIN s = 1 .. Len(s) /\ DOMAIN t = 1 .. Len(t)
  BY <1>1, LenProperties
<1>3. \A i \in 1 .. Len(t) : \E n \in 1 .. Len(s) :
          t[i] = s[n] /\ n # k /\ n = IF i < k THEN i ELSE i + 1
  BY <1>1
<1>4. Range(t) \subseteq Range(s) \ {s[k]}
  BY <1>2, <1>3 DEF Range, IsInjective
<1>5. Range(s) \ {s[k]} \subseteq Range(t)
  <2> SUFFICES ASSUME NEW n \in 1 .. Len(s), n # k
               PROVE  \E i \in 1 .. Len(t) : t[i] = s[n]
    BY <1>2 DEF Range
  <2>1. CASE n < k
    BY <1>1, <2>1
  <2>2. CASE n > k
    <3>1. n - 1 \in 1 .. Len(t) /\ t[n - 1] = s[n]
      BY <1>1, <2>2
    <3> QED BY <3>1
  <2> QED BY <1>1, <2>1, <2>2
<1>6. IsInjective(t)
  <2> SUFFICES ASSUME NEW i \in 1 .. Len(t), NEW j \in 1 .. Len(t), t[i] = t[j]
               PROVE  i = j
    BY <1>2 DEF IsInjective
  <2>1. PICK n \in 1 .. Len(s) : t[i] = s[n] /\ n = IF i < k THEN i ELSE i + 1
    BY <1>3
  <2>2. PICK o \in 1 .. Len(s) : t[j] = s[o] /\ o = IF j < k THEN j ELSE j + 1
    BY <1>3
  <2>3. n = o
    BY <2>1, <2>2, <1>2 DEF IsInjective
  <2> QED BY <1>1, <2>1, <2>2, <2>3
<1> QED BY <1>4, <1>5, <1>6 DEF t

\* Linking in a new entry keeps every entry there once.
LEMMA InsertIntoDistinct ==
    ASSUME NEW S, NEW s \in Seq(S), IsInjective(s), NEW k \in 1 .. Len(s) + 1,
           NEW e \in S, e \notin Range(s)
    PROVE  /\ Range(InsertAt(s, k, e)) = Range(s) \cup {e}
           /\ IsInjective(InsertAt(s, k, e))
<1> DEFINE t == InsertAt(s, k, e)
<1>1. /\ t \in Seq(S) /\ Len(t) = Len(s) + 1 /\ Len(s) \in Nat /\ k \in Nat
      /\ \A i \in 1 .. Len(s) + 1 :
             t[i] = IF i < k THEN s[i] ELSE IF i = k THEN e ELSE s[i - 1]
  BY InsertAtProperties, LenProperties
<1> HIDE DEF t
<1>2. DOMAIN s = 1 .. Len(s) /\ DOMAIN t = 1 .. Len(t)
  BY <1>1, LenProperties
<1>3. \A i \in 1 .. Len(t) : \/ i = k /\ t[i] = e
                             \/ \E n \in 1 .. Len(s) :
                                    /\ i # k /\ t[i] = s[n]
                                    /\ n = IF i < k THEN i ELSE i - 1
  BY <1>1
<1>4. Range(t) \subseteq Range(s) \cup {e}
  BY <1>2, <1>3 DEF Range
<1>5. Range(s) \cup {e} \subseteq Range(t)
  <2>1. e \in Range(t)
    BY <1>1, <1>2 DEF Range
  <2>2. ASSUME NEW n \in 1 .. Len(s) PROVE s[n] \in Range(t)
    <3>1. CASE n < k
      <4>1. n \in 1 .. Len(t) /\ t[n] = s[n]
        BY <1>1, <3>1
      <4> QED BY <4>1, <1>2 DEF Range
    <3>2. CASE n >= k
      <4>1. n + 1 \in 1 .. Len(t) /\ t[n + 1] = s[n]
        BY <1>1, <3>2
      <4> QED BY <4>1, <1>2 DEF Range
    <3> QED BY <1>1, <3>1, <3>2
  <2> QED BY <1>2, <2>1, <2>2 DEF Range
<1>6. IsInjective(t)
  <2>1. \A n \in 1 .. Len(s) : s[n] # e
    BY <1>2 DEF Range
  <2> SUFFICES ASSUME NEW i \in 1 .. Len(t), NEW j \in 1 .. Len(t), t[i] = t[j]
               PROVE  i = j
    BY <1>2 DEF IsInjective
  <2>2. CASE i = k \/ j = k
    BY <1>3, <2>1, <2>2
  <2>3. CASE i # k /\ j # k
    <3>1. PICK n \in 1 .. Len(s) : t[i] = s[n] /\ n = IF i < k THEN i ELSE i - 1
      BY <1>3, <2>3
    <3>2. PICK o \in 1 .. Len(s) : t[j] = s[o] /\ o = IF j < k THEN j ELSE j - 1
      BY <1>3, <2>3
    <3>3. n = o
      BY <3>1, <3>2, <1>2 DEF IsInjective
    <3> QED BY <1>1, <2>3, <3>1, <3>2, <3>3
  <2> QED BY <2>2, <2>3
<1> QED BY <1>4, <1>5, <1>6 DEF t

\* tuya_list_del in such a list: the entry is gone if it was there, and the others are
\* there in the order they had.
LEMMA RemoveFirstProperties ==
    ASSUME NEW S, NEW s \in Seq(S), IsInjective(s), NEW e
    PROVE  /\ RemoveFirst(s, e) \in Seq(S)
           /\ IsInjective(RemoveFirst(s, e))
           /\ Range(RemoveFirst(s, e)) = Range(s) \ {e}
           /\ Len(RemoveFirst(s, e)) = IF e \in Range(s) THEN Len(s) - 1 ELSE Len(s)
           /\ \A i, j \in 1 .. Len(RemoveFirst(s, e)) : i < j =>
                  \E m, n \in 1 .. Len(s) : /\ m < n
                                            /\ RemoveFirst(s, e)[i] = s[m]
                                            /\ RemoveFirst(s, e)[j] = s[n]
<1> DEFINE Right(r) ==
               /\ r \in Seq(S) /\ IsInjective(r) /\ Range(r) = Range(s) \ {e}
               /\ Len(r) = IF e \in Range(s) THEN Len(s) - 1 ELSE Len(s)
               /\ \A i, j \in 1 .. Len(r) : i < j =>
                      \E m, n \in 1 .. Len(s) : m < n /\ r[i] = s[m] /\ r[j] = s[n]
<1> SUFFICES Right(RemoveFirst(s, e))
  OBVIOUS
<1>0. Len(s) \in Nat /\ DOMAIN s = 1 .. Len(s)
  BY LenProperties
<1>1. CASE e \notin Range(s)
  <2>1. \A i \in 1 .. Len(s) : s[i] # e
    BY <1>0, <1>1 DEF Range
  <2>2. RemoveFirst(s, e) = s
    BY <2>1 DEF RemoveFirst
  <2>3. Range(s) = Range(s) \ {e}
    BY <1>1
  <2>4. Right(s)
    BY <1>0, <1>1, <2>3
  <2> HIDE DEF Right
  <2> QED BY <2>2, <2>4
<1>2. CASE e \in Range(s)
  <2>1. PICK k \in 1 .. Len(s) : s[k] = e
    BY <1>0, <1>2 DEF Range
  <2> DEFINE I == {i \in 1 .. Len(s) : s[i] = e}
  <2>2. I = {k} /\ k \in Nat
    BY <1>0, <2>1 DEF IsInjective
  <2>3. SelectInSeq(s, LAMBDA v : v = e) = Min(I)
    BY <2>2 DEF SelectInSeq
  <2>4. Min({k}) = k
    BY <2>2 DEF Min
  <2>5. RemoveFirst(s, e) = RemoveAt(s, k)
    BY <2>1, <2>2, <2>3, <2>4 DEF RemoveFirst
  <2> DEFINE t == RemoveAt(s, k)
  <2>6. /\ t \in Seq(S) /\ Len(t) = Len(s) - 1
        /\ \A i \in 1 .. Len(s) - 1 : t[i] = IF i < k THEN s[i] ELSE s[i + 1]
        /\ Range(t) = Range(s) \ {e} /\ IsInjective(t)
    BY <2>1, RemoveAtProperties, RemoveFromDistinct
  <2> HIDE DEF t, I
  <2>7. ASSUME NEW i \in 1 .. Len(t), NEW j \in 1 .. Len(t), i < j
        PROVE  \E m, n \in 1 .. Len(s) : m < n /\ t[i] = s[m] /\ t[j] = s[n]
    <3> DEFINE m == IF i < k THEN i ELSE i + 1
               n == IF j < k THEN j ELSE j + 1
    <3>1. m \in 1 .. Len(s) /\ n \in 1 .. Len(s) /\ m < n
      BY <1>0, <2>6, <2>7
    <3>2. t[i] = s[m] /\ t[j] = s[n]
      BY <2>6
    <3> QED BY <3>1, <3>2
  <2>8. RemoveFirst(s, e) = t
    BY <2>5 DEF t
  <2>9. Len(t) = IF e \in Range(s) THEN Len(s) - 1 ELSE Len(s)
    BY <1>2, <2>6
  <2>10. \A i, j \in 1 .. Len(t) : i < j =>
             \E m, n \in 1 .. Len(s) : m < n /\ t[i] = s[m] /\ t[j] = s[n]
    BY <2>7
  <2>11. Right(t)
    BY <2>6, <2>9, <2>10
  <2> HIDE DEF Right
  <2> QED BY <2>8, <2>11
<1> QED BY <1>1, <1>2

\* Induction along a list, over the set of the positions for which a fact holds.
LEMMA PositionInduction ==
    ASSUME NEW N \in Nat, NEW T, 0 \in T, \A n \in 1 .. N : n - 1 \in T => n \in T
    PROVE  \A n \in 0 .. N : n \in T
<1> DEFINE Bad == {n \in 0 .. N : n \notin T}
<1> SUFFICES ASSUME Bad # {} PROVE FALSE
  OBVIOUS
<1>1. Bad \subseteq Nat
  OBVIOUS
<1>2. PICK n \in Bad : \A m \in Bad : n <= m
  <2> HIDE DEF Bad
  <2> QED BY <1>1, LeastElement
<1>3. n \in 1 .. N
  BY <1>2
<1>4. n - 1 \in 0 .. N /\ n - 1 \notin Bad
  BY <1>2, <1>3
<1> QED BY <1>2, <1>3, <1>4

\* k is what Keep has kept when it has come to each of the positions.
Follows(k, s, S) ==
    /\ k[0] = <<>>
    /\ \A n \in 1 .. Len(s) :
           k[n] = IF s[n] \in S THEN Append(k[n - 1], s[n]) ELSE k[n - 1]

\* What Keep computes is a function of the position that starts with nothing and adds the
\* entries to be kept.  That such a function exists is shown for the prefixes of the
\* list, shortest first.
LEMMA KeepSteps ==
    ASSUME NEW A, NEW s \in Seq(A), NEW S
    PROVE  \E k : /\ Follows(k, s, S)
                  /\ \A n \in 0 .. Len(s) : k[n] \in Seq(A)
                  /\ Keep(s, S) = k[Len(s)]
<1> DEFINE N == Len(s)
           Body(g, n) == IF n = 0 THEN <<>>
                         ELSE IF s[n] \in S THEN Append(g[n - 1], s[n]) ELSE g[n - 1]
           Begun(n) == \E g : g = [i \in 0 .. n |-> Body(g, i)]
           kept == CHOOSE g : g = [i \in 0 .. N |-> Body(g, i)]
<1>0. N \in Nat
  BY LenProperties
<1>1. Begun(0)
  <2> DEFINE g == [i \in 0 .. 0 |-> <<>>]
  <2>1. g = [i \in 0 .. 0 |-> Body(g, i)]
    OBVIOUS
  <2> QED BY <2>1
<1>2. ASSUME NEW n \in 1 .. N, Begun(n - 1)
      PROVE  Begun(n)
  <2>0. n \in Nat /\ n >= 1
    BY <1>0
  <2>1. PICK h : h = [i \in 0 .. n - 1 |-> Body(h, i)]
    BY <1>2
  <2> DEFINE g == [i \in 0 .. n |-> Body(h, i)]
  <2>2. \A i \in 0 .. n - 1 : g[i] = h[i]
    <3> SUFFICES ASSUME NEW i \in 0 .. n - 1 PROVE g[i] = h[i]
      OBVIOUS
    <3>1. i \in 0 .. n
      BY <2>0
    <3> HIDE DEF Body
    <3> QED BY <2>1, <3>1
  <2>3. \A i \in 0 .. n : Body(h, i) = Body(g, i)
    <3> SUFFICES ASSUME NEW i \in 0 .. n PROVE Body(h, i) = Body(g, i)
      OBVIOUS
    <3> HIDE DEF g
    <3>1. i = 0 \/ i - 1 \in 0 .. n - 1
      BY <2>0
    <3> QED BY <2>2, <3>1
  <2>4. g = [i \in 0 .. n |-> Body(g, i)]
    <3> HIDE DEF Body
    <3> QED BY <2>3
  <2> HIDE DEF g
  <2> QED BY <2>4
<1>3. Begun(N)
  <2> DEFINE T == {n \in 0 .. N : Begun(n)}
  <2> HIDE DEF Begun
  <2>1. 0 \in T /\ \A n \in 1 .. N : n - 1 \in T => n \in T
    BY <1>0, <1>1, <1>2
  <2> HIDE DEF T
  <2>2. \A n \in 0 .. N : n \in T
    BY <1>0, <2>1, PositionInduction
  <2> QED BY <1>0, <2>2 DEF T
<1>4. kept = [i \in 0 .. N |-> Body(kept, i)]
  <2> HIDE DEF Body
  <2> QED BY <1>3
<1>5. Keep(s, S) = kept[N]
  BY DEF Keep
<1> HIDE DEF kept
<1>6. ASSUME NEW n \in 0 .. N
      PROVE  kept[n] = Body(kept, n)
  <2> HIDE DEF Body
  <2> QED BY <1>4
<1>7. kept[0] = <<>>
  BY <1>0, <1>6
<1>8. ASSUME NEW n \in 1 .. N
      PROVE  kept[n] = IF s[n] \in S THEN Append(kept[n - 1], s[n]) ELSE kept[n - 1]
  <2>1. n \in 0 .. N /\ n # 0
    BY <1>0
  <2> QED BY <1>6, <2>1
<1> HIDE DEF Body, Begun, N
<1>9. \A n \in 0 .. N : kept[n] \in Seq(A)
  <2> DEFINE T == {n \in 0 .. N : kept[n] \in Seq(A)}
  <2>1. 0 \in T
    <3>1. <<>> \in Seq(A) /\ 0 \in 0 .. N
      BY <1>0
    <3> QED BY <1>7, <3>1
  <2>2. ASSUME NEW n \in 1 .. N, n - 1 \in T
        PROVE  n \in T
    <3>1. n \in 0 .. N /\ s[n] \in A /\ kept[n - 1] \in Seq(A)
      BY <1>0, <2>2, ElementOfSeq DEF N
    <3>2. Append(kept[n - 1], s[n]) \in Seq(A)
      BY <3>1
    <3> QED BY <1>8, <3>1, <3>2
  <2> HIDE DEF T
  <2>3. \A n \in 0 .. N : n \in T
    BY <1>0, <2>1, <2>2, PositionInduction
  <2> QED BY <2>3 DEF T
<1> QED BY <1>5, <1>7, <1>8, <1>9 DEF N, Follows

\* There is only one such function.
LEMMA KeepIs ==
    ASSUME NEW A, NEW s \in Seq(A), NEW S, NEW f, Follows(f, s, S)
    PROVE  Keep(s, S) = f[Len(s)]
<1>0. Len(s) \in Nat
  BY LenProperties
<1>1. PICK k : /\ Follows(k, s, S)
               /\ \A n \in 0 .. Len(s) : k[n] \in Seq(A)
               /\ Keep(s, S) = k[Len(s)]
  BY KeepSteps
<1> DEFINE T == {n \in 0 .. Len(s) : k[n] = f[n]}
<1>2. 0 \in T
  BY <1>0, <1>1 DEF Follows
<1>3. ASSUME NEW n \in 1 .. Len(s), n - 1 \in T
      PROVE  n \in T
  <2>1. k[n - 1] = f[n - 1] /\ n \in 0 .. Len(s)
    BY <1>0, <1>3
  <2> QED BY <1>1, <2>1 DEF Follows
<1> HIDE DEF T
<1>4. \A n \in 0 .. Len(s) : n \in T
  BY <1>0, <1>2, <1>3, PositionInduction
<1>5. Len(s) \in T
  BY <1>0, <1>4
<1> QED BY <1>1, <1>5 DEF T

LEMMA KeepOfEmpty ==
    ASSUME NEW S
    PROVE  Keep(<<>>, S) = <<>>
<1> DEFINE e == <<>>
<1>1. e \in Seq({}) /\ Len(e) = 0
  BY EmptySeq
<1> HIDE DEF e
<1>2. PICK k : /\ Follows(k, e, S)
               /\ \A n \in 0 .. Len(e) : k[n] \in Seq({})
               /\ Keep(e, S) = k[Len(e)]
  BY <1>1, KeepSteps
<1> QED BY <1>1, <1>2 DEF e, Follows

\* The walk and a list that grows at its end ...
LEMMA KeepOfAppend ==
    ASSUME NEW A, NEW s \in Seq(A), NEW S, NEW x \in A
    PROVE  Keep(Append(s, x), S) = IF x \in S THEN Append(Keep(s, S), x) ELSE Keep(s, S)
<1> DEFINE t == Append(s, x)
<1>0. /\ Len(s) \in Nat /\ t \in Seq(A) /\ Len(t) = Len(s) + 1 /\ t[Len(t)] = x
      /\ \A n \in 1 .. Len(s) : t[n] = s[n]
  OBVIOUS
<1>1. PICK k : /\ Follows(k, t, S)
               /\ \A n \in 0 .. Len(t) : k[n] \in Seq(A)
               /\ Keep(t, S) = k[Len(t)]
  <2> HIDE DEF t
  <2> QED BY <1>0, KeepSteps
<1> HIDE DEF t
<1>2. Follows(k, s, S)
  BY <1>0, <1>1 DEF Follows
<1>3. Keep(s, S) = k[Len(s)]
  BY <1>2, KeepIs
<1>4. Len(t) \in 1 .. Len(t) /\ Len(t) - 1 = Len(s)
  BY <1>0
<1>5. Keep(t, S) = IF x \in S THEN Append(Keep(s, S), x) ELSE Keep(s, S)
  BY <1>0, <1>1, <1>3, <1>4 DEF Follows
<1> QED BY <1>5 DEF t

\* What is kept comes from the list, in its order, and is in the set; and every entry of
\* the list that is in the set is kept.
LEMMA KeepProperties ==
    ASSUME NEW A, NEW s \in Seq(A), NEW S
    PROVE  /\ Keep(s, S) \in Seq(A)
           /\ Range(Keep(s, S)) = Range(s) \cap S
           /\ IsInjective(s) => IsInjective(Keep(s, S))
<1>0. Len(s) \in Nat /\ DOMAIN s = 1 .. Len(s) /\ \A i \in 1 .. Len(s) : s[i] \in A
  BY LenProperties, ElementOfSeq
<1>1. PICK k : /\ Follows(k, s, S)
               /\ \A n \in 0 .. Len(s) : k[n] \in Seq(A)
               /\ Keep(s, S) = k[Len(s)]
  BY KeepSteps
<1> DEFINE From(n) == {s[i] : i \in 1 .. n}
           Fine(n) == /\ k[n] \in Seq(A)
                      /\ Range(k[n]) = From(n) \cap S
                      /\ IsInjective(s) => IsInjective(k[n])
           T == {n \in 0 .. Len(s) : Fine(n)}
<1>2. Fine(0)
  <2>1. <<>> \in Seq(A) /\ DOMAIN <<>> = {}
    OBVIOUS
  <2> QED BY <1>1, <2>1 DEF Range, IsInjective, Follows
<1>3. ASSUME NEW n \in 1 .. Len(s), Fine(n - 1)
      PROVE  Fine(n)
  <2>0. n \in Nat /\ n >= 1 /\ s[n] \in A /\ n \in 1 .. Len(s)
    BY <1>0
  <2>1. From(n) = From(n - 1) \cup {s[n]}
    <3>1. \A i \in 1 .. n : i \in 1 .. n - 1 \/ i = n
      BY <2>0
    <3>2. n \in 1 .. n /\ \A i \in 1 .. n - 1 : i \in 1 .. n
      BY <2>0
    <3> QED BY <3>1, <3>2
  <2>2. CASE s[n] \notin S
    <3>1. k[n] = k[n - 1]
      BY <1>1, <2>2 DEF Follows
    <3> HIDE DEF From
    <3> QED BY <1>3, <2>1, <2>2, <3>1
  <2>3. CASE s[n] \in S
    <3> DEFINE u == k[n - 1]
               v == Append(u, s[n])
    <3>1. k[n] = v
      BY <1>1, <2>3 DEF Follows
    <3>2. u \in Seq(A) /\ Range(u) = From(n - 1) \cap S /\ (IsInjective(s) => IsInjective(u))
      BY <1>3
    <3> HIDE DEF u
    <3>3. /\ v \in Seq(A) /\ Len(u) \in Nat /\ Len(v) = Len(u) + 1
          /\ DOMAIN u = 1 .. Len(u) /\ DOMAIN v = 1 .. Len(u) + 1
          /\ v[Len(u) + 1] = s[n] /\ \A i \in 1 .. Len(u) : v[i] = u[i]
      BY <2>0, <3>2
    <3> HIDE DEF v
    <3>4. \A i \in 1 .. Len(u) + 1 : i \in 1 .. Len(u) \/ i = Len(u) + 1
      BY <3>3
    <3>5. Len(u) + 1 \in 1 .. Len(u) + 1 /\ \A i \in 1 .. Len(u) : i \in 1 .. Len(u) + 1
      BY <3>3
    <3>6. Range(v) = Range(u) \cup {s[n]}
      BY <3>3, <3>4, <3>5 DEF Range
    <3>7. Range(v) = From(n) \cap S
      <4> HIDE DEF From
      <4> QED BY <2>1, <2>3, <3>2, <3>6
    <3>8. ASSUME IsInjective(s)
          PROVE  IsInjective(v)
      <4>1. s[n] \notin From(n - 1)
        <5>1. \A i \in 1 .. n - 1 : i \in 1 .. Len(s) /\ i # n
          BY <1>0, <2>0
        <5> QED BY <1>0, <2>0, <3>8, <5>1 DEF IsInjective
      <4>2. \A i \in 1 .. Len(u) : u[i] \in Range(u)
        BY <3>3 DEF Range
      <4>3. \A i \in 1 .. Len(u) : u[i] # s[n]
        BY <3>2, <4>1, <4>2
      <4>4. \A i, j \in 1 .. Len(u) : u[i] = u[j] => i = j
        BY <3>2, <3>3, <3>8 DEF IsInjective
      <4>5. \A i, j \in 1 .. Len(u) + 1 : v[i] = v[j] => i = j
        BY <3>3, <3>4, <4>3, <4>4
      <4> QED BY <3>3, <4>5 DEF IsInjective
    <3> QED BY <3>1, <3>3, <3>7, <3>8
  <2> QED BY <2>2, <2>3
<1>4. Fine(Len(s))
  <2> HIDE DEF Fine
  <2>1. 0 \in T
    BY <1>0, <1>2
  <2>2. \A n \in 1 .. Len(s) : n - 1 \in T => n \in T
    BY <1>0, <1>3
  <2> HIDE DEF T
  <2>3. \A n \in 0 .. Len(s) : n \in T
    BY <1>0, <2>1, <2>2, PositionInduction
  <2>4. Len(s) \in T
    BY <1>0, <2>3
  <2> QED BY <2>4 DEF T
<1>5. From(Len(s)) = Range(s)
  BY <1>0 DEF Range
<1> HIDE DEF From
<1> QED BY <1>1, <1>4, <1>5

\* Appending after joining two lists, or to the second before.
LEMMA ConcatAppend ==
    ASSUME NEW A, NEW s \in Seq(A), NEW t \in Seq(A), NEW x \in A
    PROVE  s \o Append(t, x) = Append(s \o t, x)
<1> DEFINE u == s \o Append(t, x)
           v == Append(s \o t, x)
<1>1. Len(s) \in Nat /\ Len(t) \in Nat /\ Append(t, x) \in Seq(A) /\ s \o t \in Seq(A)
  OBVIOUS
<1>2. u \in Seq(A) /\ Len(u) = Len(s) + Len(t) + 1
  BY <1>1
<1>3. v \in Seq(A) /\ Len(v) = Len(s) + Len(t) + 1
  BY <1>1
<1>4. ASSUME NEW i \in 1 .. Len(s) + Len(t) + 1
      PROVE  u[i] = v[i]
  <2>1. CASE i <= Len(s)
    BY <1>1, <2>1
  <2>2. CASE i > Len(s) /\ i <= Len(s) + Len(t)
    <3>1. i - Len(s) \in 1 .. Len(t)
      BY <1>1, <2>2
    <3>2. Append(t, x)[i - Len(s)] = t[i - Len(s)]
      BY <3>1
    <3>3. u[i] = t[i - Len(s)]
      BY <1>1, <2>2, <3>2
    <3>4. (s \o t)[i] = t[i - Len(s)]
      BY <1>1, <2>2
    <3>5. v[i] = (s \o t)[i]
      BY <1>1, <2>2
    <3> QED BY <3>3, <3>4, <3>5
  <2>3. CASE i = Len(s) + Len(t) + 1
    <3>1. Append(t, x)[Len(t) + 1] = x
      OBVIOUS
    <3>2. i - Len(s) = Len(t) + 1
      BY <1>1, <2>3
    <3>3. u[i] = x
      BY <1>1, <2>3, <3>1, <3>2
    <3>4. v[i] = x
      BY <1>1, <2>3
    <3> QED BY <3>3, <3>4
  <2> QED BY <1>1, <2>1, <2>2, <2>3
<1> HIDE DEF u, v
<1>5. u = v
  BY <1>1, <1>2, <1>3, <1>4, SeqEqual
<1> QED BY <1>5 DEF u, v

\* ... or at its head, ...
LEMMA KeepOfCons ==
    ASSUME NEW A, NEW s \in Seq(A), NEW S, NEW x \in A
    PROVE  Keep(<<x>> \o s, S) = IF x \in S THEN <<x>> \o Keep(s, S) ELSE Keep(s, S)
<1> DEFINE pre == IF x \in S THEN <<x>> ELSE <<>>
           t == <<x>> \o s
<1>0. /\ Len(s) \in Nat /\ t \in Seq(A) /\ Len(t) = Len(s) + 1 /\ t[1] = x
      /\ \A n \in 1 .. Len(s) : t[n + 1] = s[n]
  OBVIOUS
<1>1. PICK k : /\ Follows(k, s, S)
               /\ \A n \in 0 .. Len(s) : k[n] \in Seq(A)
               /\ Keep(s, S) = k[Len(s)]
  BY KeepSteps
<1>2. pre \in Seq(A)
  OBVIOUS
<1> HIDE DEF pre, t
<1>3. \A n \in 0 .. Len(s) : k[n] \in Seq(A)
  BY <1>1
<1> DEFINE f == [n \in 0 .. Len(s) + 1 |-> IF n = 0 THEN <<>> ELSE pre \o k[n - 1]]
<1>4. f[0] = <<>> /\ \A n \in 1 .. Len(s) + 1 : f[n] = pre \o k[n - 1]
  BY <1>0
<1> HIDE DEF f
<1>5. ASSUME NEW n \in 1 .. Len(t)
      PROVE  f[n] = IF t[n] \in S THEN Append(f[n - 1], t[n]) ELSE f[n - 1]
  <2>0. n \in 1 .. Len(s) + 1 /\ n \in Nat
    BY <1>0
  <2>1. CASE n = 1
    <3>0. 1 \in 1 .. Len(s) + 1 /\ 1 - 1 = 0
      BY <1>0
    <3>1. f[1] = pre \o <<>> /\ f[0] = <<>>
      BY <1>1, <1>4, <3>0 DEF Follows
    <3>2. pre \o <<>> = pre
      BY <1>2
    <3>3. pre = IF t[1] \in S THEN Append(<<>>, t[1]) ELSE <<>>
      BY <1>0 DEF pre
    <3> QED BY <2>1, <3>0, <3>1, <3>2, <3>3
  <2>2. CASE n > 1
    <3> DEFINE m == n - 1
    <3>1. m \in 1 .. Len(s) /\ m - 1 \in 0 .. Len(s) /\ m \in 1 .. Len(s) + 1 /\ n = m + 1
      BY <1>0, <2>0, <2>2
    <3> HIDE DEF m
    <3>2. t[n] = s[m] /\ f[n] = pre \o k[m] /\ f[n - 1] = pre \o k[m - 1]
      <4>1. t[m + 1] = s[m]
        BY <1>0, <3>1
      <4>2. n - 1 = m /\ m + 1 = n
        BY <2>0, <3>1
      <4>3. f[n] = pre \o k[n - 1] /\ f[m] = pre \o k[m - 1]
        BY <1>4, <2>0, <3>1
      <4> QED BY <4>1, <4>2, <4>3
    <3>3. k[m] = IF s[m] \in S THEN Append(k[m - 1], s[m]) ELSE k[m - 1]
      BY <1>1, <3>1 DEF Follows
    <3>4. pre \o Append(k[m - 1], s[m]) = Append(pre \o k[m - 1], s[m])
      <4>1. k[m - 1] \in Seq(A)
        BY <1>3, <3>1
      <4>2. s[m] \in A
        BY <3>1
      <4> QED BY <1>2, <4>1, <4>2, ConcatAppend
    <3> QED BY <3>2, <3>3, <3>4
  <2> QED BY <2>0, <2>1, <2>2
<1>6. Keep(t, S) = f[Len(t)]
  <2>1. Follows(f, t, S)
    BY <1>4, <1>5 DEF Follows
  <2> QED BY <1>0, <2>1, KeepIs
<1>7. f[Len(t)] = pre \o Keep(s, S)
  BY <1>0, <1>1, <1>4
<1>8. Keep(s, S) \in Seq(A)
  BY <1>0, <1>1, <1>3
<1>9. <<>> \o Keep(s, S) = Keep(s, S)
  BY <1>8
<1> QED BY <1>6, <1>7, <1>9 DEF pre, t

\* ... two walks in a row, ...
LEMMA KeepTwice ==
    ASSUME NEW A, NEW s \in Seq(A), NEW S, NEW U
    PROVE  Keep(Keep(s, S), U) = Keep(s, S \cap U)
<1>0. Len(s) \in Nat /\ \A n \in 1 .. Len(s) : s[n] \in A
  BY LenProperties, ElementOfSeq
<1>1. PICK k : /\ Follows(k, s, S)
               /\ \A n \in 0 .. Len(s) : k[n] \in Seq(A)
               /\ Keep(s, S) = k[Len(s)]
  BY KeepSteps
<1> DEFINE f == [n \in 0 .. Len(s) |-> Keep(k[n], U)]
<1>3. f[0] = <<>>
  BY <1>0, <1>1, KeepOfEmpty DEF Follows
<1>4. ASSUME NEW n \in 1 .. Len(s)
      PROVE  f[n] = IF s[n] \in S \cap U THEN Append(f[n - 1], s[n]) ELSE f[n - 1]
  <2>1. n \in 0 .. Len(s) /\ n - 1 \in 0 .. Len(s)
    BY <1>0
  <2>2. f[n] = Keep(k[n], U) /\ f[n - 1] = Keep(k[n - 1], U)
    BY <2>1
  <2> HIDE DEF f
  <2>3. k[n - 1] \in Seq(A) /\ s[n] \in A
    BY <1>0, <1>1, <2>1
  <2>4. k[n] = IF s[n] \in S THEN Append(k[n - 1], s[n]) ELSE k[n - 1]
    BY <1>1 DEF Follows
  <2>5. Keep(Append(k[n - 1], s[n]), U)
            = IF s[n] \in U THEN Append(Keep(k[n - 1], U), s[n]) ELSE Keep(k[n - 1], U)
    <3> DEFINE u == k[n - 1]
               x == s[n]
    <3>1. u \in Seq(A) /\ x \in A
      BY <2>3
    <3> HIDE DEF u, x
    <3>2. Keep(Append(u, x), U) = IF x \in U THEN Append(Keep(u, U), x) ELSE Keep(u, U)
      BY <3>1, KeepOfAppend
    <3> QED BY <3>2 DEF u, x
  <2> QED BY <2>2, <2>4, <2>5
<1>5. f[Len(s)] = Keep(Keep(s, S), U)
  BY <1>0, <1>1
<1> HIDE DEF f
<1>6. Keep(s, S \cap U) = f[Len(s)]
  <2>1. Follows(f, s, S \cap U)
    BY <1>3, <1>4 DEF Follows
  <2> QED BY <2>1, KeepIs
<1> QED BY <1>5, <1>6

\* ... and a list whose entries were made such that the walk will not keep them.
LEMMA KeepOfMarked ==
    ASSUME NEW A, NEW s \in Seq(A), NEW r \in Seq(A), NEW S, NEW U, Len(r) = Len(s),
           \A n \in 1 .. Len(s) : IF s[n] \in U THEN r[n] = s[n] /\ r[n] \in S
                                  ELSE r[n] \notin S
    PROVE  Keep(r, S) = Keep(s, U)
<1>1. PICK k : /\ Follows(k, s, U)
               /\ \A n \in 0 .. Len(s) : k[n] \in Seq(A)
               /\ Keep(s, U) = k[Len(s)]
  BY KeepSteps
<1>2. Follows(k, r, S)
  BY <1>1 DEF Follows
<1>3. Keep(r, S) = k[Len(r)]
  BY <1>2, KeepIs
<1> QED BY <1>1, <1>3
=============================================================================
