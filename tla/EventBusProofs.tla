--------------------------- MODULE EventBusProofs ---------------------------
(***************************************************************************)
(* Proofs about the events of tal_event.c (EventBus), for any number of    *)
(* threads, subscribers and duplicate nodes.                               *)
(***************************************************************************)
EXTENDS EventBus, ListFacts

(***************************************************************************)
(* Subscription lists.                                                     *)
(***************************************************************************)

\* No subscriber is in the list twice.
Once(list) ==
    \A i, j \in 1 .. Len(list) : list[i].sub = list[j].sub => i = j

\* Emergency subscriptions stand in front.
UrgentFirst(list) ==
    \A i, j \in 1 .. Len(list) :
        i < j /\ list[j].type = "EMERGENCY" => list[i].type = "EMERGENCY"

\* What a node may hold.
Good(list) == list \in Lists /\ Once(list) /\ UrgentFirst(list)

LEMMA ListBasics ==
    ASSUME NEW list \in Lists
    PROVE  /\ Len(list) \in Nat /\ DOMAIN list = 1 .. Len(list)
           /\ \A i \in 1 .. Len(list) : /\ list[i] \in Entries /\ list[i] \in Range(list)
                                        /\ list[i].sub \in Subs /\ list[i].type \in Types
<1>1. list \in Seq(Entries)
  BY DEF Lists
<1>2. Len(list) \in Nat /\ DOMAIN list = 1 .. Len(list)
  BY <1>1, LenProperties
<1>3. \A i \in 1 .. Len(list) : list[i] \in Entries
  BY <1>1, ElementOfSeq
<1> QED BY <1>2, <1>3 DEF Range, Entries

\* Putting an entry first, as tuya_list_add does.
LEMMA FirstOf ==
    ASSUME NEW list \in Lists, NEW e \in Entries
    PROVE  /\ <<e>> \o list \in Lists /\ Len(<<e>> \o list) = Len(list) + 1
           /\ (<<e>> \o list)[1] = e
           /\ \A i \in 1 .. Len(list) + 1 : i > 1 => (<<e>> \o list)[i] = list[i - 1]
<1> DEFINE s == <<e>>
<1>1. /\ s \in Seq(Entries) /\ Len(s) = 1 /\ s[1] = e
      /\ list \in Seq(Entries) /\ Len(list) \in Nat
  BY ListBasics DEF Lists
<1> HIDE DEF s
<1>2. /\ s \o list \in Seq(Entries) /\ Len(s \o list) = Len(s) + Len(list)
      /\ \A i \in 1 .. Len(s) + Len(list) :
             (s \o list)[i] = IF i <= Len(s) THEN s[i] ELSE list[i - Len(s)]
  BY <1>1, ConcatProperties
<1>3. (s \o list)[1] = e
  BY <1>1, <1>2
<1>4. ASSUME NEW i \in 1 .. Len(list) + 1, i > 1 PROVE (s \o list)[i] = list[i - 1]
  BY <1>1, <1>2, <1>4
<1> QED BY <1>1, <1>2, <1>3, <1>4 DEF s, Lists

\* Linking a new subscriber in keeps a list good.
LEMMA LinkFacts ==
    ASSUME NEW list, Good(list), NEW e \in Entries,
           \A i \in 1 .. Len(list) : list[i].sub # e.sub
    PROVE  /\ Good(Link(list, e))
           /\ \A i \in 1 .. Len(Link(list, e)) :
                  \/ Link(list, e)[i] = e
                  \/ \E k \in 1 .. Len(list) : Link(list, e)[i] = list[k]
<1> DEFINE new == Link(list, e)
<1>0. /\ list \in Lists /\ list \in Seq(Entries) /\ Once(list) /\ UrgentFirst(list)
      /\ Len(list) \in Nat
  BY ListBasics DEF Good, Lists
<1>1. CASE e.type = "EMERGENCY"
  <2>1. /\ new \in Lists /\ Len(new) = Len(list) + 1 /\ new[1] = e
        /\ \A i \in 1 .. Len(list) + 1 : i > 1 => new[i] = list[i - 1]
    <3>1. new = <<e>> \o list
      BY <1>1 DEF Link
    <3> HIDE DEF new
    <3> QED BY <1>0, <3>1, FirstOf
  <2> HIDE DEF new
  <2>2. \A i \in 1 .. Len(new) :
            \/ i = 1 /\ new[i] = e
            \/ i > 1 /\ i - 1 \in 1 .. Len(list) /\ new[i] = list[i - 1]
    BY <1>0, <2>1
  <2>3. Once(new)
    <3> SUFFICES ASSUME NEW i \in 1 .. Len(new), NEW j \in 1 .. Len(new),
                        new[i].sub = new[j].sub
                 PROVE  i = j
      BY DEF Once
    <3>1. CASE i = 1 \/ j = 1
      <4>1. new[1] = e
        BY <2>1
      <4>2. \A k \in 1 .. Len(new) : k = 1 \/ new[k].sub # e.sub
        BY <2>2
      <4> QED BY <3>1, <4>1, <4>2
    <3>2. CASE i # 1 /\ j # 1
      <4>1. /\ i - 1 \in 1 .. Len(list) /\ j - 1 \in 1 .. Len(list)
            /\ list[i - 1].sub = list[j - 1].sub
        BY <2>2, <3>2
      <4>2. i - 1 = j - 1
        BY <1>0, <4>1 DEF Once
      <4> QED BY <4>2
    <3> QED BY <3>1, <3>2
  <2>4. UrgentFirst(new)
    <3> SUFFICES ASSUME NEW i \in 1 .. Len(new), NEW j \in 1 .. Len(new), i < j,
                        new[j].type = "EMERGENCY"
                 PROVE  new[i].type = "EMERGENCY"
      BY DEF UrgentFirst
    <3>1. CASE i = 1
      BY <1>1, <2>1, <3>1
    <3>2. CASE i # 1
      <4>1. /\ i - 1 \in 1 .. Len(list) /\ j - 1 \in 1 .. Len(list) /\ i - 1 < j - 1
            /\ new[i] = list[i - 1] /\ new[j] = list[j - 1]
        BY <2>2, <3>2
      <4> QED BY <1>0, <4>1 DEF UrgentFirst
    <3> QED BY <3>1, <3>2
  <2> QED BY <2>1, <2>2, <2>3, <2>4 DEF Good, new
<1>2. CASE e.type # "EMERGENCY"
  <2>1. /\ new \in Seq(Entries) /\ Len(new) = Len(list) + 1 /\ new[Len(list) + 1] = e
        /\ \A i \in 1 .. Len(list) : new[i] = list[i]
    <3>1. new = Append(list, e)
      BY <1>2 DEF Link
    <3> HIDE DEF new
    <3> QED BY <1>0, <3>1, AppendProperties
  <2> HIDE DEF new
  <2>2. \A i \in 1 .. Len(new) :
            \/ i = Len(list) + 1 /\ new[i] = e
            \/ i \in 1 .. Len(list) /\ new[i] = list[i]
    BY <1>0, <2>1
  <2>3. Once(new)
    BY <1>0, <2>2 DEF Once
  <2>4. UrgentFirst(new)
    <3> SUFFICES ASSUME NEW i \in 1 .. Len(new), NEW j \in 1 .. Len(new), i < j,
                        new[j].type = "EMERGENCY"
                 PROVE  new[i].type = "EMERGENCY"
      BY DEF UrgentFirst
    <3>1. j \in 1 .. Len(list) /\ new[j] = list[j]
      BY <1>2, <2>2
    <3>2. i \in 1 .. Len(list) /\ new[i] = list[i]
      BY <1>0, <2>1, <3>1
    <3> QED BY <1>0, <3>1, <3>2 DEF UrgentFirst
  <2> QED BY <2>1, <2>2, <2>3, <2>4 DEF Good, Lists, new
<1> QED BY <1>1, <1>2

\* The loop of _event_node_create_init.  Its definition is by recursion over the free
\* list; that a function with that recursion exists is shown for the prefixes of the
\* list, shortest first.
LEMMA TakenOverFacts ==
    ASSUME NEW list \in Lists, Once(list)
    PROVE  Good(TakenOver(list))
<1> DEFINE N == Len(list)
           Body(g, i) == IF i = 0 THEN <<>> ELSE Link(g[i - 1], list[i])
           taken == CHOOSE g : g = [i \in 0 .. N |-> Body(g, i)]
<1>0. N \in Nat /\ \A i \in 1 .. N : list[i] \in Entries
  BY ListBasics
<1>1. \E g : g = [i \in 0 .. N |-> Body(g, i)]
  <2> DEFINE Begun(n) == \E g : g = [i \in 0 .. n |-> Body(g, i)]
             Bad == {n \in 0 .. N : ~Begun(n)}
  <2>1. Bad = {}
    <3> SUFFICES ASSUME Bad # {} PROVE FALSE
      OBVIOUS
    <3>1. PICK n \in Bad : \A m \in Bad : n <= m
      <4>1. Bad \subseteq Nat
        BY <1>0
      <4> HIDE DEF Bad
      <4> QED BY <4>1, LeastElement
    <3>2. n \in 0 .. N /\ n \in Nat
      BY <1>0, <3>1
    <3>3. CASE n = 0
      <4> DEFINE g == [i \in 0 .. 0 |-> <<>>]
      <4>1. g = [i \in 0 .. n |-> Body(g, i)]
        BY <3>3
      <4> QED BY <3>1, <4>1
    <3>4. CASE n > 0
      <4>1. n - 1 \in 0 .. N /\ n - 1 \notin Bad
        BY <1>0, <3>1, <3>2, <3>4
      <4>2. PICK h : h = [i \in 0 .. n - 1 |-> Body(h, i)]
        BY <4>1
      <4> DEFINE g == [i \in 0 .. n |-> Body(h, i)]
      <4>3. \A i \in 0 .. n - 1 : g[i] = h[i]
        <5> SUFFICES ASSUME NEW i \in 0 .. n - 1 PROVE g[i] = h[i]
          OBVIOUS
        <5>1. i \in 0 .. n
          BY <3>2
        <5> HIDE DEF Body
        <5> QED BY <4>2, <5>1
      <4>4. \A i \in 0 .. n : Body(h, i) = Body(g, i)
        <5> SUFFICES ASSUME NEW i \in 0 .. n PROVE Body(h, i) = Body(g, i)
          OBVIOUS
        <5> HIDE DEF g
        <5>1. i = 0 \/ i - 1 \in 0 .. n - 1
          BY <3>2
        <5> QED BY <4>3, <5>1
      <4>5. g = [i \in 0 .. n |-> Body(g, i)]
        <5> HIDE DEF Body
        <5> QED BY <4>4
      <4> HIDE DEF g
      <4>6. Begun(n)
        BY <4>5
      <4> QED BY <3>1, <4>6
    <3> QED BY <3>2, <3>3, <3>4
  <2> HIDE DEF Begun
  <2>2. Begun(N)
    BY <1>0, <2>1
  <2> QED BY <2>2 DEF Begun
<1>2. taken = [i \in 0 .. N |-> Body(taken, i)]
  <2> HIDE DEF Body
  <2> QED BY <1>1
<1>3. TakenOver(list) = taken[N]
  BY DEF TakenOver
<1> HIDE DEF taken
<1>4. taken[0] = <<>> /\ \A i \in 1 .. N : taken[i] = Link(taken[i - 1], list[i])
  BY <1>0, <1>2
<1> HIDE DEF Body
<1> DEFINE Fine(i) == /\ Good(taken[i])
                      /\ \A k \in 1 .. Len(taken[i]) :
                             \E m \in 1 .. i : taken[i][k].sub = list[m].sub
           Wrong == {i \in 0 .. N : ~Fine(i)}
<1>5. Wrong = {}
  <2> SUFFICES ASSUME Wrong # {} PROVE FALSE
    OBVIOUS
  <2>1. PICK i \in Wrong : \A m \in Wrong : i <= m
    <3>1. Wrong \subseteq Nat
      BY <1>0
    <3> HIDE DEF Wrong
    <3> QED BY <3>1, LeastElement
  <2>2. i \in 0 .. N /\ i \in Nat
    BY <1>0, <2>1
  <2>3. CASE i = 0
    <3>1. <<>> \in Seq(Entries) /\ Len(<<>>) = 0
      BY EmptySeq
    <3>2. Good(<<>>)
      BY <3>1 DEF Good, Lists, Once, UrgentFirst
    <3>3. Fine(0)
      BY <1>4, <3>1, <3>2
    <3> QED BY <2>1, <2>3, <3>3
  <2>4. CASE i > 0
    <3>1. i - 1 \in 0 .. N /\ i - 1 \notin Wrong /\ i \in 1 .. N
      BY <1>0, <2>1, <2>2, <2>4
    <3> DEFINE old == taken[i - 1]
               e == list[i]
    <3>2. /\ Good(old)
          /\ \A k \in 1 .. Len(old) : \E m \in 1 .. i - 1 : old[k].sub = list[m].sub
      BY <3>1
    <3>3. taken[i] = Link(old, e) /\ e \in Entries
      BY <1>0, <1>4, <3>1
    <3>4. \A k \in 1 .. Len(old) : old[k].sub # e.sub
      <4> SUFFICES ASSUME NEW k \in 1 .. Len(old), old[k].sub = e.sub PROVE FALSE
        OBVIOUS
      <4>1. PICK m \in 1 .. i - 1 : old[k].sub = list[m].sub
        BY <3>2
      <4>2. m \in 1 .. N /\ m # i
        BY <1>0, <2>2, <3>1
      <4> QED BY <3>1, <4>1, <4>2 DEF Once
    <3> HIDE DEF old, e
    <3>5. /\ Good(taken[i])
          /\ \A k \in 1 .. Len(taken[i]) :
                 taken[i][k] = e \/ \E l \in 1 .. Len(old) : taken[i][k] = old[l]
      BY <3>2, <3>3, <3>4, LinkFacts
    <3>6. ASSUME NEW k \in 1 .. Len(taken[i])
          PROVE  \E m \in 1 .. i : taken[i][k].sub = list[m].sub
      <4>1. CASE taken[i][k] = e
        BY <3>1, <4>1, <2>2 DEF e
      <4>2. CASE \E l \in 1 .. Len(old) : taken[i][k] = old[l]
        <5>1. PICK l \in 1 .. Len(old) : taken[i][k] = old[l]
          BY <4>2
        <5>2. PICK m \in 1 .. i - 1 : old[l].sub = list[m].sub
          BY <3>2
        <5>3. m \in 1 .. i
          BY <2>2
        <5> QED BY <5>1, <5>2, <5>3
      <4> QED BY <3>5, <4>1, <4>2
    <3>7. Fine(i)
      BY <3>5, <3>6
    <3> QED BY <2>1, <3>7
  <2> QED BY <2>2, <2>3, <2>4
<1>6. Fine(N)
  <2> HIDE DEF Fine
  <2> QED BY <1>0, <1>5
<1> QED BY <1>3, <1>6

\* _event_node_del_subscribe: the subscriber is gone, the others stay in their order.
LEMMA WithoutFacts ==
    ASSUME NEW list \in Lists, Once(list), NEW sub
    PROVE  /\ Without(list, sub) \in Lists
           /\ Range(Without(list, sub)) = {e \in Range(list) : e.sub # sub}
           /\ \A i, j \in 1 .. Len(Without(list, sub)) : i < j =>
                  \E m, n \in 1 .. Len(list) :
                      m < n /\ Without(list, sub)[i] = list[m] /\ Without(list, sub)[j] = list[n]
           /\ Once(Without(list, sub))
           /\ UrgentFirst(list) => UrgentFirst(Without(list, sub))
<1>0. /\ Len(list) \in Nat /\ DOMAIN list = 1 .. Len(list) /\ list \in Seq(Entries)
      /\ \A i \in 1 .. Len(list) : list[i] \in Range(list)
  BY ListBasics DEF Lists
<1>1. CASE ~ \E i \in 1 .. Len(list) : list[i].sub = sub
  <2>1. Without(list, sub) = list
    BY <1>1 DEF Without, RemoveFirstMatch
  <2>2. Range(list) = {e \in Range(list) : e.sub # sub}
    BY <1>0, <1>1 DEF Range
  <2>3. \A i, j \in 1 .. Len(list) : i < j =>
            \E m, n \in 1 .. Len(list) : m < n /\ list[i] = list[m] /\ list[j] = list[n]
    OBVIOUS
  <2> QED BY <2>1, <2>2, <2>3
<1>2. CASE \E i \in 1 .. Len(list) : list[i].sub = sub
  <2>1. PICK k \in 1 .. Len(list) : list[k].sub = sub
    BY <1>2
  <2> DEFINE I == {i \in 1 .. Len(list) : list[i].sub = sub}
             new == RemoveAt(list, k)
  <2>2. I = {k} /\ k \in Nat
    BY <1>0, <2>1 DEF Once
  <2>3. SelectInSeq(list, LAMBDA e : e.sub = sub) = Min(I)
    BY <2>2 DEF SelectInSeq
  <2>4. Min({k}) = k
    BY <2>2 DEF Min
  <2>5. Without(list, sub) = new
    BY <2>1, <2>2, <2>3, <2>4 DEF Without, RemoveFirstMatch
  <2>6. IsInjective(list)
    BY <1>0 DEF IsInjective, Once
  <2>7. /\ new \in Seq(Entries) /\ Len(new) = Len(list) - 1
        /\ \A i \in 1 .. Len(list) - 1 : new[i] = IF i < k THEN list[i] ELSE list[i + 1]
        /\ Range(new) = Range(list) \ {list[k]}
    BY <1>0, <2>1, <2>6, RemoveAtProperties, RemoveFromDistinct
  <2> HIDE DEF new, I
  <2>8. Range(new) = {e \in Range(list) : e.sub # sub}
    <3>1. \A e \in Range(list) : e.sub = sub => e = list[k]
      <4> SUFFICES ASSUME NEW i \in 1 .. Len(list), list[i].sub = sub PROVE list[i] = list[k]
        BY <1>0 DEF Range
      <4> QED BY <2>1 DEF Once
    <3> QED BY <2>1, <2>7, <3>1
  <2>9. \A i \in 1 .. Len(new) : \E n \in 1 .. Len(list) :
            new[i] = list[n] /\ n = IF i < k THEN i ELSE i + 1
    BY <1>0, <2>2, <2>7
  <2>10. ASSUME NEW i \in 1 .. Len(new), NEW j \in 1 .. Len(new), i < j
         PROVE  \E m, n \in 1 .. Len(list) : m < n /\ new[i] = list[m] /\ new[j] = list[n]
    <3>1. PICK m \in 1 .. Len(list) : new[i] = list[m] /\ m = IF i < k THEN i ELSE i + 1
      BY <2>9
    <3>2. PICK n \in 1 .. Len(list) : new[j] = list[n] /\ n = IF j < k THEN j ELSE j + 1
      BY <2>9
    <3>3. m < n
      BY <1>0, <2>2, <2>7, <2>10, <3>1, <3>2
    <3> QED BY <3>1, <3>2, <3>3
  <2>11. Once(new)
    <3> SUFFICES ASSUME NEW i \in 1 .. Len(new), NEW j \in 1 .. Len(new),
                        new[i].sub = new[j].sub
                 PROVE  i = j
      BY DEF Once
    <3>1. PICK m \in 1 .. Len(list) : new[i] = list[m] /\ m = IF i < k THEN i ELSE i + 1
      BY <2>9
    <3>2. PICK n \in 1 .. Len(list) : new[j] = list[n] /\ n = IF j < k THEN j ELSE j + 1
      BY <2>9
    <3>3. m = n
      BY <3>1, <3>2 DEF Once
    <3> QED BY <1>0, <2>2, <2>7, <3>1, <3>2, <3>3
  <2>12. UrgentFirst(list) => UrgentFirst(new)
    <3> SUFFICES ASSUME UrgentFirst(list), NEW i \in 1 .. Len(new), NEW j \in 1 .. Len(new), i < j,
                        new[j].type = "EMERGENCY"
                 PROVE  new[i].type = "EMERGENCY"
      BY DEF UrgentFirst
    <3>1. PICK m \in 1 .. Len(list), n \in 1 .. Len(list) :
              m < n /\ new[i] = list[m] /\ new[j] = list[n]
      BY <2>10
    <3> QED BY <3>1 DEF UrgentFirst
  <2>13. new \in Lists
    BY <2>7 DEF Lists
  <2> QED BY <2>5, <2>8, <2>10, <2>11, <2>12, <2>13
<1> QED BY <1>1, <1>2

LEMMA WithoutIs ==
    ASSUME NEW list \in Lists, Once(list), UrgentFirst(list), NEW sub
    PROVE  \E w \in Lists :
               /\ w = Without(list, sub)
               /\ Range(w) = {e \in Range(list) : e.sub # sub}
               /\ \A i, j \in 1 .. Len(w) : i < j =>
                      \E m, n \in 1 .. Len(list) : m < n /\ w[i] = list[m] /\ w[j] = list[n]
               /\ Once(w) /\ UrgentFirst(w)
<1> DEFINE w == Without(list, sub)
<1>1. /\ w \in Lists
      /\ Range(w) = {e \in Range(list) : e.sub # sub}
      /\ \A i, j \in 1 .. Len(w) : i < j =>
             \E m, n \in 1 .. Len(list) : m < n /\ w[i] = list[m] /\ w[j] = list[n]
      /\ Once(w) /\ UrgentFirst(w)
  BY WithoutFacts
<1>2. w = Without(list, sub)
  OBVIOUS
<1> HIDE DEF w
<1> QED BY <1>1, <1>2

\* _event_node_add_subscribe and _event_node_add_free_subscribe
LEMMA AddFacts ==
    ASSUME NEW list, Good(list), NEW e \in Entries
    PROVE  Good(Add(list, e))
<1>1. DOMAIN list = 1 .. Len(list)
  BY ListBasics DEF Good
<1>2. CASE Has(list, e.sub)
  BY <1>2 DEF Add
<1>3. CASE ~Has(list, e.sub)
  <2>1. \A i \in 1 .. Len(list) : list[i].sub # e.sub
    BY <1>1, <1>3 DEF Has
  <2>2. Good(Link(list, e))
    BY <2>1, LinkFacts
  <2> QED BY <1>3, <2>2 DEF Add
<1> QED BY <1>2, <1>3

LEMMA AddFreeFacts ==
    ASSUME NEW list \in Lists, Once(list), NEW e \in Entries
    PROVE  AddFree(list, e) \in Lists /\ Once(AddFree(list, e))
<1>0. Len(list) \in Nat /\ DOMAIN list = 1 .. Len(list) /\ list \in Seq(Entries)
  BY ListBasics DEF Lists
<1>1. CASE Has(list, e.sub)
  BY <1>1 DEF AddFree
<1>2. CASE ~Has(list, e.sub)
  <2> DEFINE new == Append(list, e)
  <2>1. \A i \in 1 .. Len(list) : list[i].sub # e.sub
    BY <1>0, <1>2 DEF Has
  <2>2. /\ new \in Seq(Entries) /\ Len(new) = Len(list) + 1 /\ new[Len(list) + 1] = e
        /\ \A i \in 1 .. Len(list) : new[i] = list[i]
    BY <1>0, AppendProperties
  <2> HIDE DEF new
  <2>3. \A i \in 1 .. Len(new) :
            \/ i = Len(list) + 1 /\ new[i] = e
            \/ i \in 1 .. Len(list) /\ new[i] = list[i]
    BY <1>0, <2>2
  <2>4. Once(new)
    BY <1>0, <2>1, <2>3 DEF Once
  <2>5. AddFree(list, e) = new
    BY <1>2 DEF AddFree, new
  <2> QED BY <2>2, <2>4, <2>5 DEF Lists
<1> QED BY <1>1, <1>2
-----------------------------------------------------------------------------
(* The invariant.                                                          *)

\* A call works on a node that exists.
Nodes ==
    \A a \in Threads :
        /\ call[a].at \in {"lock", "dispatch"} => call[a].node \in 1 .. Len(event_root)
        /\ call[a].at \in {"subscribe", "unsubscribe"} =>
               call[a].node \in 0 .. Len(event_root)

\* A dispatch holds its node's mutex.
Held == \A a \in Threads : call[a].at = "dispatch" => owner[call[a].node] = a

GoodLists ==
    /\ \A n \in 1 .. Len(event_root) : Good(event_root[n])
    /\ free_root \in Lists /\ Once(free_root)

\* A dispatch and the list of its node.
Serving(c, list) ==
    /\ Once(c.all)
    /\ c.called \o c.todo = c.all
    /\ Range(list) = {c.all[i] : i \in StillThere(c)}
    /\ \A i, j \in 1 .. Len(list) : i < j =>
           \E k, l \in StillThere(c) : k < l /\ list[i] = c.all[k] /\ list[j] = c.all[l]

Dispatching ==
    \A a \in Threads : call[a].at = "dispatch" => Serving(call[a], event_root[call[a].node])

\* The inductive invariant.  That a dispatch meets the list it began with needs the mutex,
\* that the mutex keeps the others out needs the node each call works on.
EInv == TypeOK /\ Nodes /\ Held /\ GoodLists /\ Dispatching

DispatchCalls ==
    [at : {"dispatch"}, node : 1 .. MaxNodes, todo : Lists, called : Lists,
     all : Lists, rt : {"OK", "ERR"}]

LEMMA CallTypes ==
    ASSUME NEW c \in Calls
    PROVE  /\ c.at \in {"idle", "create", "lock", "dispatch", "subscribe", "unsubscribe"}
           /\ c.at \in {"create", "lock", "subscribe", "unsubscribe"} => c.node \in 0 .. MaxNodes
           /\ c.at = "dispatch" => c \in DispatchCalls
           /\ c.at = "subscribe" => c.entry \in Entries
           /\ c.at = "unsubscribe" => c.sub \in Subs
           /\ c = Idle => c.at = "idle"
<1>1. CASE c = Idle
  BY <1>1 DEF Idle
<1>2. CASE c \in [at : {"create", "lock"}, node : 0 .. MaxNodes]
  <2>1. c.at \in {"create", "lock"} /\ c.node \in 0 .. MaxNodes
    BY <1>2
  <2> QED BY <2>1 DEF Idle
<1>3. CASE c \in DispatchCalls
  <2>1. c.at = "dispatch"
    BY <1>3 DEF DispatchCalls
  <2> QED BY <1>3, <2>1 DEF Idle
<1>4. CASE c \in [at : {"subscribe"}, node : 0 .. MaxNodes, entry : Entries]
  <2>1. c.at = "subscribe" /\ c.node \in 0 .. MaxNodes /\ c.entry \in Entries
    BY <1>4
  <2> QED BY <2>1 DEF Idle
<1>5. CASE c \in [at : {"unsubscribe"}, node : 0 .. MaxNodes, sub : Subs]
  <2>1. c.at = "unsubscribe" /\ c.node \in 0 .. MaxNodes /\ c.sub \in Subs
    BY <1>5
  <2> QED BY <2>1 DEF Idle
<1> QED BY <1>1, <1>2, <1>3, <1>4, <1>5 DEF Calls, DispatchCalls

LEMMA RootFacts ==
    ASSUME TypeOK
    PROVE  /\ Len(event_root) \in Nat /\ DOMAIN event_root = 1 .. Len(event_root)
           /\ Len(event_root) <= MaxNodes /\ MaxNodes \in Nat
           /\ event_root \in Seq(Lists)
           /\ \A n \in 1 .. Len(event_root) :
                  /\ event_root[n] \in Lists /\ event_root[n] \in Range(event_root)
                  /\ n \in 1 .. MaxNodes
<1>1. event_root \in Seq(Lists) /\ Len(event_root) <= MaxNodes
  BY DEF TypeOK
<1>2. Len(event_root) \in Nat /\ DOMAIN event_root = 1 .. Len(event_root) /\ MaxNodes \in Nat
  BY <1>1, LenProperties, MaxNodesPositive
<1>3. \A n \in 1 .. Len(event_root) : event_root[n] \in Lists
  BY <1>1, ElementOfSeq
<1> QED BY <1>1, <1>2, <1>3 DEF Range

\* The invariant says all the checked properties say.
LEMMA InvConsequences ==
    ASSUME EInv
    PROVE  TypeOK /\ DispatchConsistent /\ EmergencyFirst
<1>0. TypeOK /\ Nodes /\ Held /\ GoodLists /\ Dispatching
  BY DEF EInv
<1>1. DispatchConsistent
  <2> SUFFICES ASSUME NEW a \in Threads, call[a].at = "dispatch"
               PROVE  LET c == call[a]
                          list == event_root[c.node]
                      IN  /\ c.called \o c.todo = c.all
                          /\ Range(list) = {c.all[i] : i \in StillThere(c)}
                          /\ \A i, j \in DOMAIN list : i < j =>
                                 \E k, l \in StillThere(c) :
                                     k < l /\ list[i] = c.all[k] /\ list[j] = c.all[l]
    BY DEF DispatchConsistent
  <2> DEFINE list == event_root[call[a].node]
  <2>1. list \in Lists
    BY <1>0, RootFacts DEF Nodes
  <2>2. DOMAIN list = 1 .. Len(list)
    BY <2>1, ListBasics
  <2>3. Serving(call[a], list)
    BY <1>0 DEF Dispatching
  <2> QED BY <2>2, <2>3 DEF Serving
<1>2. EmergencyFirst
  <2>1. ASSUME NEW n \in DOMAIN event_root PROVE Good(event_root[n])
    BY <1>0, RootFacts DEF GoodLists
  <2>2. ASSUME NEW n \in DOMAIN event_root,
               NEW i \in DOMAIN event_root[n], NEW j \in DOMAIN event_root[n], i < j,
               event_root[n][j].type = "EMERGENCY"
        PROVE  event_root[n][i].type = "EMERGENCY"
    <3>1. Good(event_root[n])
      BY <2>1
    <3>2. DOMAIN event_root[n] = 1 .. Len(event_root[n])
      BY <3>1, ListBasics DEF Good
    <3> QED BY <2>2, <3>1, <3>2 DEF Good, UrgentFirst
  <2>3. ASSUME NEW list \in {free_root} \cup Range(event_root),
               NEW i \in DOMAIN list, NEW j \in DOMAIN list, list[i].sub = list[j].sub
        PROVE  i = j
    <3>1. list \in Lists /\ Once(list)
      BY <1>0, <2>1 DEF Range, GoodLists, Good
    <3>2. DOMAIN list = 1 .. Len(list)
      BY <3>1, ListBasics
    <3> QED BY <2>3, <3>1, <3>2 DEF Once
  <2> QED BY <2>2, <2>3 DEF EmergencyFirst
<1> QED BY <1>0, <1>1, <1>2

LEMMA InitInv == Init => EInv
<1> SUFFICES ASSUME Init PROVE EInv
  OBVIOUS
<1>1. event_root = <<>> /\ free_root = <<>> /\ Len(event_root) = 0
  BY DEF Init
<1>2. \A a \in Threads : call[a] = Idle /\ call[a].at = "idle"
  BY DEF Init, Idle
<1>3. <<>> \in Seq(Lists) /\ <<>> \in Seq(Entries) /\ Len(<<>>) = 0
  BY EmptySeq
<1>4. TypeOK
  BY <1>1, <1>3, MaxNodesPositive DEF Init, TypeOK, Calls, Lists
<1>5. GoodLists
  BY <1>1, <1>3 DEF GoodLists, Once, Lists
<1>6. Nodes /\ Held /\ Dispatching
  BY <1>2 DEF Nodes, Held, Dispatching
<1> QED BY <1>4, <1>5, <1>6 DEF EInv
-----------------------------------------------------------------------------
(* One step per action.                                                    *)

\* A call is entered, or goes on, without touching the nodes.
LEMMA CallChange ==
    ASSUME EInv, NEW a \in Threads, NEW c \in Calls, c.at # "dispatch",
           call' = [call EXCEPT ![a] = c], UNCHANGED event_root,
           c.at = "lock" => c.node \in 1 .. Len(event_root),
           c.at \in {"subscribe", "unsubscribe"} => c.node \in 0 .. Len(event_root),
           free_root' \in Lists, Once(free_root'),
           \/ UNCHANGED owner
           \/ call[a].at = "dispatch" /\ owner' = [owner EXCEPT ![call[a].node] = Nobody]
    PROVE  EInv'
<1>0. TypeOK /\ Nodes /\ Held /\ GoodLists /\ Dispatching
  BY DEF EInv
<1>1. call'[a] = c /\ \A b \in Threads \ {a} : call'[b] = call[b]
  BY <1>0 DEF TypeOK
<1>2. TypeOK'
  <2>1. call' \in [Threads -> Calls]
    BY <1>0 DEF TypeOK
  <2>2. owner' \in [1 .. MaxNodes -> Threads \cup {Nobody}]
    BY <1>0 DEF TypeOK
  <2> QED BY <1>0, <2>1, <2>2 DEF TypeOK
<1>3. Nodes'
  BY <1>0, <1>1 DEF Nodes
<1>4. Held'
  <2> SUFFICES ASSUME NEW b \in Threads, call'[b].at = "dispatch"
               PROVE  owner'[call'[b].node] = b
    BY DEF Held
  <2>1. b # a /\ call'[b] = call[b]
    BY <1>1
  <2>2. owner[call[b].node] = b
    BY <1>0, <2>1 DEF Held
  <2>3. call[b].node \in 1 .. MaxNodes
    BY <1>0, <2>1, RootFacts DEF Nodes
  <2>4. call[a].at = "dispatch" => call[b].node # call[a].node
    BY <1>0, <2>1, <2>2 DEF Held
  <2> QED BY <1>0, <2>1, <2>2, <2>3, <2>4 DEF TypeOK
<1>5. GoodLists'
  BY <1>0 DEF GoodLists
<1>6. Dispatching'
  BY <1>0, <1>1 DEF Dispatching
<1> QED BY <1>2, <1>3, <1>4, <1>5, <1>6 DEF EInv

\* A subscription or its end, at a node whose mutex is free.
LEMMA NodeChange ==
    ASSUME EInv, NEW a \in Threads, NEW n \in 1 .. Len(event_root), owner[n] = Nobody,
           NEW list, Good(list), event_root' = [event_root EXCEPT ![n] = list],
           call' = [call EXCEPT ![a] = Idle], UNCHANGED <<free_root, owner>>
    PROVE  EInv'
<1>0. TypeOK /\ Nodes /\ Held /\ GoodLists /\ Dispatching
  BY DEF EInv
<1>1. call'[a] = Idle /\ Idle.at = "idle" /\ \A b \in Threads \ {a} : call'[b] = call[b]
  BY <1>0 DEF TypeOK, Idle
<1>2. /\ event_root' \in Seq(Lists) /\ Len(event_root') = Len(event_root)
      /\ \A m \in 1 .. Len(event_root) : event_root'[m] = IF m = n THEN list ELSE event_root[m]
  <2>1. event_root \in Seq(Lists) /\ list \in Lists
    BY <1>0 DEF TypeOK, Good
  <2> QED BY <2>1, ExceptSeq
<1>3. TypeOK'
  <2>1. call' \in [Threads -> Calls]
    BY <1>0 DEF TypeOK, Calls
  <2> QED BY <1>0, <1>2, <2>1 DEF TypeOK
<1>4. Nodes' /\ Held'
  BY <1>0, <1>1, <1>2 DEF Nodes, Held
<1>5. GoodLists'
  BY <1>0, <1>2 DEF GoodLists
<1>6. Dispatching'
  <2> SUFFICES ASSUME NEW b \in Threads, call'[b].at = "dispatch"
               PROVE  Serving(call'[b], event_root'[call'[b].node])
    BY DEF Dispatching
  <2>1. call'[b] = call[b]
    BY <1>1
  <2>2. call[b].node \in 1 .. Len(event_root) /\ call[b].node # n
    BY <1>0, <2>1, NobodyIsNoThread DEF Nodes, Held
  <2>3. event_root'[call[b].node] = event_root[call[b].node]
    BY <1>2, <2>2
  <2> QED BY <1>0, <2>1, <2>3 DEF Dispatching
<1> QED BY <1>3, <1>4, <1>5, <1>6 DEF EInv

LEMMA LookupFacts ==
    ASSUME EInv
    PROVE  /\ Found \in 0 .. Len(event_root) /\ Found \in 0 .. MaxNodes
           /\ Found # 0 => Found \in 1 .. Len(event_root)
<1>1. TypeOK
  BY DEF EInv
<1>2. Len(event_root) \in Nat /\ Len(event_root) <= MaxNodes /\ MaxNodes \in Nat
  BY <1>1, RootFacts
<1>3. event_root # <<>> => Len(event_root) > 0
  BY <1>1, <1>2, EmptySeq DEF TypeOK
<1> QED BY <1>2, <1>3 DEF Found

LEMMA EnterSteps ==
    ASSUME EInv, NEW a \in Threads,
           \/ Publish(a)
           \/ \E entry \in Entries : Subscribe(a, entry)
           \/ \E sub \in Subs : Unsubscribe(a, sub)
    PROVE  EInv'
<1>0. free_root \in Lists /\ Once(free_root)
  BY DEF EInv, GoodLists
<1>1. ASSUME NEW c \in Calls, c.at # "dispatch", Enter(a, c),
             c.at = "lock" => c.node \in 1 .. Len(event_root),
             c.at \in {"subscribe", "unsubscribe"} => c.node \in 0 .. Len(event_root)
      PROVE  EInv'
  <2>1. /\ call' = [call EXCEPT ![a] = c] /\ UNCHANGED event_root /\ UNCHANGED owner
        /\ free_root' = free_root
    BY <1>1 DEF Enter
  <2> QED BY <1>0, <1>1, <2>1, CallChange
<1>2. CASE Publish(a)
  <2> DEFINE c == [at |-> IF Found = 0 THEN "create" ELSE "lock", node |-> Found]
  <2>1. Enter(a, c)
    BY <1>2 DEF Publish
  <2>2. /\ c.at = IF Found = 0 THEN "create" ELSE "lock"
        /\ c.node = Found
        /\ c \in [at : {"create", "lock"}, node : 0 .. MaxNodes]
    BY LookupFacts
  <2> HIDE DEF c
  <2>3. c \in Calls /\ c.at \in {"create", "lock"}
    BY <2>2 DEF Calls
  <2>4. c.at = "lock" => c.node \in 1 .. Len(event_root)
    BY <2>2, LookupFacts
  <2>5. c.at \notin {"dispatch", "subscribe", "unsubscribe"}
    BY <2>3
  <2> QED BY <1>1, <2>1, <2>3, <2>4, <2>5
<1>3. ASSUME NEW entry \in Entries, Subscribe(a, entry) PROVE EInv'
  <2> DEFINE c == [at |-> "subscribe", node |-> Found, entry |-> entry]
  <2>1. Enter(a, c)
    BY <1>3 DEF Subscribe
  <2>2. /\ c.at = "subscribe" /\ c.node = Found
        /\ c \in [at : {"subscribe"}, node : 0 .. MaxNodes, entry : Entries]
    BY LookupFacts
  <2> HIDE DEF c
  <2>3. c \in Calls
    BY <2>2 DEF Calls
  <2>4. c.node \in 0 .. Len(event_root)
    BY <2>2, LookupFacts
  <2> QED BY <1>1, <2>1, <2>2, <2>3, <2>4
<1>4. ASSUME NEW sub \in Subs, Unsubscribe(a, sub) PROVE EInv'
  <2> DEFINE c == [at |-> "unsubscribe", node |-> Found, sub |-> sub]
  <2>1. Enter(a, c)
    BY <1>4 DEF Unsubscribe
  <2>2. /\ c.at = "unsubscribe" /\ c.node = Found
        /\ c \in [at : {"unsubscribe"}, node : 0 .. MaxNodes, sub : Subs]
    BY LookupFacts
  <2> HIDE DEF c
  <2>3. c \in Calls
    BY <2>2 DEF Calls
  <2>4. c.node \in 0 .. Len(event_root)
    BY <2>2, LookupFacts
  <2> QED BY <1>1, <2>1, <2>2, <2>3, <2>4
<1> QED BY <1>2, <1>3, <1>4

LEMMA CreateNodeStep ==
    ASSUME EInv, NEW a \in Threads, CreateNode(a)
    PROVE  EInv'
<1>0. TypeOK /\ Nodes /\ Held /\ GoodLists /\ Dispatching
  BY DEF EInv
<1> DEFINE N == Len(event_root)
           c == [at |-> "lock", node |-> N + 1]
           new == TakenOver(free_root)
<1>1. /\ N < MaxNodes /\ event_root' = Append(event_root, new) /\ free_root' = <<>>
      /\ call' = [call EXCEPT ![a] = c] /\ owner' = owner
  BY DEF CreateNode
<1>2. Good(new)
  BY <1>0, TakenOverFacts DEF GoodLists
<1>3. N \in Nat /\ MaxNodes \in Nat
  BY <1>0, RootFacts
<1>4. c.at = "lock" /\ c.node = N + 1 /\ c \in Calls
  <2>1. N + 1 \in 0 .. MaxNodes
    BY <1>1, <1>3
  <2> HIDE DEF N
  <2> QED BY <2>1 DEF Calls
<1> HIDE DEF c, new
<1>5. /\ event_root' \in Seq(Lists) /\ Len(event_root') = N + 1
      /\ event_root'[N + 1] = new
      /\ \A n \in 1 .. N : event_root'[n] = event_root[n]
  <2>1. event_root \in Seq(Lists) /\ new \in Lists
    BY <1>0, <1>2 DEF TypeOK, Good
  <2> QED BY <1>1, <2>1, AppendProperties
<1>6. call'[a] = c /\ \A b \in Threads \ {a} : call'[b] = call[b]
  BY <1>0, <1>1 DEF TypeOK
<1> HIDE DEF N
<1>7. \A b \in Threads \ {a} :
          /\ call[b].at \in {"lock", "dispatch"} =>
                 call[b].node \in 1 .. N /\ call[b].node \in 1 .. N + 1
          /\ call[b].at \in {"subscribe", "unsubscribe"} => call[b].node \in 0 .. N + 1
  BY <1>0, <1>3 DEF Nodes, N
<1>8. TypeOK'
  <2>1. call' \in [Threads -> Calls]
    BY <1>0, <1>1, <1>4 DEF TypeOK
  <2>2. <<>> \in Lists
    BY EmptySeq DEF Lists
  <2>3. N + 1 <= MaxNodes
    BY <1>1, <1>3
  <2> QED BY <1>0, <1>1, <1>5, <2>1, <2>2, <2>3 DEF TypeOK
<1>9. Nodes' /\ Held'
  <2>1. N + 1 \in 1 .. N + 1
    BY <1>3
  <2>2. Nodes'
    BY <1>4, <1>5, <1>6, <1>7, <2>1 DEF Nodes
  <2>3. Held'
    BY <1>0, <1>1, <1>4, <1>6 DEF Held
  <2> QED BY <2>2, <2>3
<1>10. GoodLists'
  <2>1. \A n \in 1 .. N + 1 : n \in 1 .. N \/ n = N + 1
    BY <1>3
  <2>2. \A n \in 1 .. N : Good(event_root[n])
    BY <1>0 DEF GoodLists, N
  <2>3. <<>> \in Lists /\ Once(<<>>)
    BY EmptySeq DEF Lists, Once
  <2> QED BY <1>1, <1>2, <1>5, <2>1, <2>2, <2>3 DEF GoodLists
<1>11. Dispatching'
  <2> SUFFICES ASSUME NEW b \in Threads, call'[b].at = "dispatch"
               PROVE  Serving(call'[b], event_root'[call'[b].node])
    BY DEF Dispatching
  <2>1. b # a /\ call'[b] = call[b]
    BY <1>4, <1>6
  <2>2. event_root'[call[b].node] = event_root[call[b].node]
    BY <1>5, <1>7, <2>1
  <2> QED BY <1>0, <2>1, <2>2 DEF Dispatching
<1> QED BY <1>8, <1>9, <1>10, <1>11 DEF EInv

LEMMA LockNodeStep ==
    ASSUME EInv, NEW a \in Threads, LockNode(a)
    PROVE  EInv'
<1>0. TypeOK /\ Nodes /\ Held /\ GoodLists /\ Dispatching
  BY DEF EInv
<1> DEFINE n == call[a].node
           list == event_root[n]
           c == [at |-> "dispatch", node |-> n, todo |-> list, called |-> <<>>,
                 all |-> list, rt |-> "OK"]
<1>1. /\ call[a].at = "lock" /\ owner[n] = Nobody /\ owner' = [owner EXCEPT ![n] = a]
      /\ call' = [call EXCEPT ![a] = c] /\ event_root' = event_root /\ free_root' = free_root
  BY DEF LockNode
<1>2. n \in 1 .. Len(event_root) /\ n \in 1 .. MaxNodes /\ list \in Lists /\ Good(list)
  <2>1. n \in 1 .. Len(event_root)
    BY <1>0, <1>1 DEF Nodes
  <2> QED BY <1>0, <2>1, RootFacts DEF GoodLists
<1> HIDE DEF n, list
<1>3. /\ c.at = "dispatch" /\ c.node = n /\ c.todo = list /\ c.called = <<>> /\ c.all = list
      /\ c \in DispatchCalls
  <2>1. <<>> \in Lists
    BY EmptySeq DEF Lists
  <2> QED BY <1>2, <2>1 DEF DispatchCalls
<1> HIDE DEF c
<1>4. call'[a] = c /\ \A b \in Threads \ {a} : call'[b] = call[b]
  BY <1>0, <1>1 DEF TypeOK
<1>5. TypeOK'
  <2>1. call' \in [Threads -> Calls]
    BY <1>0, <1>1, <1>3 DEF TypeOK, Calls, DispatchCalls
  <2>2. owner' \in [1 .. MaxNodes -> Threads \cup {Nobody}]
    BY <1>0, <1>1 DEF TypeOK
  <2> QED BY <1>0, <1>1, <2>1, <2>2 DEF TypeOK
<1>6. Nodes'
  BY <1>0, <1>1, <1>2, <1>3, <1>4 DEF Nodes
<1>7. Held'
  <2> SUFFICES ASSUME NEW b \in Threads, call'[b].at = "dispatch"
               PROVE  owner'[call'[b].node] = b
    BY DEF Held
  <2>1. CASE b = a
    BY <1>0, <1>1, <1>2, <1>3, <1>4, <2>1 DEF TypeOK
  <2>2. CASE b # a
    <3>1. call'[b] = call[b]
      BY <1>4, <2>2
    <3>2. owner[call[b].node] = b /\ call[b].node # n
      BY <1>0, <1>1, <3>1, NobodyIsNoThread DEF Held
    <3>3. call[b].node \in 1 .. MaxNodes
      BY <1>0, <3>1, RootFacts DEF Nodes
    <3> QED BY <1>0, <1>1, <3>1, <3>2, <3>3 DEF TypeOK
  <2> QED BY <2>1, <2>2
<1>8. GoodLists'
  BY <1>0, <1>1 DEF GoodLists
<1>9. Serving(c, list)
  <2>1. list \in Seq(Entries) /\ Len(list) \in Nat /\ DOMAIN list = 1 .. Len(list)
    BY <1>2, ListBasics DEF Lists
  <2>2. <<>> \o list = list
    BY <2>1, ConcatEmptySeq
  <2>3. StillThere(c) = 1 .. Len(list)
    <3>1. Len(<<>>) = 0
      OBVIOUS
    <3> QED BY <1>3, <2>1, <3>1 DEF StillThere
  <2>4. Range(list) = {list[i] : i \in 1 .. Len(list)}
    BY <2>1 DEF Range
  <2> QED BY <1>2, <1>3, <2>2, <2>3, <2>4 DEF Serving, Good
<1>10. Dispatching'
  BY <1>0, <1>1, <1>3, <1>4, <1>9 DEF Dispatching, list
<1> QED BY <1>5, <1>6, <1>7, <1>8, <1>10 DEF EInv

\* One turn of the loop takes the first entry from what is to do to what is done.
LEMMA MoveOne ==
    ASSUME NEW s \in Lists, NEW t \in Lists, t # <<>>
    PROVE  /\ Head(t) \in Entries /\ Tail(t) \in Lists /\ Append(s, Head(t)) \in Lists
           /\ Len(Append(s, Head(t))) = Len(s) + 1
           /\ Append(s, Head(t)) \o Tail(t) = s \o t
           /\ Len(s) + 1 \in DOMAIN (s \o t) /\ (s \o t)[Len(s) + 1] = Head(t)
<1> DEFINE h == Head(t)
           r == Tail(t)
           u == Append(s, h)
<1>1. s \in Seq(Entries) /\ t \in Seq(Entries) /\ Len(s) \in Nat /\ Len(t) \in Nat
  BY ListBasics DEF Lists
<1>2. /\ h \in Entries /\ r \in Seq(Entries) /\ Len(r) = Len(t) - 1
      /\ \A i \in 1 .. Len(r) : r[i] = t[i + 1]
  BY <1>1, HeadTailProperties
<1>3. Len(t) > 0 /\ h = t[1]
  BY <1>1, EmptySeq
<1> HIDE DEF h, r
<1>4. /\ u \in Seq(Entries) /\ Len(u) = Len(s) + 1 /\ u[Len(s) + 1] = h
      /\ \A i \in 1 .. Len(s) : u[i] = s[i]
  BY <1>1, <1>2, AppendProperties
<1> HIDE DEF u
<1>5. /\ u \o r \in Seq(Entries) /\ Len(u \o r) = Len(u) + Len(r)
      /\ \A i \in 1 .. Len(u) + Len(r) :
             (u \o r)[i] = IF i <= Len(u) THEN u[i] ELSE r[i - Len(u)]
  BY <1>2, <1>4, ConcatProperties
<1>6. /\ s \o t \in Seq(Entries) /\ Len(s \o t) = Len(s) + Len(t)
      /\ \A i \in 1 .. Len(s) + Len(t) :
             (s \o t)[i] = IF i <= Len(s) THEN s[i] ELSE t[i - Len(s)]
  BY <1>1, ConcatProperties
<1>7. Len(u \o r) = Len(s \o t) /\ Len(u) + Len(r) = Len(s) + Len(t)
  BY <1>1, <1>2, <1>4, <1>5, <1>6
<1>8. ASSUME NEW i \in 1 .. Len(s) + Len(t) PROVE (u \o r)[i] = (s \o t)[i]
  <2>1. CASE i <= Len(s)
    <3>1. i \in 1 .. Len(s) /\ i <= Len(u)
      BY <1>1, <1>4, <2>1
    <3>2. (u \o r)[i] = u[i] /\ (s \o t)[i] = s[i]
      BY <1>5, <1>6, <1>7, <2>1, <3>1
    <3> QED BY <1>4, <3>1, <3>2
  <2>2. CASE i = Len(s) + 1
    <3>1. i <= Len(u) /\ ~(i <= Len(s)) /\ i - Len(s) = 1
      BY <1>1, <1>4, <2>2
    <3>2. (u \o r)[i] = u[i] /\ (s \o t)[i] = t[i - Len(s)]
      BY <1>5, <1>6, <1>7, <3>1
    <3> QED BY <1>3, <1>4, <2>2, <3>1, <3>2
  <2>3. CASE i > Len(s) + 1
    <3>1. /\ ~(i <= Len(u)) /\ ~(i <= Len(s)) /\ i - Len(u) \in 1 .. Len(r)
          /\ (i - Len(u)) + 1 = i - Len(s)
      BY <1>1, <1>2, <1>4, <2>3
    <3>2. (u \o r)[i] = r[i - Len(u)] /\ (s \o t)[i] = t[i - Len(s)]
      BY <1>5, <1>6, <1>7, <3>1
    <3> QED BY <1>2, <3>1, <3>2
  <2>4. i <= Len(s) \/ i = Len(s) + 1 \/ i > Len(s) + 1
    BY <1>1
  <2> QED BY <2>1, <2>2, <2>3, <2>4
<1>9. u \o r = s \o t
  <2> DEFINE x == u \o r
             y == s \o t
  <2>1. x \in Seq(Entries) /\ y \in Seq(Entries) /\ Len(x) = Len(y)
        /\ \A i \in 1 .. Len(x) : x[i] = y[i]
    BY <1>5, <1>6, <1>7, <1>8
  <2> HIDE DEF x, y
  <2>2. x = y
    BY <2>1, SeqEqual
  <2> QED BY <2>2 DEF x, y
<1>10. Len(s) + 1 \in DOMAIN (s \o t) /\ (s \o t)[Len(s) + 1] = h
  <2>1. DOMAIN (s \o t) = 1 .. Len(s) + Len(t)
    BY <1>6, LenProperties
  <2>2. Len(s) + 1 \in 1 .. Len(s) + Len(t) /\ ~(Len(s) + 1 <= Len(s))
        /\ (Len(s) + 1) - Len(s) = 1
    BY <1>1, <1>3
  <2> QED BY <1>3, <1>6, <2>1, <2>2
<1> QED BY <1>2, <1>4, <1>9, <1>10 DEF h, r, u, Lists

\* The list after the entry was called: a one-time entry has left it.
LEMMA ServeOne ==
    ASSUME NEW c \in DispatchCalls, NEW d \in DispatchCalls, NEW list, Good(list),
           Serving(c, list), c.todo # <<>>,
           d.todo = Tail(c.todo), d.called = Append(c.called, Head(c.todo)), d.all = c.all,
           NEW new,
           new = IF Head(c.todo).type = "ONETIME" THEN Without(list, Head(c.todo).sub) ELSE list
    PROVE  Good(new) /\ Serving(d, new)
<1> DEFINE e == Head(c.todo)
           p == Len(c.called) + 1
<1>0. /\ c.todo \in Lists /\ c.called \in Lists /\ c.all \in Lists
      /\ c.called \o c.todo = c.all /\ Once(c.all)
  BY DEF DispatchCalls, Serving
<1>1. /\ Len(d.called) = p /\ d.called \o d.todo = c.all
      /\ p \in DOMAIN c.all /\ c.all[p] = e
  BY <1>0, MoveOne
<1>2. /\ DOMAIN c.all = 1 .. Len(c.all) /\ Len(c.all) \in Nat
      /\ p \in Nat /\ Len(c.called) \in Nat /\ Len(c.called) < p
  BY <1>0, ListBasics
<1> HIDE DEF e, p
<1>3. ASSUME NEW i \in DOMAIN c.all, i # p
      PROVE  i \in StillThere(d) <=> i \in StillThere(c)
  <2>1. i > p <=> i > Len(c.called)
    BY <1>2, <1>3 DEF p
  <2> QED BY <1>1, <2>1 DEF StillThere
<1>4. p \in StillThere(c)
  BY <1>1, <1>2 DEF StillThere
<1>5. p \in StillThere(d) <=> e.type # "ONETIME"
  BY <1>1, <1>2 DEF StillThere
<1>6. StillThere(c) \subseteq DOMAIN c.all /\ StillThere(d) \subseteq DOMAIN c.all
  BY DEF StillThere
<1>7. CASE e.type # "ONETIME"
  <2>1. StillThere(d) = StillThere(c)
    <3>1. \A i \in DOMAIN c.all : i \in StillThere(d) <=> i \in StillThere(c)
      <4> TAKE i \in DOMAIN c.all
      <4>1. CASE i = p
        BY <1>4, <1>5, <1>7, <4>1
      <4>2. CASE i # p
        BY <1>3, <4>2
      <4> QED BY <4>1, <4>2
    <3> QED BY <1>6, <3>1
  <2>2. new = list
    BY <1>7 DEF e
  <2>3. Serving(d, list)
    <3>1. Range(list) = {d.all[i] : i \in StillThere(d)}
      BY <2>1 DEF Serving
    <3>2. \A i, j \in 1 .. Len(list) : i < j =>
              \E k, l \in StillThere(d) : k < l /\ list[i] = d.all[k] /\ list[j] = d.all[l]
      BY <2>1 DEF Serving
    <3>3. Once(d.all) /\ d.called \o d.todo = d.all
      BY <1>0, <1>1
    <3> QED BY <3>1, <3>2, <3>3 DEF Serving
  <2> QED BY <2>2, <2>3
<1>8. CASE e.type = "ONETIME"
  <2>1. StillThere(d) = StillThere(c) \ {p}
    BY <1>3, <1>4, <1>5, <1>6, <1>8
  <2>2. new = Without(list, e.sub)
    BY <1>8 DEF e
  <2>3. list \in Lists /\ Once(list) /\ UrgentFirst(list)
    BY DEF Good
  <2>4. /\ new \in Lists /\ Range(new) = {x \in Range(list) : x.sub # e.sub}
        /\ \A i, j \in 1 .. Len(new) : i < j =>
               \E m, n \in 1 .. Len(list) : m < n /\ new[i] = list[m] /\ new[j] = list[n]
        /\ Once(new) /\ UrgentFirst(new)
    <3>1. PICK w \in Lists :
              /\ w = Without(list, e.sub)
              /\ Range(w) = {x \in Range(list) : x.sub # e.sub}
              /\ \A i, j \in 1 .. Len(w) : i < j =>
                     \E m, n \in 1 .. Len(list) : m < n /\ w[i] = list[m] /\ w[j] = list[n]
              /\ Once(w) /\ UrgentFirst(w)
      BY <2>3, WithoutIs
    <3>2. new = w
      BY <2>2, <3>1
    <3>3. new \in Lists /\ Range(new) = {x \in Range(list) : x.sub # e.sub}
      BY <3>1, <3>2
    <3>4. ASSUME NEW i \in 1 .. Len(new), NEW j \in 1 .. Len(new), i < j
          PROVE  \E m, n \in 1 .. Len(list) : m < n /\ new[i] = list[m] /\ new[j] = list[n]
      <4>1. i \in 1 .. Len(w) /\ j \in 1 .. Len(w) /\ new[i] = w[i] /\ new[j] = w[j]
        BY <3>2
      <4>2. PICK m \in 1 .. Len(list), n \in 1 .. Len(list) :
                m < n /\ w[i] = list[m] /\ w[j] = list[n]
        BY <3>1, <3>4, <4>1
      <4> QED BY <4>1, <4>2
    <3>5. Once(new) /\ UrgentFirst(new)
      BY <3>1, <3>2
    <3> QED BY <3>3, <3>4, <3>5
  <2>5. \A i \in DOMAIN c.all : c.all[i].sub = e.sub <=> i = p
    BY <1>0, <1>1, <1>2 DEF Once
  <2>6. Range(new) = {c.all[i] : i \in StillThere(d)}
    <3>1. Range(list) = {c.all[i] : i \in StillThere(c)}
      BY DEF Serving
    <3> QED BY <1>6, <2>1, <2>4, <2>5, <3>1
  <2>7. ASSUME NEW i \in 1 .. Len(new), NEW j \in 1 .. Len(new), i < j
        PROVE  \E k, l \in StillThere(d) : k < l /\ new[i] = c.all[k] /\ new[j] = c.all[l]
    <3>1. PICK m \in 1 .. Len(list), n \in 1 .. Len(list) :
              m < n /\ new[i] = list[m] /\ new[j] = list[n]
      BY <2>4, <2>7
    <3>2. PICK k \in StillThere(c), l \in StillThere(c) :
              k < l /\ list[m] = c.all[k] /\ list[n] = c.all[l]
      BY <3>1 DEF Serving
    <3>3. new[i].sub # e.sub /\ new[j].sub # e.sub
      <4>1. new[i] \in Range(new) /\ new[j] \in Range(new)
        BY <2>4, ListBasics
      <4> QED BY <2>4, <4>1
    <3>4. k # p /\ l # p
      BY <1>6, <2>5, <3>1, <3>2, <3>3
    <3> QED BY <2>1, <3>1, <3>2, <3>4
  <2>8. Serving(d, new)
    <3>1. Range(new) = {d.all[i] : i \in StillThere(d)}
      BY <2>6
    <3>2. \A i, j \in 1 .. Len(new) : i < j =>
              \E k, l \in StillThere(d) : k < l /\ new[i] = d.all[k] /\ new[j] = d.all[l]
      BY <2>7
    <3>3. Once(d.all) /\ d.called \o d.todo = d.all
      BY <1>0, <1>1
    <3> QED BY <3>1, <3>2, <3>3 DEF Serving
  <2> QED BY <2>4, <2>8 DEF Good
<1> QED BY <1>7, <1>8

LEMMA CallSubscriberStep ==
    ASSUME EInv, NEW a \in Threads, NEW result \in {"OK", "ERR"}, CallSubscriber(a, result)
    PROVE  EInv'
<1>0. TypeOK /\ Nodes /\ Held /\ GoodLists /\ Dispatching
  BY DEF EInv
<1> DEFINE c == call[a]
           d == call'[a]
           n == c.node
           entry == Head(c.todo)
           list == event_root[n]
           new == IF entry.type = "ONETIME" THEN Without(list, entry.sub) ELSE list
<1>1. c.at = "dispatch" /\ c \in DispatchCalls /\ c.todo # <<>>
  <2>1. c.at = "dispatch" /\ c \in Calls /\ c.todo # <<>>
    BY <1>0 DEF CallSubscriber, TypeOK
  <2> QED BY <2>1, CallTypes
<1>2. /\ call' = [call EXCEPT ![a].todo = Tail(@), ![a].called = Append(@, entry),
                              ![a].rt = result]
      /\ event_root' = IF entry.type = "ONETIME"
                       THEN [event_root EXCEPT ![n] = Without(@, entry.sub)] ELSE event_root
      /\ free_root' = free_root /\ owner' = owner
  BY DEF CallSubscriber
<1>3. /\ d.at = "dispatch" /\ d.node = n /\ d.todo = Tail(c.todo)
      /\ d.called = Append(c.called, entry) /\ d.all = c.all /\ d.rt = result
      /\ d = [at |-> "dispatch", node |-> n, todo |-> Tail(c.todo),
              called |-> Append(c.called, entry), all |-> c.all, rt |-> result]
      /\ \A b \in Threads \ {a} : call'[b] = call[b]
      /\ call' = [call EXCEPT ![a] = d]
  BY <1>0, <1>1, <1>2 DEF TypeOK, DispatchCalls
<1>4. /\ c.todo \in Lists /\ c.called \in Lists /\ c.all \in Lists /\ n \in 1 .. MaxNodes
  BY <1>1 DEF DispatchCalls
<1>5. d \in DispatchCalls
  <2>1. Tail(c.todo) \in Lists /\ Append(c.called, entry) \in Lists
    BY <1>1, <1>4, MoveOne
  <2> QED BY <1>3, <1>4, <2>1 DEF DispatchCalls
<1>6. n \in 1 .. Len(event_root) /\ Good(list) /\ Serving(c, list) /\ list \in Lists
  BY <1>0, <1>1, RootFacts DEF Nodes, GoodLists, Dispatching
<1>7. Good(new) /\ Serving(d, new)
  <2>1. /\ new = IF Head(c.todo).type = "ONETIME" THEN Without(list, Head(c.todo).sub)
                                                  ELSE list
        /\ d.called = Append(c.called, Head(c.todo))
    BY <1>3
  <2> HIDE DEF c, d, list, new
  <2> QED BY <1>1, <1>3, <1>5, <1>6, <2>1, ServeOne
<1> HIDE DEF c, d, n, entry, list, new
<1>8. /\ event_root' \in Seq(Lists) /\ Len(event_root') = Len(event_root)
      /\ \A m \in 1 .. Len(event_root) : event_root'[m] = IF m = n THEN new ELSE event_root[m]
  <2>1. event_root \in Seq(Lists) /\ new \in Lists
    BY <1>0, <1>7 DEF TypeOK, Good
  <2>2. CASE entry.type = "ONETIME"
    <3>1. event_root' = [event_root EXCEPT ![n] = new]
      BY <1>2, <2>2 DEF new, list
    <3> QED BY <1>6, <2>1, <3>1, ExceptSeq
  <2>3. CASE entry.type # "ONETIME"
    BY <1>2, <2>1, <2>3 DEF new, list
  <2> QED BY <2>2, <2>3
<1>9. TypeOK'
  <2>1. call' \in [Threads -> Calls]
    BY <1>0, <1>3, <1>5 DEF TypeOK, Calls, DispatchCalls
  <2> QED BY <1>0, <1>2, <1>8, <2>1 DEF TypeOK
<1>10. Nodes' /\ Held'
  <2>1. call'[a].at = "dispatch" /\ call'[a].node = call[a].node /\ call[a].at = "dispatch"
    BY <1>1, <1>3 DEF c, d, n
  <2>2. Nodes'
    BY <1>0, <1>3, <1>8, <2>1 DEF Nodes
  <2>3. Held'
    <3> SUFFICES ASSUME NEW b \in Threads, call'[b].at = "dispatch"
                 PROVE  owner'[call'[b].node] = b
      BY DEF Held
    <3>1. call'[b].node = call[b].node /\ call[b].at = "dispatch"
      BY <1>3, <2>1
    <3>2. owner[call[b].node] = b /\ owner' = owner
      BY <1>0, <1>2, <3>1 DEF Held
    <3> QED BY <3>1, <3>2
  <2> QED BY <2>2, <2>3
<1>11. GoodLists'
  BY <1>0, <1>2, <1>7, <1>8 DEF GoodLists
<1>12. Dispatching'
  <2> SUFFICES ASSUME NEW b \in Threads, call'[b].at = "dispatch"
               PROVE  Serving(call'[b], event_root'[call'[b].node])
    BY DEF Dispatching
  <2>1. CASE b = a
    BY <1>3, <1>6, <1>7, <1>8, <2>1 DEF d
  <2>2. CASE b # a
    <3>1. call'[b] = call[b]
      BY <1>3, <2>2
    <3>2. call[b].node \in 1 .. Len(event_root) /\ call[b].node # n
      BY <1>0, <1>1, <2>2, <3>1 DEF Nodes, Held, c, n
    <3>3. event_root'[call[b].node] = event_root[call[b].node]
      BY <1>8, <3>2
    <3> QED BY <1>0, <3>1, <3>3 DEF Dispatching
  <2> QED BY <2>1, <2>2
<1> QED BY <1>9, <1>10, <1>11, <1>12 DEF EInv

LEMMA IdleIs == Idle \in Calls /\ Idle.at = "idle"
BY DEF Calls, Idle

LEMMA EndDispatchStep ==
    ASSUME EInv, NEW a \in Threads, EndDispatch(a)
    PROVE  EInv'
<1>1. /\ call' = [call EXCEPT ![a] = Idle] /\ UNCHANGED event_root /\ free_root' = free_root
      /\ call[a].at = "dispatch" /\ owner' = [owner EXCEPT ![call[a].node] = Nobody]
  BY DEF EndDispatch
<1>2. free_root' \in Lists /\ Once(free_root')
  BY <1>1 DEF EInv, GoodLists
<1> QED BY <1>1, <1>2, IdleIs, CallChange

LEMMA FreeListSteps ==
    ASSUME EInv, NEW a \in Threads, SubscribeFree(a) \/ UnsubscribeFree(a)
    PROVE  EInv'
<1>0. free_root \in Lists /\ Once(free_root) /\ call[a] \in Calls
  BY DEF EInv, GoodLists, TypeOK
<1>1. call' = [call EXCEPT ![a] = Idle] /\ UNCHANGED event_root /\ UNCHANGED owner
  BY DEF SubscribeFree, UnsubscribeFree
<1>2. free_root' \in Lists /\ Once(free_root')
  <2>1. CASE SubscribeFree(a)
    <3>1. call[a].entry \in Entries
      BY <1>0, <2>1, CallTypes DEF SubscribeFree
    <3>2. free_root' = AddFree(free_root, call[a].entry)
      BY <2>1 DEF SubscribeFree
    <3> QED BY <1>0, <3>1, <3>2, AddFreeFacts
  <2>2. CASE UnsubscribeFree(a)
    <3>1. free_root' = Without(free_root, call[a].sub)
      BY <2>2 DEF UnsubscribeFree
    <3> QED BY <1>0, <3>1, WithoutFacts
  <2> QED BY <2>1, <2>2
<1> QED BY <1>1, <1>2, IdleIs, CallChange

LEMMA NodeSteps ==
    ASSUME EInv, NEW a \in Threads, SubscribeNode(a) \/ UnsubscribeNode(a)
    PROVE  EInv'
<1>0. TypeOK /\ Nodes /\ GoodLists /\ call[a] \in Calls
  BY DEF EInv, TypeOK
<1> DEFINE n == call[a].node
<1>1. /\ call' = [call EXCEPT ![a] = Idle] /\ UNCHANGED <<free_root, owner>>
      /\ call[a].at \in {"subscribe", "unsubscribe"} /\ n # 0 /\ owner[n] = Nobody
  BY DEF SubscribeNode, UnsubscribeNode
<1>2. n \in 1 .. Len(event_root)
  <2>1. n \in 0 .. Len(event_root) /\ Len(event_root) \in Nat
    BY <1>0, <1>1, RootFacts DEF Nodes
  <2> QED BY <1>1, <2>1
<1>3. Good(event_root[n])
  BY <1>0, <1>2 DEF GoodLists
<1>4. n \in DOMAIN event_root
  BY <1>0, <1>2, RootFacts
<1>5. CASE SubscribeNode(a)
  <2> DEFINE list == Add(event_root[n], call[a].entry)
  <2>1. call[a].entry \in Entries
    BY <1>0, <1>5, CallTypes DEF SubscribeNode
  <2>2. Good(list)
    BY <1>3, <2>1, AddFacts
  <2>3. event_root' = [event_root EXCEPT ![n] = list]
    BY <1>5 DEF SubscribeNode
  <2> HIDE DEF list, n
  <2> QED BY <1>1, <1>2, <2>2, <2>3, NodeChange
<1>6. CASE UnsubscribeNode(a)
  <2> DEFINE list == Without(event_root[n], call[a].sub)
  <2>1. Good(list)
    BY <1>3, WithoutFacts DEF Good
  <2>2. event_root' = [event_root EXCEPT ![n] = list]
    BY <1>6 DEF UnsubscribeNode
  <2> HIDE DEF list, n
  <2> QED BY <1>1, <1>2, <2>1, <2>2, NodeChange
<1> QED BY <1>5, <1>6

LEMMA NextInv == EInv /\ [Next]_vars => EInv'
<1> SUFFICES ASSUME EInv, [Next]_vars PROVE EInv'
  OBVIOUS
<1>1. ASSUME NEW a \in Threads,
             \/ Publish(a)
             \/ \E entry \in Entries : Subscribe(a, entry)
             \/ \E sub \in Subs : Unsubscribe(a, sub)
             \/ GoOn(a)
      PROVE  EInv'
  <2>1. CASE GoOn(a)
    BY <2>1, CreateNodeStep, LockNodeStep, CallSubscriberStep, EndDispatchStep,
       FreeListSteps, NodeSteps DEF GoOn
  <2> QED BY <1>1, <2>1, EnterSteps
<1>2. CASE UNCHANGED vars
  <2>1. TypeOK /\ Nodes /\ Held /\ GoodLists /\ Dispatching
    BY DEF EInv
  <2>2. event_root' = event_root /\ free_root' = free_root /\ owner' = owner /\ call' = call
    BY <1>2 DEF vars
  <2> QED BY <2>1, <2>2 DEF EInv, TypeOK, Nodes, Held, GoodLists, Dispatching
<1> QED BY <1>1, <1>2 DEF Next

LEMMA EventsInductive == Spec => []EInv
BY InitInv, NextInv, PTL DEF Spec

\* What the nodes, the free list, the mutexes and the calls hold is what their types say:
\* no call works on a node that is not there, and the result of a dispatch is one.
THEOREM EventsTypeCorrect == Spec => []TypeOK
BY EventsInductive, InvConsequences, PTL

\* With any number of threads that publish, subscribe and unsubscribe at any time, a
\* dispatch calls exactly the subscribers its node had when it began, and the node's list
\* changes under it only by the one-time subscriptions it removes itself.
THEOREM DispatchesConsistent == Spec => []DispatchConsistent
BY EventsInductive, InvConsequences, PTL

\* Emergency subscriptions stand in front in every node, also those a node takes over
\* from the free list, and no list holds a subscriber twice.
THEOREM EmergencyServedFirst == Spec => []EmergencyFirst
BY EventsInductive, InvConsequences, PTL
=============================================================================
