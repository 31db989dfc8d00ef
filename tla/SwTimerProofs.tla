--------------------------- MODULE SwTimerProofs ----------------------------
(***************************************************************************)
(* Proofs about the software timers (SwTimer), for any number of timers    *)
(* and of threads that use them, and about the delayed work built on them  *)
(* (DelayedWork), which uses the timers as their specification says.       *)
(***************************************************************************)
EXTENDS DelayedWork, ListFacts, FiniteSetTheorems

(***************************************************************************)
(* The ordered list.                                                       *)
(***************************************************************************)
Sorted(list, rec) ==
    \A i, j \in 1 .. Len(list) : i < j => rec[list[i]].expire_time <= rec[list[j]].expire_time

\* __timer_attach finds the place of a timer and keeps the others in order, also when the
\* timer was in the list already, with another expiry.
LEMMA AttachFacts ==
    ASSUME NEW list \in Seq(Timers), IsInjective(list), NEW t \in Timers,
           NEW rec \in [Timers -> Records],
           \A i, j \in 1 .. Len(list) : i < j /\ list[i] # t /\ list[j] # t =>
               rec[list[i]].expire_time <= rec[list[j]].expire_time
    PROVE  /\ Attach(list, t, rec) \in Seq(Timers)
           /\ IsInjective(Attach(list, t, rec))
           /\ Range(Attach(list, t, rec)) = Range(list) \cup {t}
           /\ Len(Attach(list, t, rec)) = IF t \in Range(list) THEN Len(list) ELSE Len(list) + 1
           /\ Sorted(Attach(list, t, rec), rec)
<1> DEFINE rest == RemoveFirst(list, t)
           e(u) == rec[u].expire_time
           Place(i) == /\ \A j \in 1 .. i - 1 : e(rest[j]) < e(t)
                       /\ i <= Len(rest) => e(rest[i]) >= e(t)
           pos == CHOOSE i \in 1 .. Len(rest) + 1 : Place(i)
           new == InsertAt(rest, pos, t)
<1>0. \A u \in Timers : e(u) \in Nat
  BY DEF Records
<1>1. /\ rest \in Seq(Timers) /\ IsInjective(rest) /\ Range(rest) = Range(list) \ {t}
      /\ Len(rest) = IF t \in Range(list) THEN Len(list) - 1 ELSE Len(list)
      /\ \A i, j \in 1 .. Len(rest) : i < j =>
             \E m, n \in 1 .. Len(list) : m < n /\ rest[i] = list[m] /\ rest[j] = list[n]
  BY RemoveFirstProperties
<1>2. Attach(list, t, rec) = new
  BY DEF Attach
<1> HIDE DEF rest
<1>3. /\ Len(rest) \in Nat /\ Len(list) \in Nat /\ DOMAIN rest = 1 .. Len(rest)
      /\ \A i \in 1 .. Len(rest) : rest[i] \in Timers /\ rest[i] # t
  <2>1. \A i \in 1 .. Len(rest) : rest[i] \in Range(rest) /\ rest[i] \in Timers
    BY <1>1, LenProperties, ElementOfSeq DEF Range
  <2> QED BY <1>1, <2>1, LenProperties
<1>4. \A i, j \in 1 .. Len(rest) : i < j => e(rest[i]) <= e(rest[j])
  <2> SUFFICES ASSUME NEW i \in 1 .. Len(rest), NEW j \in 1 .. Len(rest), i < j
               PROVE  e(rest[i]) <= e(rest[j])
    OBVIOUS
  <2>1. PICK m \in 1 .. Len(list), n \in 1 .. Len(list) :
            m < n /\ rest[i] = list[m] /\ rest[j] = list[n]
    BY <1>1
  <2> QED BY <1>3, <2>1
<1>5. \E i \in 1 .. Len(rest) + 1 : Place(i)
  <2> DEFINE I == {i \in 1 .. Len(rest) : e(rest[i]) >= e(t)}
  <2>1. CASE I = {}
    <3>1. \A j \in 1 .. Len(rest) : e(rest[j]) < e(t)
      BY <1>0, <1>3, <2>1
    <3>2. Len(rest) + 1 \in 1 .. Len(rest) + 1 /\ (Len(rest) + 1) - 1 = Len(rest)
          /\ ~ (Len(rest) + 1 <= Len(rest))
      BY <1>3
    <3>3. Place(Len(rest) + 1)
      BY <3>1, <3>2
    <3> HIDE DEF Place
    <3> QED BY <3>2, <3>3
  <2>2. CASE I # {}
    <3>0. I \subseteq Nat
      BY <1>3
    <3>1. PICK i \in I : \A j \in I : i <= j
      <4> HIDE DEF I
      <4> QED BY <3>0, <2>2, LeastElement
    <3>2. i \in 1 .. Len(rest) + 1 /\ e(rest[i]) >= e(t)
      BY <1>3, <3>1
    <3>3. ASSUME NEW j \in 1 .. i - 1 PROVE e(rest[j]) < e(t)
      <4>1. j \in 1 .. Len(rest) /\ j \notin I
        BY <1>3, <3>1
      <4> QED BY <1>0, <1>3, <4>1
    <3>4. Place(i)
      BY <3>2, <3>3
    <3> HIDE DEF Place
    <3> QED BY <3>2, <3>4
  <2> QED BY <2>1, <2>2
<1>6. pos \in 1 .. Len(rest) + 1 /\ Place(pos)
  <2> HIDE DEF Place
  <2> QED BY <1>5
<1> HIDE DEF pos
<1>7. /\ new \in Seq(Timers) /\ Len(new) = Len(rest) + 1
      /\ \A i \in 1 .. Len(rest) + 1 :
             new[i] = IF i < pos THEN rest[i] ELSE IF i = pos THEN t ELSE rest[i - 1]
      /\ Range(new) = Range(rest) \cup {t} /\ IsInjective(new)
  <2>1. t \notin Range(rest) /\ pos \in 1 .. Len(rest) + 1
    BY <1>1, <1>6
  <2> HIDE DEF Place
  <2>2. /\ new \in Seq(Timers) /\ Len(new) = Len(rest) + 1
        /\ \A i \in 1 .. Len(rest) + 1 :
               new[i] = IF i < pos THEN rest[i] ELSE IF i = pos THEN t ELSE rest[i - 1]
    BY <1>1, <2>1, InsertAtProperties
  <2>3. Range(new) = Range(rest) \cup {t} /\ IsInjective(new)
    BY <1>1, <2>1, InsertIntoDistinct
  <2> QED BY <2>2, <2>3
<1> HIDE DEF new
<1>8. Sorted(new, rec)
  <2> SUFFICES ASSUME NEW i \in 1 .. Len(rest) + 1, NEW j \in 1 .. Len(rest) + 1, i < j
               PROVE  e(new[i]) <= e(new[j])
    BY <1>7 DEF Sorted
  <2>1. i \in Nat /\ j \in Nat /\ pos \in Nat
    BY <1>3, <1>6
  <2>2. CASE j < pos
    <3>1. /\ i \in 1 .. Len(rest) /\ j \in 1 .. Len(rest)
          /\ new[i] = rest[i] /\ new[j] = rest[j]
      BY <1>3, <1>6, <1>7, <2>1, <2>2
    <3> QED BY <1>4, <3>1
  <2>3. CASE j = pos
    <3>1. i \in 1 .. pos - 1 /\ new[i] = rest[i] /\ new[j] = t
      BY <1>7, <2>1, <2>3
    <3> QED BY <1>0, <1>3, <1>6, <2>1, <3>1
  <2>4. CASE j > pos
    <3>1. j - 1 \in 1 .. Len(rest) /\ new[j] = rest[j - 1]
      BY <1>3, <1>7, <2>1, <2>4
    <3>2. CASE i < pos
      <4>1. new[i] = rest[i] /\ i \in 1 .. Len(rest) /\ i < j - 1
        BY <1>3, <1>6, <1>7, <2>1, <2>4, <3>2
      <4> QED BY <1>4, <3>1, <4>1
    <3>3. CASE i = pos
      <4>1. new[i] = t /\ pos \in 1 .. Len(rest) /\ pos <= j - 1
        BY <1>3, <1>6, <1>7, <2>1, <2>4, <3>3
      <4>2. e(rest[pos]) >= e(t)
        BY <1>6, <4>1
      <4>3. pos < j - 1 => e(rest[pos]) <= e(rest[j - 1])
        BY <1>4, <3>1, <4>1
      <4>4. pos = j - 1 \/ pos < j - 1
        BY <2>1, <4>1
      <4>5. e(rest[pos]) \in Nat /\ e(rest[j - 1]) \in Nat /\ e(t) \in Nat
        BY <1>0, <1>3, <3>1, <4>1
      <4> QED BY <3>1, <4>1, <4>2, <4>3, <4>4, <4>5
    <3>4. CASE i > pos
      <4>1. new[i] = rest[i - 1] /\ i - 1 \in 1 .. Len(rest) /\ i - 1 < j - 1
        BY <1>3, <1>6, <1>7, <2>1, <2>4, <3>4
      <4> QED BY <1>4, <3>1, <4>1
    <3> QED BY <2>1, <3>2, <3>3, <3>4
  <2> QED BY <2>1, <2>2, <2>3, <2>4
<1>9. Range(new) = Range(list) \cup {t}
  BY <1>1, <1>7
<1>10. Len(new) = IF t \in Range(list) THEN Len(list) ELSE Len(list) + 1
  BY <1>1, <1>3, <1>7
<1> QED BY <1>2, <1>7, <1>8, <1>9, <1>10

\* Unlinking a timer leaves the others in order.
LEMMA UnlinkFirst ==
    ASSUME NEW list \in Seq(Timers), IsInjective(list), NEW t
    PROVE  \E rest \in Seq(Timers) :
               /\ rest = RemoveFirst(list, t)
               /\ IsInjective(rest) /\ Range(rest) = Range(list) \ {t}
               /\ Len(rest) = IF t \in Range(list) THEN Len(list) - 1 ELSE Len(list)
               /\ \A i, j \in 1 .. Len(rest) : i < j =>
                     \E m, n \in 1 .. Len(list) :
                         m < n /\ rest[i] = list[m] /\ rest[j] = list[n]
<1> DEFINE s == RemoveFirst(list, t)
<1>1. /\ s \in Seq(Timers) /\ IsInjective(s) /\ Range(s) = Range(list) \ {t}
      /\ Len(s) = IF t \in Range(list) THEN Len(list) - 1 ELSE Len(list)
      /\ \A i, j \in 1 .. Len(s) : i < j =>
             \E m, n \in 1 .. Len(list) : m < n /\ s[i] = list[m] /\ s[j] = list[n]
  BY RemoveFirstProperties
<1>2. s = RemoveFirst(list, t)
  OBVIOUS
<1> HIDE DEF s
<1> QED BY <1>1, <1>2

LEMMA UnlinkFacts ==
    ASSUME NEW list \in Seq(Timers), IsInjective(list), NEW rec, Sorted(list, rec),
           NEW t, NEW rest, rest = RemoveFirst(list, t)
    PROVE  /\ rest \in Seq(Timers) /\ IsInjective(rest) /\ Range(rest) = Range(list) \ {t}
           /\ Len(rest) \in Nat /\ DOMAIN rest = 1 .. Len(rest)
           /\ t \in Range(list) => Len(rest) = Len(list) - 1
           /\ t \notin Range(list) => Len(rest) = Len(list)
           /\ Sorted(rest, rec)
           /\ \A i \in 1 .. Len(rest) : rest[i] \in Timers /\ rest[i] # t
<1>1. /\ rest \in Seq(Timers) /\ IsInjective(rest) /\ Range(rest) = Range(list) \ {t}
      /\ Len(rest) = IF t \in Range(list) THEN Len(list) - 1 ELSE Len(list)
      /\ \A i, j \in 1 .. Len(rest) : i < j =>
             \E m, n \in 1 .. Len(list) : m < n /\ rest[i] = list[m] /\ rest[j] = list[n]
  <2>1. PICK s \in Seq(Timers) :
            /\ s = RemoveFirst(list, t)
            /\ IsInjective(s) /\ Range(s) = Range(list) \ {t}
            /\ Len(s) = IF t \in Range(list) THEN Len(list) - 1 ELSE Len(list)
            /\ \A i, j \in 1 .. Len(s) : i < j =>
                  \E m, n \in 1 .. Len(list) : m < n /\ s[i] = list[m] /\ s[j] = list[n]
    BY UnlinkFirst
  <2>2. rest = s
    BY <2>1
  <2> QED BY <2>1, <2>2
<1>2. Len(rest) \in Nat /\ DOMAIN rest = 1 .. Len(rest)
  BY <1>1, LenProperties
<1>3. \A i \in 1 .. Len(rest) : rest[i] \in Range(rest) /\ rest[i] \in Timers
  BY <1>1, <1>2, ElementOfSeq DEF Range
<1>4. ASSUME NEW i \in 1 .. Len(rest), NEW j \in 1 .. Len(rest), i < j
      PROVE  rec[rest[i]].expire_time <= rec[rest[j]].expire_time
  <2>1. PICK m \in 1 .. Len(list), n \in 1 .. Len(list) :
            m < n /\ rest[i] = list[m] /\ rest[j] = list[n]
    BY <1>1, <1>4
  <2> QED BY <2>1 DEF Sorted
<1>5. Sorted(rest, rec)
  BY <1>4 DEF Sorted
<1> QED BY <1>1, <1>2, <1>3, <1>5

\* Putting a timer first, as tal_sw_timer_trigger does.
LEMMA PutFirst ==
    ASSUME NEW list \in Seq(Timers), NEW t \in Timers
    PROVE  <<t>> \o list = InsertAt(list, 1, t)
<1>1. SubSeq(list, 1, 0) = <<>>
  BY SubSeqEmpty
<1>2. SubSeq(list, 1, Len(list)) = list
  BY SubSeqFull
<1>3. <<t>> \in Seq(Timers) /\ <<>> \o <<t>> = <<t>>
  BY ConcatEmptySeq
<1>4. 1 - 1 = 0
  OBVIOUS
<1> QED BY <1>1, <1>2, <1>3, <1>4 DEF InsertAt

LEMMA FirstOfList ==
    ASSUME NEW list \in Seq(Timers), NEW t \in Timers
    PROVE  /\ <<t>> \o list \in Seq(Timers) /\ Len(<<t>> \o list) = Len(list) + 1
           /\ (<<t>> \o list)[1] = t
           /\ \A i \in 1 .. Len(list) + 1 : i > 1 => (<<t>> \o list)[i] = list[i - 1]
<1> DEFINE s == <<t>>
<1>1. s \in Seq(Timers) /\ Len(s) = 1 /\ s[1] = t /\ Len(list) \in Nat
  BY LenProperties
<1> HIDE DEF s
<1>2. /\ s \o list \in Seq(Timers) /\ Len(s \o list) = Len(s) + Len(list)
      /\ \A i \in 1 .. Len(s) + Len(list) :
             (s \o list)[i] = IF i <= Len(s) THEN s[i] ELSE list[i - Len(s)]
  BY <1>1, ConcatProperties
<1>3. (s \o list)[1] = t
  BY <1>1, <1>2
<1>4. ASSUME NEW i \in 1 .. Len(list) + 1, i > 1 PROVE (s \o list)[i] = list[i - 1]
  BY <1>1, <1>2, <1>4
<1> QED BY <1>1, <1>2, <1>3, <1>4 DEF s
-----------------------------------------------------------------------------
(* The calls in progress.                                                  *)

\* The record a call will free.
Frees(c) == IF c.at \in {"post", "free"} THEN c.frees ELSE {}

\* Only allocated records wait to be freed, each in one call, and a timer that is being
\* started is not among them.
Calling ==
    /\ BeingDeleted \subseteq live
    /\ \A a \in Actors : call[a].at = "start" => call[a].t \in live \ BeingDeleted
    /\ \A a, b \in Actors : a # b => Frees(call[a]) \cap Frees(call[b]) = {}

LEMMA BeingDeletedIs == BeingDeleted = UNION {Frees(call[a]) : a \in Actors}
BY DEF BeingDeleted, Frees

LEMMA CallTypes ==
    ASSUME NEW c \in Calls
    PROVE  /\ c.at \in {"idle", "start", "post", "free"}
           /\ c.at = "start" => /\ c.t \in Timers /\ c.time_ms \in Nat
                                /\ c.type \in Types /\ c.read \in Nat
           /\ c.at \in {"post", "free"} => c.frees \subseteq Timers
           /\ c = Idle => c.at = "idle" /\ Frees(c) = {}
           /\ c.at = "start" => Frees(c) = {}
<1>1. CASE c = Idle
  BY <1>1 DEF Idle, Frees
<1>2. CASE c \in [at : {"start"}, t : Timers, time_ms : Times, type : Types, read : Nat]
  <2>1. c.at = "start" /\ c.time_ms \in Nat
    BY <1>2, TimesNatural
  <2> QED BY <1>2, <2>1 DEF Idle, Frees
<1>3. CASE c \in [at : {"post", "free"}, frees : SUBSET Timers]
  <2>1. c.at \in {"post", "free"} /\ c.frees \subseteq Timers
    BY <1>3
  <2>2. Idle.at = "idle"
    BY DEF Idle
  <2> QED BY <2>1, <2>2
<1> QED BY <1>1, <1>2, <1>3 DEF Calls

\* How an actor's next call changes what waits to be freed.
LEMMA CallStep ==
    ASSUME TypeOK, Calling, NEW a \in Actors, NEW c, call' = [call EXCEPT ![a] = c]
    PROVE  /\ BeingDeleted' = (BeingDeleted \ Frees(call[a])) \cup Frees(c)
           /\ call'[a] = c
           /\ \A b \in Actors \ {a} : call'[b] = call[b]
<1>1. call'[a] = c /\ \A b \in Actors \ {a} : call'[b] = call[b]
  BY DEF TypeOK
<1>2. BeingDeleted' = UNION {Frees(call'[b]) : b \in Actors}
  BY DEF BeingDeleted, Frees
<1>3. ASSUME NEW b \in Actors \ {a} PROVE Frees(call'[b]) \cap Frees(call[a]) = {}
  BY <1>1 DEF Calling
<1>4. ASSUME NEW t
      PROVE  t \in BeingDeleted' <=> t \in (BeingDeleted \ Frees(call[a])) \cup Frees(c)
  <2>1. t \in BeingDeleted' <=> \E b \in Actors : t \in Frees(call'[b])
    BY <1>2
  <2>2. t \in BeingDeleted <=> \E b \in Actors : t \in Frees(call[b])
    BY BeingDeletedIs
  <2>3. (\E b \in Actors : t \in Frees(call'[b]))
            <=> t \in Frees(c) \/ \E b \in Actors \ {a} : t \in Frees(call[b])
    BY <1>1
  <2>4. (\E b \in Actors \ {a} : t \in Frees(call[b])) <=> t \in BeingDeleted \ Frees(call[a])
    BY <1>1, <1>3, <2>2
  <2> QED BY <2>1, <2>3, <2>4
<1> QED BY <1>1, <1>4
-----------------------------------------------------------------------------
(* The invariant.                                                          *)

\* Every timer that is not being deleted is in one list, once, the one its flag names.
Linked ==
    /\ IsInjective(list_active)
    /\ Range(list_active) \cap list_standby = {}
    /\ Range(list_active) \cup list_standby = live \ BeingDeleted
    /\ \A t \in Range(list_active) : timer[t].is_running
    /\ \A t \in list_standby : ~timer[t].is_running
    /\ running_cnt = Len(list_active)
    /\ total_cnt = Len(list_active) + Cardinality(list_standby)

\* The inductive invariant.  The counters stay natural numbers only because they agree
\* with the lists, and the lists only because nothing is started that is being deleted.
TInv == TypeOK /\ Calling /\ Linked /\ ActiveSorted /\ NoOversleep

\* The list's entries, by position.
LEMMA ActiveFacts ==
    ASSUME TypeOK
    PROVE  /\ list_active \in Seq(Timers) /\ Len(list_active) \in Nat
           /\ DOMAIN list_active = 1 .. Len(list_active)
           /\ Range(list_active) \subseteq Timers
           /\ \A i \in 1 .. Len(list_active) : list_active[i] \in Range(list_active)
           /\ ActiveSorted <=> Sorted(list_active, timer)
           /\ IsFiniteSet(list_standby) /\ Cardinality(list_standby) \in Nat
           /\ Actors # {} /\ Thr \in Actors
<1>1. list_active \in Seq(Timers) /\ DOMAIN list_active = 1 .. Len(list_active)
  BY LenProperties DEF TypeOK
<1>2. IsFiniteSet(list_standby) /\ Cardinality(list_standby) \in Nat
  BY TimersFinite, FS_Subset, FS_CardinalityType DEF TypeOK
<1>3. \A i \in 1 .. Len(list_active) : list_active[i] \in Timers
  BY <1>1, ElementOfSeq
<1> QED BY <1>1, <1>2, <1>3, LenProperties DEF Range, ActiveSorted, Sorted, Actors

\* ListsPartition follows: positions are counted one by one.
LEMMA LinkedPartition ==
    ASSUME TypeOK, Linked
    PROVE  ListsPartition
<1>0. /\ DOMAIN list_active = 1 .. Len(list_active)
      /\ \A i \in 1 .. Len(list_active) : list_active[i] \in Range(list_active)
  BY ActiveFacts
<1>1. ASSUME NEW t \in live \ BeingDeleted
      PROVE  /\ t \in list_standby <=> ~timer[t].is_running
             /\ Cardinality({i \in DOMAIN list_active : list_active[i] = t})
                  = (IF timer[t].is_running THEN 1 ELSE 0)
  <2> DEFINE I == {i \in DOMAIN list_active : list_active[i] = t}
  <2>1. CASE t \in Range(list_active)
    <3>1. PICK k \in DOMAIN list_active : list_active[k] = t
      BY <2>1 DEF Range
    <3>2. I = {k}
      BY <3>1 DEF Linked, IsInjective
    <3>3. Cardinality(I) = 1
      <4> HIDE DEF I
      <4> QED BY <3>2, FS_Singleton
    <3> QED BY <2>1, <3>3 DEF Linked
  <2>2. CASE t \in list_standby
    <3>1. I = {}
      BY <1>0, <2>2 DEF Linked
    <3>2. Cardinality(I) = 0
      <4> HIDE DEF I
      <4> QED BY <3>1, FS_EmptySet
    <3> QED BY <2>2, <3>2 DEF Linked
  <2> QED BY <2>1, <2>2 DEF Linked
<1> QED BY <1>1 DEF ListsPartition, Linked

LEMMA InitInv == Init => TInv
<1> SUFFICES ASSUME Init PROVE TInv
  OBVIOUS
<1>1. /\ list_active = <<>> /\ Len(list_active) = 0 /\ DOMAIN list_active = {}
      /\ Range(list_active) = {}
      /\ live = {} /\ list_standby = {} /\ Cardinality(list_standby) = 0
  BY FS_EmptySet DEF Init, Range
<1>2. \A a \in Actors : call[a] = Idle /\ call[a].at = "idle" /\ Frees(call[a]) = {}
  BY DEF Init, Idle, Frees
<1>3. TypeOK
  BY <1>1 DEF Init, TypeOK, Calls, Cleared, Records, Types
<1>4. BeingDeleted = {}
  BY <1>2, BeingDeletedIs
<1>5. Calling
  BY <1>1, <1>2, <1>4 DEF Calling
<1>6. Linked
  BY <1>1, <1>4 DEF Init, Linked, IsInjective
<1>7. ActiveSorted /\ NoOversleep
  BY <1>1 DEF ActiveSorted, NoOversleep
<1> QED BY <1>3, <1>5, <1>6, <1>7 DEF TInv
-----------------------------------------------------------------------------
(* What the steps do to the lists.                                         *)

ListTypes ==
    /\ live \subseteq Timers
    /\ list_active \in Seq(Timers)
    /\ list_standby \subseteq Timers
    /\ timer \in [Timers -> Records]
    /\ total_cnt \in Nat /\ running_cnt \in Nat

LEMMA ListsUnchanged ==
    ASSUME TInv, UNCHANGED lists, BeingDeleted' = BeingDeleted
    PROVE  ListTypes' /\ Linked' /\ ActiveSorted'
<1>1. /\ list_active' = list_active /\ list_standby' = list_standby /\ live' = live
      /\ timer' = timer /\ total_cnt' = total_cnt /\ running_cnt' = running_cnt
  BY DEF lists
<1>2. TypeOK /\ Linked /\ ActiveSorted
  BY DEF TInv
<1> QED BY <1>1, <1>2 DEF ListTypes, TypeOK, Linked, ActiveSorted

\* tal_sw_timer_create: the idle list gets the new record.
LEMMA CreateLists ==
    ASSUME TInv, NEW t \in Timers \ live, BeingDeleted' = BeingDeleted,
           live' = live \cup {t}, timer' = [timer EXCEPT ![t] = Cleared],
           list_standby' = list_standby \cup {t}, total_cnt' = total_cnt + 1,
           UNCHANGED <<list_active, running_cnt>>
    PROVE  ListTypes' /\ Linked' /\ ActiveSorted'
<1>0. TypeOK /\ Calling /\ Linked /\ ActiveSorted
  BY DEF TInv
<1>1. /\ Cleared \in Records /\ ~Cleared.is_running
  BY DEF Cleared, Records, Types
<1>2. /\ t \notin list_standby /\ t \notin Range(list_active) /\ t \notin BeingDeleted
      /\ Range(list_active)' = Range(list_active)
  BY <1>0 DEF Linked, Calling
<1>3. /\ Cardinality(list_standby \cup {t}) = Cardinality(list_standby) + 1
      /\ Cardinality(list_standby) \in Nat /\ Len(list_active) \in Nat
      /\ \A i \in 1 .. Len(list_active) : list_active[i] \in Range(list_active)
      /\ DOMAIN list_active = 1 .. Len(list_active)
  BY <1>0, <1>2, ActiveFacts, FS_AddElement
<1>4. \A u \in Timers \ {t} : timer'[u] = timer[u]
  BY <1>0 DEF TypeOK
<1>5. ListTypes'
  BY <1>0, <1>1 DEF ListTypes, TypeOK
<1>6. Linked'
  <2>1. timer'[t] = Cleared
    BY <1>0 DEF TypeOK
  <2>2. \A u \in Range(list_active) \cup list_standby : u \in Timers \ {t}
    BY <1>0, <1>2, ActiveFacts DEF TypeOK
  <2>3. IsInjective(list_active)' /\ running_cnt' = Len(list_active')
    BY <1>0 DEF Linked
  <2>4. total_cnt' = Len(list_active') + Cardinality(list_standby')
    BY <1>0, <1>3 DEF Linked
  <2> QED BY <1>0, <1>1, <1>2, <1>4, <2>1, <2>2, <2>3, <2>4 DEF Linked
<1>7. ActiveSorted'
  <2>1. \A i \in DOMAIN list_active : timer'[list_active[i]] = timer[list_active[i]]
    BY <1>0, <1>2, <1>3, <1>4, ActiveFacts
  <2> QED BY <1>0, <2>1 DEF ActiveSorted
<1> QED BY <1>5, <1>6, <1>7

\* A timer that is in a list is armed, or armed anew, and attached.
LEMMA AttachLists ==
    ASSUME TInv, NEW t \in live \ BeingDeleted, BeingDeleted' = BeingDeleted,
           NEW r \in Records, r.is_running,
           timer' = [timer EXCEPT ![t] = r],
           list_active' = Attach(list_active, t, timer'),
           list_standby' = list_standby \ {t},
           running_cnt' = IF timer[t].is_running THEN running_cnt ELSE running_cnt + 1,
           UNCHANGED <<live, total_cnt>>
    PROVE  ListTypes' /\ Linked' /\ ActiveSorted'
<1>0. TypeOK /\ Calling /\ Linked /\ ActiveSorted
  BY DEF TInv
<1>1. /\ list_active \in Seq(Timers) /\ Len(list_active) \in Nat
      /\ DOMAIN list_active = 1 .. Len(list_active)
      /\ IsInjective(list_active) /\ Sorted(list_active, timer)
      /\ \A i \in 1 .. Len(list_active) : list_active[i] \in Timers
      /\ Cardinality(list_standby) \in Nat /\ IsFiniteSet(list_standby)
      /\ Range(list_active) \subseteq Timers
  BY <1>0, ActiveFacts DEF Linked
<1>2. /\ t \in Timers /\ timer' \in [Timers -> Records] /\ timer'[t] = r
      /\ \A u \in Timers \ {t} : timer'[u] = timer[u]
  BY <1>0 DEF TypeOK
<1>3. \A i, j \in 1 .. Len(list_active) :
          i < j /\ list_active[i] # t /\ list_active[j] # t =>
              timer'[list_active[i]].expire_time <= timer'[list_active[j]].expire_time
  BY <1>1, <1>2 DEF Sorted
<1> DEFINE new == Attach(list_active, t, timer')
<1>4. /\ new \in Seq(Timers) /\ IsInjective(new) /\ Range(new) = Range(list_active) \cup {t}
      /\ Len(new) = IF t \in Range(list_active) THEN Len(list_active) ELSE Len(list_active) + 1
      /\ Sorted(new, timer')
  <2>1. /\ list_active \in Seq(Timers) /\ IsInjective(list_active) /\ t \in Timers
        /\ timer' \in [Timers -> Records]
    BY <1>1, <1>2
  <2> QED BY <2>1, <1>3, AttachFacts
<1> HIDE DEF new
<1>5. list_active' = new
  BY DEF new
<1>6. t \in Range(list_active) <=> timer[t].is_running
  BY <1>0 DEF Linked
<1>7. /\ running_cnt' = Len(new) /\ Len(new) \in Nat
      /\ total_cnt = Len(new) + Cardinality(list_standby \ {t})
  <2>1. CASE t \in Range(list_active)
    <3>1. list_standby \ {t} = list_standby
      BY <1>0, <2>1 DEF Linked
    <3> QED BY <1>0, <1>1, <1>4, <1>6, <2>1, <3>1 DEF Linked
  <2>2. CASE t \in list_standby
    <3>1. Cardinality(list_standby \ {t}) = Cardinality(list_standby) - 1
      BY <1>1, <2>2, FS_RemoveElement
    <3>2. t \notin Range(list_active)
      BY <1>0, <2>2 DEF Linked
    <3> QED BY <1>0, <1>1, <1>4, <1>6, <3>1, <3>2 DEF Linked
  <2> QED BY <1>0, <2>1, <2>2 DEF Linked
<1>8. ListTypes'
  BY <1>0, <1>2, <1>4, <1>5, <1>7 DEF ListTypes, TypeOK
<1>9. Linked'
  <2>1. Range(list_active') = Range(list_active) \cup {t} /\ IsInjective(list_active')
    BY <1>4, <1>5
  <2>2. \A u \in Range(list_active') : timer'[u].is_running
    <3>1. \A u \in Range(list_active) : timer[u].is_running /\ u \in Timers
      BY <1>0, <1>1 DEF Linked
    <3> QED BY <1>2, <2>1, <3>1
  <2>3. \A u \in list_standby' : ~timer'[u].is_running
    BY <1>0, <1>2 DEF Linked, TypeOK
  <2>4. /\ Range(list_active') \cap list_standby' = {}
        /\ Range(list_active') \cup list_standby' = live' \ BeingDeleted'
    BY <1>0, <2>1 DEF Linked
  <2> QED BY <1>5, <1>7, <2>1, <2>2, <2>3, <2>4 DEF Linked
<1>10. ActiveSorted'
  BY <1>4, <1>5, LenProperties DEF ActiveSorted, Sorted
<1> QED BY <1>8, <1>9, <1>10

\* A running timer leaves the active list for the idle one.
LEMMA RetireLists ==
    ASSUME TInv, NEW t \in Timers, timer[t].is_running, t \in live \ BeingDeleted, Retire(t),
           BeingDeleted' = BeingDeleted, UNCHANGED <<live, total_cnt>>
    PROVE  ListTypes' /\ Linked' /\ ActiveSorted'
<1>0. TypeOK /\ Calling /\ Linked /\ ActiveSorted
  BY DEF TInv
<1>1. /\ list_active \in Seq(Timers) /\ Len(list_active) \in Nat
      /\ DOMAIN list_active = 1 .. Len(list_active)
      /\ IsInjective(list_active) /\ Sorted(list_active, timer)
      /\ \A i \in 1 .. Len(list_active) : list_active[i] \in Timers
      /\ Cardinality(list_standby) \in Nat /\ IsFiniteSet(list_standby)
      /\ Range(list_active) \subseteq Timers
  BY <1>0, ActiveFacts DEF Linked
<1>2. /\ timer' \in [Timers -> Records] /\ ~timer'[t].is_running
      /\ \A u \in Timers \ {t} : timer'[u] = timer[u]
      /\ timer'[t].expire_time = timer[t].expire_time
      /\ list_active' = RemoveFirst(list_active, t)
      /\ list_standby' = list_standby \cup {t} /\ running_cnt' = running_cnt - 1
  BY <1>0 DEF TypeOK, Records, Retire
<1>3. t \in Range(list_active) /\ t \notin list_standby
  BY <1>0 DEF Linked
<1>4. list_active \in Seq(Timers) /\ IsInjective(list_active) /\ Sorted(list_active, timer)
  BY <1>1
<1>5. /\ list_active' \in Seq(Timers) /\ IsInjective(list_active')
      /\ Range(list_active') = Range(list_active) \ {t}
      /\ Len(list_active') = Len(list_active) - 1 /\ Len(list_active') \in Nat
      /\ DOMAIN list_active' = 1 .. Len(list_active')
      /\ Sorted(list_active', timer)
      /\ \A i \in 1 .. Len(list_active') : list_active'[i] \in Timers
  BY <1>2, <1>3, <1>4, UnlinkFacts
<1>6. Cardinality(list_standby') = Cardinality(list_standby) + 1
  BY <1>1, <1>2, <1>3, FS_AddElement
<1>7. running_cnt' = Len(list_active') /\ total_cnt = Len(list_active') + Cardinality(list_standby')
  BY <1>0, <1>1, <1>2, <1>5, <1>6 DEF Linked
<1>8. ListTypes'
  BY <1>0, <1>2, <1>5, <1>7 DEF ListTypes, TypeOK
<1>9. Linked'
  <2>1. \A u \in Range(list_active') : timer'[u].is_running
    BY <1>0, <1>1, <1>2, <1>5 DEF Linked
  <2>2. \A u \in list_standby' : ~timer'[u].is_running
    BY <1>0, <1>2 DEF Linked, TypeOK
  <2>3. /\ Range(list_active') \cap list_standby' = {}
        /\ Range(list_active') \cup list_standby' = live' \ BeingDeleted'
    BY <1>0, <1>2, <1>5 DEF Linked
  <2> QED BY <1>5, <1>7, <2>1, <2>2, <2>3 DEF Linked
<1>10. ActiveSorted'
  <2>1. \A u \in Timers : timer'[u].expire_time = timer[u].expire_time
    BY <1>2
  <2> QED BY <1>5, <2>1 DEF ActiveSorted, Sorted
<1> QED BY <1>8, <1>9, <1>10

\* tal_sw_timer_trigger: a running timer comes first, with an expiry that is over.
LEMMA TriggerLists ==
    ASSUME TInv, NEW t \in live \ BeingDeleted, BeingDeleted' = BeingDeleted,
           timer' = [timer EXCEPT ![t].expire_time = 0],
           list_active' = IF timer[t].is_running THEN <<t>> \o RemoveFirst(list_active, t)
                                                 ELSE list_active,
           UNCHANGED <<live, list_standby, total_cnt, running_cnt>>
    PROVE  ListTypes' /\ Linked' /\ ActiveSorted'
<1>0. TypeOK /\ Calling /\ Linked /\ ActiveSorted
  BY DEF TInv
<1>1. /\ list_active \in Seq(Timers) /\ Len(list_active) \in Nat
      /\ DOMAIN list_active = 1 .. Len(list_active)
      /\ IsInjective(list_active) /\ Sorted(list_active, timer)
      /\ \A i \in 1 .. Len(list_active) :
             list_active[i] \in Timers /\ list_active[i] \in Range(list_active)
      /\ Range(list_active) \subseteq Timers
  BY <1>0, ActiveFacts DEF Linked
<1>2. /\ t \in Timers /\ timer' \in [Timers -> Records]
      /\ \A u \in Timers \ {t} : timer'[u] = timer[u]
      /\ timer'[t].expire_time = 0 /\ timer'[t].is_running = timer[t].is_running
      /\ \A u \in Timers : timer'[u].expire_time \in Nat
  BY <1>0 DEF TypeOK, Records
<1>3. \A u \in Timers : timer'[u].is_running <=> timer[u].is_running
  BY <1>2
<1>4. t \in Range(list_active) <=> timer[t].is_running
  BY <1>0 DEF Linked
<1>5. /\ list_active' \in Seq(Timers) /\ IsInjective(list_active')
      /\ Range(list_active') = Range(list_active) /\ Len(list_active') = Len(list_active)
      /\ Sorted(list_active', timer')
  <2>1. CASE ~timer[t].is_running
    <3>1. list_active' = list_active
      BY <2>1
    <3>2. \A i \in 1 .. Len(list_active) : timer'[list_active[i]] = timer[list_active[i]]
      BY <1>1, <1>2, <1>4, <2>1
    <3>3. Sorted(list_active, timer')
      BY <1>1, <3>2 DEF Sorted
    <3> QED BY <1>1, <3>1, <3>3
  <2>2. CASE timer[t].is_running
    <3> DEFINE rest == RemoveFirst(list_active, t)
    <3>0. list_active \in Seq(Timers) /\ IsInjective(list_active) /\ Sorted(list_active, timer)
      BY <1>1
    <3>1. /\ rest \in Seq(Timers) /\ IsInjective(rest) /\ Range(rest) = Range(list_active) \ {t}
          /\ Len(rest) = Len(list_active) - 1 /\ Len(rest) \in Nat
          /\ Sorted(rest, timer)
          /\ \A i \in 1 .. Len(rest) : rest[i] \in Timers /\ rest[i] # t
      BY <1>4, <2>2, <3>0, UnlinkFacts
    <3> HIDE DEF rest
    <3>2. list_active' = InsertAt(rest, 1, t)
      BY <1>2, <2>2, <3>1, PutFirst DEF rest
    <3>3. 1 \in 1 .. Len(rest) + 1 /\ t \notin Range(rest) /\ t \in Timers
      BY <1>2, <3>1
    <3> DEFINE new == InsertAt(rest, 1, t)
    <3>4. /\ new \in Seq(Timers) /\ Len(new) = Len(rest) + 1
          /\ new[1] = t
          /\ \A i \in 1 .. Len(rest) + 1 : i > 1 => new[i] = rest[i - 1]
      <4>1. rest \in Seq(Timers) /\ t \in Timers
        BY <3>1, <3>3
      <4>2. new = <<t>> \o rest
        BY <4>1, PutFirst
      <4> HIDE DEF new
      <4> QED BY <4>1, <4>2, FirstOfList
    <3>5. Range(new) = Range(rest) \cup {t} /\ IsInjective(new)
      <4>1. rest \in Seq(Timers) /\ IsInjective(rest)
        BY <3>1
      <4> QED BY <3>3, <4>1, InsertIntoDistinct
    <3> HIDE DEF new
    <3>6. Range(new) = Range(list_active) /\ Len(new) = Len(list_active)
      BY <1>1, <1>4, <2>2, <3>1, <3>4, <3>5
    <3>7. ASSUME NEW i \in 1 .. Len(rest) + 1, NEW j \in 1 .. Len(rest) + 1, i < j
          PROVE  timer'[new[i]].expire_time <= timer'[new[j]].expire_time
      <4>1. /\ i \in Nat /\ j \in Nat /\ i >= 1
            /\ j - 1 \in 1 .. Len(rest) /\ new[j] = rest[j - 1]
        BY <3>1, <3>4, <3>7
      <4>2. CASE i = 1
        <5>1. new[i] = t /\ rest[j - 1] \in Timers
          <6>1. new[1] = t
            BY <3>4
          <6> QED BY <3>1, <4>1, <4>2, <6>1
        <5>2. timer'[t].expire_time = 0 /\ timer'[rest[j - 1]].expire_time \in Nat
          BY <1>2, <5>1
        <5> QED BY <4>1, <5>1, <5>2
      <4>3. CASE i > 1
        <5>1. i - 1 \in 1 .. Len(rest) /\ i - 1 < j - 1 /\ new[i] = rest[i - 1]
          BY <3>1, <3>4, <3>7, <4>1, <4>3
        <5>2. timer[rest[i - 1]].expire_time <= timer[rest[j - 1]].expire_time
          BY <3>1, <4>1, <5>1 DEF Sorted
        <5>3. /\ timer'[rest[i - 1]] = timer[rest[i - 1]]
              /\ timer'[rest[j - 1]] = timer[rest[j - 1]]
          BY <1>2, <3>1, <4>1, <5>1
        <5> QED BY <4>1, <5>1, <5>2, <5>3
      <4>4. i = 1 \/ i > 1
        BY <4>1
      <4> QED BY <4>2, <4>3, <4>4
    <3>8. Sorted(new, timer')
      BY <3>4, <3>7 DEF Sorted
    <3>9. list_active' = new
      BY <3>2 DEF new
    <3> QED BY <3>4, <3>5, <3>6, <3>8, <3>9
  <2> QED BY <2>1, <2>2
<1>6. ListTypes'
  BY <1>0, <1>2, <1>5 DEF ListTypes, TypeOK
<1>7. Linked'
  BY <1>0, <1>1, <1>3, <1>5 DEF Linked, TypeOK
<1>8. ActiveSorted'
  BY <1>5, LenProperties DEF ActiveSorted, Sorted
<1> QED BY <1>6, <1>7, <1>8

\* tal_sw_timer_delete: the timer is in no list any more.
LEMMA DeleteLists ==
    ASSUME TInv, NEW t \in live \ BeingDeleted, BeingDeleted' = BeingDeleted \cup {t},
           list_active' = RemoveFirst(list_active, t),
           list_standby' = list_standby \ {t},
           total_cnt' = total_cnt - 1,
           running_cnt' = IF timer[t].is_running THEN running_cnt - 1 ELSE running_cnt,
           UNCHANGED <<live, timer>>
    PROVE  ListTypes' /\ Linked' /\ ActiveSorted'
<1>0. TypeOK /\ Calling /\ Linked /\ ActiveSorted
  BY DEF TInv
<1>1. /\ list_active \in Seq(Timers) /\ Len(list_active) \in Nat
      /\ DOMAIN list_active = 1 .. Len(list_active)
      /\ IsInjective(list_active) /\ Sorted(list_active, timer)
      /\ Cardinality(list_standby) \in Nat /\ IsFiniteSet(list_standby)
  BY <1>0, ActiveFacts DEF Linked
<1>2. list_active \in Seq(Timers) /\ IsInjective(list_active) /\ Sorted(list_active, timer)
  BY <1>1
<1>3. t \in Range(list_active) <=> timer[t].is_running
  BY <1>0 DEF Linked
<1>4. /\ list_active' \in Seq(Timers) /\ IsInjective(list_active')
      /\ Range(list_active') = Range(list_active) \ {t}
      /\ Len(list_active') \in Nat /\ DOMAIN list_active' = 1 .. Len(list_active')
      /\ t \in Range(list_active) => Len(list_active') = Len(list_active) - 1
      /\ t \notin Range(list_active) => Len(list_active') = Len(list_active)
      /\ Sorted(list_active', timer)
  BY <1>2, UnlinkFacts
<1>5. /\ running_cnt' = Len(list_active')
      /\ total_cnt' = Len(list_active') + Cardinality(list_standby')
      /\ Cardinality(list_standby') \in Nat
  <2>1. CASE t \in Range(list_active)
    <3>1. list_standby' = list_standby
      BY <1>0, <2>1 DEF Linked
    <3>2. /\ running_cnt = Len(list_active) /\ timer[t].is_running
          /\ total_cnt = Len(list_active) + Cardinality(list_standby)
      BY <1>0, <1>3, <2>1 DEF Linked
    <3>3. running_cnt' = running_cnt - 1 /\ total_cnt' = total_cnt - 1
      BY <3>2
    <3>4. /\ Len(list_active') = Len(list_active) - 1
          /\ Len(list_active) \in Nat /\ Cardinality(list_standby) \in Nat
      BY <1>1, <1>4, <2>1
    <3>5. Cardinality(list_standby') = Cardinality(list_standby)
      BY <3>1
    <3>6. total_cnt' = (Len(list_active) - 1) + Cardinality(list_standby)
      BY <3>2, <3>3, <3>4
    <3>7. running_cnt' = Len(list_active')
      BY <3>2, <3>3, <3>4
    <3> QED BY <3>4, <3>5, <3>6, <3>7
  <2>2. CASE t \in list_standby
    <3>1. Cardinality(list_standby') = Cardinality(list_standby) - 1
      BY <1>1, <2>2, FS_RemoveElement
    <3>2. t \notin Range(list_active)
      BY <1>0, <2>2 DEF Linked
    <3>3. IsFiniteSet(list_standby')
      BY <1>1, FS_Subset
    <3>4. Cardinality(list_standby') \in Nat
      BY <3>3, FS_CardinalityType
    <3> QED BY <1>0, <1>1, <1>3, <1>4, <3>1, <3>2, <3>4 DEF Linked
  <2> QED BY <1>0, <2>1, <2>2 DEF Linked
<1>6. ListTypes'
  BY <1>0, <1>4, <1>5 DEF ListTypes, TypeOK
<1>7. Linked'
  <2>1. /\ Range(list_active') \cap list_standby' = {}
        /\ Range(list_active') \cup list_standby' = live' \ BeingDeleted'
    BY <1>0, <1>4 DEF Linked
  <2>2. /\ \A u \in Range(list_active') : timer'[u].is_running
        /\ \A u \in list_standby' : ~timer'[u].is_running
    BY <1>0, <1>4 DEF Linked
  <2> QED BY <1>4, <1>5, <2>1, <2>2 DEF Linked
<1>8. ActiveSorted'
  BY <1>4 DEF ActiveSorted, Sorted
<1> QED BY <1>6, <1>7, <1>8
-----------------------------------------------------------------------------
(* One step per action.                                                    *)

\* An actor goes from one call to another that frees the same records.
LEMMA CallKeeps ==
    ASSUME TypeOK, Calling, NEW a \in Actors, NEW c \in Calls, call' = [call EXCEPT ![a] = c],
           Frees(c) = Frees(call[a]), live \subseteq live',
           c.at = "start" => c.t \in live \ BeingDeleted
    PROVE  BeingDeleted' = BeingDeleted /\ Calling' /\ call' \in [Actors -> Calls]
<1>1. /\ BeingDeleted' = (BeingDeleted \ Frees(call[a])) \cup Frees(c)
      /\ call'[a] = c
      /\ \A b \in Actors \ {a} : call'[b] = call[b]
  BY CallStep
<1>2. Frees(call[a]) \subseteq BeingDeleted
  BY BeingDeletedIs
<1>3. BeingDeleted' = BeingDeleted
  BY <1>1, <1>2
<1>4. \A b \in Actors : Frees(call'[b]) = Frees(call[b])
  BY <1>1
<1>5. \A b \in Actors : call'[b].at = "start" => call'[b].t \in live' \ BeingDeleted'
  BY <1>1, <1>3 DEF Calling
<1>6. \A b, d \in Actors : b # d => Frees(call'[b]) \cap Frees(call'[d]) = {}
  BY <1>4 DEF Calling
<1>7. call' \in [Actors -> Calls]
  BY DEF TypeOK
<1>8. BeingDeleted' \subseteq live'
  BY <1>3 DEF Calling
<1> QED BY <1>3, <1>5, <1>6, <1>7, <1>8 DEF Calling

\* No call changes.
LEMMA CallsSame ==
    ASSUME TypeOK, Calling, UNCHANGED call, live \subseteq live'
    PROVE  BeingDeleted' = BeingDeleted /\ Calling'
<1>1. BeingDeleted' = BeingDeleted
  BY DEF BeingDeleted
<1> QED BY <1>1 DEF Calling, Frees

\* A call that has changed the lists has not posted yet.
LEMMA StillPosting ==
    ASSUME NEW a \in Actors, call'[a].at = "post"
    PROVE  NoOversleep'
BY DEF NoOversleep, Posting

LEMMA IdleActor ==
    ASSUME TypeOK, NEW a \in Actors, Free(a)
    PROVE  call[a] = Idle /\ call[a].at = "idle" /\ Frees(call[a]) = {}
BY DEF Free, Idle, Frees

\* The call that posts next and frees f.
LEMMA PostCall ==
    ASSUME NEW f, f \subseteq Timers
    PROVE  /\ [at |-> "post", frees |-> f] \in Calls
           /\ [at |-> "post", frees |-> f].at = "post"
           /\ Frees([at |-> "post", frees |-> f]) = f
BY DEF Calls, Frees

\* tal_sw_timer_start, _stop and _trigger end with a post and free nothing.
LEMMA ThenPostKeeps ==
    ASSUME TypeOK, Calling, NEW a \in Actors, Frees(call[a]) = {}, ThenPost(a, {}),
           UNCHANGED live
    PROVE  BeingDeleted' = BeingDeleted /\ Calling' /\ call' \in [Actors -> Calls] /\ NoOversleep'
<1> DEFINE c == [at |-> "post", frees |-> {}]
<1>1. c \in Calls /\ c.at = "post" /\ Frees(c) = {}
  BY PostCall
<1>2. call' = [call EXCEPT ![a] = c]
  BY DEF ThenPost
<1> HIDE DEF c
<1>3. call'[a] = c
  BY <1>2 DEF TypeOK
<1>4. BeingDeleted' = BeingDeleted /\ Calling' /\ call' \in [Actors -> Calls]
  <2>1. live \subseteq live' /\ Frees(c) = Frees(call[a]) /\ c.at # "start"
    BY <1>1
  <2> QED BY <1>1, <1>2, <2>1, CallKeeps
<1>5. NoOversleep'
  BY <1>1, <1>3, StillPosting
<1> QED BY <1>4, <1>5

LEMMA CreateStep ==
    ASSUME TInv, NEW a \in Actors, NEW t \in Timers, Create(a, t)
    PROVE  TInv'
<1>0. TypeOK /\ Calling /\ Linked /\ ActiveSorted /\ NoOversleep
  BY DEF TInv
<1>1. BeingDeleted' = BeingDeleted /\ Calling'
  <2>1. UNCHANGED call /\ live \subseteq live'
    BY DEF Create
  <2> QED BY <1>0, <2>1, CallsSame
<1>2. ListTypes' /\ Linked' /\ ActiveSorted'
  <2>1. t \in Timers \ live /\ live' = live \cup {t}
        /\ timer' = [timer EXCEPT ![t] = Cleared]
        /\ list_standby' = list_standby \cup {t} /\ total_cnt' = total_cnt + 1
        /\ UNCHANGED <<list_active, running_cnt>>
    BY DEF Create
  <2> QED BY <1>1, <2>1, CreateLists
<1>3. TypeOK'
  BY <1>0, <1>2 DEF Create, thread, TypeOK, ListTypes
<1>4. NoOversleep'
  <2>1. /\ thr' = thr /\ sem' = sem /\ call' = call /\ list_active' = list_active
        /\ next_expired' = next_expired /\ nowMS' = nowMS
        /\ timer' = [timer EXCEPT ![t] = Cleared] /\ t \notin live
    BY DEF Create, thread
  <2>2. list_active # <<>> => Head(list_active) \in Timers \ {t}
    <3>1. list_active # <<>> => 1 \in 1 .. Len(list_active) /\ Head(list_active) = list_active[1]
      BY <1>0, ActiveFacts, EmptySeq DEF TypeOK
    <3>2. t \notin Range(list_active)
      BY <1>0, <2>1 DEF Linked
    <3> QED BY <1>0, <3>1, <3>2, ActiveFacts
  <2>3. list_active # <<>> => timer'[Head(list_active)] = timer[Head(list_active)]
    BY <1>0, <2>1, <2>2 DEF TypeOK
  <2> QED BY <1>0, <2>1, <2>3 DEF NoOversleep, Posting
<1> QED BY <1>1, <1>2, <1>3, <1>4 DEF TInv

LEMMA StartReadStep ==
    ASSUME TInv, NEW a \in Actors, NEW t \in Timers, NEW time_ms \in Times, NEW type \in Types,
           StartRead(a, t, time_ms, type)
    PROVE  TInv'
<1>0. TypeOK /\ Calling /\ Linked /\ ActiveSorted /\ NoOversleep
  BY DEF TInv
<1> DEFINE c == [at |-> "start", t |-> t, time_ms |-> time_ms, type |-> type, read |-> now]
<1>1. c \in Calls /\ c.at = "start" /\ c.t = t /\ Frees(c) = {}
  BY <1>0 DEF Calls, TypeOK, Frees
<1>2. call' = [call EXCEPT ![a] = c] /\ t \in live \ BeingDeleted /\ Free(a)
      /\ UNCHANGED <<now, lists, sem, thread>>
  BY DEF StartRead, MayUse
<1> HIDE DEF c
<1>3. Frees(call[a]) = {} /\ call[a].at = "idle"
  BY <1>0, <1>2, IdleActor
<1>4. BeingDeleted' = BeingDeleted /\ Calling' /\ call' \in [Actors -> Calls]
  <2>1. live \subseteq live' /\ Frees(c) = Frees(call[a])
        /\ (c.at = "start" => c.t \in live \ BeingDeleted)
    BY <1>1, <1>2, <1>3 DEF lists
  <2> QED BY <1>0, <1>1, <1>2, <2>1, CallKeeps
<1>5. ListTypes' /\ Linked' /\ ActiveSorted'
  BY <1>2, <1>4, ListsUnchanged
<1>6. TypeOK'
  BY <1>0, <1>2, <1>4, <1>5 DEF thread, TypeOK, ListTypes
<1>7. NoOversleep'
  <2>1. Posting' = Posting
    <3>1. call'[a] = c /\ \A b \in Actors \ {a} : call'[b] = call[b]
      BY <1>0, <1>2 DEF TypeOK
    <3> QED BY <1>1, <1>3, <3>1 DEF Posting
  <2> QED BY <1>0, <1>2, <2>1 DEF NoOversleep, lists, thread
<1> QED BY <1>4, <1>5, <1>6, <1>7 DEF TInv

LEMMA StartStep ==
    ASSUME TInv, NEW a \in Actors, Start(a)
    PROVE  TInv'
<1>0. TypeOK /\ Calling /\ Linked /\ ActiveSorted /\ NoOversleep
  BY DEF TInv
<1> DEFINE c == call[a]
           i == Interval(c.t, c.time_ms)
           r == [expire_time |-> c.read + i, interval |-> i, is_running |-> TRUE, type |-> c.type]
<1>1. /\ c.at = "start" /\ c.t \in Timers /\ c.time_ms \in Nat /\ c.type \in Types
      /\ c.read \in Nat /\ Frees(c) = {}
  <2>1. c \in Calls /\ c.at = "start"
    BY <1>0 DEF TypeOK, Start
  <2> QED BY <2>1, CallTypes
<1>2. c.t \in live \ BeingDeleted
  BY <1>0, <1>1 DEF Calling
<1>3. i \in Nat
  <2>1. timer[c.t].interval \in Nat
    BY <1>0, <1>1 DEF TypeOK, Records
  <2> QED BY <1>1, <2>1 DEF Interval
<1>4. r \in Records /\ r.is_running
  <2> HIDE DEF i, c
  <2>1. c.read + i \in Nat
    BY <1>1, <1>3
  <2> QED BY <1>1, <1>3, <2>1 DEF Records
<1>5. /\ timer' = [timer EXCEPT ![c.t] = r]
      /\ list_active' = Attach(list_active, c.t, [timer EXCEPT ![c.t] = r])
      /\ list_standby' = list_standby \ {c.t}
      /\ running_cnt' = IF timer[c.t].is_running THEN running_cnt ELSE running_cnt + 1
      /\ ThenPost(a, {}) /\ UNCHANGED <<now, live, total_cnt, sem, thread>>
  BY DEF Start
<1> HIDE DEF r, i
<1>6. BeingDeleted' = BeingDeleted /\ Calling' /\ call' \in [Actors -> Calls] /\ NoOversleep'
  BY <1>0, <1>1, <1>5, ThenPostKeeps
<1>7. ListTypes' /\ Linked' /\ ActiveSorted'
  <2> DEFINE t == call[a].t
  <2>1. /\ t \in live \ BeingDeleted /\ timer' = [timer EXCEPT ![t] = r]
        /\ list_active' = Attach(list_active, t, timer')
        /\ list_standby' = list_standby \ {t}
        /\ running_cnt' = IF timer[t].is_running THEN running_cnt ELSE running_cnt + 1
        /\ UNCHANGED <<live, total_cnt>>
    BY <1>2, <1>5
  <2> HIDE DEF t
  <2> QED BY <1>4, <1>6, <2>1, AttachLists
<1>8. TypeOK'
  BY <1>0, <1>5, <1>6, <1>7 DEF thread, TypeOK, ListTypes
<1> QED BY <1>6, <1>7, <1>8 DEF TInv

LEMMA StopStep ==
    ASSUME TInv, NEW a \in Actors, NEW t \in Timers, Stop(a, t)
    PROVE  TInv'
<1>0. TypeOK /\ Calling /\ Linked /\ ActiveSorted /\ NoOversleep
  BY DEF TInv
<1>1. Free(a) /\ t \in live \ BeingDeleted /\ ThenPost(a, {})
      /\ UNCHANGED <<now, live, total_cnt, sem, thread>>
  BY DEF Stop, MayUse
<1>2. Frees(call[a]) = {}
  BY <1>0, <1>1, IdleActor
<1>3. BeingDeleted' = BeingDeleted /\ Calling' /\ call' \in [Actors -> Calls] /\ NoOversleep'
  BY <1>0, <1>1, <1>2, ThenPostKeeps
<1>4. ListTypes' /\ Linked' /\ ActiveSorted'
  <2>1. CASE timer[t].is_running
    <3>1. Retire(t)
      BY <2>1 DEF Stop
    <3> QED BY <1>1, <1>3, <2>1, <3>1, RetireLists
  <2>2. CASE ~timer[t].is_running
    <3>1. UNCHANGED lists
      BY <2>2 DEF Stop, lists
    <3> QED BY <1>3, <3>1, ListsUnchanged
  <2> QED BY <2>1, <2>2
<1>5. TypeOK'
  BY <1>0, <1>1, <1>3, <1>4 DEF thread, TypeOK, ListTypes
<1> QED BY <1>3, <1>4, <1>5 DEF TInv

LEMMA TriggerStep ==
    ASSUME TInv, NEW a \in Actors, NEW t \in Timers, Trigger(a, t)
    PROVE  TInv'
<1>0. TypeOK /\ Calling /\ Linked /\ ActiveSorted /\ NoOversleep
  BY DEF TInv
<1>1. Free(a) /\ t \in live \ BeingDeleted /\ ThenPost(a, {})
      /\ UNCHANGED <<now, live, list_standby, total_cnt, running_cnt, sem, thread>>
      /\ timer' = [timer EXCEPT ![t].expire_time = 0]
      /\ list_active' = IF timer[t].is_running THEN <<t>> \o RemoveFirst(list_active, t)
                                               ELSE list_active
  BY DEF Trigger, MayUse
<1>2. Frees(call[a]) = {}
  BY <1>0, <1>1, IdleActor
<1>3. BeingDeleted' = BeingDeleted /\ Calling' /\ call' \in [Actors -> Calls] /\ NoOversleep'
  BY <1>0, <1>1, <1>2, ThenPostKeeps
<1>4. ListTypes' /\ Linked' /\ ActiveSorted'
  BY <1>1, <1>3, TriggerLists
<1>5. TypeOK'
  BY <1>0, <1>1, <1>3, <1>4 DEF thread, TypeOK, ListTypes
<1> QED BY <1>3, <1>4, <1>5 DEF TInv

LEMMA DeleteStep ==
    ASSUME TInv, NEW a \in Actors, NEW t \in Timers, Delete(a, t)
    PROVE  TInv'
<1>0. TypeOK /\ Calling /\ Linked /\ ActiveSorted /\ NoOversleep
  BY DEF TInv
<1> DEFINE c == [at |-> "post", frees |-> {t}]
<1>1. /\ Free(a) /\ t \in live \ BeingDeleted /\ call' = [call EXCEPT ![a] = c]
      /\ \A b \in Actors : call[b].at = "start" => call[b].t # t
      /\ list_active' = RemoveFirst(list_active, t)
      /\ list_standby' = list_standby \ {t}
      /\ total_cnt' = total_cnt - 1
      /\ running_cnt' = IF timer[t].is_running THEN running_cnt - 1 ELSE running_cnt
      /\ UNCHANGED <<now, live, timer, sem, thread>>
  BY DEF Delete, MayUse, ThenPost
<1>2. c \in Calls /\ c.at = "post" /\ Frees(c) = {t}
  BY PostCall
<1> HIDE DEF c
<1>3. Frees(call[a]) = {}
  BY <1>0, <1>1, IdleActor
<1>4. /\ BeingDeleted' = BeingDeleted \cup {t} /\ call'[a] = c
      /\ \A b \in Actors \ {a} : call'[b] = call[b]
  <2>1. /\ BeingDeleted' = (BeingDeleted \ Frees(call[a])) \cup Frees(c) /\ call'[a] = c
        /\ \A b \in Actors \ {a} : call'[b] = call[b]
    BY <1>0, <1>1, CallStep
  <2> QED BY <1>2, <1>3, <2>1
<1>5. Calling'
  <2>1. BeingDeleted' \subseteq live'
    BY <1>0, <1>1, <1>4 DEF Calling
  <2>2. \A b \in Actors : call'[b].at = "start" => call'[b].t \in live' \ BeingDeleted'
    BY <1>0, <1>1, <1>2, <1>4 DEF Calling
  <2>3. \A b \in Actors : t \notin Frees(call[b])
    BY <1>1, BeingDeletedIs
  <2>4. \A b, d \in Actors : b # d => Frees(call'[b]) \cap Frees(call'[d]) = {}
    BY <1>0, <1>2, <1>4, <2>3 DEF Calling
  <2> QED BY <2>1, <2>2, <2>4 DEF Calling
<1>6. ListTypes' /\ Linked' /\ ActiveSorted'
  BY <1>1, <1>4, DeleteLists
<1>7. TypeOK'
  <2>1. call' \in [Actors -> Calls]
    BY <1>0, <1>1, <1>2 DEF TypeOK
  <2> QED BY <1>0, <1>1, <1>6, <2>1 DEF thread, TypeOK, ListTypes
<1>8. NoOversleep'
  BY <1>2, <1>4, StillPosting
<1> QED BY <1>5, <1>6, <1>7, <1>8 DEF TInv

LEMMA PostStep ==
    ASSUME TInv, NEW a \in Actors, Post(a)
    PROVE  TInv'
<1>0. TypeOK /\ Calling /\ Linked /\ ActiveSorted /\ NoOversleep
  BY DEF TInv
<1> DEFINE c == IF call[a].frees = {} THEN Idle ELSE [at |-> "free", frees |-> call[a].frees]
<1>1. call[a] \in Calls /\ call[a].at = "post"
  BY <1>0 DEF TypeOK, Post
<1>2. call[a].frees \subseteq Timers /\ Frees(call[a]) = call[a].frees
  BY <1>1, CallTypes DEF Frees
<1>3. c \in Calls /\ c.at # "start" /\ c.at # "post" /\ Frees(c) = call[a].frees
  <2>1. CASE call[a].frees = {}
    BY <2>1 DEF Calls, Idle, Frees
  <2>2. CASE call[a].frees # {}
    <3>1. c = [at |-> "free", frees |-> call[a].frees]
      BY <2>2
    <3>2. c.at = "free" /\ c.frees = call[a].frees
      BY <3>1
    <3>3. c \in [at : {"post", "free"}, frees : SUBSET Timers]
      BY <1>2, <3>1
    <3> HIDE DEF c
    <3> QED BY <3>2, <3>3 DEF Calls, Frees
  <2> QED BY <2>1, <2>2
<1>4. call' = [call EXCEPT ![a] = c] /\ sem' = sem + 1 /\ UNCHANGED <<now, lists, thread>>
  BY DEF Post
<1> HIDE DEF c
<1>5. BeingDeleted' = BeingDeleted /\ Calling' /\ call' \in [Actors -> Calls]
  <2>1. live \subseteq live' /\ Frees(c) = Frees(call[a]) /\ c.at # "start"
    BY <1>2, <1>3, <1>4 DEF lists
  <2> QED BY <1>0, <1>3, <1>4, <2>1, CallKeeps
<1>6. ListTypes' /\ Linked' /\ ActiveSorted'
  BY <1>4, <1>5, ListsUnchanged
<1>7. TypeOK'
  BY <1>0, <1>4, <1>5, <1>6 DEF thread, TypeOK, ListTypes
<1>8. NoOversleep'
  <2>1. sem' # 0
    BY <1>0, <1>4 DEF TypeOK
  <2> QED BY <2>1 DEF NoOversleep
<1> QED BY <1>5, <1>6, <1>7, <1>8 DEF TInv

LEMMA FreeRecordStep ==
    ASSUME TInv, NEW a \in Actors, FreeRecord(a)
    PROVE  TInv'
<1>0. TypeOK /\ Calling /\ Linked /\ ActiveSorted /\ NoOversleep
  BY DEF TInv
<1> DEFINE F == call[a].frees
<1>1. /\ call[a].at = "free" /\ live' = live \ F /\ call' = [call EXCEPT ![a] = Idle]
      /\ list_active' = list_active /\ list_standby' = list_standby /\ timer' = timer
      /\ total_cnt' = total_cnt /\ running_cnt' = running_cnt
      /\ UNCHANGED <<now, sem, thread>>
  BY DEF FreeRecord
<1>2. Idle \in Calls /\ Idle.at = "idle" /\ Frees(Idle) = {} /\ Frees(call[a]) = F
  BY <1>1 DEF Idle, Frees, Calls
<1> HIDE DEF F
<1>3. F \subseteq BeingDeleted /\ \A b \in Actors \ {a} : Frees(call[b]) \cap F = {}
  BY <1>0, <1>2, BeingDeletedIs DEF Calling
<1>4. /\ BeingDeleted' = BeingDeleted \ F /\ call'[a] = Idle
      /\ \A b \in Actors \ {a} : call'[b] = call[b]
  <2>1. /\ BeingDeleted' = (BeingDeleted \ Frees(call[a])) \cup Frees(Idle) /\ call'[a] = Idle
        /\ \A b \in Actors \ {a} : call'[b] = call[b]
    BY <1>0, <1>1, CallStep
  <2> QED BY <1>2, <2>1
<1>5. live' \ BeingDeleted' = live \ BeingDeleted
  BY <1>1, <1>3, <1>4
<1>6. Calling'
  <2>1. BeingDeleted' \subseteq live'
    BY <1>0, <1>1, <1>4 DEF Calling
  <2>2. \A b \in Actors : call'[b].at = "start" => call'[b].t \in live' \ BeingDeleted'
    BY <1>0, <1>2, <1>4, <1>5 DEF Calling
  <2>3. \A b, d \in Actors : b # d => Frees(call'[b]) \cap Frees(call'[d]) = {}
    BY <1>0, <1>2, <1>4 DEF Calling
  <2> QED BY <2>1, <2>2, <2>3 DEF Calling
<1>7. Linked' /\ ActiveSorted'
  BY <1>0, <1>1, <1>5 DEF Linked, ActiveSorted
<1>8. TypeOK'
  <2>1. call' \in [Actors -> Calls]
    BY <1>0, <1>1, <1>2 DEF TypeOK
  <2> QED BY <1>0, <1>1, <2>1 DEF thread, TypeOK
<1>9. NoOversleep'
  <2>1. Posting' = Posting
    BY <1>1, <1>2, <1>4 DEF Posting
  <2> QED BY <1>0, <1>1, <2>1 DEF NoOversleep, thread
<1> QED BY <1>6, <1>7, <1>8, <1>9 DEF TInv
-----------------------------------------------------------------------------
\* Steps that touch neither the lists nor the calls.
LEMMA QuietSteps ==
    ASSUME TInv,
           Enter \/ WakeToken \/ WakeTimeout \/ ReadClock \/ PickNothing \/ Load \/ Return \/ Tick
    PROVE  TInv'
<1>0. TypeOK /\ Calling /\ Linked /\ ActiveSorted /\ NoOversleep
  BY DEF TInv
<1>1. UNCHANGED lists /\ UNCHANGED call
  BY DEF Enter, WakeToken, WakeTimeout, ReadClock, PickNothing, Load, Return, Tick
<1>2. BeingDeleted' = BeingDeleted /\ Calling'
  <2>1. live \subseteq live'
    BY <1>1 DEF lists
  <2> QED BY <1>0, <1>1, <2>1, CallsSame
<1>3. ListTypes' /\ Linked' /\ ActiveSorted'
  BY <1>1, <1>2, ListsUnchanged
<1>4. /\ list_active' = list_active /\ timer' = timer /\ Posting' = Posting
      /\ call' \in [Actors -> Calls]
  BY <1>0, <1>1 DEF lists, Posting, TypeOK
<1> DEFINE RestTypes ==
      /\ now \in Nat /\ sem \in Nat
      /\ thr \in {"enter", "asleep", "read", "pick", "load", "call"}
      /\ nowMS \in Nat
      /\ next_expired \in Nat \cup {Forever}
      /\ wake_at \in Nat \cup {Forever}
      /\ picked \in Timers \cup {NoTimer}
<1>5. RestTypes
  BY <1>0 DEF TypeOK
<1>6. RestTypes' /\ NoOversleep'
  <2>1. CASE Enter
    <3>1. Min({now + next_expired, MaxNow}) \in {now + next_expired, MaxNow}
          \/ next_expired = Forever
      <4> SUFFICES ASSUME next_expired \in Nat
                   PROVE  Min({now + next_expired, MaxNow}) \in {now + next_expired, MaxNow}
        BY <1>5
      <4>1. now + next_expired \in Nat /\ MaxNow \in Nat
        BY <1>5, BoundsNatural
      <4>2. \E x \in {now + next_expired, MaxNow} :
                \A y \in {now + next_expired, MaxNow} : x <= y
        BY <4>1
      <4> QED BY <4>2 DEF Min
    <3>2. next_expired \in Nat => now + next_expired \in Nat /\ MaxNow \in Nat
      BY <1>5, BoundsNatural
    <3>3. wake_at' \in Nat \cup {Forever}
      BY <1>5, <2>1, <3>1, <3>2 DEF Enter
    <3>4. RestTypes'
      BY <1>5, <2>1, <3>3 DEF Enter
    <3>5. NoOversleep'
      BY <1>0, <1>4, <2>1 DEF Enter, NoOversleep
    <3> QED BY <3>4, <3>5
  <2>2. CASE WakeToken \/ WakeTimeout
    <3>1. RestTypes'
      <4>1. sem' \in Nat
        BY <1>5, <2>2 DEF WakeToken, WakeTimeout
      <4> QED BY <1>5, <2>2, <4>1 DEF WakeToken, WakeTimeout, Dispatch
    <3>2. NoOversleep'
      BY <2>2 DEF WakeToken, WakeTimeout, Dispatch, NoOversleep
    <3> QED BY <3>1, <3>2
  <2>3. CASE ReadClock \/ Load \/ Return
    <3>1. RestTypes'
      BY <1>5, <2>3 DEF ReadClock, Load, Return
    <3>2. NoOversleep'
      BY <2>3 DEF ReadClock, Load, Return, NoOversleep
    <3> QED BY <3>1, <3>2
  <2>4. CASE PickNothing
    <3>1. CASE list_active = <<>>
      <4>1. RestTypes'
        BY <1>5, <2>4, <3>1 DEF PickNothing
      <4>2. NoOversleep'
        BY <1>4, <3>1 DEF NoOversleep
      <4> QED BY <4>1, <4>2
    <3>2. CASE list_active # <<>>
      <4> DEFINE e == timer[Head(list_active)].expire_time
      <4>1. e \in Nat
        <5>1. Head(list_active) \in Timers
          BY <1>0, <3>2 DEF TypeOK
        <5> QED BY <1>0, <5>1 DEF TypeOK, Records
      <4>2. e > nowMS /\ next_expired' = e - nowMS /\ thr' = "enter"
            /\ UNCHANGED <<now, sem, nowMS, wake_at, picked>>
        BY <2>4, <3>2 DEF PickNothing
      <4>3. e' = e
        BY <1>4
      <4> HIDE DEF e
      <4>4. next_expired' \in Nat /\ nowMS' + next_expired' = e
        BY <1>5, <4>1, <4>2
      <4>5. RestTypes'
        BY <1>5, <4>2, <4>4
      <4>6. NoOversleep'
        BY <4>3, <4>4, NullsDistinct DEF NoOversleep, e
      <4> QED BY <4>5, <4>6
    <3> QED BY <3>1, <3>2
  <2>5. CASE Tick
    <3>1. RestTypes'
      BY <1>5, <2>5 DEF Tick, thread
    <3>2. NoOversleep'
      BY <1>0, <1>4, <2>5 DEF Tick, thread, NoOversleep
    <3> QED BY <3>1, <3>2
  <2> QED BY <2>1, <2>2, <2>3, <2>4, <2>5
<1>7. TypeOK'
  BY <1>3, <1>4, <1>6 DEF TypeOK, ListTypes
<1> QED BY <1>2, <1>3, <1>6, <1>7 DEF TInv

\* The first timer of the list is a running one.
LEMMA HeadRuns ==
    ASSUME TInv, list_active # <<>>
    PROVE  /\ Head(list_active) \in Range(list_active)
           /\ Head(list_active) \in live \ BeingDeleted /\ Head(list_active) \in Timers
           /\ timer[Head(list_active)].is_running
           /\ Head(list_active) \notin list_standby
<1>0. TypeOK /\ Linked
  BY DEF TInv
<1>1. Head(list_active) = list_active[1] /\ 1 \in 1 .. Len(list_active)
  BY <1>0, ActiveFacts, EmptySeq DEF TypeOK
<1>2. Head(list_active) \in Range(list_active)
  BY <1>0, <1>1, ActiveFacts
<1> QED BY <1>0, <1>2, ActiveFacts DEF Linked

LEMMA PickOnceStep ==
    ASSUME TInv, PickOnce
    PROVE  TInv'
<1>0. TypeOK /\ Calling /\ Linked /\ ActiveSorted /\ NoOversleep
  BY DEF TInv
<1> DEFINE t == Head(list_active)
<1>1. list_active # <<>>
  BY DEF PickOnce, Due
<1>2. t \in live \ BeingDeleted /\ t \in Timers /\ timer[t].is_running
  BY <1>1, HeadRuns
<1>3. /\ Retire(t) /\ picked' = t /\ thr' = "load"
      /\ UNCHANGED <<now, live, total_cnt, sem, call, nowMS, next_expired, wake_at>>
  BY DEF PickOnce
<1> HIDE DEF t
<1>4. BeingDeleted' = BeingDeleted /\ Calling'
  <2>1. UNCHANGED call /\ live \subseteq live'
    BY <1>3
  <2> QED BY <1>0, <2>1, CallsSame
<1>5. ListTypes' /\ Linked' /\ ActiveSorted'
  BY <1>2, <1>3, <1>4, RetireLists
<1>6. TypeOK'
  BY <1>0, <1>2, <1>3, <1>5 DEF TypeOK, ListTypes
<1>7. NoOversleep'
  BY <1>3 DEF NoOversleep
<1> QED BY <1>4, <1>5, <1>6, <1>7 DEF TInv

LEMMA PickCycleStep ==
    ASSUME TInv, PickCycle
    PROVE  TInv'
<1>0. TypeOK /\ Calling /\ Linked /\ ActiveSorted /\ NoOversleep
  BY DEF TInv
<1> DEFINE t == Head(list_active)
           r == [timer[t] EXCEPT !.expire_time = nowMS + timer[t].interval]
<1>1. list_active # <<>>
  BY DEF PickCycle, Due
<1>2. /\ t \in live \ BeingDeleted /\ t \in Timers /\ timer[t].is_running
      /\ list_standby \ {t} = list_standby
  BY <1>1, HeadRuns
<1>3. /\ timer' = [timer EXCEPT ![t].expire_time = nowMS + timer[t].interval]
      /\ list_active' = Attach(list_active, t, timer')
      /\ picked' = t /\ thr' = "load"
      /\ UNCHANGED <<now, live, list_standby, total_cnt, running_cnt, sem, call, nowMS,
                     next_expired, wake_at>>
  BY DEF PickCycle
<1> HIDE DEF t
<1>4. r \in Records /\ r.is_running /\ timer' = [timer EXCEPT ![t] = r]
  <2>1. timer[t] \in Records /\ timer[t].interval \in Nat /\ nowMS \in Nat
    BY <1>0, <1>2 DEF TypeOK, Records
  <2>2. nowMS + timer[t].interval \in Nat
    BY <2>1
  <2>3. r \in Records /\ r.is_running
    BY <1>2, <2>1, <2>2 DEF Records
  <2>4. timer' = [timer EXCEPT ![t] = r]
    BY <1>3
  <2> QED BY <2>3, <2>4
<1> HIDE DEF r
<1>5. BeingDeleted' = BeingDeleted /\ Calling'
  <2>1. UNCHANGED call /\ live \subseteq live'
    BY <1>3
  <2> QED BY <1>0, <2>1, CallsSame
<1>6. ListTypes' /\ Linked' /\ ActiveSorted'
  <2>1. /\ list_active' = Attach(list_active, t, timer')
        /\ list_standby' = list_standby \ {t}
        /\ running_cnt' = IF timer[t].is_running THEN running_cnt ELSE running_cnt + 1
        /\ UNCHANGED <<live, total_cnt>>
    BY <1>2, <1>3
  <2> QED BY <1>2, <1>4, <1>5, <2>1, AttachLists
<1>7. TypeOK'
  BY <1>0, <1>2, <1>3, <1>6 DEF TypeOK, ListTypes
<1>8. NoOversleep'
  BY <1>3 DEF NoOversleep
<1> QED BY <1>5, <1>6, <1>7, <1>8 DEF TInv

LEMMA NextInv == TInv /\ [Next]_vars => TInv'
<1> SUFFICES ASSUME TInv, [Next]_vars PROVE TInv'
  OBVIOUS
<1>1. ASSUME NEW a \in Actors, Api(a) PROVE TInv'
  <2>1. ASSUME NEW t \in Timers,
               \/ Create(a, t) \/ Stop(a, t) \/ Trigger(a, t) \/ Delete(a, t)
               \/ \E time_ms \in Times, type \in Types : StartRead(a, t, time_ms, type)
        PROVE  TInv'
    BY <2>1, CreateStep, StopStep, TriggerStep, DeleteStep, StartReadStep
  <2>2. CASE GoOn(a)
    BY <2>2, StartStep, PostStep, FreeRecordStep DEF GoOn
  <2> QED BY <1>1, <2>1, <2>2 DEF Api
<1>2. CASE ThreadStep \/ Tick
  BY <1>2, QuietSteps, PickOnceStep, PickCycleStep DEF ThreadStep
<1>3. CASE UNCHANGED vars
  <2>1. TypeOK /\ Calling /\ Linked /\ ActiveSorted /\ NoOversleep
    BY DEF TInv
  <2>2. UNCHANGED lists /\ UNCHANGED call /\ UNCHANGED <<now, sem, thread>>
    BY <1>3 DEF vars
  <2>3. BeingDeleted' = BeingDeleted /\ Calling'
    <3>1. live \subseteq live'
      BY <2>2 DEF lists
    <3> QED BY <2>1, <2>2, <3>1, CallsSame
  <2>4. ListTypes' /\ Linked' /\ ActiveSorted'
    BY <2>2, <2>3, ListsUnchanged
  <2>5. TypeOK'
    BY <2>1, <2>2, <2>4 DEF TypeOK, ListTypes, thread
  <2>6. NoOversleep'
    BY <2>1, <2>2 DEF NoOversleep, Posting, lists, thread
  <2> QED BY <2>3, <2>4, <2>5, <2>6 DEF TInv
<1> QED BY <1>1, <1>2, <1>3 DEF Next

LEMMA TimersInductive == Spec => []TInv
BY InitInv, NextInv, PTL DEF Spec

\* What the timers, their lists and the calls on them hold is what their types say; in
\* particular the counters of tal_sw_timer_get_num never drop below zero.
THEOREM TimersTypeCorrect == Spec => []TypeOK
<1>1. TInv => TypeOK
  BY DEF TInv
<1> QED BY <1>1, TimersInductive, PTL

\* Whatever the calls of any number of threads and of the callbacks do, a timer that is
\* not being deleted is in exactly one list, once, the one its flag names, and the
\* counters agree with the lists.
THEOREM TimersInOneList == Spec => []ListsPartition
<1>1. TInv => ListsPartition
  BY LinkedPartition DEF TInv
<1> QED BY <1>1, TimersInductive, PTL

\* The active list stays in the order of expiry, so that looking at its first timer is
\* enough for __timer_dispatch.
THEOREM TimersInOrder == Spec => []ActiveSorted
<1>1. TInv => ActiveSorted
  BY DEF TInv
<1> QED BY <1>1, TimersInductive, PTL

\* The thread never sleeps past the first expiry for having computed its timeout before
\* the list changed: the token of the call that changed it is there, or on its way.
THEOREM TimersNotOverslept == Spec => []NoOversleep
<1>1. TInv => NoOversleep
  BY DEF TInv
<1> QED BY <1>1, TimersInductive, PTL
-----------------------------------------------------------------------------
(* Delayed work.                                                           *)

LEMMA DelayedStep == [DNext]_dvars => [Next]_vars
<1> SUFFICES ASSUME [DNext]_dvars PROVE [Next]_vars
  OBVIOUS
<1>1. ASSUME NEW a \in Clients, NEW t \in Timers,
             \/ InitDelayed(a, t) \/ StopDelayed(a, t) \/ CancelDelayed(a, t)
             \/ \E interval \in Times, type \in Types : StartDelayed(a, t, interval, type)
      PROVE  Next
  <2>1. a \in Actors
    BY DEF Actors
  <2>2. \/ Create(a, t) \/ Stop(a, t) \/ Delete(a, t)
        \/ \E time_ms \in Times, type \in Types : StartRead(a, t, time_ms, type)
    BY <1>1 DEF InitDelayed, StopDelayed, CancelDelayed, StartDelayed
  <2> QED BY <2>1, <2>2 DEF Next, Api
<1>2. ASSUME NEW a \in Clients, GoOnDelayed(a) PROVE Next
  BY <1>2 DEF GoOnDelayed, Next, Api, Actors
<1>3. ASSUME NEW a \in Clients, CancelQueued(a) \/ FreeWork(a) PROVE UNCHANGED vars
  BY <1>3 DEF CancelQueued, FreeWork
<1>4. CASE ScheduleJob \/ TimerThread
  BY <1>4 DEF ScheduleJob, TimerThread, Next, ThreadStep
<1>5. CASE WorkThread
  BY <1>5 DEF WorkThread
<1>6. CASE DTick
  BY <1>6 DEF DTick, Next
<1>7. CASE UNCHANGED dvars
  BY <1>7 DEF dvars
<1> QED BY <1>1, <1>2, <1>3, <1>4, <1>5, <1>6, <1>7 DEF DNext

\* Delayed work uses the timers only through their calls: tal_workqueue_init_delayed,
\* _start_delayed, _stop_delayed and _cancel_delayed, interleaved with the timer thread
\* and with the queue, do to the timers what the timers' specification allows.  So all
\* that is proved of the timers holds of them under delayed work.
THEOREM DelayedUsesTimers == DSpec => Spec
<1>1. DInit => Init
  BY DEF DInit
<1> QED BY <1>1, DelayedStep, PTL DEF DSpec, Spec
=============================================================================
