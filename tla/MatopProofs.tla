----------------------------- MODULE MatopProofs ----------------------------
(***************************************************************************)
(* Proofs about the MQTT session (MqttService) and the requests that run   *)
(* on it (Matop).  The session's invariant is proved for its own           *)
(* specification; Matop is shown to implement that specification, so that  *)
(* it is there for the requests as well.                                   *)
(***************************************************************************)
EXTENDS Matop, ListFacts, FiniteSetTheorems

-----------------------------------------------------------------------------
(* The session: every publish is told once.                                *)

PEntries == [m : Msgs, msgid : 0 .. MaxId]

\* No publish has two entries.
ListedOnce ==
    \A i, j \in 1 .. Len(publish_list) : publish_list[i].m = publish_list[j].m => i = j

\* What the application is publishing is not in the list yet and was not told.
Unlisted ==
    publisher.at # "idle" => /\ publisher.m \in Msgs
                             /\ publisher.m \notin Listed
                             /\ notices[publisher.m] = <<>>

\* NotifiedOnce is not inductive: a second entry of a publish would be told again.
PInv == PTypeOK /\ ListedOnce /\ Unlisted /\ NotifiedOnce

LEMMA PInitInv == PInit => PInv
<1> SUFFICES ASSUME PInit PROVE PInv
  OBVIOUS
<1> USE NoMsgIsNone, MaxIdNatural
<1>1. publish_list = <<>> /\ Len(publish_list) = 0 /\ DOMAIN publish_list = {}
  BY DEF PInit
<1>2. PTypeOK
  BY <1>1 DEF PInit, PTypeOK, NoCall
<1>3. ListedOnce /\ Unlisted
  BY <1>1 DEF PInit, ListedOnce, Unlisted, NoCall
<1>4. NotifiedOnce
  BY <1>1 DEF PInit, NotifiedOnce, Listed
<1> QED BY <1>2, <1>3, <1>4 DEF PInv

\* The list's entries, by position.
LEMMA PListFacts ==
    ASSUME PTypeOK
    PROVE  /\ Len(publish_list) \in Nat
           /\ DOMAIN publish_list = 1 .. Len(publish_list)
           /\ \A i \in 1 .. Len(publish_list) :
                  publish_list[i].m \in Msgs /\ publish_list[i].msgid \in 0 .. MaxId
           /\ Listed = {publish_list[i].m : i \in 1 .. Len(publish_list)}
<1>1. publish_list \in Seq(PEntries)
  BY DEF PTypeOK, PEntries
<1>2. \A i \in 1 .. Len(publish_list) : publish_list[i] \in PEntries
  BY <1>1, ElementOfSeq
<1> QED BY <1>1, <1>2, LenProperties DEF Listed, PEntries

\* Telling the publish at position k and removing its entry keeps the invariant.
LEMMA TellAndRemove ==
    ASSUME PInv, NEW k \in 1 .. Len(publish_list), NEW rt \in {"OK", "TIMEOUT"},
           Notify(publish_list[k].m, rt),
           publish_list' = RemoveAt(publish_list, k),
           UNCHANGED <<publisher, is_connected, expired, lost>>,
           at' \in {"loop", "up", "walk", "yield", "matop", "crashed"}, pos' \in Nat \ {0},
           lastid' \in 0 .. MaxId, acks' \subseteq 1 .. MaxId
    PROVE  PInv'
<1> DEFINE e == publish_list[k].m
<1>0. PTypeOK /\ ListedOnce /\ Unlisted /\ NotifiedOnce
  BY DEF PInv
<1>1. publish_list \in Seq(PEntries)
  BY <1>0 DEF PTypeOK, PEntries
<1>2. /\ publish_list' \in Seq(PEntries)
      /\ Len(publish_list') = Len(publish_list) - 1
      /\ \A i \in 1 .. Len(publish_list) - 1 :
             publish_list'[i] = IF i < k THEN publish_list[i] ELSE publish_list[i + 1]
  BY <1>1, RemoveAtProperties
<1>3. /\ Len(publish_list) \in Nat /\ k \in Nat
      /\ e \in Msgs /\ e \in Listed
      /\ Listed = {publish_list[i].m : i \in 1 .. Len(publish_list)}
  BY <1>0, PListFacts
<1>4. notices' = [notices EXCEPT ![e] = Append(notices[e], rt)]
  BY DEF Notify
<1>5. notices[e] = <<>>
  BY <1>0, <1>3 DEF NotifiedOnce
<1>6. PTypeOK'
  <2>1. notices' \in [Msgs -> Seq({"OK", "TIMEOUT"})]
    BY <1>0, <1>3, <1>4 DEF PTypeOK
  <2> QED BY <1>0, <1>2, <2>1 DEF PTypeOK, PEntries
<1>7. Listed' = {publish_list'[i].m : i \in 1 .. Len(publish_list) - 1}
  <2>1. DOMAIN publish_list' = 1 .. Len(publish_list) - 1
    BY <1>2, LenProperties
  <2> QED BY <2>1 DEF Listed
<1>8. \A i \in 1 .. Len(publish_list) - 1 : \E n \in 1 .. Len(publish_list) :
          publish_list'[i] = publish_list[n] /\ n # k /\ n = IF i < k THEN i ELSE i + 1
  BY <1>2, <1>3
<1>9. Listed' \subseteq Listed /\ e \notin Listed'
  <2>1. ASSUME NEW x \in Listed' PROVE x \in Listed /\ x # e
    <3>1. PICK i \in 1 .. Len(publish_list) - 1 : x = publish_list'[i].m
      BY <1>7
    <3>2. PICK n \in 1 .. Len(publish_list) : publish_list'[i] = publish_list[n] /\ n # k
      BY <1>8
    <3> QED BY <3>1, <3>2, <1>0, <1>3 DEF ListedOnce
  <2> QED BY <2>1
<1>10. ListedOnce'
  <2> SUFFICES ASSUME NEW i \in 1 .. Len(publish_list) - 1, NEW j \in 1 .. Len(publish_list) - 1,
                      publish_list'[i].m = publish_list'[j].m
               PROVE  i = j
    BY <1>2 DEF ListedOnce
  <2>1. PICK n \in 1 .. Len(publish_list) :
            publish_list'[i] = publish_list[n] /\ n = IF i < k THEN i ELSE i + 1
    BY <1>8
  <2>2. PICK o \in 1 .. Len(publish_list) :
            publish_list'[j] = publish_list[o] /\ o = IF j < k THEN j ELSE j + 1
    BY <1>8
  <2>3. n = o
    BY <2>1, <2>2, <1>0 DEF ListedOnce
  <2> QED BY <2>1, <2>2, <2>3, <1>3
<1>11. Unlisted'
  BY <1>0, <1>3, <1>4, <1>9 DEF Unlisted, PTypeOK
<1>12. NotifiedOnce'
  <2>1. notices'[e] = Append(<<>>, rt)
    BY <1>0, <1>3, <1>4, <1>5 DEF PTypeOK
  <2>2. Len(notices'[e]) <= 1
    BY <2>1
  <2>3. \A m \in Msgs \ {e} : notices'[m] = notices[m]
    BY <1>0, <1>3, <1>4 DEF PTypeOK
  <2>4. ASSUME NEW m \in Msgs, m # e
        PROVE  Len(notices'[m]) <= 1 /\ (notices'[m] # <<>> => m \notin Listed')
    BY <2>3, <2>4, <1>0, <1>9 DEF NotifiedOnce
  <2> QED BY <2>2, <2>4, <1>9 DEF NotifiedOnce
<1> QED BY <1>6, <1>10, <1>11, <1>12 DEF PInv
\* Linking the new entry, at the end or as the first one, keeps the invariant.
LEMMA LinkNew ==
    ASSUME PInv, publisher.at # "idle",
           publish_list' = Append(publish_list, Entry(publisher.m, publisher.msgid)),
           publisher' = NoCall,
           UNCHANGED <<is_connected, at, pos, lastid, acks, expired, notices, lost>>
    PROVE  PInv'
<1> DEFINE e == Entry(publisher.m, publisher.msgid)
<1>0. PTypeOK /\ ListedOnce /\ Unlisted /\ NotifiedOnce /\ MaxId \in Nat
  BY MaxIdNatural DEF PInv
<1>1. /\ publish_list \in Seq(PEntries)
      /\ e \in PEntries /\ e.m = publisher.m
      /\ publisher.m \in Msgs /\ publisher.m \notin Listed /\ notices[publisher.m] = <<>>
  BY <1>0 DEF PTypeOK, Unlisted, PEntries, Entry
<1> HIDE DEF e
<1>2. publish_list' = Append(publish_list, e)
  BY DEF e
<1>3. /\ publish_list' \in Seq(PEntries)
      /\ Len(publish_list') = Len(publish_list) + 1
      /\ \A i \in 1 .. Len(publish_list) : publish_list'[i] = publish_list[i]
      /\ publish_list'[Len(publish_list) + 1] = e
  BY <1>1, <1>2, AppendProperties
<1>4. /\ Len(publish_list) \in Nat
      /\ Listed = {publish_list[i].m : i \in 1 .. Len(publish_list)}
  BY <1>0, PListFacts
<1>5. Listed' = Listed \cup {publisher.m}
  <2>1. DOMAIN publish_list' = 1 .. Len(publish_list) + 1
    BY <1>3, LenProperties
  <2>2. Listed' = {publish_list'[i].m : i \in 1 .. Len(publish_list) + 1}
    BY <2>1 DEF Listed
  <2> QED BY <2>2, <1>1, <1>3, <1>4
<1>6. PTypeOK'
  BY <1>0, <1>3 DEF PTypeOK, PEntries, NoCall
<1>7. ListedOnce'
  <2>1. \A i \in 1 .. Len(publish_list) : publish_list[i].m # publisher.m
    BY <1>1, <1>4
  <2> QED BY <2>1, <1>0, <1>1, <1>3, <1>4 DEF ListedOnce
<1>8. Unlisted'
  BY DEF Unlisted, NoCall
<1>9. NotifiedOnce'
  BY <1>0, <1>1, <1>5 DEF NotifiedOnce
<1> QED BY <1>6, <1>7, <1>8, <1>9 DEF PInv

\* A step that leaves the publishes and who was told as they are.
LEMMA ListUnchanged ==
    ASSUME PInv, PTypeOK', UNCHANGED <<publish_list, notices>>,
           publisher'.at # "idle" => /\ publisher'.m \in Msgs \ Listed
                                     /\ notices[publisher'.m] = <<>>
    PROVE  PInv'
<1>1. Listed' = Listed
  BY DEF Listed
<1> QED BY <1>1 DEF PInv, ListedOnce, Unlisted, NotifiedOnce

\* A packet's identifier is in range, sent or not.
LEMMA SentInRange ==
    ASSUME PTypeOK, NEW msgid \in {0, lastid + 1}, Sent(msgid) \/ NotSent(msgid)
    PROVE  msgid \in 0 .. MaxId /\ lastid' \in 0 .. MaxId /\ acks' \subseteq 1 .. MaxId
<1>1. MaxId \in Nat /\ lastid \in 0 .. MaxId /\ acks \subseteq 1 .. MaxId
  BY MaxIdNatural DEF PTypeOK
<1>2. CASE Sent(msgid)
  BY <1>1, <1>2 DEF Sent
<1>3. CASE NotSent(msgid)
  BY <1>1, <1>3 DEF NotSent
<1> QED BY <1>2, <1>3

LEMMA PublisherStep ==
    ASSUME PInv, Publisher
    PROVE  PInv'
<1>0. PTypeOK /\ Unlisted /\ MaxId \in Nat
  BY MaxIdNatural DEF PInv
<1>1. ASSUME NEW m \in Msgs, PublishAsync(m) PROVE PInv'
  <2>1. PTypeOK'
    BY <1>0, <1>1 DEF PublishAsync, PTypeOK
  <2> QED BY <2>1, <1>1, ListUnchanged DEF PublishAsync, Fresh
<1>2. ASSUME NEW m \in Msgs, PublishNow(m) PROVE PInv'
  <2>1. PICK msgid \in {0, lastid + 1} :
            /\ Sent(msgid) \/ NotSent(msgid)
            /\ publisher' = [at |-> "find", m |-> m, msgid |-> msgid, tail |-> NoMsg]
    BY <1>2 DEF PublishNow
  <2>2. msgid \in 0 .. MaxId /\ lastid' \in 0 .. MaxId /\ acks' \subseteq 1 .. MaxId
    BY <1>0, <2>1, SentInRange
  <2>3. PTypeOK'
    BY <1>0, <1>2, <2>1, <2>2 DEF PublishNow, PTypeOK
  <2> QED BY <2>1, <2>3, <1>2, ListUnchanged DEF PublishNow, Fresh
<1>3. ASSUME FindLast PROVE PInv'
  <2>1. CASE publish_list = <<>>
    <3>1. publish_list' = Append(publish_list, Entry(publisher.m, publisher.msgid))
      BY <1>3, <2>1 DEF FindLast
    <3> QED BY <3>1, <1>3, <2>1, LinkNew DEF FindLast
  <2>2. CASE publish_list # <<>>
    <3>1. Last(publish_list).m \in Msgs
      <4>1. Len(publish_list) \in 1 .. Len(publish_list)
        BY <1>0, <2>2, EmptySeq DEF PTypeOK
      <4> QED BY <4>1, <1>0, PListFacts DEF Last
    <3>2. publisher' = [publisher EXCEPT !.at = "link", !.tail = Last(publish_list).m]
      BY <1>3, <2>2 DEF FindLast
    <3>3. publisher'.m = publisher.m /\ publisher.at # "idle"
      BY <1>0, <1>3, <3>2 DEF FindLast, PTypeOK
    <3>4. PTypeOK'
      BY <1>0, <1>3, <2>2, <3>1, <3>2 DEF FindLast, PTypeOK
    <3> QED BY <1>0, <1>3, <2>2, <3>3, <3>4, ListUnchanged DEF FindLast, Unlisted
  <2> QED BY <2>1, <2>2
<1>4. ASSUME LinkLast PROVE PInv'
  <2>1. CASE publisher.tail \in Listed
    BY <1>4, <2>1, LinkNew DEF LinkLast
  <2>2. CASE publisher.tail \notin Listed
    <3>1. PTypeOK'
      BY <1>0, <1>4, <2>2 DEF LinkLast, PTypeOK, NoCall, Unlisted
    <3> QED BY <1>4, <2>2, <3>1, ListUnchanged DEF LinkLast, NoCall
  <2> QED BY <2>1, <2>2
<1> QED BY <1>1, <1>2, <1>3, <1>4 DEF Publisher

LEMMA WalkStep ==
    ASSUME PInv, WalkTimeout \/ WalkSend
    PROVE  PInv'
<1>0. PTypeOK /\ ListedOnce /\ Unlisted /\ NotifiedOnce /\ MaxId \in Nat
  BY MaxIdNatural DEF PInv
<1>1. /\ pos \in 1 .. Len(publish_list)
      /\ publish_list \in Seq(PEntries) /\ Len(publish_list) \in Nat
      /\ pos' = pos + 1 /\ pos' \in Nat \ {0}
  <2>1. pos \in Nat \ {0} /\ publish_list \in Seq(PEntries) /\ Len(publish_list) \in Nat
    BY <1>0, PListFacts DEF PTypeOK, PEntries
  <2>2. pos <= Len(publish_list) /\ pos' = pos + 1
    BY DEF WalkTimeout, WalkSend
  <2> QED BY <2>1, <2>2
<1>2. CASE WalkTimeout
  <2>1. at' \in {"loop", "up", "walk", "yield", "matop", "crashed"}
    BY <1>2 DEF WalkTimeout
  <2>2. lastid' \in 0 .. MaxId /\ acks' \subseteq 1 .. MaxId
    BY <1>0, <1>2 DEF WalkTimeout, PTypeOK
  <2> QED BY <1>1, <1>2, <2>1, <2>2, TellAndRemove DEF WalkTimeout
<1>3. CASE WalkSend
  <2>1. PICK msgid \in {0, lastid + 1} :
            /\ Sent(msgid) \/ NotSent(msgid)
            /\ publish_list' = [publish_list EXCEPT ![pos].msgid = msgid]
    BY <1>3 DEF WalkSend
  <2>2. msgid \in 0 .. MaxId /\ lastid' \in 0 .. MaxId /\ acks' \subseteq 1 .. MaxId
    BY <1>0, <2>1, SentInRange
  <2> DEFINE e == [publish_list[pos] EXCEPT !.msgid = msgid]
  <2>3. publish_list[pos] \in PEntries
    BY <1>1, ElementOfSeq
  <2>4. e \in PEntries /\ e.m = publish_list[pos].m
    BY <2>2, <2>3 DEF PEntries
  <2>5. publish_list' = [publish_list EXCEPT ![pos] = e]
    BY <2>1
  <2> HIDE DEF e
  <2>6. /\ publish_list' \in Seq(PEntries) /\ Len(publish_list') = Len(publish_list)
        /\ \A i \in 1 .. Len(publish_list) :
               publish_list'[i] = IF i = pos THEN e ELSE publish_list[i]
    BY <1>1, <2>4, <2>5, ExceptSeq
  <2>7. \A i \in 1 .. Len(publish_list) : publish_list'[i].m = publish_list[i].m
    BY <2>4, <2>6
  <2>8. Listed' = Listed
    <3>1. /\ DOMAIN publish_list' = 1 .. Len(publish_list)
          /\ DOMAIN publish_list = 1 .. Len(publish_list)
      BY <1>1, <2>6, LenProperties
    <3> QED BY <3>1, <2>7 DEF Listed
  <2>9. PTypeOK'
    BY <1>0, <1>1, <1>3, <2>2, <2>6 DEF WalkSend, PTypeOK, PEntries
  <2> QED BY <1>0, <1>3, <2>6, <2>7, <2>8, <2>9
          DEF WalkSend, PInv, ListedOnce, Unlisted, NotifiedOnce
<1> QED BY <1>2, <1>3

LEMMA PubackStep ==
    ASSUME PInv, NEW msgid \in 1 .. MaxId, Puback(msgid)
    PROVE  PInv'
<1>0. PTypeOK /\ Unlisted
  BY DEF PInv
<1>1. /\ at' \in {"loop", "up", "walk", "yield", "matop", "crashed"} /\ pos' \in Nat \ {0}
      /\ lastid' \in 0 .. MaxId /\ acks' \subseteq 1 .. MaxId
  BY <1>0 DEF Puback, PTypeOK
<1>2. CASE \E i \in DOMAIN publish_list :
               /\ Notify(publish_list[i].m, "OK")
               /\ publish_list' = RemoveAt(publish_list, i)
  <2>1. PICK i \in 1 .. Len(publish_list) :
               /\ Notify(publish_list[i].m, "OK")
               /\ publish_list' = RemoveAt(publish_list, i)
    BY <1>0, <1>2, PListFacts
  <2> QED BY <1>1, <2>1, TellAndRemove DEF Puback
<1>3. CASE UNCHANGED <<publish_list, notices>>
  <2>1. PTypeOK'
    BY <1>0, <1>1, <1>3 DEF Puback, PTypeOK
  <2> QED BY <1>0, <1>3, <2>1, ListUnchanged DEF Puback, Unlisted
<1> QED BY <1>2, <1>3 DEF Puback

\* Every step of the session keeps its invariant.
LEMMA PNextInv ==
    ASSUME PInv, [PNext]_pvars
    PROVE  PInv'
<1>0. PTypeOK /\ Unlisted
  BY DEF PInv
<1>1. CASE \/ WalkBegin \/ WalkPass \/ WalkEnd \/ YieldNothing
           \/ Connected \/ OnConnected \/ ConnectFailed \/ Disconnected \/ Round
           \/ \E m \in Msgs : Expire(m)
           \/ UNCHANGED pvars
  <2>1. UNCHANGED <<publish_list, notices, publisher>>
    BY <1>1 DEF WalkBegin, WalkPass, WalkEnd, YieldNothing, Connected, OnConnected, ConnectFailed,
                Disconnected, Round, Expire, pvars
  <2>2. PTypeOK'
    <3>1. pos' \in Nat \ {0}
      BY <1>0, <1>1 DEF WalkBegin, WalkPass, WalkEnd, YieldNothing, Connected, OnConnected,
                ConnectFailed, Disconnected, Round, Expire, pvars, PTypeOK
    <3>2. /\ is_connected' \in BOOLEAN
          /\ at' \in {"loop", "up", "walk", "yield", "matop", "crashed"}
      BY <1>0, <1>1 DEF WalkBegin, WalkPass, WalkEnd, YieldNothing, Connected, OnConnected,
                ConnectFailed, Disconnected, Round, Expire, pvars, PTypeOK
    <3>3. lastid' = lastid /\ acks' \subseteq acks /\ lost' = lost /\ expired' \subseteq Msgs
      BY <1>0, <1>1 DEF WalkBegin, WalkPass, WalkEnd, YieldNothing, Connected, OnConnected,
                ConnectFailed, Disconnected, Round, Expire, pvars, PTypeOK
    <3> QED BY <1>0, <2>1, <3>1, <3>2, <3>3 DEF PTypeOK
  <2> QED BY <1>0, <2>1, <2>2, ListUnchanged DEF Unlisted
<1>2. CASE WalkTimeout \/ WalkSend
  BY <1>2, WalkStep
<1>3. CASE \E msgid \in 1 .. MaxId : Puback(msgid)
  BY <1>3, PubackStep
<1>4. CASE Publisher
  BY <1>4, PublisherStep
<1> QED BY <1>1, <1>2, <1>3, <1>4 DEF PNext, PMain, PublishLoop

\* The session keeps its invariant, for any number of messages and identifiers.
LEMMA SessionInvariant == PSpec => []PInv
<1>1. PInv /\ [PNext]_pvars => PInv'
  BY PNextInv
<1> QED BY PInitInv, <1>1, PTL DEF PSpec

\* The session's state is well typed: the walk's position and the packet identifiers stay
\* in range although the list shrinks under the walk.
THEOREM SessionTypeCorrect == PSpec => []PTypeOK
<1>1. PInv => PTypeOK
  BY DEF PInv
<1> QED BY SessionInvariant, <1>1, PTL

\* Every publisher is told at most once, by the PUBACK or by the timeout, and never while
\* its entry is still in publish_list.
THEOREM ToldOnce == PSpec => []NotifiedOnce
<1>1. PInv => NotifiedOnce
  BY DEF PInv
<1> QED BY SessionInvariant, <1>1, PTL
-----------------------------------------------------------------------------
(* The requests use the session as its specification says.                 *)

LEMMA StepImplements == [Next]_vars => [PNext]_pvars
<1> SUFFICES ASSUME [Next]_vars PROVE [PNext]_pvars
  OBVIOUS
<1>1. CASE MainThread
  <2>1. CASE (PublishLoop \/ Connected \/ ConnectFailed) /\ UNCHANGED mvars
    BY <2>1 DEF PNext, PMain
  <2>2. CASE ConnectedOn \/ DisconnectOn
    BY <2>2 DEF ConnectedOn, DisconnectOn, PNext, PMain
  <2>3. CASE \/ \E r \in Reqs : Request(r)
             \/ \E ans \in answers : Receive(ans) \/ ReceiveUnknown(ans)
    <3>1. YieldNothing
      BY <2>3 DEF Request, Receive, ReceiveUnknown, YieldNothing
    <3> QED BY <3>1 DEF PNext, PMain, PublishLoop
  <2>4. CASE YieldTimeout \/ YieldOk
    <3>1. Round
      BY <2>4 DEF YieldTimeout, YieldOk, Round
    <3> QED BY <3>1 DEF PNext, PMain
  <2> QED BY <1>1, <2>1, <2>2, <2>3, <2>4 DEF MainThread
<1>2. CASE TimerThread
  BY <1>2 DEF TimerThread, TimerCount, TimerSend, TimerFind, TimerLink
<1>3. CASE Time
  BY <1>3 DEF Time, Overdue, PNext
<1>4. CASE Publisher /\ UNCHANGED mvars
  BY <1>4 DEF PNext
<1>5. CASE UNCHANGED vars
  BY <1>5 DEF vars
<1> QED BY <1>1, <1>2, <1>3, <1>4, <1>5 DEF Next

\* matop_service.c runs on the session without disturbing it: whatever the requests,
\* their callbacks and the timer thread do is a step of the session or leaves it alone.
THEOREM RequestsImplementSession == Spec => PSpec
<1>1. Init => PInit
  BY DEF Init
<1> QED BY <1>1, StepImplements, PTL DEF Spec, PSpec
-----------------------------------------------------------------------------
(* Lists of requests.                                                      *)

MEntries == [r : Reqs, id : Ids]

Names(list) == {list[i].r : i \in 1 .. Len(list)}

\* No request has two entries.
Once(list) == \A i, j \in 1 .. Len(list) : list[i].r = list[j].r => i = j

LEMMA WaitingNames ==
    ASSUME message_list \in Seq(MEntries)
    PROVE  /\ Waiting = Names(message_list)
           /\ DOMAIN message_list = 1 .. Len(message_list)
           /\ Waiting \subseteq Reqs
<1>1. DOMAIN message_list = 1 .. Len(message_list)
  BY LenProperties
<1>2. \A i \in 1 .. Len(message_list) : message_list[i] \in MEntries
  BY ElementOfSeq
<1>3. \A i \in 1 .. Len(message_list) : message_list[i].r \in Reqs
  BY <1>2 DEF MEntries
<1> QED BY <1>1, <1>3 DEF Waiting, Names

LEMMA EmptyNames == <<>> \in Seq(MEntries) /\ Names(<<>>) = {} /\ Once(<<>>)
BY DEF Names, Once

LEMMA AppendNames ==
    ASSUME NEW list \in Seq(MEntries), NEW e \in MEntries
    PROVE  /\ Append(list, e) \in Seq(MEntries)
           /\ Names(Append(list, e)) = Names(list) \cup {e.r}
           /\ Once(list) /\ e.r \notin Names(list) => Once(Append(list, e))
<1> DEFINE t == Append(list, e)
<1>1. /\ t \in Seq(MEntries) /\ Len(t) = Len(list) + 1 /\ Len(list) \in Nat
      /\ \A i \in 1 .. Len(list) : t[i] = list[i]
      /\ t[Len(list) + 1] = e
  BY AppendProperties, LenProperties
<1> HIDE DEF t
<1>2. Names(t) = Names(list) \cup {e.r}
  BY <1>1 DEF Names
<1>3. ASSUME Once(list), e.r \notin Names(list) PROVE Once(t)
  <2>1. \A i \in 1 .. Len(list) : list[i].r # e.r
    BY <1>3 DEF Names
  <2> QED BY <1>1, <1>3, <2>1 DEF Once
<1> QED BY <1>1, <1>2, <1>3 DEF t

LEMMA RemoveNames ==
    ASSUME NEW list \in Seq(MEntries), Once(list), NEW k \in 1 .. Len(list)
    PROVE  /\ RemoveAt(list, k) \in Seq(MEntries)
           /\ Names(RemoveAt(list, k)) = Names(list) \ {list[k].r}
           /\ Once(RemoveAt(list, k))
<1> DEFINE t == RemoveAt(list, k)
<1>1. /\ t \in Seq(MEntries) /\ Len(t) = Len(list) - 1 /\ Len(list) \in Nat /\ k \in Nat
      /\ \A i \in 1 .. Len(list) - 1 : t[i] = IF i < k THEN list[i] ELSE list[i + 1]
  BY RemoveAtProperties, LenProperties
<1> HIDE DEF t
<1>2. \A i \in 1 .. Len(t) : \E n \in 1 .. Len(list) :
          t[i] = list[n] /\ n # k /\ n = IF i < k THEN i ELSE i + 1
  BY <1>1
<1>3. Names(t) \subseteq Names(list) \ {list[k].r}
  BY <1>2 DEF Names, Once
<1>4. Names(list) \ {list[k].r} \subseteq Names(t)
  <2> SUFFICES ASSUME NEW n \in 1 .. Len(list), n # k
               PROVE  \E i \in 1 .. Len(t) : t[i] = list[n]
    BY DEF Names
  <2>1. CASE n < k
    BY <1>1, <2>1
  <2>2. CASE n > k
    <3>1. n - 1 \in 1 .. Len(t) /\ t[n - 1] = list[n]
      BY <1>1, <2>2
    <3> QED BY <3>1
  <2> QED BY <1>1, <2>1, <2>2
<1>5. Once(t)
  <2> SUFFICES ASSUME NEW i \in 1 .. Len(t), NEW j \in 1 .. Len(t), t[i].r = t[j].r
               PROVE  i = j
    BY DEF Once
  <2>1. PICK n \in 1 .. Len(list) : t[i] = list[n] /\ n = IF i < k THEN i ELSE i + 1
    BY <1>2
  <2>2. PICK o \in 1 .. Len(list) : t[j] = list[o] /\ o = IF j < k THEN j ELSE j + 1
    BY <1>2
  <2>3. n = o
    BY <2>1, <2>2 DEF Once
  <2> QED BY <1>1, <2>1, <2>2, <2>3
<1> QED BY <1>1, <1>3, <1>4, <1>5 DEF t

LEMMA PrefixNames ==
    ASSUME NEW list \in Seq(MEntries), NEW k \in 1 .. Len(list)
    PROVE  /\ SubSeq(list, 1, k) \in Seq(MEntries)
           /\ Names(SubSeq(list, 1, k)) \subseteq Names(list)
           /\ Names(list) \subseteq Names(SubSeq(list, 1, k))
                                        \cup {list[j].r : j \in k + 1 .. Len(list)}
           /\ Once(list) => Once(SubSeq(list, 1, k))
<1> DEFINE t == SubSeq(list, 1, k)
<1>1. Len(list) \in Nat /\ k \in Nat /\ \A i \in 1 .. Len(list) : list[i] \in MEntries
  BY LenProperties, ElementOfSeq
<1>2. t \in Seq(MEntries) /\ Len(t) = k /\ \A i \in 1 .. k : t[i] = list[i]
  <2>1. 1 \in Int /\ k \in Int /\ \A i \in 1 .. k : list[i] \in MEntries
    BY <1>1
  <2> HIDE DEF t
  <2>2. /\ t \in Seq(MEntries) /\ Len(t) = IF 1 <= k THEN k - 1 + 1 ELSE 0
        /\ \A i \in 1 .. k - 1 + 1 : t[i] = list[1 + i - 1]
    BY <2>1, SubSeqProperties DEF t
  <2> QED BY <1>1, <2>2
<1> HIDE DEF t
<1>3. Names(t) \subseteq Names(list) /\ (Once(list) => Once(t))
  BY <1>1, <1>2 DEF Names, Once
<1>4. Names(list) \subseteq Names(t) \cup {list[j].r : j \in k + 1 .. Len(list)}
  BY <1>1, <1>2 DEF Names
<1> QED BY <1>2, <1>3, <1>4 DEF t
-----------------------------------------------------------------------------
(* The requests: each is answered once, none accepted is dropped.          *)

\* Numbers are counted from the start of the connection, and never ahead of the requests
\* that were made.
Counted ==
    /\ id_cnt <= Cardinality(begun)
    /\ timer.id <= Cardinality(begun)

\* Only what was made waits, with one entry, and only what was made was answered.
Made ==
    /\ Once(message_list)
    /\ Waiting \subseteq begun
    /\ \A r \in Reqs : responses[r] # <<>> => r \in begun

\* The timer thread's request is in no list before it is linked, so that nobody can
\* answer it, and is accepted only when it has been sent.
Underway ==
    timer # NoTimer => /\ timer.r \in begun \ Waiting
                       /\ responses[timer.r] = <<>>
                       /\ timer.at = "send" => timer.r \notin kept

\* The inductive invariant.  AnsweredOnce alone says nothing of two entries for one
\* request, or of a request that is linked after it was answered.
MInv == TypeOK /\ Counted /\ Made /\ Underway /\ AnsweredOnce /\ RequestsKept

LEMMA InitInv == Init => MInv
<1> SUFFICES ASSUME Init PROVE MInv
  OBVIOUS
<1>1. /\ message_list = <<>> /\ Waiting = {} /\ Once(message_list)
      /\ begun = {} /\ kept = {} /\ timer = NoTimer
      /\ \A r \in Reqs : responses[r] = <<>>
  BY EmptyNames DEF Init, Waiting
<1>2. Cardinality(begun) = 0 /\ Cardinality(Reqs) \in Nat
  BY <1>1, FS_EmptySet, FS_CardinalityType, ReqsFinite
<1>3. TypeOK
  <2>1. PTypeOK
    BY PInitInv DEF Init, PInv
  <2> QED BY <1>1, <1>2, <2>1 DEF Init, TypeOK
<1>4. Counted
  BY <1>1, <1>2 DEF Init, Counted, NoTimer
<1>5. AnsweredOnce
  BY <1>1 DEF AnsweredOnce
<1> QED BY <1>1, <1>3, <1>4, <1>5 DEF MInv, Made, Underway, RequestsKept

\* A new request's number is in range.
LEMMA NextNumber ==
    ASSUME TypeOK, Counted, NEW r \in Reqs, r \notin begun
    PROVE  /\ Cardinality(begun) \in Nat
           /\ Cardinality(begun \cup {r}) = Cardinality(begun) + 1
           /\ Cardinality(begun \cup {r}) <= Cardinality(Reqs)
           /\ id_cnt + 1 \in Ids /\ id_cnt + 1 <= Cardinality(begun \cup {r})
<1>1. IsFiniteSet(Reqs) /\ begun \subseteq Reqs /\ id_cnt \in Nat /\ id_cnt <= Cardinality(begun)
  BY ReqsFinite DEF TypeOK, Counted
<1>2. IsFiniteSet(begun) /\ Cardinality(begun) \in Nat /\ Cardinality(Reqs) \in Nat
  BY <1>1, FS_Subset, FS_CardinalityType
<1>3. Cardinality(begun \cup {r}) = Cardinality(begun) + 1
  BY <1>2, FS_AddElement
<1>4. Cardinality(begun \cup {r}) <= Cardinality(Reqs)
  BY <1>1, FS_Subset
<1> QED BY <1>1, <1>2, <1>3, <1>4 DEF Ids

\* What sending a request, or none, does to a list of waiting requests.
LEMMA MaySendFacts ==
    ASSUME TypeOK, Counted, NEW list \in Seq(MEntries), Once(list), Names(list) \subseteq begun,
           NEW old \in SUBSET answers, MaySend(list, old)
    PROVE  /\ message_list' \in Seq(MEntries) /\ Once(message_list')
           /\ Names(list) \subseteq Waiting'
           /\ Waiting' \subseteq Names(list) \cup (begun' \ begun)
           /\ begun \subseteq begun' /\ begun' \subseteq Reqs
           /\ kept \subseteq kept' /\ kept' \ kept \subseteq Waiting' \ begun
           /\ answers' \subseteq [id : Ids, r : Reqs]
           /\ id_cnt' \in 0 .. Cardinality(Reqs)
           /\ id_cnt' <= Cardinality(begun') /\ Cardinality(begun) <= Cardinality(begun')
<1>0. /\ begun \subseteq Reqs /\ answers \subseteq [id : Ids, r : Reqs]
      /\ id_cnt \in 0 .. Cardinality(Reqs) /\ id_cnt <= Cardinality(begun)
      /\ Cardinality(begun) \in Nat
  BY ReqsFinite, FS_Subset, FS_CardinalityType DEF TypeOK, Counted
<1>1. ASSUME NEW r \in Reqs, Sends(r, list, old),
             message_list' = Append(list, [r |-> r, id |-> id_cnt + 1]),
             answers' = old \cup {[id |-> id_cnt + 1, r |-> r]},
             kept' = kept \cup {r}
      PROVE  /\ message_list' \in Seq(MEntries) /\ Once(message_list')
             /\ Names(message_list') = Names(list) \cup {r}
             /\ answers' \subseteq [id : Ids, r : Reqs]
  <2> DEFINE e == [r |-> r, id |-> id_cnt + 1]
  <2>1. id_cnt + 1 \in Ids /\ r \notin begun
    BY <1>1, NextNumber DEF Sends
  <2>2. e \in MEntries /\ e.r = r
    BY <2>1 DEF MEntries
  <2> HIDE DEF e
  <2>3. message_list' = Append(list, e)
    BY <1>1 DEF e
  <2> QED BY <1>0, <1>1, <2>1, <2>2, <2>3, AppendNames
<1>2. ASSUME NEW r \in Reqs, Sends(r, list, old)
      PROVE  /\ r \notin begun /\ begun' = begun \cup {r}
             /\ id_cnt' \in 0 .. Cardinality(Reqs) /\ id_cnt' <= Cardinality(begun')
             /\ Cardinality(begun) <= Cardinality(begun')
  <2>1. r \notin begun /\ begun' = begun \cup {r} /\ id_cnt' = id_cnt + 1
    BY <1>2 DEF Sends
  <2>2. /\ Cardinality(begun \cup {r}) = Cardinality(begun) + 1
        /\ id_cnt + 1 \in 1 .. Cardinality(Reqs)
        /\ id_cnt + 1 <= Cardinality(begun \cup {r})
    BY <2>1, NextNumber DEF Ids
  <2> QED BY <1>0, <2>1, <2>2
<1>3. CASE message_list' = list /\ answers' = old /\ UNCHANGED <<begun, id_cnt, kept>>
  <2>1. Waiting' = Names(list)
    <3>1. DOMAIN list = 1 .. Len(list)
      BY LenProperties
    <3> QED BY <1>3, <3>1 DEF Waiting, Names
  <2> QED BY <1>0, <1>3, <2>1
<1>4. ASSUME NEW r \in Reqs, Sends(r, list, old),
             message_list' = Append(list, [r |-> r, id |-> id_cnt + 1]),
             answers' = old \cup {[id |-> id_cnt + 1, r |-> r]},
             kept' = kept \cup {r}
      PROVE  Waiting' = Names(list) \cup {r}
  <2>1. DOMAIN message_list' = 1 .. Len(message_list')
    BY <1>1, <1>4, LenProperties
  <2>2. Waiting' = Names(message_list')
    BY <2>1 DEF Waiting, Names
  <2> QED BY <1>1, <1>4, <2>2
<1>5. ASSUME NEW r \in Reqs, Sends(r, list, old),
             message_list' = list, answers' = old, UNCHANGED kept
      PROVE  Waiting' = Names(list)
  <2>1. DOMAIN list = 1 .. Len(list)
    BY LenProperties
  <2> QED BY <1>5, <2>1 DEF Waiting, Names
<1>6. CASE \E r \in Reqs : Sends(r, list, old)
  <2>1. PICK r \in Reqs : Sends(r, list, old)
    BY <1>6
  <2>2. CASE /\ message_list' = Append(list, [r |-> r, id |-> id_cnt + 1])
             /\ answers' = old \cup {[id |-> id_cnt + 1, r |-> r]}
             /\ kept' = kept \cup {r}
    BY <1>0, <2>1, <2>2, <1>1, <1>2, <1>4
  <2>3. CASE message_list' = list /\ answers' = old /\ UNCHANGED kept
    BY <1>0, <2>1, <2>3, <1>2, <1>5
  <2> QED BY <2>1, <2>2, <2>3 DEF Sends
<1> QED BY <1>3, <1>6 DEF MaySend

LEMMA TypeFacts ==
    ASSUME TypeOK
    PROVE  /\ PTypeOK /\ message_list \in Seq(MEntries)
           /\ begun \subseteq Reqs /\ kept \subseteq begun
           /\ responses \in [Reqs -> Seq(Reqs \cup {"FAIL"})]
           /\ Waiting = Names(message_list) /\ DOMAIN message_list = 1 .. Len(message_list)
           /\ Waiting \subseteq Reqs
<1>1. message_list \in Seq(MEntries)
  BY DEF TypeOK, MEntries
<1> QED BY <1>1, WaitingNames DEF TypeOK

\* The callback of an entry runs, with an answer or a failure, may send a request, and
\* the entry is removed.
LEMMA CalledBack ==
    ASSUME MInv, PTypeOK', NEW i \in DOMAIN message_list, NEW what \in Reqs \cup {"FAIL"},
           Respond(message_list[i].r, what),
           NEW old \in SUBSET answers, MaySend(RemoveAt(message_list, i), old),
           UNCHANGED <<overdue, timer, astray>>
    PROVE  MInv'
<1> DEFINE x == message_list[i].r
           list == RemoveAt(message_list, i)
<1>0. TypeOK /\ Counted /\ Made /\ Underway /\ AnsweredOnce /\ RequestsKept
  BY DEF MInv
<1>1. /\ message_list \in Seq(MEntries) /\ i \in 1 .. Len(message_list)
      /\ begun \subseteq Reqs /\ kept \subseteq begun
      /\ responses \in [Reqs -> Seq(Reqs \cup {"FAIL"})]
      /\ Waiting = Names(message_list) /\ Waiting \subseteq Reqs
      /\ Once(message_list) /\ Waiting \subseteq begun
  BY <1>0, TypeFacts DEF Made
<1>2. x \in Waiting /\ x \in Reqs
  BY <1>1 DEF Names
<1>3. list \in Seq(MEntries) /\ Once(list) /\ Names(list) = Waiting \ {x}
  BY <1>1, RemoveNames
<1> HIDE DEF x, list
<1>4. MaySend(list, old) /\ Names(list) \subseteq begun
  BY <1>1, <1>3 DEF list
<1>5. /\ message_list' \in Seq(MEntries) /\ Once(message_list')
      /\ Waiting \ {x} \subseteq Waiting'
      /\ Waiting' \subseteq (Waiting \ {x}) \cup (begun' \ begun)
      /\ begun \subseteq begun' /\ begun' \subseteq Reqs
      /\ kept \subseteq kept' /\ kept' \ kept \subseteq Waiting' \ begun
      /\ answers' \subseteq [id : Ids, r : Reqs]
      /\ id_cnt' \in 0 .. Cardinality(Reqs)
      /\ id_cnt' <= Cardinality(begun') /\ Cardinality(begun) <= Cardinality(begun')
  <2> HIDE DEF MInv
  <2> QED BY <1>0, <1>3, <1>4, MaySendFacts
<1>6. responses' = [responses EXCEPT ![x] = Append(responses[x], what)]
  BY DEF Respond, x
<1>7. responses[x] = <<>>
  BY <1>0, <1>2 DEF AnsweredOnce
<1>8. /\ responses' \in [Reqs -> Seq(Reqs \cup {"FAIL"})]
      /\ responses'[x] = Append(<<>>, what)
      /\ \A r \in Reqs \ {x} : responses'[r] = responses[r]
  BY <1>1, <1>2, <1>6, <1>7
<1>9. TypeOK'
  <2>1. kept' \subseteq begun'
    <3>1. Waiting' \subseteq begun'
      BY <1>1, <1>5
    <3> QED BY <3>1, <1>1, <1>5
  <2> QED BY <1>0, <1>5, <1>8, <2>1 DEF TypeOK, MEntries
<1>10. Counted'
  <2>1. timer.id \in Nat /\ timer.id <= Cardinality(begun) /\ timer' = timer
    BY <1>0 DEF TypeOK, Counted, Ids, NoTimer
  <2>2. Cardinality(begun) \in Nat /\ Cardinality(begun') \in Nat
    BY <1>1, <1>5, ReqsFinite, FS_Subset, FS_CardinalityType
  <2> QED BY <1>5, <2>1, <2>2 DEF Counted
<1>11. Made'
  BY <1>0, <1>1, <1>2, <1>5, <1>8 DEF Made
<1>12. Underway'
  <2> SUFFICES ASSUME timer # NoTimer
               PROVE  /\ timer.r \in begun' \ Waiting'
                      /\ responses'[timer.r] = <<>>
                      /\ timer.at = "send" => timer.r \notin kept'
    BY DEF Underway
  <2>1. /\ timer.r \in begun \ Waiting /\ responses[timer.r] = <<>>
        /\ timer.at = "send" => timer.r \notin kept
    BY <1>0 DEF Underway
  <2> QED BY <2>1, <1>1, <1>2, <1>5, <1>8
<1>13. AnsweredOnce'
  <2>1. Len(responses'[x]) <= 1 /\ x \notin Waiting'
    BY <1>1, <1>2, <1>5, <1>8
  <2>2. ASSUME NEW r \in Reqs, r # x
        PROVE  Len(responses'[r]) <= 1 /\ (responses'[r] # <<>> => r \notin Waiting')
    <3>1. /\ Len(responses[r]) <= 1 /\ (responses[r] # <<>> => r \notin Waiting /\ r \in begun)
          /\ responses'[r] = responses[r]
      BY <1>0, <1>8, <2>2 DEF AnsweredOnce, Made
    <3> QED BY <3>1, <1>5
  <2> QED BY <2>1, <2>2 DEF AnsweredOnce
<1>14. RequestsKept'
  <2> SUFFICES ASSUME NEW r \in kept', responses'[r] = <<>>
               PROVE  r \in Waiting' \cup {timer.r} \cup astray
    BY DEF RequestsKept
  <2>1. r # x
    <3>1. <<>> \in Seq(Reqs \cup {"FAIL"})
      BY EmptySeq
    <3>2. Append(<<>>, what) # <<>>
      BY <3>1, AppendProperties
    <3> QED BY <1>8, <3>2
  <2>2. CASE r \in kept
    BY <1>0, <1>1, <1>5, <1>8, <2>1, <2>2 DEF RequestsKept
  <2>3. CASE r \notin kept
    BY <1>5, <2>3
  <2> QED BY <2>2, <2>3
<1> QED BY <1>9, <1>10, <1>11, <1>12, <1>13, <1>14 DEF MInv

\* A request of the main thread.
LEMMA Requested ==
    ASSUME MInv, PTypeOK', NEW r \in Reqs, Sends(r, message_list, answers),
           UNCHANGED <<overdue, timer, responses, astray>>
    PROVE  MInv'
<1>0. TypeOK /\ Counted /\ Made /\ Underway /\ AnsweredOnce /\ RequestsKept
  BY DEF MInv
<1>1. /\ message_list \in Seq(MEntries)
      /\ begun \subseteq Reqs /\ kept \subseteq begun
      /\ Waiting = Names(message_list) /\ Waiting \subseteq Reqs
      /\ Once(message_list) /\ Waiting \subseteq begun
  BY <1>0, TypeFacts DEF Made
<1>2. MaySend(message_list, answers)
  BY DEF MaySend
<1>3. /\ message_list' \in Seq(MEntries) /\ Once(message_list')
      /\ Waiting \subseteq Waiting'
      /\ Waiting' \subseteq Waiting \cup (begun' \ begun)
      /\ begun \subseteq begun' /\ begun' \subseteq Reqs
      /\ kept \subseteq kept' /\ kept' \ kept \subseteq Waiting' \ begun
      /\ answers' \subseteq [id : Ids, r : Reqs]
      /\ id_cnt' \in 0 .. Cardinality(Reqs)
      /\ id_cnt' <= Cardinality(begun') /\ Cardinality(begun) <= Cardinality(begun')
  <2>1. answers \in SUBSET answers
    OBVIOUS
  <2> QED BY <1>0, <1>1, <1>2, <2>1, MaySendFacts
<1>4. TypeOK'
  <2>1. kept' \subseteq begun'
    <3>1. Waiting' \subseteq begun'
      BY <1>1, <1>3
    <3> QED BY <3>1, <1>1, <1>3
  <2> QED BY <1>0, <1>3, <2>1 DEF TypeOK, MEntries
<1>5. Counted'
  <2>1. timer.id \in Nat /\ timer.id <= Cardinality(begun) /\ timer' = timer
    BY <1>0 DEF TypeOK, Counted, Ids, NoTimer
  <2>2. Cardinality(begun) \in Nat /\ Cardinality(begun') \in Nat
    BY <1>1, <1>3, ReqsFinite, FS_Subset, FS_CardinalityType
  <2> QED BY <1>3, <2>1, <2>2 DEF Counted
<1>6. Made'
  BY <1>0, <1>1, <1>3 DEF Made
<1>7. Underway'
  BY <1>0, <1>1, <1>3 DEF Underway
<1>8. AnsweredOnce'
  <2> SUFFICES ASSUME NEW q \in Reqs
               PROVE  Len(responses[q]) <= 1 /\ (responses[q] # <<>> => q \notin Waiting')
    BY DEF AnsweredOnce
  <2>1. Len(responses[q]) <= 1 /\ (responses[q] # <<>> => q \notin Waiting /\ q \in begun)
    BY <1>0 DEF AnsweredOnce, Made
  <2> QED BY <2>1, <1>3
<1>9. RequestsKept'
  BY <1>0, <1>3 DEF RequestsKept
<1> QED BY <1>4, <1>5, <1>6, <1>7, <1>8, <1>9 DEF MInv

\* The timer thread takes a number, sends, and looks for the end of the list.
LEMMA TimerSends ==
    ASSUME MInv, (\E r \in Reqs : TimerCount(r)) \/ TimerSend \/ TimerFind
    PROVE  MInv'
<1>0. TypeOK /\ Counted /\ Made /\ Underway /\ AnsweredOnce /\ RequestsKept
  BY DEF MInv
<1>1. /\ message_list' = message_list /\ Waiting' = Waiting
      /\ UNCHANGED <<pvars, overdue, responses, astray>>
  BY DEF TimerCount, TimerSend, TimerFind, Waiting
<1>2. PTypeOK'
  BY <1>0, <1>1 DEF TypeOK, PTypeOK, pvars
<1>3. AnsweredOnce'
  BY <1>0, <1>1 DEF AnsweredOnce
<1>4. /\ begun \subseteq Reqs /\ Cardinality(Reqs) \in Nat
      /\ Cardinality(begun) \in Nat /\ NoReq \notin Reqs
  BY <1>0, ReqsFinite, NoReqIsNone, FS_Subset, FS_CardinalityType DEF TypeOK
<1>5. ASSUME NEW r \in Reqs, TimerCount(r) PROVE MInv'
  <2>1. /\ r \notin begun /\ begun' = begun \cup {r} /\ kept' = kept
        /\ id_cnt' = id_cnt /\ answers' = answers /\ timer = NoTimer
        /\ timer' = [at |-> "send", r |-> r, id |-> id_cnt + 1, tail |-> NoReq]
    BY <1>5 DEF TimerCount
  <2>2. /\ Cardinality(begun \cup {r}) = Cardinality(begun) + 1
        /\ id_cnt + 1 \in Ids /\ id_cnt + 1 <= Cardinality(begun \cup {r})
    BY <1>0, <2>1, NextNumber
  <2>3. TypeOK'
    <3>1. timer' \in [at : {"send", "find", "link"}, r : Reqs, id : Ids,
                      tail : Reqs \cup {NoReq}]
      BY <2>1, <2>2
    <3> QED BY <1>0, <1>1, <1>2, <2>1, <3>1 DEF TypeOK
  <2>4. Counted'
    <3>1. id_cnt \in Nat /\ id_cnt <= Cardinality(begun) /\ timer'.id = id_cnt + 1
      BY <1>0, <2>1 DEF TypeOK, Counted
    <3> QED BY <1>4, <2>1, <2>2, <3>1 DEF Counted
  <2>5. Made' /\ RequestsKept'
    <3>1. \A q \in kept : responses[q] = <<>> => q \in Waiting \cup astray
      BY <1>0, <2>1, <1>4 DEF RequestsKept, NoTimer, TypeOK
    <3> QED BY <1>0, <1>1, <2>1, <3>1 DEF Made, RequestsKept
  <2>6. Underway'
    BY <1>0, <1>1, <2>1 DEF Underway, Made, TypeOK
  <2> QED BY <1>3, <2>3, <2>4, <2>5, <2>6 DEF MInv
<1>6. ASSUME TimerSend PROVE MInv'
  <2>1. /\ begun' = begun /\ id_cnt' = timer.id /\ timer.at = "send" /\ timer # NoTimer
        /\ timer.r \in begun \ Waiting /\ responses[timer.r] = <<>> /\ timer.r \notin kept
    BY <1>0, <1>6 DEF TimerSend, Underway, NoTimer
  <2>2. timer \in [at : {"send", "find", "link"}, r : Reqs, id : Ids, tail : Reqs \cup {NoReq}]
    BY <1>0, <2>1 DEF TypeOK
  <2>3. timer.id \in Ids /\ timer.id \in 0 .. Cardinality(Reqs) /\ timer.id <= Cardinality(begun)
    BY <1>0, <1>4, <2>2 DEF Counted, Ids
  <2>4. Made'
    BY <1>0, <1>1, <2>1 DEF Made
  <2>5. CASE /\ answers' = answers \cup {[id |-> timer.id, r |-> timer.r]}
             /\ kept' = kept \cup {timer.r}
             /\ timer' = [timer EXCEPT !.at = "find"]
    <3>1. /\ timer'.at = "find" /\ timer'.r = timer.r /\ timer'.id = timer.id
          /\ timer' \in [at : {"send", "find", "link"}, r : Reqs, id : Ids,
                         tail : Reqs \cup {NoReq}]
      BY <2>2, <2>5
    <3>2. TypeOK'
      BY <1>0, <1>1, <1>2, <2>1, <2>2, <2>3, <2>5, <3>1 DEF TypeOK
    <3>3. Counted'
      BY <2>1, <2>3, <3>1 DEF Counted
    <3>4. Underway' /\ RequestsKept'
      BY <1>0, <1>1, <2>1, <2>5, <3>1 DEF Underway, RequestsKept
    <3> QED BY <1>3, <2>4, <3>2, <3>3, <3>4 DEF MInv
  <2>6. CASE timer' = NoTimer /\ UNCHANGED <<answers, kept>>
    <3>1. TypeOK'
      BY <1>0, <1>1, <1>2, <2>1, <2>3, <2>6 DEF TypeOK
    <3>2. Counted'
      BY <1>4, <2>1, <2>3, <2>6 DEF Counted, NoTimer
    <3>3. Underway' /\ RequestsKept'
      BY <1>0, <1>1, <2>1, <2>6 DEF Underway, RequestsKept
    <3> QED BY <1>3, <2>4, <3>1, <3>2, <3>3 DEF MInv
  <2> QED BY <1>6, <2>5, <2>6 DEF TimerSend
<1>7. ASSUME TimerFind PROVE MInv'
  <2>1. /\ UNCHANGED <<begun, id_cnt, answers, kept>> /\ timer.at = "find" /\ timer # NoTimer
        /\ timer.r \in begun \ Waiting /\ responses[timer.r] = <<>>
    BY <1>0, <1>7 DEF TimerFind, Underway, NoTimer
  <2>2. timer \in [at : {"send", "find", "link"}, r : Reqs, id : Ids, tail : Reqs \cup {NoReq}]
    BY <1>0, <2>1 DEF TypeOK
  <2>3. message_list # <<>> => Last(message_list).r \in Reqs
    <3> SUFFICES ASSUME message_list # <<>> PROVE Last(message_list).r \in Reqs
      OBVIOUS
    <3>1. message_list \in Seq(MEntries)
      BY <1>0, TypeFacts
    <3>2. Len(message_list) \in 1 .. Len(message_list)
      BY <3>1, EmptySeq
    <3>3. message_list[Len(message_list)] \in MEntries
      BY <3>1, <3>2, ElementOfSeq
    <3> QED BY <3>3 DEF Last, MEntries
  <2>4. PICK tail \in Reqs \cup {NoReq} :
            timer' = [timer EXCEPT !.at = "link", !.tail = tail]
    BY <1>7, <2>3 DEF TimerFind
  <2>5. /\ timer'.at = "link" /\ timer'.r = timer.r /\ timer'.id = timer.id
        /\ timer' \in [at : {"send", "find", "link"}, r : Reqs, id : Ids,
                       tail : Reqs \cup {NoReq}]
    BY <2>2, <2>4
  <2>6. TypeOK' /\ Counted'
    BY <1>0, <1>1, <1>2, <2>1, <2>5 DEF TypeOK, Counted
  <2>7. Made' /\ Underway' /\ RequestsKept'
    BY <1>0, <1>1, <2>1, <2>5 DEF Made, Underway, RequestsKept
  <2> QED BY <1>3, <2>6, <2>7 DEF MInv
<1> QED BY <1>5, <1>6, <1>7

\* The timer thread links its entry: at the end it found, or to the head, or behind an
\* entry that is gone.  What it takes out of the list goes astray.
LEMMA TimerLinks ==
    ASSUME MInv, TimerLink
    PROVE  MInv'
<1> DEFINE e == [r |-> timer.r, id |-> timer.id]
<1>0. TypeOK /\ Counted /\ Made /\ Underway /\ AnsweredOnce /\ RequestsKept
  BY DEF MInv
<1>1. /\ timer' = NoTimer
      /\ UNCHANGED <<pvars, id_cnt, answers, overdue, begun, kept, responses>>
  BY DEF TimerLink
<1>2. /\ timer.at = "link" /\ timer # NoTimer
      /\ timer.r \in begun \ Waiting /\ responses[timer.r] = <<>>
  BY <1>0 DEF TimerLink, Underway, NoTimer
<1>3. timer \in [at : {"send", "find", "link"}, r : Reqs, id : Ids, tail : Reqs \cup {NoReq}]
  BY <1>0, <1>2 DEF TypeOK
<1>4. e \in MEntries /\ e.r = timer.r
  BY <1>3 DEF MEntries
<1>5. /\ message_list \in Seq(MEntries) /\ DOMAIN message_list = 1 .. Len(message_list)
      /\ Waiting = Names(message_list) /\ Waiting \subseteq Reqs
      /\ Once(message_list) /\ Waiting \subseteq begun
  BY <1>0, TypeFacts DEF Made
<1> HIDE DEF e
\* whichever way it goes
<1>6. /\ message_list' \in Seq(MEntries) /\ Once(message_list')
      /\ Names(message_list') \subseteq Waiting \cup {timer.r}
      /\ Waiting \cup {timer.r} \subseteq Names(message_list') \cup astray'
      /\ astray \subseteq astray' /\ astray' \subseteq Reqs
  <2>0. astray \subseteq Reqs /\ timer.r \in Reqs
    BY <1>0, <1>3 DEF TypeOK
  <2>1. CASE message_list' = <<e>> /\ astray' = astray \cup Waiting
    <3>1. message_list' = Append(<<>>, e)
      BY <2>1
    <3>2. /\ message_list' \in Seq(MEntries) /\ Once(message_list')
          /\ Names(message_list') = {timer.r}
      BY <3>1, <1>4, EmptyNames, AppendNames
    <3> QED BY <3>2, <2>0, <2>1, <1>5
  <2>2. CASE \E i \in DOMAIN message_list :
                 /\ message_list' = Append(SubSeq(message_list, 1, i), e)
                 /\ astray' = astray \cup {message_list[j].r : j \in i + 1 .. Len(message_list)}
    <3>1. PICK i \in 1 .. Len(message_list) :
                 /\ message_list' = Append(SubSeq(message_list, 1, i), e)
                 /\ astray' = astray \cup {message_list[j].r : j \in i + 1 .. Len(message_list)}
      BY <1>5, <2>2
    <3> DEFINE p == SubSeq(message_list, 1, i)
               q == {message_list[j].r : j \in i + 1 .. Len(message_list)}
    <3>2. /\ p \in Seq(MEntries) /\ Once(p) /\ Names(p) \subseteq Waiting
          /\ Waiting \subseteq Names(p) \cup q
      BY <1>5, PrefixNames
    <3>3. q \subseteq Waiting
      BY <1>5, LenProperties DEF Names
    <3> HIDE DEF p, q
    <3>4. message_list' = Append(p, e) /\ astray' = astray \cup q
      BY <3>1 DEF p, q
    <3>5. /\ message_list' \in Seq(MEntries) /\ Once(message_list')
          /\ Names(message_list') = Names(p) \cup {timer.r}
      BY <1>2, <1>4, <3>2, <3>4, AppendNames
    <3> QED BY <3>2, <3>3, <3>4, <3>5, <2>0, <1>5
  <2>3. CASE astray' = astray \cup {timer.r} /\ UNCHANGED message_list
    BY <1>5, <2>0, <2>3
  <2>4. \/ message_list' = <<e>> /\ astray' = astray \cup Waiting
        \/ \E i \in DOMAIN message_list :
               /\ message_list' = Append(SubSeq(message_list, 1, i), e)
               /\ astray' = astray \cup {message_list[j].r : j \in i + 1 .. Len(message_list)}
        \/ astray' = astray \cup {timer.r} /\ UNCHANGED message_list
    BY DEF TimerLink, e
  <2> QED BY <2>1, <2>2, <2>3, <2>4
<1>7. Waiting' = Names(message_list')
  <2>1. DOMAIN message_list' = 1 .. Len(message_list')
    BY <1>6, LenProperties
  <2> QED BY <2>1 DEF Waiting, Names
<1>8. TypeOK'
  <2>1. PTypeOK'
    BY <1>0, <1>1 DEF TypeOK, PTypeOK, pvars
  <2> QED BY <1>0, <1>1, <1>6, <2>1 DEF TypeOK, MEntries
<1>9. Counted'
  <2>1. Cardinality(begun) \in Nat
    BY <1>0, ReqsFinite, FS_Subset, FS_CardinalityType DEF TypeOK
  <2> QED BY <1>0, <1>1, <2>1 DEF Counted, NoTimer
<1>10. Made' /\ Underway'
  BY <1>0, <1>1, <1>2, <1>5, <1>6, <1>7 DEF Made, Underway
<1>11. AnsweredOnce'
  <2> SUFFICES ASSUME NEW r \in Reqs
               PROVE  Len(responses[r]) <= 1 /\ (responses[r] # <<>> => r \notin Waiting')
    BY <1>1 DEF AnsweredOnce
  <2>1. Len(responses[r]) <= 1 /\ (responses[r] # <<>> => r \notin Waiting)
    BY <1>0 DEF AnsweredOnce
  <2> QED BY <2>1, <1>2, <1>6, <1>7
<1>12. RequestsKept'
  BY <1>0, <1>1, <1>6, <1>7 DEF RequestsKept
<1> QED BY <1>8, <1>9, <1>10, <1>11, <1>12 DEF MInv

\* Every step of the requests, on a session that stays well typed, keeps the invariant.
LEMMA NextInv ==
    ASSUME MInv, PTypeOK', [Next]_vars
    PROVE  MInv'
<1>0. TypeOK /\ Counted /\ Made /\ Underway /\ AnsweredOnce /\ RequestsKept
  BY DEF MInv
<1>1. CASE UNCHANGED <<message_list, id_cnt, begun, kept, timer, responses, astray>>
           /\ answers' \subseteq answers /\ overdue' \subseteq Reqs
  <2>1. Waiting' = Waiting
    BY <1>1 DEF Waiting
  <2>2. TypeOK'
    BY <1>0, <1>1 DEF TypeOK
  <2> QED BY <1>0, <1>1, <2>1, <2>2
          DEF MInv, Counted, Made, Underway, AnsweredOnce, RequestsKept
<1>2. CASE UNCHANGED mvars
  BY <1>0, <1>1, <1>2 DEF mvars, TypeOK
<1>3. CASE ConnectedOn \/ DisconnectOn
  <2>0. Waiting \subseteq Reqs
    BY <1>0, TypeFacts
  <2>1. /\ message_list' = <<>> /\ id_cnt' \in {0, id_cnt}
        /\ \/ kept' = {} /\ UNCHANGED astray
           \/ kept' = kept /\ astray' = astray \cup Waiting
        /\ UNCHANGED <<answers, overdue, begun, timer, responses>>
    BY <1>3 DEF ConnectedOn, DisconnectOn
  <2>2. /\ Waiting' = {} /\ Once(message_list')
        /\ message_list' \in Seq([r : Reqs, id : Ids])
    BY <2>1, EmptyNames DEF Waiting, MEntries
  <2>3. Cardinality(Reqs) \in Nat /\ Cardinality(begun) \in Nat
    BY <1>0, ReqsFinite, FS_Subset, FS_CardinalityType DEF TypeOK
  <2>4. TypeOK' /\ Counted'
    BY <1>0, <2>0, <2>1, <2>2, <2>3 DEF TypeOK, Counted
  <2>5. Made' /\ Underway' /\ RequestsKept'
    BY <1>0, <2>1, <2>2 DEF Made, Underway, RequestsKept
  <2>6. AnsweredOnce'
    BY <1>0, <2>1, <2>2 DEF AnsweredOnce
  <2> QED BY <2>4, <2>5, <2>6 DEF MInv
<1>4. ASSUME NEW r \in Reqs, Request(r) PROVE MInv'
  BY <1>4, Requested DEF Request
<1>5. ASSUME NEW ans \in answers, Receive(ans) PROVE MInv'
  <2>1. PICK i \in DOMAIN message_list :
            /\ Respond(message_list[i].r, ans.r)
            /\ MaySend(RemoveAt(message_list, i), answers \ {ans})
    BY <1>5 DEF Receive
  <2>2. ans.r \in Reqs \cup {"FAIL"} /\ answers \ {ans} \in SUBSET answers
    BY <1>0 DEF TypeOK
  <2>3. UNCHANGED <<overdue, timer, astray>>
    BY <1>5 DEF Receive
  <2> QED BY <2>1, <2>2, <2>3, CalledBack
<1>6. ASSUME NEW ans \in answers, ReceiveUnknown(ans) PROVE MInv'
  BY <1>0, <1>1, <1>6 DEF ReceiveUnknown, TypeOK
<1>7. CASE YieldTimeout
  <2>1. PICK i \in DOMAIN message_list :
            /\ Respond(message_list[i].r, "FAIL")
            /\ MaySend(RemoveAt(message_list, i), answers)
    BY <1>7 DEF YieldTimeout
  <2>2. "FAIL" \in Reqs \cup {"FAIL"} /\ answers \in SUBSET answers
    OBVIOUS
  <2>3. UNCHANGED <<overdue, timer, astray>>
    BY <1>7 DEF YieldTimeout
  <2> QED BY <2>1, <2>2, <2>3, CalledBack
<1>8. CASE YieldOk
  BY <1>2, <1>8 DEF YieldOk
<1>9. ASSUME NEW r \in Reqs, Overdue(r) PROVE MInv'
  BY <1>0, <1>1, <1>9 DEF Overdue, TypeOK
<1>10. CASE TimerThread
  BY <1>10, TimerSends, TimerLinks DEF TimerThread
<1>11. CASE UNCHANGED vars
  BY <1>2, <1>11 DEF vars
<1> QED BY <1>2, <1>3, <1>4, <1>5, <1>6, <1>7, <1>8, <1>9, <1>10, <1>11
        DEF Next, MainThread, Time

\* The invariant of the requests, on top of the session's.
LEMMA RequestsInvariant == Spec => []MInv
<1>1. MInv /\ PTypeOK' /\ [Next]_vars => MInv'
  BY NextInv
<1> QED BY InitInv, RequestsImplementSession, SessionTypeCorrect, <1>1, PTL DEF Spec

\* The state of the requests is well typed: every number in use is one that was counted,
\* although two threads count without a lock.
THEOREM RequestsTypeCorrect == Spec => []TypeOK
<1>1. MInv => TypeOK
  BY DEF MInv
<1> QED BY RequestsInvariant, <1>1, PTL

\* The callback of a request runs at most once, and its entry is gone then.
THEOREM CalledBackOnce == Spec => []AnsweredOnce
<1>1. MInv => AnsweredOnce
  BY DEF MInv
<1> QED BY RequestsInvariant, <1>1, PTL

\* No removal and no callback drops an accepted request from message_list; only the timer
\* thread's unlocked linking does, and, of what that thread linked after the connection's
\* flag was set, the clearing of the context in matop_serice_init.
THEOREM AcceptedAreKept == Spec => []RequestsKept
<1>1. MInv => RequestsKept
  BY DEF MInv
<1> QED BY RequestsInvariant, <1>1, PTL
=============================================================================
