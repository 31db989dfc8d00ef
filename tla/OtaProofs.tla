----------------------------- MODULE OtaProofs ------------------------------
(***************************************************************************)
(* The safety of upgrades, for any number of them, any length of the       *)
(* firmware and of the buffer, and any number of reconnects.               *)
(***************************************************************************)
EXTENDS Ota, TLAPS

\* Before the first upgrade the invariant holds.
LEMMA InitInv == Init => IInv
  <1> SUFFICES ASSUME Init PROVE IInv
    OBVIOUS
  <1> USE SizeAssumption, BufferAssumption, QuietAssumption DEF Init
  <1>1. TypeOK
    BY DEF TypeOK, Labels
  <1>2. Solitary
    BY DEF Solitary, Underway
  <1>3. ASSUME NEW t \in Downloads
        PROVE  Stage(t) /\ Hashed(t)
    <2>1. pc[t] = "none" /\ received[t] = 0 /\ remain[t] = 0
      OBVIOUS
    <2> QED
      BY <2>1 DEF Stage, Hashed, Underway
  <1> QED
    BY <1>1, <1>2, <1>3 DEF IInv

\* A step of thread t leaves the downloads of the other threads alone.
Apart(t) ==
    \A u \in Downloads \ {t} :
        /\ pc'[u] = pc[u] /\ size'[u] = size[u] /\ received'[u] = received[u]
        /\ remain'[u] = remain[u] /\ read'[u] = read[u] /\ kept'[u] = kept[u]
        /\ clean'[u] = clean[u]

\* It is enough to look at the thread that moves: the others' downloads do not change,
\* and none of them is alone.
LEMMA OneMoves ==
    ASSUME IInv, NEW t \in Downloads, Underway(t), alone' = alone, Apart(t),
           TypeOK', Stage(t)', Hashed(t)'
    PROVE  IInv'
  <1>1. ASSUME NEW u \in Downloads \ {t}
        PROVE  Stage(u)' /\ (Underway(u)' => Underway(u) /\ ~alone'[u])
    <2>1. Stage(u)
      BY DEF IInv
    <2>2. Stage(u)'
      BY <2>1 DEF Apart, Stage
    <2>3. Underway(u) => ~alone[u]
      BY DEF IInv, Solitary
    <2> QED
      BY <2>2, <2>3 DEF Apart, Underway
  <1>2. ASSUME NEW u \in Downloads \ {t}
        PROVE  Hashed(u)'
    BY <1>1 DEF Hashed
  <1>3. Solitary'
    <2> SUFFICES ASSUME NEW u \in Downloads, NEW v \in Downloads, u # v,
                        alone'[u], Underway(u)'
                 PROVE  ~Underway(v)'
      BY DEF Solitary
    <2>1. u = t
      BY <1>1
    <2>2. ~Underway(v)
      BY <2>1 DEF IInv, Solitary
    <2> QED
      BY <2>1, <2>2 DEF Apart, Underway
  <1> QED
    BY <1>1, <1>2, <1>3 DEF IInv

\* A new upgrade: it is alone if no other is under way, and no other is alone any more.
LEMMA StartInv ==
    ASSUME IInv, NEW t \in Downloads, Start(t)
    PROVE  IInv'
  <1> USE SizeAssumption, BufferAssumption, QuietAssumption DEF Start, At, Goto
  <1>1. TypeOK'
    <2>1. pc' \in [Downloads -> Labels] /\ size' \in [Downloads -> {0, FileSize}]
          /\ channel' \in {0, 1}
      BY DEF IInv, TypeOK, Labels
    <2>2. alone' \in [Downloads -> BOOLEAN]
      BY DEF Underway
    <2> QED
      BY <2>1, <2>2 DEF IInv, TypeOK
  <1>2. \A u \in Downloads \ {t} : Underway(u)' => ~alone'[u]
    BY DEF IInv, TypeOK, Underway
  <1>3. alone'[t] => \A u \in Downloads : ~Underway(u)
    BY DEF IInv, TypeOK
  <1>4. pc'[t] = "start" /\ \A u \in Downloads \ {t} : pc'[u] = pc[u]
    BY DEF IInv, TypeOK
  <1>5. Solitary'
    BY <1>2, <1>3, <1>4 DEF Solitary, Underway
  <1>6. ASSUME NEW u \in Downloads
        PROVE  Stage(u)'
    <2>1. Stage(u)
      BY DEF IInv
    <2>2. CASE u = t
      BY <2>1, <2>2, <1>4 DEF Stage
    <2>3. CASE u # t
      BY <2>1, <2>3, <1>4 DEF Stage, IInv, TypeOK
    <2> QED
      BY <2>2, <2>3
  <1>7. ASSUME NEW u \in Downloads
        PROVE  Hashed(u)'
    BY <1>2, <1>4 DEF Hashed
  <1> QED
    BY <1>1, <1>5, <1>6, <1>7 DEF IInv

\* Steps that only change the state of a download, or what it asked the server for.
LEMMA RequestInv ==
    ASSUME IInv, NEW t \in Downloads,
           Begin(t) \/ Connect(t) \/ FileSizeFails(t) \/ RangeRequest(t) \/ RangeIgnored(t)
           \/ RangeFails(t) \/ ReadFails(t) \/ Reconnect(t)
    PROVE  IInv'
  <1> USE SizeAssumption, BufferAssumption, QuietAssumption
          DEF IInv, At, Goto, download, shared
  <1>t. TypeOK /\ Stage(t) /\ Hashed(t)
    OBVIOUS
  <1>1. Underway(t) /\ alone' = alone
    BY DEF Begin, Connect, FileSizeFails, RangeRequest, RangeIgnored, RangeFails, ReadFails,
           Reconnect, Underway
  <1>2. TypeOK'
    <2> USE DEF TypeOK, Labels
    <2>1. CASE Begin(t)
      BY <2>1 DEF Begin
    <2>2. CASE Connect(t) \/ FileSizeFails(t) \/ RangeFails(t) \/ ReadFails(t)
      BY <2>2 DEF Connect, FileSizeFails, RangeFails, ReadFails
    <2>3. CASE RangeRequest(t)
      <3>1. received[t] < FileSize
        BY <2>3 DEF RangeRequest, Stage
      <3> QED
        BY <2>3, <3>1 DEF RangeRequest
    <2>4. CASE Reconnect(t)
      BY <2>4 DEF Reconnect, Closed
    <2>5. CASE RangeIgnored(t)
      BY <2>5 DEF RangeIgnored
    <2> QED
      BY <2>1, <2>2, <2>3, <2>4, <2>5
  <1>3. /\ pc' \in [Downloads -> Labels] /\ pc'[t] \in {"CONNECT", "FILESIZE", "RANGE", "DATA", "RECONNECT"}
        /\ pc[t] \notin {"none", "hash", "COMPLETE", "done"}
        /\ pc'[t] \in {"RANGE", "DATA"} => pc[t] = "RANGE"
        /\ \A u \in Downloads \ {t} : pc'[u] = pc[u]
        /\ UNCHANGED <<size, received, remain, read, kept, channel>>
        /\ clean'[t] => clean[t]
        /\ \A u \in Downloads \ {t} : clean'[u] = clean[u]
    BY <1>2 DEF TypeOK, Labels, Begin, Connect, FileSizeFails, RangeRequest, RangeIgnored,
                RangeFails, ReadFails, Reconnect, Closed
  <1>4. Apart(t)
    BY <1>3 DEF Apart
  <1>5. Stage(t)'
    BY <1>3 DEF Stage
  <1>6. Hashed(t)'
    <2>1. CASE Begin(t)
      <3>1. pc[t] = "start" /\ sha' = [live |-> TRUE, len |-> 0]
        BY <2>1 DEF Begin
      <3>2. Offset(t)' = 0
        BY <3>1, <1>3 DEF Stage, Offset
      <3> QED
        BY <3>1, <3>2, <1>3 DEF Hashed
    <2>2. CASE ~Begin(t)
      <3>1. pc[t] # "start" /\ sha' = sha
        BY <2>2 DEF Connect, FileSizeFails, RangeRequest, RangeIgnored, RangeFails, ReadFails,
                    Reconnect
      <3> QED
        BY <3>1, <1>1, <1>3 DEF Hashed, Offset
    <2> QED
      BY <2>1, <2>2
  <1> QED
    BY <1>1, <1>2, <1>4, <1>5, <1>6, OneMoves

\* The size is known, and the image file is empty again.
LEMMA FileSizeInv ==
    ASSUME IInv, NEW t \in Downloads, FileSizeGet(t)
    PROVE  IInv'
  <1> USE SizeAssumption, BufferAssumption, QuietAssumption DEF IInv, At, Goto, FileSizeGet
  <1>1. Underway(t) /\ alone' = alone
    BY DEF Underway
  <1>2. TypeOK'
    BY DEF TypeOK, Labels, Emptied
  <1>3. /\ pc'[t] = "RANGE" /\ pc[t] = "FILESIZE" /\ size'[t] = FileSize
        /\ \A u \in Downloads \ {t} : pc'[u] = pc[u] /\ size'[u] = size[u]
        /\ UNCHANGED <<received, remain, read, kept, clean, channel, sha>>
    BY DEF TypeOK
  <1>4. Apart(t)
    BY <1>3 DEF Apart
  <1>5. Stage(t)'
    BY <1>3 DEF Stage
  <1>6. Hashed(t)'
    BY <1>1, <1>3 DEF Hashed, Offset
  <1> QED
    BY <1>1, <1>2, <1>4, <1>5, <1>6, OneMoves

\* The port takes a piece: what it keeps back is in the buffer, and the buffer holds it.
LEMMA DataInv ==
    ASSUME IInv, NEW t \in Downloads, NEW n \in 1 .. RangeLen, Data(t, n)
    PROVE  IInv'
  <1> USE SizeAssumption, BufferAssumption, QuietAssumption DEF IInv, At, Goto
  <1>0. /\ TypeOK /\ Stage(t) /\ Hashed(t) /\ pc[t] = "DATA" /\ n <= RangeLen - remain[t]
        /\ n <= FileSize - at[t]
        /\ received[t] < FileSize /\ size[t] = FileSize /\ remain[t] <= received[t]
    BY DEF Data, Came, Stage
  <1> DEFINE len == remain[t] + n
             rest == Rest(t, n)
  <1>1. Underway(t) /\ alone' = alone
    BY DEF Data, Came, Underway
  <1>2. /\ pc' = [pc EXCEPT ![t] = "hash"]
        /\ at' = [at EXCEPT ![t] = @ + n]
        /\ clean' = [clean EXCEPT ![t] = @ /\ at[t] = received[t]]
        /\ read' = [read EXCEPT ![t] = n] /\ kept' = [kept EXCEPT ![t] = rest]
        /\ rest <= len
        /\ image' = [image EXCEPT !.len = Joined(@, Offset(t), len - rest, clean'[t])]
        /\ UNCHANGED <<size, received, remain, quiet, alone, channel, sha, device>>
    <2>1. remain[t] + n \in Int /\ Rest(t, n) \in Int
      BY <1>0 DEF TypeOK, Rest
    <2> QED
      BY <2>1 DEF Data, Came
  <1>3. received[t] \in Nat /\ remain[t] \in {0, Keep} /\ rest \in {0, Keep}
        /\ Offset(t) = received[t] - remain[t] /\ Offset(t) + len = received[t] + n
        /\ rest = IF received[t] + n = FileSize THEN 0 ELSE Keep
    BY <1>0 DEF TypeOK, Offset, Rest
  <1>4. image' \in [open : BOOLEAN, len : -1 .. FileSize]
    <2>1. clean'[t] \in BOOLEAN /\ (clean'[t] => at[t] = received[t])
      BY <1>0, <1>2 DEF TypeOK
    <2>2. clean'[t] => Offset(t) + (len - rest) \in 0 .. FileSize
      BY <1>0, <1>2, <1>3, <2>1 DEF TypeOK
    <2>3. Joined(image.len, Offset(t), len - rest, clean'[t]) \in -1 .. FileSize
      BY <1>0, <2>2 DEF Joined, TypeOK
    <2> QED
      BY <1>0, <1>2, <2>3 DEF TypeOK
  <1>5. clean' \in [Downloads -> BOOLEAN]
    BY <1>0, <1>2 DEF TypeOK
  <1>6. TypeOK'
    BY <1>0, <1>2, <1>3, <1>4, <1>5 DEF TypeOK, Labels
  <1>7. Apart(t)
    BY <1>0, <1>2 DEF Apart, TypeOK
  <1>8. /\ pc'[t] = "hash" /\ read'[t] = n /\ kept'[t] = rest
        /\ clean'[t] => clean[t] /\ at[t] = received[t]
    BY <1>0, <1>2 DEF TypeOK
  <1>9. Stage(t)'
    BY <1>0, <1>2, <1>3, <1>8 DEF Stage
  <1>10. Hashed(t)'
    BY <1>0, <1>1, <1>2, <1>8 DEF Hashed, Offset
  <1> QED
    BY <1>1, <1>6, <1>7, <1>9, <1>10, OneMoves

\* What the port took is hashed behind what was; the rest stays in the buffer.
LEMMA HashInv ==
    ASSUME IInv, NEW t \in Downloads, Hash(t)
    PROVE  IInv'
  <1> USE SizeAssumption, BufferAssumption, QuietAssumption DEF IInv, At, Goto
  <1> DEFINE k == remain[t] + read[t] - kept[t]
  <1>0. /\ TypeOK /\ Stage(t) /\ Hashed(t) /\ pc[t] = "hash"
        /\ received[t] < FileSize /\ size[t] = FileSize /\ remain[t] <= received[t]
        /\ kept[t] <= remain[t] + read[t]
        /\ kept[t] = IF received[t] + read[t] = FileSize THEN 0 ELSE Keep
        /\ clean[t] => received[t] + read[t] <= FileSize
    BY DEF Hash, Stage
  <1>1. Underway(t) /\ alone' = alone
    BY DEF Hash, Underway
  <1>2. /\ received' = [received EXCEPT ![t] = @ + read[t]]
        /\ remain' = [remain EXCEPT ![t] = kept[t]]
        /\ quiet' = [quiet EXCEPT ![t] = 0]
        /\ pc' = [pc EXCEPT ![t] = IF received[t] + read[t] >= size[t] THEN "COMPLETE" ELSE "DATA"]
        /\ read' = [read EXCEPT ![t] = 0] /\ kept' = [kept EXCEPT ![t] = 0]
        /\ sha' = IF sha.live THEN [sha EXCEPT !.len = Joined(@, Offset(t), k, clean[t])] ELSE sha
        /\ device' \in {device, "crashed"}
        /\ UNCHANGED <<size, at, clean, alone, channel, image>>
    BY DEF Hash, Counted, UsesHash
  <1>3. /\ received[t] \in Nat /\ remain[t] \in {0, Keep} /\ kept[t] \in {0, Keep}
        /\ read[t] \in 0 .. RangeLen
        /\ Offset(t) = received[t] - remain[t]
        /\ Offset(t) + k = received[t] + read[t] - kept[t]
    BY <1>0 DEF TypeOK, Offset
  <1>4. sha' \in [live : BOOLEAN, len : -1 .. FileSize]
    <2>1. clean[t] => Offset(t) + k \in 0 .. FileSize
      BY <1>0, <1>3
    <2>2. Joined(sha.len, Offset(t), k, clean[t]) \in -1 .. FileSize
      BY <1>0, <2>1 DEF Joined, TypeOK
    <2> QED
      BY <1>0, <1>2, <2>2 DEF TypeOK
  <1>5. /\ received'[t] = received[t] + read[t] /\ remain'[t] = kept[t]
        /\ read'[t] = 0 /\ kept'[t] = 0
        /\ pc'[t] = IF received[t] + read[t] >= FileSize THEN "COMPLETE" ELSE "DATA"
    BY <1>0, <1>2 DEF TypeOK
  <1>6. TypeOK'
    BY <1>0, <1>2, <1>3, <1>4, <1>5 DEF TypeOK, Labels
  <1>7. Apart(t)
    BY <1>0, <1>2 DEF Apart, TypeOK
  <1>8. Stage(t)'
    BY <1>0, <1>2, <1>3, <1>5 DEF Stage
  <1>9. Hashed(t)'
    <2> SUFFICES ASSUME alone[t], clean[t], channel = 0
                 PROVE  /\ sha' = [live |-> TRUE, len |-> Offset(t)']
                        /\ pc'[t] = "COMPLETE" => remain'[t] = 0
      BY <1>2 DEF Hashed
    <2>1. sha = [live |-> TRUE, len |-> Offset(t)]
      BY <1>0, <1>1 DEF Hashed
    <2>2. sha' = [live |-> TRUE, len |-> Offset(t) + k]
      <3>1. Joined(Offset(t), Offset(t), k, TRUE) = Offset(t) + k
        BY <1>3 DEF Joined
      <3> QED
        BY <1>2, <2>1, <3>1
    <2>3. Offset(t)' = Offset(t) + k
      BY <1>3, <1>5 DEF Offset
    <2> QED
      BY <1>0, <1>3, <1>5, <2>2, <2>3
  <1> QED
    BY <1>1, <1>6, <1>7, <1>8, <1>9, OneMoves

\* Data for the application is counted; nothing is claimed of a hash.
LEMMA AppInv ==
    ASSUME IInv, NEW t \in Downloads, NEW n \in 1 .. RangeLen, DataForApp(t, n)
    PROVE  IInv'
  <1> USE SizeAssumption, BufferAssumption, QuietAssumption DEF IInv, At, Goto
  <1>0. /\ TypeOK /\ Stage(t) /\ pc[t] = "DATA" /\ n <= RangeLen - remain[t]
        /\ n <= FileSize - at[t]
        /\ received[t] < FileSize /\ size[t] = FileSize /\ remain[t] <= received[t]
    BY DEF DataForApp, Came, Stage
  <1>1. Underway(t) /\ alone' = alone
    BY <1>0 DEF DataForApp, shared, Underway
  <1>2. /\ received' = [received EXCEPT ![t] = @ + n]
        /\ remain' = [remain EXCEPT ![t] = remain[t]]
        /\ quiet' = [quiet EXCEPT ![t] = 0]
        /\ pc' = [pc EXCEPT ![t] = IF received[t] + n >= size[t] THEN "COMPLETE" ELSE "DATA"]
        /\ at' = [at EXCEPT ![t] = @ + n]
        /\ clean' = [clean EXCEPT ![t] = @ /\ at[t] = received[t]]
        /\ channel # 0
        /\ UNCHANGED <<size, read, kept, shared>>
    BY DEF DataForApp, Counted, Came
  <1>3. clean' \in [Downloads -> BOOLEAN]
    BY <1>0, <1>2 DEF TypeOK
  <1>4. /\ received'[t] = received[t] + n /\ remain'[t] = remain[t]
        /\ pc'[t] = IF received[t] + n >= FileSize THEN "COMPLETE" ELSE "DATA"
        /\ clean'[t] => clean[t] /\ at[t] = received[t]
    BY <1>0, <1>2 DEF TypeOK
  <1>5. TypeOK'
    BY <1>0, <1>2, <1>3, <1>4 DEF TypeOK, Labels, shared
  <1>6. Apart(t)
    BY <1>0, <1>2 DEF Apart, TypeOK
  <1>7. Stage(t)'
    BY <1>0, <1>2, <1>4 DEF Stage, TypeOK, shared
  <1>8. Hashed(t)'
    BY <1>2 DEF Hashed, shared
  <1> QED
    BY <1>1, <1>5, <1>6, <1>7, <1>8, OneMoves

\* The end of a download, or of the process.
LEMMA EndInv ==
    ASSUME IInv, NEW t \in Downloads,
           Fault(t) \/ Finish(t) \/ (\E n \in 1 .. RangeLen : DataDies(t, n))
    PROVE  IInv'
  <1> USE SizeAssumption, BufferAssumption, QuietAssumption DEF IInv, At, Goto
  <1>0. TypeOK /\ Stage(t) /\ Hashed(t)
    OBVIOUS
  <1>1. CASE Fault(t) \/ Finish(t)
    <2>1. /\ Underway(t) /\ alone' = alone /\ Freed(t) /\ channel' = channel /\ image' = image
          /\ sha' \in {sha, [sha EXCEPT !.live = FALSE]} /\ device' \in {device, "reset", "crashed"}
      BY <1>1 DEF Fault, Finish, EndNotify, UsesHash, Underway, shared
    <2>2. TypeOK'
      <3>1. sha' \in [live : BOOLEAN, len : -1 .. FileSize] /\ device' \in {"up", "reset", "crashed"}
        BY <1>0, <2>1 DEF TypeOK
      <3>2. /\ pc' \in [Downloads -> Labels] /\ at' \in [Downloads -> 0 .. FileSize]
            /\ size' \in [Downloads -> {0, FileSize}] /\ quiet' \in [Downloads -> 0 .. MaxQuiet]
            /\ remain' \in [Downloads -> {0, Keep}] /\ clean' \in [Downloads -> BOOLEAN]
            /\ received' \in [Downloads -> 0 .. FileSize + RangeLen]
        BY <1>0, <2>1 DEF TypeOK, Labels, Freed, Closed
      <3>3. \A u \in Downloads : /\ remain'[u] + read'[u] <= RangeLen
                                /\ clean'[u] => received'[u] <= FileSize
        BY <1>0, <2>1 DEF TypeOK, Freed
      <3> QED
        BY <1>0, <2>1, <3>1, <3>2, <3>3 DEF TypeOK, Freed
    <2>3. /\ pc'[t] = "done" /\ received'[t] = 0 /\ remain'[t] = 0
      BY <1>0, <2>1 DEF TypeOK, Freed
    <2>4. Apart(t)
      BY <1>0, <2>1 DEF Apart, TypeOK, Freed
    <2>5. Stage(t)' /\ Hashed(t)'
      BY <2>3 DEF Stage, Hashed, Underway
    <2> QED
      BY <2>1, <2>2, <2>4, <2>5, OneMoves
  <1>2. CASE \E n \in 1 .. RangeLen : DataDies(t, n)
    <2>1. PICK n \in 1 .. RangeLen : DataDies(t, n)
      BY <1>2
    <2>2. /\ Underway(t) /\ n <= FileSize - at[t] /\ device' = "crashed"
          /\ at' = [at EXCEPT ![t] = @ + n]
          /\ clean' = [clean EXCEPT ![t] = @ /\ at[t] = received[t]]
          /\ UNCHANGED <<pc, size, received, remain, read, kept, quiet, alone, channel, sha, image>>
      BY <2>1 DEF DataDies, Came, Underway
    <2>3. clean' \in [Downloads -> BOOLEAN] /\ (clean'[t] => clean[t])
      BY <1>0, <2>2 DEF TypeOK
    <2>4. TypeOK'
      BY <1>0, <2>2, <2>3 DEF TypeOK
    <2>5. Apart(t)
      BY <1>0, <2>2 DEF Apart, TypeOK
    <2>6. Stage(t)' /\ Hashed(t)'
      BY <1>0, <2>2, <2>3 DEF Stage, Hashed, Underway, Offset
    <2> QED
      BY <2>2, <2>4, <2>5, <2>6, OneMoves
  <1> QED
    BY <1>1, <1>2

\* No step of any upgrade breaks the invariant.
LEMMA NextInv == IInv /\ [Next]_vars => IInv'
  <1> SUFFICES ASSUME IInv, [Next]_vars PROVE IInv'
    OBVIOUS
  <1>1. CASE UNCHANGED vars
    BY <1>1 DEF vars, download, shared, IInv, TypeOK, Solitary, Stage, Hashed, Underway, Offset
  <1>2. ASSUME NEW t \in Downloads, Start(t) \/ Download(t)
        PROVE  IInv'
    BY <1>2, StartInv, RequestInv, FileSizeInv, DataInv, HashInv, AppInv, EndInv DEF Download
  <1> QED
    BY <1>1, <1>2 DEF Next
-----------------------------------------------------------------------------
\* The inductive invariant holds whatever the network and the server do.
THEOREM Invariance == Spec => []IInv
  <1>1. IInv /\ [Next]_vars => IInv'
    BY NextInv
  <1>2. QED
    BY InitInv, <1>1, PTL DEF Spec

\* Every variable keeps its type: a piece fits the buffer (http_download.c:283), and no
\* more is counted than the file holds while the server sends what it is asked for.
THEOREM TypeCorrect == Spec => []TypeOK
  <1>1. IInv => TypeOK
    BY DEF IInv
  <1>2. QED
    BY Invariance, <1>1, PTL

\* A firmware that was served as it was asked for, over any number of connections and in
\* pieces of any size, passes the comparison of its hash (tuya_ota.c:111) when the
\* download is complete, unless another upgrade ran beside it.
THEOREM ServedIsAccepted == Spec => []Accepted
  <1>1. IInv => Accepted
    <2> SUFFICES ASSUME IInv, NEW t \in Downloads, pc[t] = "COMPLETE", clean[t], alone[t],
                        channel = 0
                 PROVE  sha = [live |-> TRUE, len |-> FileSize] /\ remain[t] = 0
      BY DEF Accepted
    <2>1. sha = [live |-> TRUE, len |-> Offset(t)] /\ remain[t] = 0
      BY DEF IInv, Hashed, Underway
    <2>2. received[t] = FileSize
      <3>1. received[t] >= FileSize
        BY DEF IInv, Stage
      <3>2. received[t] <= FileSize /\ received[t] \in 0 .. FileSize + RangeLen
        BY DEF IInv, TypeOK
      <3> QED
        BY ONLY <3>1, <3>2, SizeAssumption, BufferAssumption
    <2> QED
      BY <2>1, <2>2, SizeAssumption DEF Offset
  <1>2. QED
    BY Invariance, <1>1, PTL
=============================================================================
