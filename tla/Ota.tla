-------------------------------- MODULE Ota ---------------------------------
(***************************************************************************)
(* Firmware upgrades: tuya_ota.c over the resuming download of             *)
(* http_download.c and the Linux port's tkl_ota.c.                         *)
(*                                                                         *)
(* Each upgrade the cloud announces starts a thread, and nothing keeps a   *)
(* second one from starting: each has a download of its own, but channel,  *)
(* hash and image file are the module's only ones.  A byte of the firmware *)
(* is its position.  The status code of an answer is not looked at: the    *)
(* server may send the file from its beginning, or an error page, and the  *)
(* page is taken for data.                                                 *)
(*                                                                         *)
(* A read or a connect fails when the network likes.  Time is counted in   *)
(* the pauses of the reconnects: 180 seconds without data end a download   *)
(* after at most MaxQuiet of them, or sooner if the calls between them are *)
(* long.  Allocation and fopen succeed, progress reports are left out, and *)
(* every upgrade is of one firmware.                                       *)
(***************************************************************************)
EXTENDS Integers

CONSTANTS Downloads,   \* the threads that may be started, each once
          FileSize,    \* length of the firmware
          RangeLen,    \* config.range_length: length of the buffer (4096)
          Keep,        \* what the port leaves in the buffer of a piece (100)
          MaxQuiet     \* bound: reconnects without data within HTTP_DOWNLOAD_TIMEOUT

ASSUME SizeAssumption == FileSize \in Nat \ {0}
ASSUME BufferAssumption == Keep \in Nat /\ RangeLen \in Nat /\ Keep < RangeLen
ASSUME QuietAssumption == MaxQuiet \in Nat \ {0}

VARIABLES
    pc,          \* where each thread is: ctx->state, "none" and "done" outside
    size,        \* ctx->file_size, 0 while it is not known
    received,    \* ctx->received_size
    remain,      \* ctx->remain_len
    read, kept,  \* read_size and event.remain_len between the steps of one event
    at,          \* position of the byte the server sends next
    clean,       \* every byte that came was the one asked for
    quiet,       \* reconnects since the last data
    alone,       \* no other upgrade was under way during this one
    channel,     \* ota->channel
    sha,         \* ota->sha256: usable, bytes of the firmware hashed in order, or -1
    image,       \* the image file: open, bytes of the firmware from its beginning, or -1
    device       \* the process: "up", "reset" after an upgrade, "crashed"

download == <<size, received, remain, read, kept, at, clean, quiet>>
shared == <<alone, channel, sha, image, device>>
vars == <<pc, download, shared>>

Labels == {"none", "start", "CONNECT", "FILESIZE", "RANGE", "DATA", "hash",
           "RECONNECT", "COMPLETE", "done"}

Init ==
    /\ pc = [t \in Downloads |-> "none"]
    /\ size = [t \in Downloads |-> 0]
    /\ received = [t \in Downloads |-> 0] /\ remain = [t \in Downloads |-> 0]
    /\ read = [t \in Downloads |-> 0] /\ kept = [t \in Downloads |-> 0]
    /\ at = [t \in Downloads |-> 0]
    /\ clean = [t \in Downloads |-> TRUE]
    /\ quiet = [t \in Downloads |-> 0]
    /\ alone = [t \in Downloads |-> TRUE]
    /\ channel = 0
    /\ sha = [live |-> FALSE, len |-> 0]
    /\ image = [open |-> FALSE, len |-> 0]
    /\ device = "up"

At(t, label) == device = "up" /\ pc[t] = label

Goto(t, label) == pc' = [pc EXCEPT ![t] = label]

Underway(t) == pc[t] \notin {"none", "done"}

\* tuya_ota_start; the announcement may lack the size of the file.
Start(t) ==
    /\ At(t, "none")
    /\ \E c \in {0, 1}, s \in {0, FileSize} :
           /\ channel' = c
           /\ size' = [size EXCEPT ![t] = s]
    /\ alone' = [u \in Downloads |->
                   IF u = t THEN \A v \in Downloads : ~Underway(v)
                   ELSE alone[u] /\ ~Underway(u)]
    /\ Goto(t, "start")
    /\ UNCHANGED <<received, remain, read, kept, at, clean, quiet, sha, image, device>>

\* DL_EVENT_START: a new hash, whatever the old one is still used for.
Begin(t) ==
    /\ At(t, "start")
    /\ sha' = [live |-> TRUE, len |-> 0]
    /\ Goto(t, "CONNECT")
    /\ UNCHANGED <<download, alone, channel, image, device>>

Connect(t) ==
    /\ At(t, "CONNECT")
    /\ Goto(t, "FILESIZE") \/ Goto(t, "RECONNECT")
    /\ UNCHANGED <<download, shared>>

\* tkl_ota_start_notify: the image file is opened anew, and so empty.
Emptied == [open |-> TRUE, len |-> 0]

\* The size is asked for once; DL_EVENT_ON_FILESIZE comes after every connect, and
\* with it the port is told of a new image.
FileSizeGet(t) ==
    /\ At(t, "FILESIZE")
    /\ size' = [size EXCEPT ![t] = FileSize]
    /\ image' = IF channel = 0 THEN Emptied ELSE image
    /\ Goto(t, "RANGE")
    /\ UNCHANGED <<received, remain, read, kept, at, clean, quiet, alone, channel, sha, device>>

FileSizeFails(t) ==
    /\ At(t, "FILESIZE") /\ size[t] = 0
    /\ Goto(t, "RECONNECT")
    /\ UNCHANGED <<download, shared>>

RangeRequest(t) ==
    /\ At(t, "RANGE")
    /\ at' = [at EXCEPT ![t] = received[t]]
    /\ Goto(t, "DATA")
    /\ UNCHANGED <<size, received, remain, read, kept, clean, quiet, shared>>

\* The answer is another one: the file from its beginning, or an error page.  The page is
\* as long as the file: one that is shorter ends in a read that fails.
RangeIgnored(t) ==
    /\ At(t, "RANGE")
    /\ at' = [at EXCEPT ![t] = 0]
    /\ clean' = [clean EXCEPT ![t] = FALSE]
    /\ Goto(t, "DATA")
    /\ UNCHANGED <<size, received, remain, read, kept, quiet, shared>>

RangeFails(t) ==
    /\ At(t, "RANGE")
    /\ Goto(t, "RECONNECT")
    /\ UNCHANGED <<download, shared>>
-----------------------------------------------------------------------------
(* DL_STATE_DATE_GET: n bytes come behind those that remained.             *)

Offset(t) == received[t] - remain[t]

\* Mutant: the space that remains taken is read into.
CameWide(t, n) ==
    /\ At(t, "DATA")
    /\ n <= RangeLen /\ n <= FileSize - at[t]
    /\ at' = [at EXCEPT ![t] = @ + n]
    /\ clean' = [clean EXCEPT ![t] = @ /\ at[t] = received[t]]

Came(t, n) ==
    /\ At(t, "DATA")
    /\ n <= RangeLen - remain[t] /\ n <= FileSize - at[t]
    /\ at' = [at EXCEPT ![t] = @ + n]
    /\ clean' = [clean EXCEPT ![t] = @ /\ at[t] = received[t]]

\* After the event: the time starts again, and all that was asked for may be there.
Counted(t, n, rest) ==
    /\ received' = [received EXCEPT ![t] = @ + n]
    /\ remain' = [remain EXCEPT ![t] = rest]
    /\ quiet' = [quiet EXCEPT ![t] = 0]
    /\ Goto(t, IF received[t] + n >= size[t] THEN "COMPLETE" ELSE "DATA")

\* k bytes, taken for those at offset o, behind len of them: fwrite, and the hash.
Joined(len, o, k, good) ==
    CASE k = 0 -> len
      [] k # 0 /\ good /\ len = o -> o + k
      [] OTHER -> -1

\* tkl_ota_data_process: all of the last piece is written, of any other all but Keep.
Rest(t, n) == IF Offset(t) + remain[t] + n = FileSize THEN 0 ELSE Keep

Data(t, n) ==
    LET len == remain[t] + n
        rest == Rest(t, n)
    IN  /\ Came(t, n) /\ channel = 0
        /\ rest = len \/ (rest < len /\ image.open)
        /\ image' = [image EXCEPT !.len = Joined(@, Offset(t), len - rest, clean'[t])]
        /\ read' = [read EXCEPT ![t] = n] /\ kept' = [kept EXCEPT ![t] = rest]
        /\ Goto(t, "hash")
        /\ UNCHANGED <<size, received, remain, quiet, alone, channel, sha, device>>

\* A piece shorter than Keep: its length less Keep is a huge number to fwrite.  Or there
\* is no file yet: the channel became 0, by another upgrade, behind FileSizeGet.
DataDies(t, n) ==
    /\ Came(t, n) /\ channel = 0
    /\ \/ remain[t] + n < Rest(t, n)
       \/ remain[t] + n > Rest(t, n) /\ ~image.open
    /\ device' = "crashed"
    /\ UNCHANGED <<pc, size, received, remain, read, kept, quiet, alone, channel, sha, image>>

\* A hash another upgrade has freed is used all the same: the process may die of it.
\* (If it lives on, the memory was cleared when it was freed and gives no right hash.)
UsesHash == device' \in IF sha.live THEN {device} ELSE {device, "crashed"}

\* What the port took is hashed.
Hash(t) ==
    LET k == remain[t] + read[t] - kept[t] IN
    /\ At(t, "hash")
    /\ sha' = IF sha.live THEN [sha EXCEPT !.len = Joined(@, Offset(t), k, clean[t])] ELSE sha
    /\ UsesHash
    /\ Counted(t, read[t], kept[t])
    /\ read' = [read EXCEPT ![t] = 0] /\ kept' = [kept EXCEPT ![t] = 0]
    /\ UNCHANGED <<size, at, clean, alone, channel, image>>

\* Other channels: the application is given the data and nothing is hashed.
DataForApp(t, n) ==
    /\ Came(t, n) /\ channel # 0
    /\ Counted(t, n, remain[t])
    /\ UNCHANGED <<size, read, kept, shared>>

ReadFails(t) ==
    /\ At(t, "DATA")
    /\ Goto(t, "RECONNECT")
    /\ UNCHANGED <<download, shared>>
-----------------------------------------------------------------------------
\* The connection is closed, and with it goes what the server had still to send.
Closed(t) == at' = [at EXCEPT ![t] = 0]

\* ... and the download's context is freed.
Freed(t) ==
    /\ Closed(t)
    /\ size' = [size EXCEPT ![t] = 0]
    /\ received' = [received EXCEPT ![t] = 0] /\ remain' = [remain EXCEPT ![t] = 0]
    /\ quiet' = [quiet EXCEPT ![t] = 0] /\ clean' = [clean EXCEPT ![t] = TRUE]
    /\ Goto(t, "done")
    /\ UNCHANGED <<read, kept>>

\* Mutant: the buffer is taken as empty on a new connection.
ReconnectForgets(t) ==
    /\ At(t, "RECONNECT") /\ quiet[t] < MaxQuiet /\ Closed(t)
    /\ quiet' = [quiet EXCEPT ![t] = @ + 1]
    /\ remain' = [remain EXCEPT ![t] = 0]
    /\ Goto(t, "CONNECT")
    /\ UNCHANGED <<size, received, read, kept, clean, shared>>

\* Mutant: a new connection starts the time again.
ReconnectForEver(t) ==
    /\ At(t, "RECONNECT") /\ Closed(t)
    /\ Goto(t, "CONNECT")
    /\ UNCHANGED <<size, received, remain, read, kept, clean, quiet, shared>>

Reconnect(t) ==
    /\ At(t, "RECONNECT") /\ quiet[t] < MaxQuiet /\ Closed(t)
    /\ quiet' = [quiet EXCEPT ![t] = @ + 1]
    /\ Goto(t, "CONNECT")
    /\ UNCHANGED <<size, received, remain, read, kept, clean, shared>>

\* The loop's test finds the time over, behind whatever state but the one that brought
\* data: DL_EVENT_FAULT, which leaves the hash and the image as they are.  (CONNECT is
\* reached from the loop by a reconnect only.)
Fault(t) ==
    /\ \E label \in {"CONNECT", "FILESIZE", "RANGE", "RECONNECT"} : At(t, label)
    /\ pc[t] = "CONNECT" => quiet[t] > 0
    /\ Freed(t)
    /\ UNCHANGED shared

\* tkl_ota_end_notify(TRUE): the process ends, to start again with the image.
EndNotify == device' = "reset"

\* DL_EVENT_FINISH: the hash is freed; if it is right the image is taken and the
\* process ends, if not nobody hears of it.
Finish(t) ==
    /\ At(t, "COMPLETE")
    /\ sha' = [sha EXCEPT !.live = FALSE]
    /\ IF sha.live /\ sha.len = FileSize /\ channel = 0 THEN EndNotify ELSE UsesHash
    /\ Freed(t)
    /\ UNCHANGED <<alone, channel, image>>

Download(t) ==
    \/ Begin(t) \/ Connect(t) \/ FileSizeGet(t) \/ FileSizeFails(t)
    \/ RangeRequest(t) \/ RangeIgnored(t) \/ RangeFails(t)
    \/ \E n \in 1 .. RangeLen : Data(t, n) \/ DataDies(t, n) \/ DataForApp(t, n)
    \/ Hash(t) \/ ReadFails(t)
    \/ Reconnect(t) \/ Fault(t) \/ Finish(t)

Next == \E t \in Downloads : Start(t) \/ Download(t)

Spec == Init /\ [][Next]_vars

\* The threads run on.  Nothing is asked of the network: a read that gets nothing
\* times out.
FairSpec == Spec /\ \A t \in Downloads : WF_vars(Download(t))
-----------------------------------------------------------------------------
\* The type invariant.  A piece fits the buffer behind what remained of the one before,
\* and a download that is served what it asks for never counts more than there is.
TypeOK ==
    /\ pc \in [Downloads -> Labels]
    /\ size \in [Downloads -> {0, FileSize}]
    /\ received \in [Downloads -> 0 .. FileSize + RangeLen]
    /\ remain \in [Downloads -> {0, Keep}] /\ kept \in [Downloads -> {0, Keep}]
    /\ read \in [Downloads -> 0 .. RangeLen]
    /\ at \in [Downloads -> 0 .. FileSize]
    /\ clean \in [Downloads -> BOOLEAN] /\ alone \in [Downloads -> BOOLEAN]
    /\ quiet \in [Downloads -> 0 .. MaxQuiet]
    /\ channel \in {0, 1}
    /\ sha \in [live : BOOLEAN, len : -1 .. FileSize]
    /\ image \in [open : BOOLEAN, len : -1 .. FileSize]
    /\ device \in {"up", "reset", "crashed"}
    /\ \A t \in Downloads : remain[t] + read[t] <= RangeLen
    /\ \A t \in Downloads : clean[t] => received[t] <= FileSize

\* A download that was served what it asked for, on however many connections, and that
\* no other upgrade disturbed is accepted when it is complete: every byte was hashed
\* once and in order, and none is left in the buffer.
Accepted ==
    \A t \in Downloads :
        pc[t] = "COMPLETE" /\ clean[t] /\ alone[t] /\ channel = 0 =>
            sha = [live |-> TRUE, len |-> FileSize] /\ remain[t] = 0

\* An upgrade that is started comes to its end, completed or given up, whatever the
\* network and other upgrades do.
Ends == \A t \in Downloads : Underway(t) ~> (pc[t] = "done" \/ device # "up")

\* port/linux/tkl_ota.c:91: tkl_ota_end_notify is the "firmware ota packet transform
\* success inform".  When it is called with TRUE the image file holds the firmware.
ImageWhole ==
    device = "reset" => image = [open |-> TRUE, len |-> FileSize]
-----------------------------------------------------------------------------
(* The inductive invariant, proved in OtaProofs.                           *)

\* What the place of a download says of its counters: before the end there is something
\* left to come, what remains in the buffer was received, and a piece that is being
\* hashed leaves something exactly when it is not the last one.
Stage(t) ==
    /\ remain[t] <= received[t]
    /\ pc[t] \in {"none", "start"} => received[t] = 0 /\ remain[t] = 0
    /\ pc[t] \in {"RANGE", "DATA", "hash", "COMPLETE"} => size[t] = FileSize
    /\ pc[t] \notin {"COMPLETE", "done"} => received[t] < FileSize
    /\ pc[t] = "COMPLETE" => received[t] >= FileSize
    /\ pc[t] = "hash" =>
           /\ kept[t] <= remain[t] + read[t]
           /\ kept[t] = IF received[t] + read[t] = FileSize THEN 0 ELSE Keep
           /\ clean[t] => received[t] + read[t] <= FileSize

\* Beside an upgrade that counts as alone no other is under way.
Solitary ==
    \A t, u \in Downloads : t # u /\ alone[t] /\ Underway(t) => ~Underway(u)

\* Of an undisturbed download all is hashed but what remains in the buffer.
Hashed(t) ==
    Underway(t) /\ pc[t] # "start" /\ alone[t] /\ clean[t] /\ channel = 0 =>
        /\ sha = [live |-> TRUE, len |-> Offset(t)]
        /\ pc[t] = "COMPLETE" => remain[t] = 0

IInv == TypeOK /\ Solitary /\ \A t \in Downloads : Stage(t) /\ Hashed(t)
=============================================================================
