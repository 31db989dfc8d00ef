# Verification of the TuyaOpen device core

TuyaOpen is firmware for connected devices: a portable system layer (`tal_*`: threads,
work queues, timers, events, time, key-value store), on top of it the client of the Tuya
cloud (activation, MQTT session, requests, pairing, LAN and Bluetooth control, upgrades),
and below it ports to boards and to Linux. This directory models the parts in which
threads, callbacks, timeouts and power failures meet: the system layer's concurrency
services, the cloud client built on them, its connection to the AI service, and firmware
upgrades.

Eleven modules model code, `WorkSpec` is an abstract specification, `MCWorkQueue` holds the
mapping of a model to it, `Lists` one operator on lists that models share, and eight hold
lemmas and proofs. Every invariant and every refinement the runs check is also a theorem,
for all values of the constants. `PROJECT.json` maps every definition to source lines,
lists the runs, the hazards, the theorems, and for each property a mutation of the model
that breaks it.

To repeat a run: `tlc -workers 2 -config WorkQueue.cfg MCWorkQueue`; to repeat the proofs:
`tlapm M.tla` for `ListFacts` and for each of `WorkQueueProofs`, `SwTimerProofs`,
`EventBusProofs`, `IotClientProofs`, `MatopProofs`, `AiBizProofs` and `OtaProofs`.

## 1. Inventory

Paths are relative to `src/components`; `cloud/` is `tuya_cloud_service/cloud/`.

| Component | State | Operations | Modules |
|---|---|---|---|
| Work queue, `tal_system/src/tal_workqueue.c` with `utilities/src/tuya_queue.c` | bounded list with a free count, counting semaphore, worker thread | create, schedule, schedule_instant, cancel, release, the worker's loop | `WorkSpec`, `WorkQueue` |
| Delayed work, end of `tal_workqueue.c` | a record and a timer per work | init, start, stop, cancel, timer callback | `DelayedWork` |
| Software timers, `tal_sw_timer.c` | active list ordered by expiry, standby list, counters, semaphore, timer thread | create, start, stop, trigger, delete, dispatch | `SwTimer` |
| Events, `tal_event.c` | nodes with subscription lists, free list, a mutex per node | publish, subscribe, unsubscribe, dispatch | `EventBus` |
| Threads, `tal_thread.c` | record and run state per thread, list of all, list to delete | create, life cycle, delete, clean-up | `ThreadMgr` |
| Cloud client, `cloud/tuya_iot.c` | `state`, `nextstate`, activation data, binding, token semaphore, flash | yield (17 states), start, stop, reset, reconnect, activation event, upgrade timer | `IotClient` |
| MQTT service, `cloud/mqtt_service.c` | connection flags, client pointer, list of waiting publishes | init, start, loop, stop, destroy, publish, PUBACK, timeouts | `IotClient` (life cycle), `MqttService` (session) |
| Requests over MQTT, `cloud/matop_service.c` | list of waiting requests, request number | request, answer, timeout, destroy at disconnect | `Matop` |
| MQTT pairing, `cloud/mqtt_bind.c` | bind thread, its state word | token_get, thread, EVENT_RESET | planned |
| Data points, `tuya_cloud_service/schema` | schema, report cache with time stamps | report, dump, callbacks | planned |
| Network manager, network configuration | active connection, pairing methods | events, switching | planned |
| LAN control, Bluetooth | sessions, heart beats, reassembly buffers | socket loop, packets | planned |
| AI client, `tuya_ai_basic/src/tuya_ai_client.c`, `tuya_ai_protocol.c`, `tuya_ai_biz.c`, and the agent in `demos/ai_demo/ai_agent.c` | connection state, back-off, lost pings, two timers, socket, reassembly, session table | client thread (7 states), keepalive on timer and work queue, close, sessions | `AiClient`, `AiBiz` |
| Upgrades, `cloud/tuya_ota.c` with `http_client/src/http_download.c` and `port/linux/tkl_ota.c` | download context per thread; channel, hash and image file shared | start, connect, size, range, data, reconnect, finish, fault | `Ota` |
| Health monitor | rule list, timer | register, poll | planned |
| Time service, ring buffer, smart pointer | 32-bit counters | roll-over, read and write, reference counts | planned |
| Log, system, checksums, protocol packing, HTTP requests, security, transports, drivers, vendored code | none between calls, or pure I/O | | not modelled |

How the parts interact:

    application ──calls──▶ cloud client ◀──EVENT_LINK_ACTIVATE── pairing (BLE, AP, MQTT)
                             │  main loop: tuya_iot_yield
                             ▼
                       MQTT service ── publish list, PUBACKs ──▶ broker
                             ▲
                       matop requests ◀── upgrade check on the timer thread
    timer thread ──callback──▶ work queue (delayed work) ──▶ worker thread
    AI client thread ◀──▶ AI service; its keepalive: timer thread ─▶ work queue ─▶ ping
                     ──EVENT_AI_CLIENT_RUN / CLOSE──▶ session table and agent
    upgrade announced ──▶ a thread of its own: download ─▶ hash, image file
    events: publishers call subscribers with the node's mutex held
    every thread above is a record of the thread manager

What is hard here: the system layer is locked, but in several critical sections per call
(an item is put in and its token posted in two steps; a timeout is computed and slept on
in two; a lookup is unlocked and acted on later). The cloud layer is not locked at all: the
main thread, the application's threads and the timer thread write the same structures,
and `LOCK` in `mqtt_service.c` is a comment. Flash is written one key at a time and the
power may fail in between. The AI connection is closed by whichever of two threads sees it
fail first, while the other may be setting up the next one. A download is resumed on a new
connection with part of its last piece still in the buffer. PUBACKs and answers race timeouts and outlive the connection
they belong to. The list of hazards in `PROJECT.json`, each at its line, is what the
properties below were written for.

## 2. The models

A step of a model is what the code does between two points at which another thread can
interfere: one critical section, or, where there is no lock, one access to shared data
that matters. Failures of allocation that return before any state change are left out.
Messages, callbacks and records are model values.

**WorkSpec** is the promise of a work queue: a list of accepted jobs, started one at a
time and in order, an instant job ahead of the waiting ones, cancelled jobs never.

**WorkQueue** is the implementation. `queue`, `queue_free` are the list of `tuya_queue.c`,
`sem` its semaphore; a client between the insertion and the post is in state `"post"`;
`worker` is the program counter of `__WrapRunFunc` and `__work_thread_cb` (wait for a
token, take an item, run it, check the thread's state); `releaser` that of
`tal_workqueue_release`, which asks the thread to stop, posts, and polls a thread record that
the worker may have freed (a poll of a freed record may read anything). Cancelling clears
callbacks in place. **MCWorkQueue** adds the refinement mapping to `WorkSpec`: the waiting
jobs are the list's items that still have a callback (`Keep` of **Lists**, the walk that
drops some entries of a list, which `WorkSpec` and `ThreadMgr` use too).

**SwTimer**: the lists, the records and the counters; every API call is split where the
code leaves the mutex (`StartRead` reads the clock before it, `Post` comes after it,
`Free` last); the timer thread enters its wait, wakes by token or timeout, reads the clock,
picks a timer, loads its callback's arguments, calls. Callbacks use the API
themselves. The clock is monotonic and stops at `MaxNow`, which stands for all later times.

**DelayedWork** composes `SwTimer` with the job list of `WorkSpec` (not with `WorkQueue`,
which is shown to implement it): the timer's callback schedules the job, once, and a full
queue drops it; cancellation goes through timer, queue and record in three steps, and takes
out of the queue every job that shares its callback or its argument.

**EventBus**: the unlocked look-up is one step, what follows under the node's or the
manager's mutex another. A dispatch holds the node's mutex over all its callbacks, one
step each. One event name; names do not interact except through the locks.

**ThreadMgr**: a record's life from creation to the clean-up pass at the start or the end of a
thread, in which threads free each other's records and their own last. (`sta` is `thrdRunSta`
of every thread; `WorkQueue` keeps the worker's under that name.)

**IotClient**: `tuya_iot_yield` takes `nextstate` into `state` and runs that state's case;
cases that block, or that touch flash twice, are several steps (`at`). The application's
calls, the activation event and the upgrade check are threads of their own. `kv` is flash:
`PowerFails` loses everything else and boots. The MQTT context is kept to `is_inited`,
`mqtt_client`, `is_connected` and `manual_disconnect`. A reset stores the device id
(`ResetDevid`) and removes the two records one after the other; each `tal_kv_del` may fail
(`Remove`) and the code does not look. `erased` (a reset was announced) and `unremoved` (what
it could not remove) are history variables.
A step on a NULL client or binding leads to `"crashed"`. Network and HTTP results are
choices; data-point reporting and the version update are left out.

**MqttService**: the session in the MQTT loop. The main thread walks `publish_list` with
`next_handle` (`pos`), sending, dropping what timed out, and then processes one packet or a
loss of the connection. One application thread publishes; appending to the unlocked list
is two steps, and an entry linked behind a freed one goes to `lost`.

**Matop** extends it by the requests: `message_list`, `id_cnt` (reset at each connection),
answers that may come on a later connection, and the timer thread, whose numbering,
sending and linking are separate steps. Callbacks may send further requests. A new connection
is two steps: `Connected` sets `is_connected`, `ConnectedOn` clears the list, and the timer
thread may link a request in between, which is then in the history variable `astray`.

**AiClient** is the connection: the client thread goes through `SETUP`, `CONNECT`,
`CLIENT_HELLO`, `AUTH_REQ`, `AUTH_RESP` to `RUNNING`; `next` is the state it will set at the
end of a case, which is a step of its own because the timer thread sets the state too. The
keepalive is four facts: `work` (a ping is planned), `queued` (it is in the work queue),
`alive` (its answer is awaited) and `lost_cnt`, whose increment on the timer thread can be
torn (`count`). The planned ping enters the work queue in one attempt (`WorkFires`), which
a queue filled by others refuses; `dropped` is the history variable that says so.
`__ai_conn_close` (publish the event, stop the keepalive, close, set the
state) is four steps on either thread. `sock` says what the socket does: an orderly end,
silence and errors are different to the code. A link that dies in the middle of a packet
leaves `"part"` to read: the protocol layer tries again for ever, and the client thread is
caught until the link breaks. Fragments are put together as the code checks
them (`frag`). Encoding, sequence numbers, the credential's refresh timer and the
`start_ping`/`stop_ping` calls are left out.

**AiBiz** composes it with the sessions: the handlers of `EVENT_AI_CLIENT_RUN` and
`EVENT_AI_CLIENT_CLOSE` run on the publishing thread; a session is created in three steps
(sent, stored, agent online), between which the timer thread may close everything. Of
sessions other than the agent's only the number of slots they take is kept.

**Ota**: one download context per upgrade thread (`size`, `received`, `remain`, ...), the
shared `channel`, `sha` and `image`. A byte is its position: `sha.len` is how much of the
firmware was hashed in order (-1: something else was), `image.len` the same of the file.
An answer other than the one asked for (the file from its beginning, an error page) is
`RangeIgnored`. `Data` is `tkl_ota_data_process`, which leaves `Keep` (100) bytes of every
piece but the last in the buffer, `Hash` what `tuya_ota.c` does after it and, in the same
step, the accounting of `http_file_download`. With two upgrades a hash may be used that was
freed (`UsesHash`) and a file that was not opened (`DataDies`): the process may die, or does.
`clean` and `alone` are history variables: the
server sent what was asked, and no other upgrade ran meanwhile. Time is the number of
reconnects without data; one long call may use up the 180 seconds as well.

## 3. Runs

| Run | Instance | Distinct states | What it shows |
|---|---|---|---|
| `workqueue` | 2 clients, 2 callbacks, 1 argument or none, 2 slots | 8,936 | tokens and items stay paired (`TokenPerItem`), no wake-up is lost (`NoLostWakeup`), the semaphore's maximum is enough (`SemWithinMax`), release leaves a quiet worker (`ReleasedIsQuiet`), the queue implements `WorkSpec`, items are served |
| `swtimer` | 2 timers, 1 client and the thread's callbacks, times 0 and 1 | 416,969 | lists, flags and counters agree, the active list is sorted although timers are armed with clock readings of different age, the thread never sleeps with a stale timeout, due timers are served |
| `event` | 2 threads, 2 subscribers, at most 2 nodes | 40,118 | a dispatch serves what it found, no subscription is listed twice and emergency ones come first, every call returns |
| `thread` | 3 threads | 6,324 | records are not freed in use or twice, deleted threads end |
| `iot` | 2 application calls and 1 activation event between boots, 1 power failure | 170,224 | an activation is whole in flash (`ActivationDurable`), a reset leaves there only what could not be removed (`ResetDurable`), a session is never left over (`ConnectedIsLive`), the MQTT loop keeps requests of other threads, the client comes to rest and gets online again |
| `mqtt` | 3 publishes, 3 packet identifiers | 194,548 | each publisher is told at most once, each listed publish ends |
| `matop` | 2 requests, 1 publish | 387,752 | each callback runs at most once, a removal drops no other request, requests end |
| `delayed_cancel` | 1 timer, 1 client, 1 slot | 16-step counterexample | finding 1 |
| `ai` | back-off table of 2, closed after 2 lost pings, 1 ping queued, 1 packet on its way, 3 slots | 967,066 | over a good connection the keepalive dies out only with a ping that found the work queue full (`Watched`), a running client's agent is online in a session that table and peer know (`AgentReady`), a lost connection is noticed (`LossIsNoticed`) |
| `ota` | 2 upgrades of 4 bytes, buffer 3, 2 kept back, 2 reconnects without data | 239,920 | a piece fits the buffer (`TypeOK`), an undisturbed download is accepted whole however often it was resumed (`Accepted`), every upgrade ends (`Ends`) |
| `ai_reconnect` | as `ai` | counterexample | finding 2 |
| `ota_image` | 1 upgrade | counterexample | finding 3 |

### Bounds and why they are enough

* `workqueue`: two clients are needed for one to insert between another's insertion and
  its post, two slots for instant insertion to overtake and for the list to be full,
  partly full and empty. Nothing is counted beyond the slots, so the run covers every
  length of history. The theorems of section 5 remove the bounds.
* `swtimer`: two timers make an order; interval 0 expires at once, interval 1 later; a
  clock of two values tells "due" from "not due". With `MaxSem = 0` no call begins while a
  token is unconsumed; several calls may still be on their way to post. (More tokens only
  wake the thread more often.)
* `event`: two threads suffice for each race between look-up and use; two nodes are the
  duplicates two first publishers create; each subscription has one of three types.
* `thread`: with three threads one can clean up while another ends and the third starts.
* `iot`: two calls allow a reset with a stop, start or reconnect behind it; one power
  failure at any step exercises each half-written flash, and the new boot has its own calls.
* `mqtt`, `matop`: three publishes let the walk remove one, skip one and meet another;
  two requests are the fewest that can get the same number. `MaxId` bounds packet
  identifiers by the number of publishes, so that no publish is refused for the bound alone.
* `ai`: two lost pings instead of three still tell the first, which is followed by another,
  from the last, which closes. One packet on its way is enough for a packet between a ping
  and its answer and for each fragment out of place, since the network adds the next as
  soon as one is read. Three slots are the agent's own session and the two that earlier
  connections can leave in the table; with two slots TLC finds `AgentReady` violated, the
  code has six (`tuya_ai_biz.c:38`). `SlotsAssumption` asks for three or more.
* `ota`: four bytes over a buffer of three with two kept back need several pieces, of which
  the first may be shorter than what is kept; with two reconnects a download can be resumed
  in every state, twice in a row, and given up after any number of them.

### Deadlock

Deadlock is checked in `swtimer` and `event`. The others may stop: a released queue, threads
all ended, a crashed client, a session whose messages are all used up, upgrades that are
done.

### Fairness

* Threads run and callbacks return: weak fairness on the steps a thread takes by itself
  (`WorkerStep`, `Post`, `GoOn`, `ThreadStep`, `MainStep`, ...). New API calls are never
  forced. In `EventBus` it is strong fairness, since a mutex is taken and freed again
  while a thread waits; the ports' mutexes do not starve a waiter for ever.
* Time passes: weak fairness on `Tick`, `Expire`, `Overdue`. In `AiBiz` and `Ota` the timers
  are part of the threads' own steps.
* `Ota` and `AiBiz` (`FairSpec`) ask nothing of network or peer. `NetSpec`, under which finding
  2 is shown, adds that a network looked for again and again is up (`IdleUp`).
* The world answers some day: strong fairness on `Attempt` (one of `NetworkUp`, `DataLoad`,
  `EndpointUpdated`, `ActivateSchema`, `Connect`, `YieldReconnect`) and on `ActivateData` in
  `IotClient`, and on `Connected` in `MqttService` and `Matop`. The code repeats these attempts without end and
  says nothing of a cloud that always refuses; an attempt repeated for ever succeeds
  once. The safety properties do not rest on it.

## 4. Findings

1. `delayed_cancel`: the timer thread picks a delayed work's timer and leaves the mutex; the
   owner cancels (timer deleted, queue cleared, record freed); the callback then reads
   the freed record and schedules the cancelled work (`tal_workqueue.c:438`).
2. `ai_reconnect`: errors in `CLIENT_HELLO` and `AUTH_REQ` are answered with a sleep only
   (`tuya_ai_client.c:175`), so a connection that breaks there is never set up again; the
   keepalive does not run yet. `tuya_ai_client.c:7` promises "automatic reconnection".
3. `ota_image`: every reconnect raises `DL_EVENT_ON_FILESIZE` (`http_download.c:267`), on which
   the Linux port opens the image file with `"w+b"` (`tkl_ota.c:52`) and empties it. The
   download goes on at `received_size` and the hash over the stream is right, so the upgrade is
   accepted with an image that lacks what the earlier connections brought. `Accepted` shows
   that the hash itself survives every resumption.

The passing runs are about what the code does all the same: their models contain these
behaviours (crashes are states, lost entries are kept in `lost` and `astray`), and the
properties say what still holds.

Seen while modelling and not made into runs of their own (the first four are steps of the
models that lead to `"crashed"`, `lost` or a wrong callback, and were found by TLC):

* `tuya_mqtt_destory` frees the client and leaves `is_inited` set, so that a later stop or
  reconnect works on a NULL client (`mqtt_service.c:922`);
* when the last entry of the publish list times out, the walk moves on through the NULL it
  has just left (`mqtt_service.c:879`);
* `id_cnt` is incremented by two threads without a lock and restarts at every connection; an
  answer can reach the callback of another request (`matop_service.c:330`);
* events are looked up without a mutex and not again under it; two first publishers create
  two nodes, or a subscriber joins the free list of an event that has come into being
  (`tal_event.c:379`), and later publishes do not reach everybody;
* the orderly end of the AI service's stream is returned as `OPRT_OK` without a packet, which
  `tuya_ai_auth_resp` dereferences (`tuya_ai_protocol.c:1827`; `ReadEnd` goes to `"crashed"`);
* a one-shot ping that finds the work queue full is dropped (`tal_workqueue.c:339` ignores the
  result) and nothing plans the next one: the connection goes on without a keepalive. `Watched`
  and `LossIsNoticed` show that there is no other way to lose it over a good link;
* when the link dies in the middle of an AI packet the reads inside the packet are repeated for
  ever (`tuya_ai_protocol.c:1393`, `1415`, `1525`): the keepalive sets the state to idle, but the
  client thread does not see it before the socket reports an error;
* a request linked by the timer thread after a reconnect set `is_connected`
  (`mqtt_service.c:322`) and before `matop_serice_init` clears the context
  (`matop_service.c:200`) is dropped, and its callback never called;
* `tuya_iot_activated_data_remove` ignores the results of `tal_kv_del` (`tuya_iot.c:1084`) and
  announces `RESET_COMPLETE`, although its comment speaks of "a negative error code on failure"
  (`tuya_iot.c:1072`): if neither record could be removed the next boot finds the old identity,
  and a record that was left can be completed by the first half of a later activation. The old
  device id stays in flash by intent (`tuya_iot.c:590`), and `client->activate` is not cleared;
* cancelling one delayed work cancels every queued item with the same callback or the same
  argument (`tal_workqueue.c:84`);
* any packet stops `alive_timeout_timer` but only a pong plans the next ping
  (`tuya_ai_client.c:263`): when the link dies silently right after such a packet nothing
  watches it any more. `Watched` is therefore about good links, and `LossIsNoticed` about
  losses that find the keepalive armed;
* the receiver of AI packets restarts its sequence after 0xFFFF, the sender after 0xFFFE
  (`tuya_ai_protocol.c:1492`, `859`);
* an upgrade whose hash is wrong is reported to nobody (`tuya_ota.c:111`); data of channels
  other than 0 is not hashed, so their upgrades can never reach `TUYA_OTA_EVENT_FINISH`;
* a piece of an image shorter than 100 bytes that is not the last makes `pack->len - 100` wrap
  (`tkl_ota.c:81`; `DataDies`); a second upgrade shares channel, hash and file with a
  running one (`tuya_ota.c:215`), whose hash it may free and whose channel it may change before
  there is a file; the range request's status is not tested
  (`http_download.c:123`); `ctx->buffer` is never freed;
* `tal_sw_timer_start` with time 0 keeps the old interval, while `tal_workqueue.h:151`
  promises "0 for immediate execution" of delayed work, which hands its interval on;
* `_event_node_dispatch` overwrites a subscriber's failure by the next one's success, while
  `tal_event.c:388-389` says it "will continue but will return failed";
* `is_self` is overwritten when another ended thread follows in the clean-up list, and the
  thread's own record is leaked (`tal_thread.c:131`);
* a reset during `STATE_DATA_LOAD` is overwritten by the case's own `nextstate`, and the
  retry waits for a token with no binding (`tuya_iot.c:876`, `888`);
* the publish timeout adds milliseconds to a time in seconds (`mqtt_service.c:684`);
* unreachable code: `STATE_DATA_LOAD` of an activated client, and `STATE_MQTT_YIELD` with
  `manual_disconnect` set or without a context.

## 5. Proofs

Each component's invariants rest on one inductive invariant; a lemma per action (or group of
actions) shows that it is preserved, and the theorems follow from it. Every inductive
invariant was checked by TLC on these or larger instances as well. The
assumptions are those the modules that declare the constants make, named here; TLC evaluates
them in the runs.

| Module | Theorems | Property |
|---|---|---|
| `WorkQueueProofs` | `TypeCorrect`, `TokensPaired`, `WakeupsKept`, `SemBounded`, `QuietRelease`, `TokensRedeemed` | invariants of `WorkQueue` |
| | `QueueImplementsSpec` | `Spec => ImplementsWorkSpec` |
| | `ManagerTypeCorrect`, `RecordsFreedUnused` | invariants of `ThreadMgr` |
| `SwTimerProofs` | `TimersTypeCorrect`, `TimersInOneList`, `TimersInOrder`, `TimersNotOverslept` | invariants of `SwTimer` |
| | `DelayedUsesTimers` | `DSpec => Spec`: they hold under `DelayedWork` too |
| `EventBusProofs` | `EventsTypeCorrect`, `DispatchesConsistent`, `EmergencyServedFirst` | invariants of `EventBus` |
| `IotClientProofs` | `TypeCorrect`, `ActivationIsDurable`, `ResetIsDurable`, `SessionIsLive`, `LoopKeepsRequests` | invariants and the action property of `IotClient` |
| `MatopProofs` | `SessionTypeCorrect`, `ToldOnce` | invariants of `MqttService` |
| | `RequestsImplementSession` | `Spec => PSpec`: they hold under `Matop` too |
| | `RequestsTypeCorrect`, `CalledBackOnce`, `AcceptedAreKept` | invariants of `Matop` |
| `AiBizProofs` | `AiTypeCorrect`, `KeepaliveGoesOn`, `RunningAgentReady` | invariants of `AiBiz` |
| `OtaProofs` | `TypeCorrect`, `ServedIsAccepted` | invariants of `Ota` |

**ListFacts** holds the facts on lists that several proofs need: what appending,
prepending, inserting and removing do to the entries and to their being distinct, and what
`Keep` returns. The library's induction theorems take an operator and cannot be used
here; `PositionInduction` is induction over the positions of a list with a *set* of good
positions in the operator's place, which the provers can instantiate. With it
`KeepProperties`, `KeepOfAppend`, `KeepOfCons`, `KeepTwice` and `KeepOfMarked` are proved
for lists of any length: keeping commutes with appending at either end, keeping twice is
keeping the common part, and clearing the entries that leave the kept set is the same as
dropping them.

**WorkQueueProofs**, for any finite set of clients, any callbacks and arguments and any
queue length above 0 (`ClientsFinite`, `QueueLenPositive`, `NullsDistinct`). The
invariant is `IInv == TypeOK /\ QueueCounted /\ TokenPerItem /\ Lifecycle`.
`NoLostWakeup` by itself is not inductive: that a sleeping worker has no item beside it
needs the exact balance of tokens (in the semaphore, owed by a client, in the worker's
hand) and items, which in turn needs `Lifecycle` to say in which phases the release may
have added its own token and that no client is between its two steps then. Each action
is a step of the proof; the cardinality of the set of posting clients changes by one, by
the library's facts on finite sets.

The refinement `QueueImplementsSpec` maps the waiting jobs to `Keep(queue, Jobs)` and needs
of the invariant that the worker only ever runs an item with a callback (`RunsJob`). One
step of the queue is one of the specification: putting in appends (or prepends) a job,
clearing callbacks in place is dropping jobs (`KeepOfMarked`), taking out an item without
callback is a stutter, every other step leaves the mapping alone.

The same module extends `ThreadMgr` and proves about it for any set of threads (finite or
not): the worker is one of the manager's threads, and both parts rest on `Keep`. The invariant
`MInv` ties, for each thread, its place, its run state, its owner and its record
(`Stage`), and says that both lists hold only records in use, the list to delete none
whose thread is past its last access (`Linked`). `FreedIsUnused` speaks of freed records
only and cannot exclude that a clean-up finds one in the list a second time.

**SwTimerProofs**, for any finite set of timers, any clients, intervals and bounds
(`TimersFinite`, `ThrIsNoClient`, `TimesNatural`, `NullsDistinct`, `BoundsNatural`). The
invariant is `TInv == TypeOK /\ Calling /\ Linked /\ ActiveSorted /\ NoOversleep`. That the
counters agree with the lists is what keeps them natural numbers, hence belongs to type
correctness; that nothing is put back into a list while it is being deleted needs `Calling`,
what the calls under way have in hand. The position the ordered insertion chooses exists
because a nonempty set of positions has a least element.

**EventBusProofs**, for any threads and subscribers and any number of nodes
(`NobodyIsNoThread`, `MaxNodesPositive`). The invariant is
`EInv == TypeOK /\ Nodes /\ Held /\ GoodLists /\ Dispatching`. `DispatchConsistent` compares
whom a dispatch has called with the list it began with. That this stays so until the last
callback needs the mutex (`Held`), that others respect it needs the node each
call works on to exist (`Nodes`), and one-time subscriptions leave the list while it is walked
(`Dispatching`: what is in the list is what was found and not yet unlinked, in its order).
Taking over the free list is a recursive function; that it keeps lists good is proved by the
first position at which it would not.

**IotClientProofs**, for all bounds (`BoundsNatural`), hence any number of calls, activation
events and power failures. The invariant adds to `TypeOK`, `ActivationDurable`,
`ResetDurable` and `ConnectedIsLive` the conjunction `Stages`: what the places inside
activation and reset say of the flash (the schema is written first and removed first),
that only an activated client is on the way to the MQTT states, and that the MQTT client
exists only while activated. Without it the step that sets `is_activated` could not know that
both keys were written, nor the connect that the device is activated. `ResetDurable` bounds
what is left after a reset by `unremoved`, which `Stages` ties to the schema between the two
removals; a reset that was cut off and one whose removals failed before it are covered.
`LoopKeepsRequests` proves the action property `YieldKeepsRequests`.

**MatopProofs**, for any messages, any finite set of requests and any bound on identifiers
(`NoMsgIsNone`, `MaxIdNatural`, `NoReqIsNone`, `ReqsFinite`). For the session the invariant
adds to `NotifiedOnce` that no publish has two entries (`ListedOnce`) and that what the
application is just publishing has none and was not told (`Unlisted`). Every step of
`Matop` is a step of the session or leaves it alone (`RequestsImplementSession`), so both
theorems carry over. For the requests
`MInv == TypeOK /\ Counted /\ Made /\ Underway /\ AnsweredOnce /\ RequestsKept`: each
request is made once and listed at most once, and the one the timer thread has in hand is
in no list, so that nobody can answer it before it is linked, although its number may by then
be another's too. `RequestsKept` lists what may be missing: the timer thread's request in hand,
and what is `astray`, by its unlocked link or by the memset of a new connection.

**AiBizProofs**, for any back-off table, any number of lost pings, queued pings and packets
on their way, and three slots or more (`ReconnAssumption`, `LostAssumption`,
`BoundAssumption`, `SlotsAssumption`). For `Watched` the invariant relates the client
thread's place to the state it works for, which the timer thread may have set to idle under
it (`StateOf`), says that nothing of an earlier connection is left between set-up and
connect (`Fresh`), and that an authenticated client has a link and, if it is good, a
keepalive that goes on or was dropped by a full work queue (`Authenticated`, `Kept`,
`PingGoesOn`). For `AgentReady` it says what is settled
at each place once the agent is on its way online (`Ready`, `NotYet`), and counts slots:
those in use, those the client thread will still take and one for a close under way are at
most three (`LeftBehind`), so that creating the agent's session never finds the table full.
The attempt to prove it for any number of slots failed for a good reason: with fewer than
three it is false.

**OtaProofs**, for any set of upgrade threads, any firmware length above 0, any buffer longer
than what the port keeps back, and any number of reconnects (`SizeAssumption`,
`BufferAssumption`, `QuietAssumption`). `Accepted` speaks of complete downloads only; the
invariant says of every state how far the hash is (`Hashed`: all that was received but what
remains in the buffer), what each state says of the counters (`Stage`: between `Data` and
`Hash` a piece leaves something in the buffer exactly when it is not the last), and that an
upgrade that counts as alone is (`Solitary`), without which another thread's step could
spoil the shared hash. `OneMoves` reduces each step to the thread that takes it.

Only model-checked: the liveness properties (`Served`, `DueIsServed`, `CallsReturn`,
`DeletedEnds`, `Settles`, `OnlineAgain`, `PublishEnds`, `RequestsEnd`, `LossIsNoticed`,
`Ends`), since the prover does not handle fairness and `ENABLED`; and the counterexamples of
section 4.

## 6. Not modelled

* Pure computation and I/O: checksums, packing and encryption of packets, HTTP requests
  and parsing, logging, transports, drivers, file systems, vendored libraries.
* In modelled components: `tal_workqueue_traverse` and queries, the release of the timer
  service, the lazy creation of the thread manager, event calls from within
  callbacks, topic and protocol registration, data-point reporting of the cloud client; of
  the AI client the refresh timer, the public ping calls, `tuya_ai_biz_del_session` and the
  threads that fetch data to send; of upgrades the progress reports.
* Components still to come (section 7): MQTT pairing, data points, Bluetooth, LAN, network
  manager, time service, ring buffer, smart pointer, health monitor. About nine tenths of
  the repository's lines are vendored libraries, board headers, media and demos, which
  hold nothing to model here.
* The platform below: a mutex is what makes a step one step, a semaphore a count. Its
  maximum is not enforced by the Linux port; `SemWithinMax` shows the work queue does not
  depend on that. A flash write or removal of one key is atomic, and may fail.
* Races on single words beyond the splits described above: reads and writes of aligned
  flags and pointers take place at once.

## 7. Plan

Done, in this order: work queue with its abstract specification; timers; delayed work as
their composition; events; threads; cloud client; MQTT session; requests on it; the AI
connection with its sessions; upgrades. The invariants of all of them are proved, and the
work queue's refinement.

Next:

1. MQTT pairing (`mqtt_bind.c`): the bind thread and `mqtt_bind_token_get`, which waits
   until its predecessor ended, composed with `IotClient`'s token wait and with the
   reset event. Property: the wait ends.
2. Data points: the report cache, its time stamps and callbacks over `MqttService`.
3. Bluetooth reassembly (`ble_trsmitr.c`) as an algorithm against a reference
   definition; LAN sessions and heart beats; the network manager's active connection.
4. The 32-bit roll-over of the time service, the ring buffer's and the smart pointer's
   counters, with their widths.
5. The health monitor's rules; the AI client's refresh timer and sending threads.

Abstract specifications worth stating: an event bus that delivers each publish to all current
subscribers (what `EventBus` would implement were its look-ups locked), a request service
that calls each callback once, a durable identity with atomic activate and reset, which
`IotClient` would refine.

Proofs to come: the refinements of a durable identity by `IotClient` and of a request service
by `Matop`, for which the invariants proved here are the ground; action properties of the
timer lists (only the thread's own pick or an API call takes a timer out of the active
list) and of the AI client's close; and the invariants of the components above as they are
modelled.
