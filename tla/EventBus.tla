------------------------------ MODULE EventBus ------------------------------
(***************************************************************************)
(* The events of tal_event.c, for one event name: the event's nodes, each  *)
(* with its list of subscriptions, and the "free" subscriptions of an      *)
(* event nobody has published yet.                                         *)
(*                                                                         *)
(* A call first looks the event up without any mutex (_event_node_get) and *)
(* then works on what it found, under the node's mutex or, when it found   *)
(* nothing, under the manager's.  Other threads run in between.  During a  *)
(* dispatch the node's mutex is held while the subscribers' callbacks run. *)
(* Callbacks make no event calls of their own.                             *)
(***************************************************************************)
EXTENDS Naturals, Sequences, FiniteSets, SequencesExt

CONSTANTS Threads,     \* the threads that publish, subscribe and unsubscribe
          Subs,        \* subscribers: a description with its callback
          MaxNodes,    \* bound: event nodes that can be created
          Nobody       \* a mutex without owner

ASSUME NobodyIsNoThread == Nobody \notin Threads
ASSUME MaxNodesPositive == MaxNodes \in Nat \ {0}

Types == {"NORMAL", "EMERGENCY", "ONETIME"}
Entries == [sub : Subs, type : Types]

VARIABLES
    event_root,   \* the event's nodes, as lists of subscriptions
    free_root,    \* free_subscribe_root
    owner,        \* the owner of each node's mutex
    call          \* the call each thread is in

vars == <<event_root, free_root, owner, call>>

Idle == [at |-> "idle"]

Init ==
    /\ event_root = <<>>
    /\ free_root = <<>>
    /\ owner = [n \in 1 .. MaxNodes |-> Nobody]
    /\ call = [a \in Threads |-> Idle]
-----------------------------------------------------------------------------
(* Subscription lists.                                                     *)

Has(list, sub) == \E i \in DOMAIN list : list[i].sub = sub

\* _event_node_del_subscribe: the first entry of that subscriber is unlinked.
Without(list, sub) == RemoveFirstMatch(list, LAMBDA e : e.sub = sub)

\* An emergency subscription goes to the front, any other to the end.
Link(list, entry) ==
    IF entry.type = "EMERGENCY" THEN <<entry>> \o list ELSE Append(list, entry)

\* _event_node_add_subscribe: a subscriber that is there already stays as it is.
Add(list, entry) == IF Has(list, entry.sub) THEN list ELSE Link(list, entry)

\* _event_node_add_free_subscribe keeps the order of arrival.
AddFree(list, entry) == IF Has(list, entry.sub) THEN list ELSE Append(list, entry)

\* Mutant: waiting subscriptions are taken over in the order they came.
TakenOverAsIs(list) == list

\* The free subscriptions a new node takes over, one after the other.
TakenOver(list) ==
    LET taken[i \in 0 .. Len(list)] == IF i = 0 THEN <<>> ELSE Link(taken[i - 1], list[i])
    IN  taken[Len(list)]

\* _event_node_get: the first node of that name, or none (0)
Found == IF event_root = <<>> THEN 0 ELSE 1
-----------------------------------------------------------------------------
Enter(a, c) ==
    /\ call[a] = Idle
    /\ call' = [call EXCEPT ![a] = c]
    /\ UNCHANGED <<event_root, free_root, owner>>

\* tal_event_publish: look the event up ...
Publish(a) ==
    Enter(a, [at |-> IF Found = 0 THEN "create" ELSE "lock", node |-> Found])

\* ... create it, with the subscriptions that waited for it ...
CreateNode(a) ==
    /\ call[a].at = "create"
    /\ Len(event_root) < MaxNodes
    /\ event_root' = Append(event_root, TakenOver(free_root))
    /\ free_root' = <<>>
    /\ call' = [call EXCEPT ![a] = [at |-> "lock", node |-> Len(event_root) + 1]]
    /\ UNCHANGED owner

\* Mutant: rt has no initial value.
LockNodeUninitialised(a) ==
    /\ call[a].at = "lock"
    /\ LET n == call[a].node
       IN  /\ owner[n] = Nobody
           /\ owner' = [owner EXCEPT ![n] = a]
           /\ call' = [call EXCEPT ![a] = [at |-> "dispatch", node |-> n,
                                           todo |-> event_root[n], called |-> <<>>,
                                           all |-> event_root[n], rt |-> "?"]]
    /\ UNCHANGED <<event_root, free_root>>

\* ... and dispatch it with the node's mutex held.
LockNode(a) ==
    /\ call[a].at = "lock"
    /\ LET n == call[a].node
       IN  /\ owner[n] = Nobody
           /\ owner' = [owner EXCEPT ![n] = a]
           /\ call' = [call EXCEPT ![a] = [at |-> "dispatch", node |-> n,
                                           todo |-> event_root[n], called |-> <<>>,
                                           all |-> event_root[n], rt |-> "OK"]]
    /\ UNCHANGED <<event_root, free_root>>

\* One turn of _event_node_dispatch's loop: the callback's result is kept in rt, a
\* one-time subscription is removed.
CallSubscriber(a, result) ==
    /\ call[a].at = "dispatch"
    /\ call[a].todo # <<>>
    /\ LET entry == Head(call[a].todo)
           n == call[a].node
       IN  /\ event_root' = IF entry.type = "ONETIME"
                            THEN [event_root EXCEPT ![n] = Without(@, entry.sub)]
                            ELSE event_root
           /\ call' = [call EXCEPT ![a].todo = Tail(@),
                                   ![a].called = Append(@, entry),
                                   ![a].rt = result]
    /\ UNCHANGED <<free_root, owner>>

\* Mutant: the mutex is not released.
EndDispatchLocked(a) ==
    /\ call[a].at = "dispatch"
    /\ call[a].todo = <<>>
    /\ call' = [call EXCEPT ![a] = Idle]
    /\ UNCHANGED <<event_root, free_root, owner>>

EndDispatch(a) ==
    /\ call[a].at = "dispatch"
    /\ call[a].todo = <<>>
    /\ owner' = [owner EXCEPT ![call[a].node] = Nobody]
    /\ call' = [call EXCEPT ![a] = Idle]
    /\ UNCHANGED <<event_root, free_root>>

\* tal_event_subscribe: look the event up ...
Subscribe(a, entry) == Enter(a, [at |-> "subscribe", node |-> Found, entry |-> entry])

\* ... and add to the free list if there was no event ...
SubscribeFree(a) ==
    /\ call[a].at = "subscribe"
    /\ call[a].node = 0
    /\ free_root' = AddFree(free_root, call[a].entry)
    /\ call' = [call EXCEPT ![a] = Idle]
    /\ UNCHANGED <<event_root, owner>>

\* Mutant: the node's mutex is not taken.
SubscribeNodeUnlocked(a) ==
    /\ call[a].at = "subscribe"
    /\ call[a].node # 0
    /\ event_root' = [event_root EXCEPT ![call[a].node] = Add(@, call[a].entry)]
    /\ call' = [call EXCEPT ![a] = Idle]
    /\ UNCHANGED <<free_root, owner>>

\* ... or to the node that was found, under its mutex.
SubscribeNode(a) ==
    /\ call[a].at = "subscribe"
    /\ call[a].node # 0
    /\ owner[call[a].node] = Nobody
    /\ event_root' = [event_root EXCEPT ![call[a].node] = Add(@, call[a].entry)]
    /\ call' = [call EXCEPT ![a] = Idle]
    /\ UNCHANGED <<free_root, owner>>

\* tal_event_unsubscribe, likewise
Unsubscribe(a, sub) == Enter(a, [at |-> "unsubscribe", node |-> Found, sub |-> sub])

UnsubscribeFree(a) ==
    /\ call[a].at = "unsubscribe"
    /\ call[a].node = 0
    /\ free_root' = Without(free_root, call[a].sub)
    /\ call' = [call EXCEPT ![a] = Idle]
    /\ UNCHANGED <<event_root, owner>>

UnsubscribeNode(a) ==
    /\ call[a].at = "unsubscribe"
    /\ call[a].node # 0
    /\ owner[call[a].node] = Nobody
    /\ event_root' = [event_root EXCEPT ![call[a].node] = Without(@, call[a].sub)]
    /\ call' = [call EXCEPT ![a] = Idle]
    /\ UNCHANGED <<free_root, owner>>
-----------------------------------------------------------------------------
GoOn(a) ==
    \/ CreateNode(a) \/ LockNode(a)
    \/ \E result \in {"OK", "ERR"} : CallSubscriber(a, result)
    \/ EndDispatch(a) \/ SubscribeFree(a) \/ SubscribeNode(a)
    \/ UnsubscribeFree(a) \/ UnsubscribeNode(a)

Next ==
    \E a \in Threads :
        \/ Publish(a)
        \/ \E entry \in Entries : Subscribe(a, entry)
        \/ \E sub \in Subs : Unsubscribe(a, sub)
        \/ GoOn(a)

Spec == Init /\ [][Next]_vars

\* Threads run and callbacks return; a mutex that is free again and again is got.
FairSpec == Spec /\ \A a \in Threads : SF_vars(GoOn(a))
-----------------------------------------------------------------------------
Lists == Seq(Entries)

Calls ==
    {Idle}
    \cup [at : {"create", "lock"}, node : 0 .. MaxNodes]
    \cup [at : {"dispatch"}, node : 1 .. MaxNodes, todo : Lists, called : Lists,
          all : Lists, rt : {"OK", "ERR"}]
    \cup [at : {"subscribe"}, node : 0 .. MaxNodes, entry : Entries]
    \cup [at : {"unsubscribe"}, node : 0 .. MaxNodes, sub : Subs]

TypeOK ==
    /\ event_root \in Seq(Lists) /\ Len(event_root) <= MaxNodes
    /\ free_root \in Lists
    /\ owner \in [1 .. MaxNodes -> Threads \cup {Nobody}]
    /\ call \in [Threads -> Calls]

\* tal_event.c:385: "to keep the consistency, dispatch will done in mutex lock".
\* A dispatch calls exactly the subscribers its node had when it began, in their order.
\* All the time the node holds just what it had then, but for the one-time subscriptions
\* that were called, and in the same order.
StillThere(c) ==
    {i \in DOMAIN c.all : i > Len(c.called) \/ c.all[i].type # "ONETIME"}
DispatchConsistent ==
    \A a \in Threads : call[a].at = "dispatch" =>
        LET c == call[a]
            list == event_root[c.node]
        IN  /\ c.called \o c.todo = c.all
            /\ Range(list) = {c.all[i] : i \in StillThere(c)}
            /\ \A i, j \in DOMAIN list : i < j =>
                   \E k, l \in StillThere(c) :
                       k < l /\ list[i] = c.all[k] /\ list[j] = c.all[l]

\* Emergency subscriptions are called before all others (tal_event.h:59): in a node
\* they always stand in front, also those that waited in the free list.  And nobody is
\* called twice: no list holds a subscriber twice, whatever duplicate nodes and stranded
\* subscriptions races have left behind.
EmergencyFirst ==
    /\ \A n \in DOMAIN event_root : \A i, j \in DOMAIN event_root[n] :
           /\ i < j
           /\ event_root[n][j].type = "EMERGENCY"
           => event_root[n][i].type = "EMERGENCY"
    /\ \A list \in {free_root} \cup Range(event_root) :
           \A i, j \in DOMAIN list : list[i].sub = list[j].sub => i = j

\* Every call returns: no thread waits for a node's mutex for ever.
CallsReturn == \A a \in Threads : call[a] # Idle ~> call[a] = Idle
=============================================================================
