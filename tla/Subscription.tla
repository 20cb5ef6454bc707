---------------------------- MODULE Subscription ----------------------------
(***************************************************************************)
(* One connected flunder client: subscribe, the get() inside it, the       *)
(* replay of stored values, unsubscribe, and the library's callback.       *)
(*                                                                         *)
(* Two threads of the client's process run here. The API thread is in the  *)
(* application's call of subscribe() or unsubscribe(); stage[t] says where *)
(* in that call it is. The RX thread belongs to the zenoh session: it      *)
(* takes samples and query replies off the link, in the order in which     *)
(* the router wrote them, and calls lib_subscribe_callback. There is no    *)
(* lock between the two: the flag _once, a plain bool, is all that keeps   *)
(* the callback of a subscription from being run by both.                  *)
(*                                                                         *)
(* A value is its index in log, the order in which the router takes in     *)
(* what other clients publish and delete. The link and the storage are     *)
(* cursors into log: sent is what the router has put on the link to this   *)
(* client, stored is what the storage has taken in, rcvd is what the RX    *)
(* thread has taken off the link.                                          *)
(*                                                                         *)
(* Assumed of the code outside src/: a connection of the session is one    *)
(* ordered byte stream in each direction; the router dispatches one entry  *)
(* at a time, to the link and to the storage in either order, and the      *)
(* storage may be slow (so it lags behind the link, or is one ahead); one  *)
(* RX thread runs all the callbacks of a session; callbacks return and do  *)
(* not call the client; z_undeclare_subscriber returns when no callback of *)
(* that subscriber is left running, since unsubscribe() frees the context  *)
(* right behind it.                                                        *)
(***************************************************************************)
EXTENDS Naturals, Sequences

CONSTANTS
    Topic,        \* topic expressions, without leading '/'
    Key,          \* keys that values are published under
    Match,        \* Match[t]: the keys that topic expression t matches
    StoredKey,    \* the keys that a storage of the router covers
    MaxPuts,      \* bound: length of log
    MaxDrops      \* bound: number of times the link breaks

ASSUME MatchAssumption == Match \in [Topic -> SUBSET Key]
ASSUME StoredAssumption == StoredKey \subseteq Key
ASSUME BoundAssumption == MaxPuts \in Nat /\ MaxDrops \in Nat

VARIABLES
    \* the router, its storage and the link
    log,          \* values and deletions, as the router took them in
    sent,         \* the router has dispatched log[1..sent]
    stored,       \* the storage has taken in log[1..stored]
    forwarded,    \* indices that were put on the link and did not get lost
    interest,     \* subscribers the router knows this client to have
    drops,        \* number of times the link broke
    \* the query of get()
    query,        \* its state
    snap,         \* the storage answered it when it held log[1..snap]
    barrier,      \* its replies are on the link behind log[barrier]
    \* the API thread
    stage,        \* stage[t]: the entry of t in _subscriptions, and how far
                  \* subscribe() or unsubscribe() has got with it
    declared,     \* subscribers declared with the session
    replies,      \* vars: received and not yet shown
    \* the RX thread
    rcvd,         \* it has taken log[1..rcvd] off the link
    pending,      \* subscribers that are still to be given log[rcvd]
    running,      \* the one whose callback is running, if any
    once,         \* once[t]: the value of _once that the RX thread reads
    \* history
    shown,        \* shown[t][k]: last value of k given to the callback
    covered,      \* covered[t]: snap of the query whose replies were replayed
    liveFrom      \* liveFrom[t]: rcvd when once[t] became true

routerVars == <<log, sent, stored, forwarded, interest, drops>>
queryVars == <<query, snap, barrier>>
apiVars == <<stage, declared, replies, covered>>
rxVars == <<rcvd, pending, running>>
flagVars == <<once, liveFrom>>
vars == <<routerVars, queryVars, apiVars, rxVars, flagVars, shown>>

Kind == {"put", "delete"}
Entry == [key : Key, kind : Kind]
Stage == {"absent",       \* no entry
          "declared",     \* emplaced, and declared with the session
          "asking",       \* in get(): z_recv on the channel
          "replaying",    \* in the loop over vars, no callback running
          "calling",      \* in that loop, in the callback
          "subscribed",   \* subscribe() has returned 0
          "leaving"}      \* in unsubscribe(): undeclared, not yet erased
Query == {"none",         \* no get() is running
          "asked",        \* on its way to the router
          "answered",     \* replies and final reply are on the link
          "lost",         \* the link broke under it
          "complete",     \* channel closed by the final reply
          "expired"}      \* channel closed by the timeout, or z_get failed

-----------------------------------------------------------------------------

(* What the storage holds once it has taken in the first n entries: the    *)
(* last value of every key it covers, unless that was deleted since.       *)
Held(n) ==
    {i \in 1..n :
        /\ log[i].key \in StoredKey
        /\ log[i].kind = "put"
        /\ \A j \in (i + 1)..n : log[j].key # log[i].key}

(* The replies to a query for topic t. *)
Answer(t) == {i \in Held(snap) : log[i].key \in Match[t]}

(* The application calls the client from one thread: a call starts only    *)
(* when the one before it has returned.                                    *)
ApiIdle == \A t \in Topic : stage[t] \in {"absent", "subscribed"}

RxIdle == pending = {}

(* The callback of t is entered with the value i. *)
Present(t, i) == shown' = [shown EXCEPT ![t][log[i].key] = i]

Init ==
    /\ log = <<>> /\ sent = 0 /\ stored = 0 /\ forwarded = {}
    /\ interest = {} /\ drops = 0
    /\ query = "none" /\ snap = 0 /\ barrier = 0
    /\ stage = [t \in Topic |-> "absent"]
    /\ declared = {} /\ replies = {}
    /\ rcvd = 0 /\ pending = {} /\ running = {}
    /\ once = [t \in Topic |-> FALSE]
    /\ shown = [t \in Topic |-> [k \in Key |-> 0]]
    /\ covered = [t \in Topic |-> 0]
    /\ liveFrom = [t \in Topic |-> 0]

-----------------------------------------------------------------------------
(* The router, its storage and the link. *)

(* Another client publishes a value or deletes it from the storage. *)
Publish(k, kind) ==
    /\ Len(log) < MaxPuts
    /\ log' = Append(log, [key |-> k, kind |-> kind])
    /\ UNCHANGED <<sent, stored, forwarded, interest, drops>>
    /\ UNCHANGED <<queryVars, apiVars, rxVars, flagVars, shown>>

(* The next entry goes out on the link if this client has a subscriber.    *)
Forward ==
    /\ sent < Len(log)
    /\ sent' = sent + 1
    /\ forwarded' = IF \E t \in interest : log[sent + 1].key \in Match[t]
                       THEN forwarded \cup {sent + 1}
                       ELSE forwarded
    /\ UNCHANGED <<log, stored, interest, drops>>
    /\ UNCHANGED <<queryVars, apiVars, rxVars, flagVars, shown>>

(* The storage takes in the next entry: at most one ahead of the link. *)
Store ==
    /\ stored < Len(log)
    /\ stored <= sent
    /\ stored' = stored + 1
    /\ UNCHANGED <<log, sent, forwarded, interest, drops>>
    /\ UNCHANGED <<queryVars, apiVars, rxVars, flagVars, shown>>

(* A declaration or its withdrawal reaches the router. *)
RouterHears(t) ==
    /\ t \in (declared \ interest) \cup (interest \ declared)
    /\ interest' = IF t \in declared THEN interest \cup {t} ELSE interest \ {t}
    /\ UNCHANGED <<log, sent, stored, forwarded, drops>>
    /\ UNCHANGED <<queryVars, apiVars, rxVars, flagVars, shown>>

(* The query reaches the router, behind the declaration of its subscriber. *)
RouterAnswers(t) ==
    /\ query = "asked"
    /\ stage[t] = "asking"
    /\ t \in interest
    /\ query' = "answered"
    /\ snap' = stored
    /\ barrier' = sent
    /\ UNCHANGED <<routerVars, apiVars, rxVars, flagVars, shown>>

(* The link breaks: what is on it is lost. The session connects again and  *)
(* declares its subscribers again, the query is not repeated.              *)
LinkDrop ==
    /\ drops < MaxDrops
    /\ drops' = drops + 1
    /\ forwarded' = forwarded \ ((rcvd + 1)..sent)
    /\ interest' = declared
    /\ query' = IF query \in {"asked", "answered"} THEN "lost" ELSE query
    /\ UNCHANGED <<log, sent, stored, snap, barrier>>
    /\ UNCHANGED <<apiVars, rxVars, flagVars, shown>>

-----------------------------------------------------------------------------
(* The API thread: subscribe(), with the get() in it, and unsubscribe(). *)

(* Variant with a bug: the context starts with _once true. *)
SubscribeLive(t) ==
    /\ ApiIdle
    /\ stage[t] = "absent"
    /\ stage' = [stage EXCEPT ![t] = "declared"]
    /\ declared' = declared \cup {t}
    /\ once' = [once EXCEPT ![t] = TRUE]
    /\ UNCHANGED <<replies, covered, liveFrom>>
    /\ UNCHANGED <<routerVars, queryVars, rxVars, shown>>

(* subscribe() up to the declaration. A topic that is in _subscriptions    *)
(* is refused, and so is one that the session cannot declare: its entry    *)
(* is erased again before anybody sees it. Both leave the state alone.     *)
Subscribe(t) ==
    /\ ApiIdle
    /\ stage[t] = "absent"
    /\ stage' = [stage EXCEPT ![t] = "declared"]
    /\ declared' = declared \cup {t}
    /\ once' = [once EXCEPT ![t] = FALSE]
    /\ UNCHANGED <<replies, covered, liveFrom>>
    /\ UNCHANGED <<routerVars, queryVars, rxVars, shown>>

(* get(): the channel and z_get, whose result is ignored: when it fails    *)
(* the channel is closed and the loop ends with nothing.                   *)
Get(t) ==
    /\ stage[t] = "declared"
    /\ stage' = [stage EXCEPT ![t] = "asking"]
    /\ query' \in {"asked", "expired"}
    /\ UNCHANGED <<declared, replies, covered, snap, barrier>>
    /\ UNCHANGED <<routerVars, rxVars, flagVars, shown>>

(* Variant with a bug: a query that failed is waited for. *)
GetReturnsIfComplete(t) ==
    /\ stage[t] = "asking"
    /\ query = "complete"
    /\ stage' = [stage EXCEPT ![t] = "replaying"]
    /\ covered' = [covered EXCEPT ![t] = snap]
    /\ query' = "none" /\ snap' = 0 /\ barrier' = 0
    /\ UNCHANGED <<declared, replies>>
    /\ UNCHANGED <<routerVars, rxVars, flagVars, shown>>

(* Variant with a bug: the loop ends when the channel is empty. *)
GetReturnsIfEmpty(t) ==
    /\ stage[t] = "asking"
    /\ stage' = [stage EXCEPT ![t] = "replaying"]
    /\ covered' = [covered EXCEPT ![t] = IF query = "complete" THEN snap ELSE 0]
    /\ UNCHANGED <<declared, replies, queryVars>>
    /\ UNCHANGED <<routerVars, rxVars, flagVars, shown>>

(* get(): z_recv reports the closed channel, vars is returned. *)
GetReturns(t) ==
    /\ stage[t] = "asking"
    /\ query \in {"complete", "expired"}
    /\ stage' = [stage EXCEPT ![t] = "replaying"]
    /\ covered' = [covered EXCEPT ![t] = IF query = "complete" THEN snap ELSE 0]
    /\ query' = "none" /\ snap' = 0 /\ barrier' = 0
    /\ UNCHANGED <<declared, replies>>
    /\ UNCHANGED <<routerVars, rxVars, flagVars, shown>>

(* The loop over vars: the callback is entered with a stored value. *)
ReplayStarts(t, i) ==
    /\ stage[t] = "replaying"
    /\ i \in replies
    /\ stage' = [stage EXCEPT ![t] = "calling"]
    /\ replies' = replies \ {i}
    /\ Present(t, i)
    /\ UNCHANGED <<declared, covered>>
    /\ UNCHANGED <<routerVars, queryVars, rxVars, flagVars>>

ReplayReturns(t) ==
    /\ stage[t] = "calling"
    /\ stage' = [stage EXCEPT ![t] = "replaying"]
    /\ UNCHANGED <<declared, replies, covered>>
    /\ UNCHANGED <<routerVars, queryVars, rxVars, flagVars, shown>>

(* Variant with a bug: the loop is left before vars is exhausted. *)
SetOnceEarly(t) ==
    /\ stage[t] = "replaying"
    /\ stage' = [stage EXCEPT ![t] = "subscribed"]
    /\ replies' = {}
    /\ UNCHANGED <<declared, covered>>
    /\ UNCHANGED <<routerVars, queryVars, rxVars, flagVars, shown>>

(* ctx._once = true, and subscribe() returns 0. *)
SetOnce(t) ==
    /\ stage[t] = "replaying"
    /\ replies = {}
    /\ stage' = [stage EXCEPT ![t] = "subscribed"]
    /\ UNCHANGED <<declared, replies, covered>>
    /\ UNCHANGED <<routerVars, queryVars, rxVars, flagVars, shown>>

(* Variant with a bug: _once is set before the loop. *)
OnceWrittenFirst(t) == stage[t] \in {"replaying", "calling", "subscribed", "leaving"}

(* The API thread has executed ctx._once = true. *)
OnceWritten(t) == stage[t] \in {"subscribed", "leaving"}

(* Nothing orders that write with the read in lib_subscribe_callback: the  *)
(* RX thread sees it at any time after it was made.                        *)
OnceSeen(t) ==
    /\ OnceWritten(t)
    /\ ~once[t]
    /\ once' = [once EXCEPT ![t] = TRUE]
    /\ liveFrom' = [liveFrom EXCEPT ![t] = rcvd]
    /\ UNCHANGED <<routerVars, queryVars, apiVars, rxVars, shown>>

(* Variant with a bug: the entry is erased and the subscriber stays. *)
UnsubscribeOnlyEntry(t) ==
    /\ ApiIdle
    /\ stage[t] = "subscribed"
    /\ stage' = [stage EXCEPT ![t] = "leaving"]
    /\ UNCHANGED <<declared, replies, covered>>
    /\ UNCHANGED <<routerVars, queryVars, rxVars, flagVars, shown>>

(* unsubscribe(): z_undeclare_subscriber. An unknown topic is refused. *)
Unsubscribe(t) ==
    /\ ApiIdle
    /\ stage[t] = "subscribed"
    /\ stage' = [stage EXCEPT ![t] = "leaving"]
    /\ declared' = declared \ {t}
    /\ UNCHANGED <<replies, covered>>
    /\ UNCHANGED <<routerVars, queryVars, rxVars, flagVars, shown>>

(* unsubscribe(): _subscriptions.erase, once the declaration is gone. The  *)
(* context is freed with the entry, and its history with it.               *)
EraseEntry(t) ==
    /\ stage[t] = "leaving"
    /\ t \notin pending
    /\ stage' = [stage EXCEPT ![t] = "absent"]
    /\ once' = [once EXCEPT ![t] = FALSE]
    /\ shown' = [shown EXCEPT ![t] = [k \in Key |-> 0]]
    /\ covered' = [covered EXCEPT ![t] = 0]
    /\ liveFrom' = [liveFrom EXCEPT ![t] = 0]
    /\ UNCHANGED <<declared, replies>>
    /\ UNCHANGED <<routerVars, queryVars, rxVars>>

-----------------------------------------------------------------------------
(* The RX thread of the session, and the timer of its queries. *)

(* The next sample comes off the link; replies that are on the link ahead  *)
(* of it come first. The session looks up the subscribers it matches.      *)
RxTake ==
    /\ RxIdle
    /\ rcvd < sent
    /\ query = "answered" => rcvd < barrier
    /\ rcvd' = rcvd + 1
    /\ pending' = IF rcvd + 1 \in forwarded
                     THEN {t \in declared : log[rcvd + 1].key \in Match[t]}
                     ELSE {}
    /\ UNCHANGED running
    /\ UNCHANGED <<routerVars, queryVars, apiVars, flagVars, shown>>

(* A reply comes off the link and goes to the channel of get(). *)
RxReply(t, i) ==
    /\ RxIdle
    /\ query = "answered" /\ rcvd >= barrier
    /\ stage[t] = "asking"
    /\ i \in Answer(t) \ replies
    /\ replies' = replies \cup {i}
    /\ UNCHANGED <<stage, declared, covered>>
    /\ UNCHANGED <<routerVars, queryVars, rxVars, flagVars, shown>>

(* The final reply comes off the link: the channel is closed. *)
RxFinal(t) ==
    /\ RxIdle
    /\ query = "answered" /\ rcvd >= barrier
    /\ stage[t] = "asking"
    /\ replies = Answer(t)
    /\ query' = "complete"
    /\ UNCHANGED <<snap, barrier>>
    /\ UNCHANGED <<routerVars, apiVars, rxVars, flagVars, shown>>

(* The query times out: the channel is closed, late replies are ignored. *)
QueryTimeout ==
    /\ query \in {"asked", "answered", "lost"}
    /\ query' = "expired"
    /\ UNCHANGED <<snap, barrier>>
    /\ UNCHANGED <<routerVars, apiVars, rxVars, flagVars, shown>>

(* Variant with a bug: a live sample is dropped. *)
CallbackDropsAny(t) ==
    /\ t \in pending /\ running = {}
    /\ pending' = pending \ {t}
    /\ UNCHANGED <<rcvd, running>>
    /\ UNCHANGED <<routerVars, queryVars, apiVars, flagVars, shown>>

(* lib_subscribe_callback with _once false: the sample is dropped. *)
CallbackDrops(t) ==
    /\ t \in pending /\ running = {}
    /\ ~once[t]
    /\ pending' = pending \ {t}
    /\ UNCHANGED <<rcvd, running>>
    /\ UNCHANGED <<routerVars, queryVars, apiVars, flagVars, shown>>

(* Variant with a bug: _once is not looked at. *)
CallbackStartsAlways(t) ==
    /\ t \in pending /\ running = {}
    /\ running' = {t}
    /\ Present(t, rcvd)
    /\ UNCHANGED <<rcvd, pending>>
    /\ UNCHANGED <<routerVars, queryVars, apiVars, flagVars>>

(* lib_subscribe_callback with _once true: the application's callback. *)
CallbackStarts(t) ==
    /\ t \in pending /\ running = {}
    /\ once[t]
    /\ running' = {t}
    /\ Present(t, rcvd)
    /\ UNCHANGED <<rcvd, pending>>
    /\ UNCHANGED <<routerVars, queryVars, apiVars, flagVars>>

CallbackReturns(t) ==
    /\ t \in running
    /\ running' = {}
    /\ pending' = pending \ {t}
    /\ UNCHANGED rcvd
    /\ UNCHANGED <<routerVars, queryVars, apiVars, flagVars, shown>>

-----------------------------------------------------------------------------

Network ==
    \/ \E k \in Key, kind \in Kind : Publish(k, kind)
    \/ Forward
    \/ Store
    \/ \E t \in Topic : RouterHears(t) \/ RouterAnswers(t)
    \/ LinkDrop

(* What the API thread does once the application has called it. *)
ApiContinues(t) ==
    \/ Get(t)
    \/ GetReturns(t)
    \/ \E i \in replies : ReplayStarts(t, i)
    \/ ReplayReturns(t)
    \/ SetOnce(t)
    \/ EraseEntry(t)

RxDispatches(t) ==
    \/ CallbackDrops(t)
    \/ CallbackStarts(t)
    \/ CallbackReturns(t)

RxReceives ==
    \/ RxTake
    \/ \E t \in Topic : (\E i \in Answer(t) : RxReply(t, i)) \/ RxFinal(t)

Next ==
    \/ Network
    \/ RxReceives
    \/ QueryTimeout
    \/ \E t \in Topic :
          \/ Subscribe(t)
          \/ Unsubscribe(t)
          \/ ApiContinues(t)
          \/ OnceSeen(t)
          \/ RxDispatches(t)

Spec == Init /\ [][Next]_vars

(* Both threads are scheduled, a query ends by its timeout if nothing else *)
(* ends it, a write becomes visible, the router keeps forwarding. Nobody   *)
(* has to publish, subscribe, unsubscribe or break the link.               *)
FairSpec ==
    /\ Spec
    /\ WF_vars(Forward)
    /\ WF_vars(QueryTimeout)
    /\ WF_vars(RxReceives)
    /\ \A t \in Topic :
          /\ WF_vars(ApiContinues(t))
          /\ WF_vars(RxDispatches(t))
          /\ WF_vars(OnceSeen(t))

-----------------------------------------------------------------------------

(* Types, the order of the cursors, and that get() outlasts its query: a   *)
(* reply finds the call that it is for.                                    *)
TypeOK ==
    /\ log \in Seq(Entry) /\ Len(log) <= MaxPuts
    /\ sent \in 0..Len(log) /\ rcvd \in 0..sent /\ stored \in 0..Len(log)
    /\ forwarded \subseteq 1..sent
    /\ interest \subseteq Topic /\ declared \subseteq Topic
    /\ drops \in 0..MaxDrops
    /\ query \in Query /\ snap \in 0..stored /\ barrier \in 0..sent
    /\ stage \in [Topic -> Stage]
    /\ query # "none" => \E t \in Topic : stage[t] = "asking"
    /\ replies \subseteq 1..Len(log)
    /\ pending \subseteq Topic /\ running \subseteq pending
    /\ pending # {} => rcvd > 0
    /\ once \in [Topic -> BOOLEAN]
    /\ shown \in [Topic -> [Key -> 0..Len(log)]]
    /\ covered \in [Topic -> 0..Len(log)]
    /\ liveFrom \in [Topic -> 0..Len(log)]

(* The replay of subscribe() on the API thread and lib_subscribe_callback  *)
(* on the RX thread never run the callback of one subscription together.   *)
CallbacksExclusive == \A t \in Topic : ~(stage[t] = "calling" /\ t \in running)

(* The RX thread never holds the address of a context that unsubscribe()   *)
(* has erased, nor does the session hold one to hand out.                  *)
ContextAlive ==
    declared \cup pending \cup running \subseteq {t \in Topic : stage[t] # "absent"}

(* Within one subscription the callback never sees a value of a key after  *)
(* a newer one of that key, although replies and samples come through two  *)
(* threads and from two places of the router.                              *)
NeverBackwards ==
    [][\A t \in Topic, k \in Key :
          stage'[t] # "absent" => shown'[t][k] >= shown[t][k]]_vars

(* What a subscription owes the application: the values that the storage   *)
(* held when it answered the query, and what was put on the link and taken *)
(* off it after _once was seen.                                            *)
Owed(t) ==
    {i \in Held(covered[t]) \cup {j \in forwarded : liveFrom[t] < j /\ j <= rcvd} :
        log[i].key \in Match[t]}

(* A live subscription has been shown all of that, or something newer: what *)
(* the program loses lies between the answer of the storage and _once.     *)
OnlyTheGapIsLost ==
    \A t \in declared :
        RxIdle /\ once[t] => \A i \in Owed(t) : shown[t][log[i].key] >= i

(* subscribe() returns, whatever becomes of its query and of the link.     *)
SubscribeReturns ==
    \A t \in Topic : stage[t] = "declared" ~> stage[t] = "subscribed"

(* A sample that is put on the link to a live subscription is shown to it, *)
(* unless the link loses it or the application unsubscribes.               *)
LiveSampleShown ==
    \A t \in Topic : \A i \in 1..MaxPuts :
        (/\ i \in forwarded /\ i > rcvd
         /\ once[t] /\ t \in declared
         /\ log[i].key \in Match[t])
        ~> (t \notin declared \/ i \notin forwarded \/ shown[t][log[i].key] >= i)

(* Subscription implements Feed: a subscription is live from the moment    *)
(* its flag is seen, and busy while either thread runs its callback.       *)
phaseOf == [t \in Topic |-> IF stage[t] = "absent" THEN "off"
                            ELSE IF once[t] THEN "live" ELSE "replay"]
busyOf == [t \in Topic |-> stage[t] = "calling" \/ t \in running]

F == INSTANCE Feed WITH Stamp <- 1..MaxPuts, phase <- phaseOf, busy <- busyOf

(* The promise of Feed: replay first and each key once, then live, one     *)
(* callback at a time, nothing older, nothing after unsubscribe().         *)
FeedSpec == F!Spec

=============================================================================
