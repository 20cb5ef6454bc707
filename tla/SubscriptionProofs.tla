------------------------- MODULE SubscriptionProofs -------------------------
(***************************************************************************)
(* What TLC finds of Subscription on small instances, proved for all       *)
(* topics, keys, matches, bounds and behaviours.                           *)
(***************************************************************************)
EXTENDS Subscription, TLAPS

USE DEF routerVars, queryVars, apiVars, rxVars, flagVars

-----------------------------------------------------------------------------
(* Types. *)

(* What the entry into a callback does to the history of what was shown.   *)
LEMMA PresentEffect ==
  ASSUME TypeOK, NEW t \in Topic, NEW i \in 1..Len(log), Present(t, i)
  PROVE  /\ log[i].key \in Key
         /\ shown' \in [Topic -> [Key -> 0..Len(log)]]
         /\ shown'[t][log[i].key] = i
         /\ \A u \in Topic, k \in Key :
               u # t \/ k # log[i].key => shown'[u][k] = shown[u][k]
<1> DEFINE x == log[i].key
           row == [shown[t] EXCEPT ![x] = i]
<1>1. x \in Key
  <2>1. log[i] \in Entry
    BY DEF TypeOK
  <2> QED
    BY <2>1 DEF Entry
<1>2. shown' = [shown EXCEPT ![t] = row]
  BY DEF Present
<1>3. shown \in [Topic -> [Key -> 0..Len(log)]] /\ i \in 0..Len(log)
  BY DEF TypeOK
<1>4. /\ row \in [Key -> 0..Len(log)]
      /\ row[x] = i
      /\ \A k \in Key : k # x => row[k] = shown[t][k]
  BY <1>1, <1>3
<1> HIDE DEF row
<1> QED
  BY <1>1, <1>2, <1>3, <1>4

LEMMA TypeInit == Init => TypeOK
  BY MatchAssumption, StoredAssumption, BoundAssumption
  DEF Init, TypeOK, Entry, Query, Stage

LEMMA TypeNetwork == TypeOK /\ Network => TypeOK'
<1> SUFFICES ASSUME TypeOK, Network PROVE TypeOK'
  OBVIOUS
<1> USE MatchAssumption, StoredAssumption, BoundAssumption
<1>1. ASSUME NEW k \in Key, NEW kind \in Kind, Publish(k, kind) PROVE TypeOK'
  <2> DEFINE e == [key |-> k, kind |-> kind]
  <2>1. e \in Entry
    BY <1>1 DEF Entry
  <2>2. log' \in Seq(Entry) /\ Len(log') = Len(log) + 1
    BY <1>1, <2>1 DEF Publish, TypeOK
  <2>3. Len(log') <= MaxPuts
    BY <1>1, <2>2 DEF Publish, TypeOK
  <2> QED
    BY <1>1, <2>2, <2>3 DEF Publish, TypeOK
<1>2. CASE Forward
  BY <1>2 DEF Forward, TypeOK
<1>3. CASE Store
  BY <1>3 DEF Store, TypeOK
<1>4. ASSUME NEW t \in Topic, RouterHears(t) PROVE TypeOK'
  BY <1>4 DEF RouterHears, TypeOK
<1>5. ASSUME NEW t \in Topic, RouterAnswers(t) PROVE TypeOK'
  BY <1>5 DEF RouterAnswers, TypeOK, Query
<1>6. CASE LinkDrop
  BY <1>6 DEF LinkDrop, TypeOK, Query
<1> QED
  BY <1>1, <1>2, <1>3, <1>4, <1>5, <1>6 DEF Network

LEMMA TypeApi ==
  ASSUME TypeOK, NEW t \in Topic,
         Subscribe(t) \/ Unsubscribe(t) \/ ApiContinues(t) \/ OnceSeen(t)
  PROVE  TypeOK'
<1> USE MatchAssumption, StoredAssumption, BoundAssumption
<1>1. CASE Subscribe(t)
  BY <1>1 DEF Subscribe, TypeOK, Stage
<1>2. CASE Unsubscribe(t)
  BY <1>2 DEF Unsubscribe, TypeOK, Stage
<1>3. CASE Get(t)
  BY <1>3 DEF Get, TypeOK, Stage, Query
<1>4. CASE GetReturns(t)
  BY <1>4 DEF GetReturns, TypeOK, Stage, Query
<1>5. ASSUME NEW i \in replies, ReplayStarts(t, i) PROVE TypeOK'
  <2>1. shown' \in [Topic -> [Key -> 0..Len(log)]]
    BY <1>5, PresentEffect DEF ReplayStarts, TypeOK
  <2> QED
    BY <1>5, <2>1 DEF ReplayStarts, TypeOK, Stage
<1>6. CASE ReplayReturns(t)
  BY <1>6 DEF ReplayReturns, TypeOK, Stage
<1>7. CASE SetOnce(t)
  BY <1>7 DEF SetOnce, TypeOK, Stage
<1>8. CASE EraseEntry(t)
  BY <1>8 DEF EraseEntry, TypeOK, Stage
<1>9. CASE OnceSeen(t)
  BY <1>9 DEF OnceSeen, TypeOK
<1> QED
  BY <1>1, <1>2, <1>3, <1>4, <1>5, <1>6, <1>7, <1>8, <1>9 DEF ApiContinues

LEMMA TypeRx ==
  TypeOK /\ (RxReceives \/ QueryTimeout \/ \E t \in Topic : RxDispatches(t)) => TypeOK'
<1> SUFFICES ASSUME TypeOK,
                    RxReceives \/ QueryTimeout \/ \E t \in Topic : RxDispatches(t)
             PROVE  TypeOK'
  OBVIOUS
<1> USE MatchAssumption, StoredAssumption, BoundAssumption
<1>1. CASE RxTake
  <2>1. /\ rcvd < sent /\ rcvd' = rcvd + 1 /\ UNCHANGED running
        /\ pending' \subseteq declared
        /\ UNCHANGED <<routerVars, queryVars, apiVars, flagVars, shown>>
    BY <1>1 DEF RxTake
  <2>2. rcvd \in 0..sent /\ sent \in Nat /\ declared \subseteq Topic /\ running = {}
    BY <1>1 DEF RxTake, RxIdle, TypeOK
  <2>3. rcvd' \in 0..sent /\ rcvd' > 0 /\ pending' \subseteq Topic
    BY <2>1, <2>2
  <2>4. /\ query' \in Query /\ snap' \in 0..stored' /\ barrier' \in 0..sent'
        /\ stage' \in [Topic -> Stage] /\ replies' \subseteq 1..Len(log')
        /\ once' \in [Topic -> BOOLEAN] /\ shown' \in [Topic -> [Key -> 0..Len(log')]]
        /\ covered' \in [Topic -> 0..Len(log')] /\ liveFrom' \in [Topic -> 0..Len(log')]
    BY <2>1 DEF TypeOK
  <2> QED
    BY <2>1, <2>2, <2>3, <2>4 DEF TypeOK
<1>2. ASSUME NEW t \in Topic, NEW i \in Answer(t), RxReply(t, i) PROVE TypeOK'
  <2>1. i \in 1..Len(log)
    BY DEF Answer, Held, TypeOK
  <2>2. replies' = replies \cup {i} /\ UNCHANGED <<stage, declared, covered>>
        /\ UNCHANGED <<routerVars, queryVars, rxVars, flagVars, shown>>
    BY <1>2 DEF RxReply
  <2> QED
    BY <2>1, <2>2 DEF TypeOK
<1>3. ASSUME NEW t \in Topic, RxFinal(t) PROVE TypeOK'
  BY <1>3 DEF RxFinal, TypeOK, Query
<1>4. CASE QueryTimeout
  BY <1>4 DEF QueryTimeout, TypeOK, Query
<1>5. ASSUME NEW t \in Topic, CallbackDrops(t) PROVE TypeOK'
  BY <1>5 DEF CallbackDrops, TypeOK
<1>6. ASSUME NEW t \in Topic, CallbackStarts(t) PROVE TypeOK'
  <2>1. rcvd \in 1..Len(log)
    BY <1>6 DEF CallbackStarts, TypeOK
  <2>2. shown' \in [Topic -> [Key -> 0..Len(log)]]
    BY <1>6, <2>1, PresentEffect DEF CallbackStarts, TypeOK
  <2> QED
    BY <1>6, <2>2 DEF CallbackStarts, TypeOK
<1>7. ASSUME NEW t \in Topic, CallbackReturns(t) PROVE TypeOK'
  BY <1>7 DEF CallbackReturns, TypeOK
<1> QED
  BY <1>1, <1>2, <1>3, <1>4, <1>5, <1>6, <1>7 DEF RxReceives, RxDispatches

LEMMA TypeNext == TypeOK /\ [Next]_vars => TypeOK'
<1> SUFFICES ASSUME TypeOK, [Next]_vars PROVE TypeOK'
  OBVIOUS
<1>1. CASE UNCHANGED vars
  BY <1>1 DEF TypeOK, vars
<1> QED
  BY <1>1, TypeNetwork, TypeApi, TypeRx DEF Next

(* Every variable keeps its type and the cursors their order, whatever the *)
(* topics, the keys and the bounds are.                                    *)
THEOREM TypeCorrect == Spec => []TypeOK
  BY TypeInit, TypeNext, PTL DEF Spec

-----------------------------------------------------------------------------
(* The inductive invariant. *)

(* Who is where: one call of the application at a time, a subscriber is    *)
(* declared while its entry is in use, the RX thread is with entries that  *)
(* exist, and runs a callback only after the flag of its entry was set.    *)
ThreadInv ==
    /\ \A t, u \in Topic :
          t # u => stage[t] \in {"absent", "subscribed"} \/ stage[u] \in {"absent", "subscribed"}
    /\ declared = {t \in Topic : stage[t] \notin {"absent", "leaving"}}
    /\ \A t \in Topic : once[t] => OnceWritten(t)
    /\ \A t \in pending : stage[t] # "absent"
    /\ \A t \in running : once[t] /\ running = {t}

(* What the RX thread has let pass: nothing that is shown or about to be   *)
(* replayed is newer than the sample that it takes next, and while it has  *)
(* a sample in hand nothing is newer than that one.                        *)
Reach == IF RxIdle THEN rcvd + 1 ELSE rcvd

OrderInv ==
    /\ stored <= sent + 1
    /\ query = "answered" => snap <= barrier + 1
    /\ \A i \in replies : i <= Reach
    /\ \A t \in Topic, k \in Key : shown[t][k] <= Reach

(* The replies of a query are one value of each key, and none of these     *)
(* keys has been shown by the subscription that the query is made for.     *)
ReplayInv ==
    /\ \A i, j \in replies : log[i].key = log[j].key => i = j
    /\ replies # {} => \E t \in Topic : stage[t] \in {"asking", "replaying", "calling"}
    /\ query = "asked" => replies = {}
    /\ query = "answered" => replies \subseteq Held(snap)
    /\ \A t \in Topic : stage[t] \in {"absent", "declared", "asking"} =>
          \A k \in Key : shown[t][k] = 0
    /\ \A t \in Topic : stage[t] \in {"replaying", "calling"} =>
          \A i \in replies : shown[t][log[i].key] = 0

IInv == TypeOK /\ ThreadInv /\ OrderInv /\ ReplayInv

-----------------------------------------------------------------------------
(* The invariant holds initially. *)

LEMMA InvInit == Init => IInv
<1> SUFFICES ASSUME Init PROVE IInv
  OBVIOUS
<1>1. TypeOK
  BY TypeInit
<1>2. ThreadInv
  BY DEF Init, ThreadInv
<1>3. OrderInv
  BY DEF Init, OrderInv, Reach, RxIdle
<1>4. ReplayInv
  BY DEF Init, ReplayInv
<1> QED
  BY <1>1, <1>2, <1>3, <1>4 DEF IInv

-----------------------------------------------------------------------------
(* ThreadInv is preserved. *)

(* The steps of the router, of the link and of the query: both threads     *)
(* stay where they are.                                                    *)
LEMMA ThreadsStay ==
  TypeOK /\ ThreadInv /\ UNCHANGED <<stage, declared, once, pending, running>>
    => ThreadInv'
  BY DEF ThreadInv, OnceWritten

LEMMA ThreadApi ==
  ASSUME TypeOK, ThreadInv, NEW t \in Topic,
         Subscribe(t) \/ Unsubscribe(t) \/ ApiContinues(t) \/ OnceSeen(t)
  PROVE  ThreadInv'
<1> USE DEF TypeOK, ThreadInv, OnceWritten
<1>1. CASE Subscribe(t)
  BY <1>1 DEF Subscribe, ApiIdle
<1>2. CASE Unsubscribe(t)
  BY <1>2 DEF Unsubscribe, ApiIdle
<1>3. CASE Get(t)
  BY <1>3 DEF Get
<1>4. CASE GetReturns(t)
  BY <1>4 DEF GetReturns
<1>5. ASSUME NEW i \in replies, ReplayStarts(t, i) PROVE ThreadInv'
  BY <1>5 DEF ReplayStarts
<1>6. CASE ReplayReturns(t)
  BY <1>6 DEF ReplayReturns
<1>7. CASE SetOnce(t)
  BY <1>7 DEF SetOnce
<1>8. CASE EraseEntry(t)
  BY <1>8 DEF EraseEntry
<1>9. CASE OnceSeen(t)
  BY <1>9 DEF OnceSeen
<1> QED
  BY <1>1, <1>2, <1>3, <1>4, <1>5, <1>6, <1>7, <1>8, <1>9 DEF ApiContinues

LEMMA ThreadRx ==
  ASSUME TypeOK, ThreadInv,
         RxTake \/ \E t \in Topic : RxDispatches(t)
  PROVE  ThreadInv'
<1> USE DEF TypeOK, ThreadInv, OnceWritten
<1>1. CASE RxTake
  BY <1>1 DEF RxTake, RxIdle
<1>2. ASSUME NEW t \in Topic, CallbackDrops(t) PROVE ThreadInv'
  BY <1>2 DEF CallbackDrops
<1>3. ASSUME NEW t \in Topic, CallbackStarts(t) PROVE ThreadInv'
  BY <1>3 DEF CallbackStarts
<1>4. ASSUME NEW t \in Topic, CallbackReturns(t) PROVE ThreadInv'
  BY <1>4 DEF CallbackReturns
<1> QED
  BY <1>1, <1>2, <1>3, <1>4 DEF RxDispatches

LEMMA ThreadNext == TypeOK /\ ThreadInv /\ [Next]_vars => ThreadInv'
<1> SUFFICES ASSUME TypeOK, ThreadInv, [Next]_vars PROVE ThreadInv'
  OBVIOUS
<1>1. CASE UNCHANGED vars
  BY <1>1, ThreadsStay DEF vars
<1>2. CASE Network
  BY <1>2, ThreadsStay
  DEF Network, Publish, Forward, Store, RouterHears, RouterAnswers, LinkDrop
<1>3. CASE RxReceives
  BY <1>3, ThreadsStay, ThreadRx DEF RxReceives, RxReply, RxFinal
<1>4. CASE QueryTimeout
  BY <1>4, ThreadsStay DEF QueryTimeout
<1> QED
  BY <1>1, <1>2, <1>3, <1>4, ThreadApi, ThreadRx DEF Next

-----------------------------------------------------------------------------
(* OrderInv is preserved. *)

(* The entry of either thread into a callback changes one value. *)
LEMMA ShownChange ==
  ASSUME TypeOK, NEW t \in Topic, NEW i \in 1..Len(log), Present(t, i)
  PROVE  \A u \in Topic, k \in Key :
            shown'[u][k] = i \/ shown'[u][k] = shown[u][k]
<1> SUFFICES ASSUME NEW u \in Topic, NEW k \in Key
             PROVE  shown'[u][k] = i \/ shown'[u][k] = shown[u][k]
  OBVIOUS
<1>1. CASE u = t /\ k = log[i].key
  BY <1>1, PresentEffect
<1>2. CASE u # t \/ k # log[i].key
  BY <1>2, PresentEffect
<1> QED
  BY <1>1, <1>2

LEMMA CallbackIndex ==
  ASSUME TypeOK, NEW t \in Topic, CallbackStarts(t)
  PROVE  rcvd \in 1..Len(log) /\ Present(t, rcvd) /\ ~RxIdle
  BY DEF TypeOK, CallbackStarts, RxIdle

LEMMA ReplayIndex ==
  ASSUME TypeOK, NEW t \in Topic, NEW i \in replies, ReplayStarts(t, i)
  PROVE  i \in 1..Len(log) /\ Present(t, i)
  BY DEF TypeOK, ReplayStarts

(* Steps that move neither the cursors nor what is shown or to be shown.   *)
LEMMA OrderStays ==
  OrderInv /\ UNCHANGED <<stored, sent, replies, rcvd, pending, shown>>
  /\ (query' = "answered" => query = "answered" /\ UNCHANGED <<snap, barrier>>)
    => OrderInv'
  BY DEF OrderInv, Reach, RxIdle

LEMMA OrderNetwork == IInv /\ (Network \/ QueryTimeout) => OrderInv'
<1> SUFFICES ASSUME IInv, Network \/ QueryTimeout PROVE OrderInv'
  OBVIOUS
<1>i. OrderInv
  BY DEF IInv
<1>n. sent \in Nat /\ stored \in Nat
  BY DEF IInv, TypeOK
<1>1. ASSUME NEW k \in Key, NEW kind \in Kind, Publish(k, kind) PROVE OrderInv'
  BY <1>1, <1>i, OrderStays DEF Publish
<1>2. CASE Forward
  <2>1. sent' = sent + 1 /\ UNCHANGED <<stored, queryVars, replies, shown, rcvd, pending>>
    BY <1>2 DEF Forward
  <2> QED
    BY <1>i, <1>n, <2>1 DEF OrderInv, Reach, RxIdle
<1>3. CASE Store
  <2>1. stored <= sent /\ stored' = stored + 1
        /\ UNCHANGED <<sent, queryVars, replies, shown, rcvd, pending>>
    BY <1>3 DEF Store
  <2> QED
    BY <1>i, <1>n, <2>1 DEF OrderInv, Reach, RxIdle
<1>4. ASSUME NEW t \in Topic, RouterHears(t) PROVE OrderInv'
  BY <1>4, <1>i, OrderStays DEF RouterHears
<1>5. ASSUME NEW t \in Topic, RouterAnswers(t) PROVE OrderInv'
  <2>1. snap' = stored /\ barrier' = sent
        /\ UNCHANGED <<stored, sent, replies, shown, rcvd, pending>>
    BY <1>5 DEF RouterAnswers
  <2> QED
    BY <1>i, <2>1 DEF OrderInv, Reach, RxIdle
<1>6. CASE LinkDrop
  <2>1. query' = "answered" => query = "answered"
    BY <1>6 DEF LinkDrop
  <2> QED
    BY <1>6, <2>1, <1>i, OrderStays DEF LinkDrop
<1>7. CASE QueryTimeout
  BY <1>7, <1>i, OrderStays DEF QueryTimeout
<1> QED
  BY <1>1, <1>2, <1>3, <1>4, <1>5, <1>6, <1>7 DEF Network

LEMMA OrderApi ==
  ASSUME IInv, NEW t \in Topic,
         Subscribe(t) \/ Unsubscribe(t) \/ ApiContinues(t) \/ OnceSeen(t)
  PROVE  OrderInv'
<1>i. TypeOK /\ OrderInv
  BY DEF IInv
<1>1. CASE Subscribe(t)
  BY <1>1, <1>i, OrderStays DEF Subscribe
<1>2. CASE Unsubscribe(t)
  BY <1>2, <1>i, OrderStays DEF Unsubscribe
<1>3. CASE Get(t)
  <2>1. query' # "answered" /\ UNCHANGED <<stored, sent, replies, rcvd, pending, shown>>
    BY <1>3 DEF Get
  <2> QED
    BY <2>1, <1>i, OrderStays
<1>4. CASE GetReturns(t)
  <2>1. query' # "answered" /\ UNCHANGED <<stored, sent, replies, rcvd, pending, shown>>
    BY <1>4 DEF GetReturns
  <2> QED
    BY <2>1, <1>i, OrderStays
<1>5. ASSUME NEW i \in replies, ReplayStarts(t, i) PROVE OrderInv'
  <2>1. i \in 1..Len(log) /\ Present(t, i)
    BY <1>5, <1>i, ReplayIndex
  <2>2. \A u \in Topic, k \in Key :
           shown'[u][k] = i \/ shown'[u][k] = shown[u][k]
    BY <1>i, <2>1, ShownChange
  <2>3. replies' \subseteq replies /\ UNCHANGED <<stored, sent, queryVars, rcvd, pending>>
    BY <1>5 DEF ReplayStarts
  <2> QED
    BY <1>i, <2>2, <2>3 DEF OrderInv, Reach, RxIdle
<1>6. CASE ReplayReturns(t)
  BY <1>6, <1>i, OrderStays DEF ReplayReturns
<1>7. CASE SetOnce(t)
  BY <1>7, <1>i, OrderStays DEF SetOnce
<1>8. CASE EraseEntry(t)
  <2>1. \A u \in Topic, k \in Key :
           shown'[u][k] = 0 \/ shown'[u][k] = shown[u][k]
    BY <1>8, <1>i DEF EraseEntry, TypeOK
  <2>2. UNCHANGED <<stored, sent, queryVars, replies, rcvd, pending>>
    BY <1>8 DEF EraseEntry
  <2>3. 0 <= Reach
    BY <1>i DEF TypeOK, Reach
  <2> QED
    BY <1>i, <2>1, <2>2, <2>3 DEF OrderInv, Reach, RxIdle
<1>9. CASE OnceSeen(t)
  BY <1>9, <1>i, OrderStays DEF OnceSeen
<1> QED
  BY <1>1, <1>2, <1>3, <1>4, <1>5, <1>6, <1>7, <1>8, <1>9 DEF ApiContinues

LEMMA OrderRx ==
  IInv /\ (RxReceives \/ \E t \in Topic : RxDispatches(t)) => OrderInv'
<1> SUFFICES ASSUME IInv, RxReceives \/ \E t \in Topic : RxDispatches(t)
             PROVE  OrderInv'
  OBVIOUS
<1>i. TypeOK /\ OrderInv
  BY DEF IInv
<1>n. /\ rcvd \in Nat /\ snap \in Nat /\ barrier \in Nat
      /\ \A i \in replies : i \in Nat
      /\ \A t \in Topic, k \in Key : shown[t][k] \in Nat
  BY <1>i DEF TypeOK
<1>1. CASE RxTake
  <2>1. pending = {} /\ rcvd' = rcvd + 1
        /\ UNCHANGED <<stored, sent, queryVars, replies, shown>>
    BY <1>1 DEF RxTake, RxIdle
  <2> QED
    BY <1>i, <1>n, <2>1 DEF OrderInv, Reach, RxIdle
<1>2. ASSUME NEW t \in Topic, NEW i \in Answer(t), RxReply(t, i) PROVE OrderInv'
  <2>1. i \in Nat /\ i <= snap
    BY <1>n DEF Answer, Held
  <2>2. RxIdle /\ query = "answered" /\ rcvd >= barrier
    BY <1>2 DEF RxReply
  <2>3. i <= Reach
    BY <1>i, <1>n, <2>1, <2>2 DEF OrderInv, Reach
  <2>4. replies' = replies \cup {i}
        /\ UNCHANGED <<stored, sent, queryVars, rcvd, pending, shown>>
    BY <1>2 DEF RxReply
  <2> QED
    BY <1>i, <2>3, <2>4 DEF OrderInv, Reach, RxIdle
<1>3. ASSUME NEW t \in Topic, RxFinal(t) PROVE OrderInv'
  BY <1>3, <1>i, OrderStays DEF RxFinal
<1>4. ASSUME NEW t \in Topic, CallbackDrops(t) PROVE OrderInv'
  <2>1. pending # {} /\ UNCHANGED <<stored, sent, queryVars, replies, rcvd, shown>>
    BY <1>4 DEF CallbackDrops
  <2> QED
    BY <1>i, <1>n, <2>1 DEF OrderInv, Reach, RxIdle
<1>5. ASSUME NEW t \in Topic, CallbackStarts(t) PROVE OrderInv'
  <2>1. rcvd \in 1..Len(log) /\ Present(t, rcvd) /\ ~RxIdle
    BY <1>5, <1>i, CallbackIndex
  <2>2. \A u \in Topic, k \in Key :
           shown'[u][k] = rcvd \/ shown'[u][k] = shown[u][k]
    BY <1>i, <2>1, ShownChange
  <2>3. UNCHANGED <<stored, sent, queryVars, replies, rcvd, pending>>
    BY <1>5 DEF CallbackStarts
  <2> QED
    BY <1>i, <1>n, <2>1, <2>2, <2>3 DEF OrderInv, Reach, RxIdle
<1>6. ASSUME NEW t \in Topic, CallbackReturns(t) PROVE OrderInv'
  <2>1. pending # {} /\ UNCHANGED <<stored, sent, queryVars, replies, rcvd, shown>>
    BY <1>6, <1>i DEF CallbackReturns, TypeOK
  <2> QED
    BY <1>i, <1>n, <2>1 DEF OrderInv, Reach, RxIdle
<1> QED
  BY <1>1, <1>2, <1>3, <1>4, <1>5, <1>6 DEF RxReceives, RxDispatches

LEMMA OrderNext == IInv /\ [Next]_vars => OrderInv'
<1>1. IInv /\ UNCHANGED vars => OrderInv'
  BY OrderStays DEF IInv, vars
<1> QED
  BY <1>1, OrderNetwork, OrderApi, OrderRx DEF Next

-----------------------------------------------------------------------------
(* ReplayInv is preserved. *)

(* log only grows at its end: what a storage held does not change by it. *)
LEMMA HeldStays ==
  ASSUME TypeOK, NEW k \in Key, NEW kind \in Kind, Publish(k, kind)
  PROVE  /\ \A i \in 1..Len(log) : log'[i] = log[i]
         /\ Held(snap)' = Held(snap)
<1>1. log \in Seq(Entry) /\ snap \in 0..Len(log)
  BY DEF TypeOK
<1>2. log' = Append(log, [key |-> k, kind |-> kind]) /\ snap' = snap
  BY DEF Publish
<1>3. \A i \in 1..Len(log) : log'[i] = log[i]
  BY <1>1, <1>2
<1> QED
  BY <1>1, <1>2, <1>3 DEF Held

(* Steps that touch neither the query nor what has been shown. *)
LEMMA ReplayStays ==
  ReplayInv /\ UNCHANGED <<log, replies, query, snap, stage, shown>> => ReplayInv'
  BY DEF ReplayInv, Held

LEMMA ReplayNetwork == IInv /\ (Network \/ QueryTimeout) => ReplayInv'
<1> SUFFICES ASSUME IInv, Network \/ QueryTimeout PROVE ReplayInv'
  OBVIOUS
<1>t. TypeOK /\ ReplayInv
  BY DEF IInv
<1>1. ASSUME NEW k \in Key, NEW kind \in Kind, Publish(k, kind) PROVE ReplayInv'
  <2>1. /\ \A i \in 1..Len(log) : log'[i] = log[i]
        /\ Held(snap)' = Held(snap)
    BY <1>1, <1>t, HeldStays
  <2>2. \A i \in replies : log'[i] = log[i]
    BY <2>1, <1>t DEF TypeOK
  <2>3. UNCHANGED <<replies, query, snap, stage, shown>>
    BY <1>1 DEF Publish
  <2> QED
    BY <1>t, <2>1, <2>2, <2>3 DEF ReplayInv
<1>2. CASE Forward \/ Store \/ \E t \in Topic : RouterHears(t)
  BY <1>2, <1>t, ReplayStays DEF Forward, Store, RouterHears
<1>3. ASSUME NEW t \in Topic, RouterAnswers(t) PROVE ReplayInv'
  <2>1. replies = {} /\ query' = "answered"
    BY <1>3, <1>t DEF RouterAnswers, ReplayInv
  <2>2. UNCHANGED <<log, replies, stage, shown>>
    BY <1>3 DEF RouterAnswers
  <2> QED
    BY <1>t, <2>1, <2>2 DEF ReplayInv
<1>4. CASE LinkDrop \/ QueryTimeout
  <2>1. query' = query \/ query' \in {"lost", "expired"}
    BY <1>4 DEF LinkDrop, QueryTimeout
  <2>2. UNCHANGED <<log, replies, snap, stage, shown>>
    BY <1>4 DEF LinkDrop, QueryTimeout
  <2> QED
    BY <1>t, <2>1, <2>2 DEF ReplayInv, Held
<1> QED
  BY <1>1, <1>2, <1>3, <1>4 DEF Network

LEMMA ReplayApi ==
  ASSUME IInv, NEW t \in Topic,
         Subscribe(t) \/ Unsubscribe(t) \/ ApiContinues(t) \/ OnceSeen(t)
  PROVE  ReplayInv'
<1>t. TypeOK /\ ThreadInv /\ ReplayInv
  BY DEF IInv
<1>s. stage \in [Topic -> Stage]
  BY <1>t DEF TypeOK
<1>1. CASE Subscribe(t)
  <2>1. replies = {}
    BY <1>1, <1>t DEF Subscribe, ApiIdle, ReplayInv
  <2>2. stage' = [stage EXCEPT ![t] = "declared"] /\ stage[t] = "absent"
    BY <1>1 DEF Subscribe
  <2>3. UNCHANGED <<log, replies, query, snap, shown>>
    BY <1>1 DEF Subscribe
  <2> QED
    BY <1>t, <1>s, <2>1, <2>2, <2>3 DEF ReplayInv, Held
<1>2. CASE Unsubscribe(t)
  <2>1. stage' = [stage EXCEPT ![t] = "leaving"] /\ stage[t] = "subscribed"
    BY <1>2 DEF Unsubscribe
  <2>2. UNCHANGED <<log, replies, query, snap, shown>>
    BY <1>2 DEF Unsubscribe
  <2> QED
    BY <1>t, <1>s, <2>1, <2>2 DEF ReplayInv, Held
<1>3. CASE Get(t)
  <2>1. stage' = [stage EXCEPT ![t] = "asking"] /\ stage[t] = "declared"
    BY <1>3 DEF Get
  <2>2. replies = {}
    BY <2>1, <1>t DEF ReplayInv, ThreadInv
  <2>3. UNCHANGED <<log, replies, snap, shown>> /\ query' \in {"asked", "expired"}
    BY <1>3 DEF Get
  <2> QED
    BY <1>t, <1>s, <2>1, <2>2, <2>3 DEF ReplayInv, Held
<1>4. CASE GetReturns(t)
  <2>1. stage' = [stage EXCEPT ![t] = "replaying"] /\ stage[t] = "asking"
    BY <1>4 DEF GetReturns
  <2>2. UNCHANGED <<log, replies, shown>> /\ query' = "none"
    BY <1>4 DEF GetReturns
  <2>3. \A i \in replies : log[i].key \in Key
    <3>1. \A i \in replies : log[i] \in Entry
      BY <1>t DEF TypeOK
    <3> QED
      BY <3>1 DEF Entry
  <2> QED
    BY <1>t, <1>s, <2>1, <2>2, <2>3 DEF ReplayInv
<1>5. ASSUME NEW i \in replies, ReplayStarts(t, i) PROVE ReplayInv'
  <2>1. i \in 1..Len(log) /\ Present(t, i)
    BY <1>5, <1>t, ReplayIndex
  <2>2. \A u \in Topic, k \in Key :
           u # t \/ k # log[i].key => shown'[u][k] = shown[u][k]
    BY <1>t, <2>1, PresentEffect
  <2>3. stage' = [stage EXCEPT ![t] = "calling"] /\ stage[t] = "replaying"
    BY <1>5 DEF ReplayStarts
  <2>4. replies' = replies \ {i} /\ UNCHANGED <<log, query, snap>>
    BY <1>5 DEF ReplayStarts
  <2>5. \A j \in replies : log[j].key \in Key
    <3>1. \A j \in replies : log[j] \in Entry
      BY <1>t DEF TypeOK
    <3> QED
      BY <3>1 DEF Entry
  <2>6. \A u \in Topic \ {t} : stage[u] \notin {"asking", "replaying", "calling"}
    BY <2>3, <1>t DEF ThreadInv
  <2>7. \A u \in Topic : stage'[u] \in {"absent", "declared", "asking"} =>
           \A k \in Key : shown'[u][k] = 0
    BY <1>t, <1>s, <2>2, <2>3 DEF ReplayInv
  <2>8. \A u \in Topic : stage'[u] \in {"replaying", "calling"} =>
           \A j \in replies' : shown'[u][log'[j].key] = 0
    BY <1>t, <1>s, <2>2, <2>3, <2>4, <2>5, <2>6 DEF ReplayInv
  <2> QED
    BY <1>t, <1>s, <2>3, <2>4, <2>7, <2>8 DEF ReplayInv, Held
<1>6. CASE ReplayReturns(t)
  <2>1. stage' = [stage EXCEPT ![t] = "replaying"] /\ stage[t] = "calling"
    BY <1>6 DEF ReplayReturns
  <2>2. UNCHANGED <<log, replies, query, snap, shown>>
    BY <1>6 DEF ReplayReturns
  <2> QED
    BY <1>t, <1>s, <2>1, <2>2 DEF ReplayInv, Held
<1>7. CASE SetOnce(t)
  <2>1. stage' = [stage EXCEPT ![t] = "subscribed"] /\ replies = {}
    BY <1>7 DEF SetOnce
  <2>2. UNCHANGED <<log, replies, query, snap, shown>>
    BY <1>7 DEF SetOnce
  <2> QED
    BY <1>t, <1>s, <2>1, <2>2 DEF ReplayInv, Held
<1>8. CASE EraseEntry(t)
  <2>1. stage' = [stage EXCEPT ![t] = "absent"] /\ stage[t] = "leaving"
    BY <1>8 DEF EraseEntry
  <2>2. UNCHANGED <<log, replies, query, snap>>
    BY <1>8 DEF EraseEntry
  <2>3. /\ \A k \in Key : shown'[t][k] = 0
        /\ \A u \in Topic \ {t} : shown'[u] = shown[u]
    BY <1>8, <1>t DEF EraseEntry, TypeOK
  <2> QED
    BY <1>t, <1>s, <2>1, <2>2, <2>3 DEF ReplayInv, Held
<1>9. CASE OnceSeen(t)
  BY <1>9, <1>t, ReplayStays DEF OnceSeen
<1> QED
  BY <1>1, <1>2, <1>3, <1>4, <1>5, <1>6, <1>7, <1>8, <1>9 DEF ApiContinues

LEMMA ReplayRx ==
  IInv /\ (RxReceives \/ \E t \in Topic : RxDispatches(t)) => ReplayInv'
<1> SUFFICES ASSUME IInv, RxReceives \/ \E t \in Topic : RxDispatches(t)
             PROVE  ReplayInv'
  OBVIOUS
<1>t. TypeOK /\ ThreadInv /\ ReplayInv
  BY DEF IInv
<1>1. CASE RxTake
  BY <1>1, <1>t, ReplayStays DEF RxTake
<1>2. ASSUME NEW t \in Topic, NEW i \in Answer(t), RxReply(t, i) PROVE ReplayInv'
  <2>1. replies' = replies \cup {i} /\ i \in Held(snap) /\ replies \subseteq Held(snap)
    BY <1>2, <1>t DEF RxReply, Answer, ReplayInv
  <2>2. stage[t] = "asking" /\ query = "answered"
        /\ UNCHANGED <<log, query, snap, stage, shown>>
    BY <1>2 DEF RxReply
  <2>3. \A m, n \in Held(snap) : log[m].key = log[n].key => m = n
    <3>1. snap \in Nat
      BY <1>t DEF TypeOK
    <3> QED
      BY <3>1 DEF Held
  <2>4. \A u \in Topic : stage[u] \notin {"replaying", "calling"}
    BY <1>t, <2>2 DEF ThreadInv
  <2>5. Held(snap)' = Held(snap)
    BY <2>2 DEF Held
  <2> QED
    BY <1>t, <2>1, <2>2, <2>3, <2>4, <2>5 DEF ReplayInv
<1>3. ASSUME NEW t \in Topic, RxFinal(t) PROVE ReplayInv'
  <2>1. query' = "complete" /\ UNCHANGED <<log, replies, snap, stage, shown>>
    BY <1>3 DEF RxFinal
  <2> QED
    BY <1>t, <2>1 DEF ReplayInv
<1>4. ASSUME NEW t \in Topic, CallbackDrops(t) PROVE ReplayInv'
  BY <1>4, <1>t, ReplayStays DEF CallbackDrops
<1>5. ASSUME NEW t \in Topic, CallbackStarts(t) PROVE ReplayInv'
  <2>1. rcvd \in 1..Len(log) /\ Present(t, rcvd)
    BY <1>5, <1>t, CallbackIndex
  <2>2. \A u \in Topic, k \in Key : u # t => shown'[u][k] = shown[u][k]
    BY <1>t, <2>1, PresentEffect
  <2>3. stage[t] \in {"subscribed", "leaving"}
    BY <1>5, <1>t DEF CallbackStarts, ThreadInv, OnceWritten
  <2>4. UNCHANGED <<log, replies, query, snap, stage>>
    BY <1>5 DEF CallbackStarts
  <2>5. \A j \in replies : log[j].key \in Key
    <3>1. \A j \in replies : log[j] \in Entry
      BY <1>t DEF TypeOK
    <3> QED
      BY <3>1 DEF Entry
  <2> QED
    BY <1>t, <2>2, <2>3, <2>4, <2>5 DEF ReplayInv, Held
<1>6. ASSUME NEW t \in Topic, CallbackReturns(t) PROVE ReplayInv'
  BY <1>6, <1>t, ReplayStays DEF CallbackReturns
<1> QED
  BY <1>1, <1>2, <1>3, <1>4, <1>5, <1>6 DEF RxReceives, RxDispatches

LEMMA ReplayNext == IInv /\ [Next]_vars => ReplayInv'
<1>1. IInv /\ UNCHANGED vars => ReplayInv'
  BY ReplayStays DEF IInv, vars
<1> QED
  BY <1>1, ReplayNetwork, ReplayApi, ReplayRx DEF Next

LEMMA InvNext == IInv /\ [Next]_vars => IInv'
  BY TypeNext, ThreadNext, OrderNext, ReplayNext DEF IInv

LEMMA InvCorrect == Spec => []IInv
  BY InvInit, InvNext, PTL DEF Spec

-----------------------------------------------------------------------------
(* What the invariant is for. *)

(* With no lock between the threads, _once alone keeps the replay of       *)
(* subscribe() and lib_subscribe_callback from running the callback of one *)
(* subscription at the same time.                                          *)
THEOREM Exclusion == Spec => []CallbacksExclusive
<1>1. IInv => CallbacksExclusive
  BY DEF IInv, ThreadInv, OnceWritten, CallbacksExclusive
<1> QED
  BY <1>1, InvCorrect, PTL

(* No thread and no declaration is left with the address of a context that *)
(* unsubscribe() has erased.                                               *)
THEOREM ContextsAlive == Spec => []ContextAlive
<1>1. IInv => ContextAlive
  BY DEF IInv, TypeOK, ThreadInv, ContextAlive
<1> QED
  BY <1>1, InvCorrect, PTL

(* The two ways into a callback show a value that is not older than what   *)
(* was shown before: a stored value is the first of its key, and a sample  *)
(* is the newest that has passed.                                          *)
LEMMA ReplayIsFirst ==
  ASSUME IInv, NEW t \in Topic, NEW i \in replies, ReplayStarts(t, i)
  PROVE  shown[t][log[i].key] = 0
  BY DEF IInv, ReplayInv, ReplayStarts

LEMMA SampleIsNewest ==
  ASSUME IInv, NEW t \in Topic, CallbackStarts(t), NEW k \in Key
  PROVE  shown[t][k] <= rcvd
<1>1. pending # {}
  BY DEF CallbackStarts
<1> QED
  BY <1>1 DEF IInv, OrderInv, Reach, RxIdle

LEMMA StepForward ==
  ASSUME IInv, [Next]_vars, NEW t \in Topic, NEW k \in Key, stage'[t] # "absent"
  PROVE  shown'[t][k] >= shown[t][k]
<1>t. TypeOK
  BY DEF IInv
<1>n. shown[t][k] \in Nat
  BY <1>t DEF TypeOK
<1>1. CASE UNCHANGED shown
  BY <1>1, <1>n
<1>2. ASSUME NEW u \in Topic, NEW i \in replies, ReplayStarts(u, i)
      PROVE  shown'[t][k] >= shown[t][k]
  <2>1. i \in 1..Len(log) /\ Present(u, i)
    BY <1>2, <1>t, ReplayIndex
  <2>2. CASE t = u /\ k = log[i].key
    <3>1. shown'[t][k] = i
      BY <2>1, <2>2, <1>t, PresentEffect
    <3>2. shown[t][k] = 0
      BY <1>2, <2>2, ReplayIsFirst
    <3>3. i \in Nat
      BY <2>1
    <3> QED
      BY <3>1, <3>2, <3>3
  <2>3. CASE t # u \/ k # log[i].key
    <3>1. shown'[t][k] = shown[t][k]
      BY <2>1, <2>3, <1>t, PresentEffect
    <3> QED
      BY <3>1, <1>n
  <2> QED
    BY <2>2, <2>3
<1>3. ASSUME NEW u \in Topic, CallbackStarts(u)
      PROVE  shown'[t][k] >= shown[t][k]
  <2>1. rcvd \in 1..Len(log) /\ Present(u, rcvd)
    BY <1>3, <1>t, CallbackIndex
  <2>2. shown'[t][k] = rcvd \/ shown'[t][k] = shown[t][k]
    BY <2>1, <1>t, ShownChange
  <2>3. shown[t][k] <= rcvd \/ t # u
    BY <1>3, SampleIsNewest
  <2>4. t # u => shown'[t][k] = shown[t][k]
    BY <2>1, <1>t, PresentEffect
  <2>5. rcvd \in Nat
    BY <1>t DEF TypeOK
  <2> QED
    BY <1>n, <2>2, <2>3, <2>4, <2>5
<1>4. ASSUME NEW u \in Topic, EraseEntry(u)
      PROVE  shown'[t][k] >= shown[t][k]
  <2>1. t # u
    BY <1>4, <1>t DEF EraseEntry, TypeOK
  <2>2. shown'[t] = shown[t]
    BY <1>4, <2>1, <1>t DEF EraseEntry, TypeOK
  <2> QED
    BY <2>2, <1>n
<1>5. \/ UNCHANGED shown
      \/ \E u \in Topic : \/ \E i \in replies : ReplayStarts(u, i)
                          \/ CallbackStarts(u)
                          \/ EraseEntry(u)
  BY DEF Next, vars, Network, Publish, Forward, Store, RouterHears, RouterAnswers,
         LinkDrop, RxReceives, RxTake, RxReply, RxFinal, QueryTimeout, Subscribe,
         Unsubscribe, ApiContinues, Get, GetReturns, ReplayReturns, SetOnce, OnceSeen,
         RxDispatches, CallbackDrops, CallbackReturns
<1> QED
  BY <1>1, <1>2, <1>3, <1>4, <1>5

(* Replies and samples come from two places of the router and are shown by *)
(* two threads, and still a callback never sees an older value of a key    *)
(* after a newer one.                                                      *)
THEOREM ForwardOnly == Spec => NeverBackwards
<1>1. IInv /\ [Next]_vars
        => [\A t \in Topic, k \in Key :
              stage'[t] # "absent" => shown'[t][k] >= shown[t][k]]_vars
  BY StepForward
<1> QED
  BY <1>1, InvCorrect, PTL DEF Spec, NeverBackwards

-----------------------------------------------------------------------------
(* What is lost. *)

(* The share of a subscription in what its query has brought, and in what  *)
(* came off the link since its flag was seen: shown, or in hand.           *)
ReplayDue(t) ==
    \A i \in Held(covered[t]) : log[i].key \in Match[t] =>
        \/ i \in replies /\ stage[t] \in {"replaying", "calling"}
        \/ shown[t][log[i].key] >= i

LiveDue(t) ==
    \A j \in forwarded :
        liveFrom[t] < j /\ j <= rcvd /\ log[j].key \in Match[t] =>
            \/ j = rcvd /\ t \in pending
            \/ shown[t][log[j].key] >= j

(* A query that ended well has brought all of its answer, what it brought  *)
(* is replayed, what follows is shown, and a callback that runs has its    *)
(* sample.                                                                 *)
LossInv ==
    /\ query = "complete" => \A t \in Topic : stage[t] = "asking" => replies = Answer(t)
    /\ \A t \in Topic :
          stage[t] \in {"replaying", "calling", "subscribed", "leaving"} => ReplayDue(t)
    /\ \A t \in declared : once[t] => LiveDue(t)
    /\ \A t \in running : shown[t][log[rcvd].key] >= rcvd

LEMMA LossInit == Init => LossInv
  BY DEF Init, LossInv

(* An entry of the log stays as it is, and with it what a storage held.    *)
LEMMA LogStays ==
  ASSUME TypeOK, [Next]_vars
  PROVE  /\ \A i \in 1..Len(log) : log'[i] = log[i] /\ log[i].key \in Key
         /\ \A n \in 0..Len(log) : Held(n)' = Held(n) /\ Held(n) \subseteq 1..n
<1>1. log \in Seq(Entry) /\ \A i \in 1..Len(log) : log[i].key \in Key
  <2>1. log \in Seq(Entry)
    BY DEF TypeOK
  <2>2. \A i \in 1..Len(log) : log[i] \in Entry
    BY <2>1
  <2> QED
    BY <2>1, <2>2 DEF Entry
<1>2. CASE UNCHANGED log
  BY <1>1, <1>2 DEF Held
<1>3. ASSUME NEW k \in Key, NEW kind \in Kind, Publish(k, kind)
      PROVE  /\ \A i \in 1..Len(log) : log'[i] = log[i] /\ log[i].key \in Key
             /\ \A n \in 0..Len(log) : Held(n)' = Held(n) /\ Held(n) \subseteq 1..n
  <2>1. log' = Append(log, [key |-> k, kind |-> kind])
    BY <1>3 DEF Publish
  <2>2. \A i \in 1..Len(log) : log'[i] = log[i] /\ log[i].key \in Key
    BY <1>1, <2>1
  <2> QED
    BY <2>2 DEF Held
<1>4. UNCHANGED log \/ \E k \in Key, kind \in Kind : Publish(k, kind)
  BY DEF Next, vars, Network, Forward, Store, RouterHears, RouterAnswers,
         LinkDrop, RxReceives, RxTake, RxReply, RxFinal, QueryTimeout, Subscribe,
         Unsubscribe, ApiContinues, Get, GetReturns, ReplayStarts, ReplayReturns,
         SetOnce, EraseEntry, OnceSeen, RxDispatches, CallbackDrops, CallbackStarts,
         CallbackReturns
<1> QED
  BY <1>2, <1>3, <1>4

(* The history of what was shown, before and after a step. *)
LEMMA ShownIsNat ==
  ASSUME TypeOK, TypeOK', NEW t \in Topic, NEW k \in Key
  PROVE  shown[t][k] \in Nat /\ shown'[t][k] \in Nat
<1>1. shown \in [Topic -> [Key -> Nat]]
  BY DEF TypeOK
<1>2. shown' \in [Topic -> [Key -> Nat]]
  BY DEF TypeOK
<1> QED
  BY <1>1, <1>2

(* What the replay owes is kept by a step under which a stored value       *)
(* leaves the hand of the API thread only into the callback.               *)
LEMMA ReplayDueStays ==
  ASSUME IInv, [Next]_vars, NEW t \in Topic, ReplayDue(t),
         stage'[t] # "absent", covered'[t] = covered[t],
         stage[t] \in {"replaying", "calling"} =>
            \A i \in replies :
               \/ i \in replies' /\ stage'[t] \in {"replaying", "calling"}
               \/ shown'[t][log[i].key] >= i
  PROVE  ReplayDue(t)'
<1>1. TypeOK /\ TypeOK'
  BY InvNext DEF IInv
<1>2. covered[t] \in 0..Len(log)
  BY <1>1 DEF TypeOK
<1>3. Held(covered[t])' = Held(covered[t])
  <2>1. PICK n \in 0..Len(log) : n = covered[t]
    BY <1>2
  <2>2. Held(n)' = Held(n)
    BY <1>1, LogStays
  <2>3. Held(covered[t])' = Held(n)'
    BY <2>1 DEF Held
  <2> QED
    BY <2>1, <2>2, <2>3
<1> SUFFICES ASSUME NEW i \in Held(covered[t]), log[i].key \in Match[t]
             PROVE  \/ i \in replies' /\ stage'[t] \in {"replaying", "calling"}
                    \/ shown'[t][log[i].key] >= i
  <2>1. \A i \in Held(covered[t]) : log'[i] = log[i]
    BY <1>1, <1>2, LogStays
  <2> QED
    BY <1>3, <2>1 DEF ReplayDue
<1>4. i \in 1..Len(log) /\ log[i].key \in Key
  BY <1>1, <1>2, LogStays
<1>5. CASE i \in replies /\ stage[t] \in {"replaying", "calling"}
  BY <1>5
<1>6. CASE shown[t][log[i].key] >= i
  <2>1. shown'[t][log[i].key] >= shown[t][log[i].key]
    BY <1>4, StepForward
  <2>2. shown'[t][log[i].key] \in Nat /\ shown[t][log[i].key] \in Nat
    BY <1>1, <1>4, ShownIsNat
  <2> QED
    BY <1>4, <1>6, <2>1, <2>2
<1> QED
  BY <1>5, <1>6 DEF ReplayDue

(* What the link owes is kept by a step under which a sample leaves the    *)
(* hand of the RX thread only into the callback.                           *)
LEMMA LiveDueStays ==
  ASSUME IInv, [Next]_vars, NEW t \in Topic, LiveDue(t),
         stage'[t] # "absent", liveFrom'[t] = liveFrom[t], rcvd' = rcvd,
         \A j \in forwarded' : j <= rcvd => j \in forwarded,
         t \in pending => t \in pending' \/ shown'[t][log[rcvd].key] >= rcvd
  PROVE  LiveDue(t)'
<1>1. TypeOK /\ TypeOK'
  BY InvNext DEF IInv
<1> SUFFICES ASSUME NEW j \in forwarded', liveFrom[t] < j, j <= rcvd,
                    log'[j].key \in Match[t]
             PROVE  \/ j = rcvd /\ t \in pending'
                    \/ shown'[t][log'[j].key] >= j
  BY DEF LiveDue
<1>2. j \in forwarded /\ j \in 1..Len(log)
  BY <1>1 DEF TypeOK
<1>3. log'[j] = log[j] /\ log[j].key \in Key
  BY <1>1, <1>2, LogStays
<1>4. CASE j = rcvd /\ t \in pending
  BY <1>3, <1>4
<1>5. CASE shown[t][log[j].key] >= j
  <2>1. shown'[t][log[j].key] >= shown[t][log[j].key]
    BY <1>3, StepForward
  <2>2. shown'[t][log[j].key] \in Nat /\ shown[t][log[j].key] \in Nat
    BY <1>1, <1>3, ShownIsNat
  <2> QED
    BY <1>2, <1>3, <1>5, <2>1, <2>2
<1> QED
  BY <1>2, <1>3, <1>4, <1>5 DEF LiveDue

(* A callback that runs was given a sample. *)
LEMMA RunningHasSample ==
  ASSUME TypeOK, NEW t \in running
  PROVE  rcvd \in 1..Len(log) /\ t \in Topic
<1>1. t \in pending /\ pending \subseteq Topic
  BY DEF TypeOK
<1>2. rcvd > 0 /\ rcvd \in 0..sent /\ sent \in 0..Len(log)
  BY <1>1 DEF TypeOK
<1> QED
  BY <1>1, <1>2

(* The steps of the router, of the storage, of the link and of the timer.  *)
LEMMA LossStays ==
  ASSUME IInv, LossInv, [Next]_vars,
         UNCHANGED <<stage, covered, replies, declared, once, liveFrom>>,
         UNCHANGED <<rcvd, pending, running, shown>>,
         \A j \in forwarded' : j <= rcvd => j \in forwarded,
         query' = "complete" => query = "complete" /\ snap' = snap
  PROVE  LossInv'
<1>1. TypeOK
  BY DEF IInv
<1>2. query' = "complete" => \A t \in Topic : Answer(t)' = Answer(t)
  <2>1. snap \in 0..Len(log)
    BY <1>1 DEF TypeOK
  <2>2. Held(snap)' = Held(snap) \/ snap' # snap
    BY <1>1, <2>1, LogStays DEF Held
  <2>3. \A i \in Held(snap) : log'[i] = log[i]
    BY <1>1, <2>1, LogStays
  <2> QED
    BY <2>2, <2>3 DEF Answer
<1>3. ASSUME NEW t \in Topic,
             stage[t] \in {"replaying", "calling", "subscribed", "leaving"}
      PROVE  ReplayDue(t)'
  BY <1>3, ReplayDueStays DEF LossInv
<1>4. ASSUME NEW t \in declared, once[t] PROVE LiveDue(t)'
  <2>1. t \in Topic /\ stage[t] # "absent"
    BY <1>1 DEF TypeOK, IInv, ThreadInv
  <2> QED
    BY <1>4, <2>1, LiveDueStays DEF LossInv
<1>5. ASSUME NEW t \in running PROVE shown'[t][log'[rcvd].key] >= rcvd
  <2>1. rcvd \in 1..Len(log)
    BY <1>1, <1>5, RunningHasSample
  <2> QED
    BY <1>1, <1>5, <2>1, LogStays DEF LossInv
<1> QED
  BY <1>2, <1>3, <1>4, <1>5 DEF LossInv

(* A step of the call for t leaves what concerns the other subscriptions.  *)
LEMMA LossOthersStay ==
  ASSUME IInv, LossInv, [Next]_vars, NEW t \in Topic,
         \A u \in Topic \ {t} :
            /\ stage'[u] = stage[u] /\ stage[u] \in {"absent", "subscribed"}
            /\ once'[u] = once[u] /\ liveFrom'[u] = liveFrom[u] /\ covered'[u] = covered[u],
         UNCHANGED <<forwarded, rcvd, pending, running>>,
         declared' \subseteq declared \cup {t},
         t \in running => stage'[t] # "absent",
         query' = "complete" => stage'[t] # "asking",
         stage'[t] \in {"replaying", "calling", "subscribed", "leaving"} => ReplayDue(t)',
         t \in declared' /\ once'[t] => LiveDue(t)'
  PROVE  LossInv'
<1>1. TypeOK /\ TypeOK' /\ ThreadInv
  BY InvNext DEF IInv
<1>2. ASSUME NEW u \in Topic \ {t}, stage[u] = "subscribed" PROVE ReplayDue(u)'
  BY <1>2, ReplayDueStays DEF LossInv
<1>3. ASSUME NEW u \in declared' \ {t}, once[u] PROVE LiveDue(u)'
  <2>1. u \in declared /\ u \in Topic /\ stage'[u] # "absent"
    BY <1>1 DEF TypeOK, ThreadInv
  <2> QED
    BY <1>3, <2>1, LiveDueStays DEF LossInv
<1>4. ASSUME NEW u \in running PROVE shown'[u][log'[rcvd].key] >= rcvd
  <2>1. rcvd \in 1..Len(log) /\ u \in Topic
    BY <1>1, <1>4, RunningHasSample
  <2>2. log'[rcvd].key = log[rcvd].key /\ log[rcvd].key \in Key
    BY <1>1, <2>1, LogStays
  <2>3. stage'[u] # "absent"
    BY <1>1, <1>4, <2>1 DEF ThreadInv, TypeOK
  <2>4. shown'[u][log[rcvd].key] >= shown[u][log[rcvd].key]
    BY <2>1, <2>2, <2>3, StepForward
  <2>5. shown'[u][log[rcvd].key] \in Nat /\ shown[u][log[rcvd].key] \in Nat
    BY <1>1, <2>1, <2>2, ShownIsNat
  <2>6. shown[u][log[rcvd].key] >= rcvd
    BY <1>4 DEF LossInv
  <2> QED
    BY <2>1, <2>2, <2>4, <2>5, <2>6
<1>5. \A u \in declared' : u \in Topic
  BY <1>1 DEF TypeOK
<1> QED
  BY <1>2, <1>3, <1>4, <1>5 DEF LossInv

LEMMA LossApi ==
  ASSUME IInv, LossInv, [Next]_vars, NEW t \in Topic,
         Subscribe(t) \/ Unsubscribe(t) \/ ApiContinues(t) \/ OnceSeen(t)
  PROVE  LossInv'
<1>i. TypeOK /\ ThreadInv
  BY DEF IInv
<1>t. /\ stage \in [Topic -> Stage] /\ once \in [Topic -> BOOLEAN]
      /\ covered \in [Topic -> 0..Len(log)] /\ liveFrom \in [Topic -> 0..Len(log)]
  BY <1>i DEF TypeOK
<1>o. stage[t] \notin {"absent", "subscribed"}
        => \A u \in Topic \ {t} : stage[u] \in {"absent", "subscribed"}
  BY <1>i DEF ThreadInv
<1>u. t \in declared \/ t \in running => stage[t] # "absent"
  BY <1>i DEF ThreadInv, TypeOK
<1>w. once[t] => stage[t] \in {"subscribed", "leaving"}
  BY <1>i DEF ThreadInv, OnceWritten
<1>1. CASE Subscribe(t)
  BY <1>1, <1>t, <1>u, LossOthersStay DEF Subscribe, ApiIdle
<1>2. CASE Unsubscribe(t)
  <2>1. ReplayDue(t)'
    BY <1>2, <1>t, ReplayDueStays DEF Unsubscribe, LossInv
  <2> QED
    BY <1>2, <1>t, <2>1, LossOthersStay DEF Unsubscribe, ApiIdle
<1>3. CASE Get(t)
  BY <1>3, <1>t, <1>o, <1>w, LossOthersStay DEF Get
<1>4. CASE GetReturns(t)
  <2>1. stage[t] = "asking" /\ stage' = [stage EXCEPT ![t] = "replaying"]
        /\ UNCHANGED <<log, replies, shown>>
    BY <1>4 DEF GetReturns
  <2>2. ReplayDue(t)'
    <3>1. CASE query = "complete"
      <4>1. replies = Answer(t) /\ covered'[t] = snap
        BY <1>4, <1>t, <2>1, <3>1 DEF GetReturns, LossInv
      <4>2. Held(covered[t])' = Held(snap)
        BY <2>1, <4>1 DEF Held
      <4> QED
        BY <1>t, <2>1, <4>1, <4>2 DEF ReplayDue, Answer
    <3>2. CASE query # "complete"
      <4>1. covered'[t] = 0
        BY <1>4, <1>t, <3>2 DEF GetReturns
      <4>2. Held(covered[t])' = {}
        BY <4>1 DEF Held
      <4> QED
        BY <4>2 DEF ReplayDue
    <3> QED
      BY <3>1, <3>2
  <2> QED
    BY <1>4, <1>t, <1>o, <1>w, <2>1, <2>2, LossOthersStay DEF GetReturns
<1>5. ASSUME NEW i \in replies, ReplayStarts(t, i) PROVE LossInv'
  <2>1. i \in 1..Len(log) /\ Present(t, i)
    BY <1>5, <1>i, ReplayIndex
  <2>2. shown'[t][log[i].key] >= i
    BY <2>1, <1>i, PresentEffect
  <2>3. ReplayDue(t)'
    BY <1>5, <1>t, <2>2, ReplayDueStays DEF ReplayStarts, LossInv
  <2> QED
    BY <1>5, <1>t, <1>o, <1>w, <2>3, LossOthersStay DEF ReplayStarts
<1>6. CASE ReplayReturns(t)
  <2>1. ReplayDue(t)'
    BY <1>6, <1>t, ReplayDueStays DEF ReplayReturns, LossInv
  <2> QED
    BY <1>6, <1>t, <1>o, <1>w, <2>1, LossOthersStay DEF ReplayReturns
<1>7. CASE SetOnce(t)
  <2>1. ReplayDue(t)'
    BY <1>7, <1>t, ReplayDueStays DEF SetOnce, LossInv
  <2> QED
    BY <1>7, <1>t, <1>o, <1>w, <2>1, LossOthersStay DEF SetOnce
<1>8. CASE EraseEntry(t)
  <2>1. t \notin declared /\ t \notin running
    BY <1>8, <1>i DEF EraseEntry, ThreadInv, TypeOK
  <2> QED
    BY <1>8, <1>t, <1>o, <2>1, LossOthersStay DEF EraseEntry
<1>9. CASE OnceSeen(t)
  <2>1. /\ UNCHANGED <<log, forwarded, snap, stage, replies, covered, query, declared>>
        /\ UNCHANGED <<rcvd, pending, running, shown>>
        /\ once' = [once EXCEPT ![t] = TRUE] /\ liveFrom' = [liveFrom EXCEPT ![t] = rcvd]
    BY <1>9 DEF OnceSeen
  <2>2. \A u \in Topic : ReplayDue(u)' = ReplayDue(u) /\ Answer(u)' = Answer(u)
    BY <2>1 DEF ReplayDue, Answer, Held
  <2>3. \A u \in Topic \ {t} : LiveDue(u)' = LiveDue(u) /\ once'[u] = once[u]
    BY <1>t, <2>1 DEF LiveDue
  <2>4. LiveDue(t)'
    <3>1. liveFrom'[t] = rcvd /\ rcvd' = rcvd /\ rcvd \in Nat /\ forwarded' \subseteq Nat
      BY <1>t, <1>i, <2>1 DEF TypeOK
    <3> QED
      BY <3>1 DEF LiveDue
  <2>5. declared \subseteq Topic
    BY <1>i DEF TypeOK
  <2> QED
    BY <2>1, <2>2, <2>3, <2>4, <2>5 DEF LossInv
<1> QED
  BY <1>1, <1>2, <1>3, <1>4, <1>5, <1>6, <1>7, <1>8, <1>9 DEF ApiContinues

LEMMA LossRx ==
  ASSUME IInv, LossInv, [Next]_vars,
         RxReceives \/ \E t \in Topic : RxDispatches(t)
  PROVE  LossInv'
<1>i. TypeOK /\ TypeOK' /\ ThreadInv
  BY InvNext DEF IInv
<1>d. \A u \in declared : u \in Topic /\ stage[u] # "absent"
  BY <1>i DEF TypeOK, ThreadInv
<1>1. CASE RxTake
  <2>1. /\ pending = {} /\ running = {} /\ rcvd' = rcvd + 1 /\ rcvd \in Nat
        /\ pending' = IF rcvd + 1 \in forwarded
                         THEN {t \in declared : log[rcvd + 1].key \in Match[t]}
                         ELSE {}
        /\ UNCHANGED <<log, forwarded, snap, stage, replies, covered, query, declared>>
        /\ UNCHANGED <<running, once, liveFrom, shown>>
    BY <1>1, <1>i DEF RxTake, RxIdle, TypeOK
  <2>2. \A u \in Topic : ReplayDue(u)' = ReplayDue(u) /\ Answer(u)' = Answer(u)
    BY <2>1 DEF ReplayDue, Answer, Held
  <2>3. ASSUME NEW u \in declared, LiveDue(u) PROVE LiveDue(u)'
    <3> SUFFICES ASSUME NEW j \in forwarded, liveFrom[u] < j, j <= rcvd + 1,
                        log[j].key \in Match[u]
                 PROVE  \/ j = rcvd + 1 /\ u \in pending'
                        \/ shown[u][log[j].key] >= j
      BY <2>1 DEF LiveDue
    <3>1. CASE j = rcvd + 1
      BY <2>1, <3>1
    <3>2. CASE j <= rcvd
      BY <2>1, <2>3, <3>2 DEF LiveDue
    <3>3. j \in Nat
      BY <1>i DEF TypeOK
    <3> QED
      BY <2>1, <3>1, <3>2, <3>3
  <2> QED
    BY <2>1, <2>2, <2>3 DEF LossInv
<1>2. ASSUME NEW t \in Topic, NEW i \in Answer(t), RxReply(t, i) PROVE LossInv'
  <2>1. /\ query = "answered" /\ stage[t] = "asking"
        /\ UNCHANGED <<log, forwarded, stage, covered, query, declared>>
        /\ UNCHANGED <<rcvd, pending, running, once, liveFrom, shown>>
    BY <1>2 DEF RxReply
  <2>2. ASSUME NEW u \in Topic,
               stage[u] \in {"replaying", "calling", "subscribed", "leaving"}
        PROVE  ReplayDue(u)'
    <3>1. stage[u] \notin {"replaying", "calling"}
      BY <1>i, <2>1 DEF ThreadInv
    <3> QED
      BY <2>1, <2>2, <3>1, ReplayDueStays DEF LossInv
  <2>3. \A u \in Topic : LiveDue(u)' = LiveDue(u)
    BY <2>1 DEF LiveDue
  <2> QED
    BY <1>d, <2>1, <2>2, <2>3 DEF LossInv
<1>3. ASSUME NEW t \in Topic, RxFinal(t) PROVE LossInv'
  <2>1. /\ stage[t] = "asking" /\ replies = Answer(t)
        /\ UNCHANGED <<log, forwarded, snap, stage, replies, covered, declared>>
        /\ UNCHANGED <<rcvd, pending, running, once, liveFrom, shown>>
    BY <1>3 DEF RxFinal
  <2>2. \A u \in Topic :
           ReplayDue(u)' = ReplayDue(u) /\ LiveDue(u)' = LiveDue(u) /\ Answer(u)' = Answer(u)
    BY <2>1 DEF ReplayDue, LiveDue, Answer, Held
  <2>3. \A u \in Topic : stage[u] = "asking" => u = t
    BY <1>i, <2>1 DEF ThreadInv
  <2> QED
    BY <1>d, <2>1, <2>2, <2>3 DEF LossInv
<1>4. ASSUME NEW t \in Topic, RxDispatches(t) PROVE LossInv'
  <2>1. /\ UNCHANGED <<log, forwarded, snap, stage, replies, covered, query, declared>>
        /\ UNCHANGED <<rcvd, once, liveFrom>>
    BY <1>4 DEF RxDispatches, CallbackDrops, CallbackStarts, CallbackReturns
  <2>2. t \in pending' \/ ~once[t] \/ shown'[t][log[rcvd].key] >= rcvd
    <3>1. CASE CallbackDrops(t)
      BY <3>1 DEF CallbackDrops
    <3>2. CASE CallbackStarts(t)
      BY <3>2 DEF CallbackStarts
    <3>3. CASE CallbackReturns(t)
      BY <3>3 DEF CallbackReturns, LossInv
    <3> QED
      BY <1>4, <3>1, <3>2, <3>3 DEF RxDispatches
  <2>3. \A u \in pending : u \in pending' \/ u = t
    BY <1>4 DEF RxDispatches, CallbackDrops, CallbackStarts, CallbackReturns
  <2>4. ASSUME NEW u \in Topic,
               stage[u] \in {"replaying", "calling", "subscribed", "leaving"}
        PROVE  ReplayDue(u)'
    BY <2>1, <2>4, ReplayDueStays DEF LossInv
  <2>5. ASSUME NEW u \in declared, once[u] PROVE LiveDue(u)'
    BY <1>d, <2>1, <2>2, <2>3, <2>5, LiveDueStays DEF LossInv
  <2>6. ASSUME NEW u \in running' PROVE shown'[u][log[rcvd].key] >= rcvd
    <3>1. CASE CallbackDrops(t)
      BY <2>6, <3>1 DEF CallbackDrops
    <3>2. CASE CallbackStarts(t)
      <4>1. u = t /\ rcvd \in 1..Len(log) /\ Present(t, rcvd)
        BY <1>i, <2>6, <3>2, CallbackIndex DEF CallbackStarts
      <4> QED
        BY <1>i, <4>1, PresentEffect
    <3>3. CASE CallbackReturns(t)
      BY <2>6, <3>3 DEF CallbackReturns
    <3> QED
      BY <1>4, <3>1, <3>2, <3>3 DEF RxDispatches
  <2>7. Held(snap)' = Held(snap)
    BY <2>1 DEF Held
  <2> QED
    BY <2>1, <2>4, <2>5, <2>6, <2>7 DEF LossInv, Answer
<1>5. RxReceives
        => RxTake \/ \E t \in Topic : (\E i \in Answer(t) : RxReply(t, i)) \/ RxFinal(t)
  BY DEF RxReceives
<1> QED
  BY <1>1, <1>2, <1>3, <1>4, <1>5

LEMMA LossNext == IInv /\ LossInv /\ [Next]_vars => LossInv'
<1> SUFFICES ASSUME IInv, LossInv, [Next]_vars PROVE LossInv'
  OBVIOUS
<1>i. TypeOK
  BY DEF IInv
<1>1. CASE UNCHANGED vars
  BY <1>1, LossStays DEF vars
<1>2. CASE Forward
  <2>1. \A j \in forwarded' : j <= rcvd => j \in forwarded
    BY <1>2, <1>i DEF Forward, TypeOK
  <2> QED
    BY <1>2, <2>1, LossStays DEF Forward
<1>3. CASE Network /\ ~Forward
  BY <1>3, LossStays
  DEF Network, Publish, Store, RouterHears, RouterAnswers, LinkDrop
<1>4. CASE QueryTimeout
  BY <1>4, LossStays DEF QueryTimeout
<1> QED
  BY <1>1, <1>2, <1>3, <1>4, LossApi, LossRx DEF Next

(* The gap is the only loss: what the storage held when it answered, and   *)
(* what came over the link after _once was seen, has been shown by a live  *)
(* subscription at the latest when the RX thread is between two samples,   *)
(* or something newer of that key was.                                     *)
THEOREM OnlyGapLost == Spec => []OnlyTheGapIsLost
<1>1. IInv /\ LossInv => OnlyTheGapIsLost
  <2> SUFFICES ASSUME IInv, LossInv, NEW t \in declared, RxIdle, once[t], NEW i \in Owed(t)
               PROVE  shown[t][log[i].key] >= i
    BY DEF OnlyTheGapIsLost
  <2>1. t \in Topic /\ stage[t] \in {"subscribed", "leaving"}
    BY DEF IInv, TypeOK, ThreadInv, OnceWritten
  <2>2. ReplayDue(t) /\ LiveDue(t)
    BY <2>1 DEF LossInv
  <2> QED
    BY <2>1, <2>2 DEF ReplayDue, LiveDue, Owed, RxIdle
<1>2. Spec => []LossInv
  BY InvCorrect, LossInit, LossNext, PTL DEF Spec
<1> QED
  BY <1>1, <1>2, InvCorrect, PTL

-----------------------------------------------------------------------------
(* Subscription implements Feed. *)

(* A step that changes nothing that Feed can see. *)
LEMMA FeedStays ==
  UNCHANGED <<stage, once, running, shown>> => UNCHANGED F!vars
  BY DEF F!vars, phaseOf, busyOf

(* The call moves on for topic t, in a way that Feed does not see. *)
LEMMA FeedStageStays ==
  ASSUME TypeOK, NEW t \in Topic, NEW s \in Stage \ {"absent", "calling"},
         stage[t] \notin {"absent", "calling"},
         stage' = [stage EXCEPT ![t] = s],
         UNCHANGED <<once, running, shown>>
  PROVE  UNCHANGED F!vars
<1>1. stage \in [Topic -> Stage]
  BY DEF TypeOK
<1>2. phaseOf' = phaseOf
  BY <1>1 DEF phaseOf
<1>3. busyOf' = busyOf
  BY <1>1 DEF busyOf
<1> QED
  BY <1>2, <1>3 DEF F!vars

LEMMA FeedInit == Init => F!Init
  BY DEF Init, F!Init, phaseOf, busyOf

LEMMA FeedApi ==
  ASSUME IInv, NEW t \in Topic,
         Subscribe(t) \/ Unsubscribe(t) \/ ApiContinues(t) \/ OnceSeen(t)
  PROVE  [F!Next]_F!vars
<1>t. TypeOK /\ ThreadInv
  BY DEF IInv
<1>s. stage \in [Topic -> Stage] /\ once \in [Topic -> BOOLEAN]
  BY <1>t DEF TypeOK
<1>r. \A u \in running : once[u] /\ OnceWritten(u)
  BY <1>t DEF ThreadInv, TypeOK
<1>1. CASE Subscribe(t)
  <2>1. /\ stage[t] = "absent" /\ stage' = [stage EXCEPT ![t] = "declared"]
        /\ once' = [once EXCEPT ![t] = FALSE]
        /\ UNCHANGED <<running, shown>>
    BY <1>1 DEF Subscribe
  <2>2. phaseOf[t] = "off" /\ phaseOf' = [phaseOf EXCEPT ![t] = "replay"]
    BY <1>s, <2>1 DEF phaseOf
  <2>3. busyOf' = busyOf
    BY <1>s, <2>1 DEF busyOf
  <2>4. F!Open(t)
    BY <2>1, <2>2, <2>3 DEF F!Open
  <2> QED
    BY <2>4 DEF F!Next
<1>2. CASE Unsubscribe(t)
  BY <1>2, <1>t, FeedStageStays DEF Unsubscribe, Stage
<1>3. CASE Get(t)
  BY <1>3, <1>t, FeedStageStays DEF Get, Stage
<1>4. CASE GetReturns(t)
  BY <1>4, <1>t, FeedStageStays DEF GetReturns, Stage
<1>5. ASSUME NEW i \in replies, ReplayStarts(t, i) PROVE [F!Next]_F!vars
  <2> DEFINE k == log[i].key
  <2>1. i \in 1..Len(log) /\ Present(t, i)
    BY <1>5, <1>t, ReplayIndex
  <2>2. k \in Key /\ i \in 1..MaxPuts
    BY <2>1, <1>t, PresentEffect, BoundAssumption DEF TypeOK
  <2>3. stage[t] = "replaying" /\ stage' = [stage EXCEPT ![t] = "calling"]
        /\ UNCHANGED <<once, running>>
    BY <1>5 DEF ReplayStarts
  <2>4. ~once[t] /\ t \notin running
    BY <2>3, <1>t, <1>r DEF ThreadInv, OnceWritten
  <2>5. phaseOf[t] = "replay" /\ phaseOf' = phaseOf
    BY <1>s, <2>3, <2>4 DEF phaseOf
  <2>6. ~busyOf[t] /\ busyOf' = [busyOf EXCEPT ![t] = TRUE]
    BY <1>s, <2>3, <2>4 DEF busyOf
  <2>7. shown[t][k] = 0
    BY <1>5, ReplayIsFirst
  <2>8. i >= shown[t][k]
    BY <2>1, <2>7
  <2>9. shown' = [shown EXCEPT ![t][k] = i]
    BY <2>1 DEF Present
  <2>10. F!Show(t, k, i)
    BY <2>5, <2>6, <2>7, <2>8, <2>9 DEF F!Show
  <2> QED
    BY <2>2, <2>10 DEF F!Next
<1>6. CASE ReplayReturns(t)
  <2>1. stage[t] = "calling" /\ stage' = [stage EXCEPT ![t] = "replaying"]
        /\ UNCHANGED <<once, running, shown>>
    BY <1>6 DEF ReplayReturns
  <2>2. t \notin running
    BY <2>1, <1>r DEF OnceWritten
  <2>3. phaseOf' = phaseOf
    BY <1>s, <2>1 DEF phaseOf
  <2>4. busyOf[t] /\ busyOf' = [busyOf EXCEPT ![t] = FALSE]
    BY <1>s, <2>1, <2>2 DEF busyOf
  <2>5. F!EndShow(t)
    BY <2>1, <2>3, <2>4 DEF F!EndShow
  <2> QED
    BY <2>5 DEF F!Next
<1>7. CASE SetOnce(t)
  BY <1>7, <1>t, FeedStageStays DEF SetOnce, Stage
<1>8. CASE EraseEntry(t)
  <2>1. /\ stage[t] = "leaving" /\ stage' = [stage EXCEPT ![t] = "absent"]
        /\ once' = [once EXCEPT ![t] = FALSE]
        /\ shown' = [shown EXCEPT ![t] = [k \in Key |-> 0]]
        /\ UNCHANGED running
    BY <1>8 DEF EraseEntry
  <2>2. t \notin running
    BY <1>8, <1>t DEF EraseEntry, TypeOK
  <2>3. phaseOf[t] # "off" /\ phaseOf' = [phaseOf EXCEPT ![t] = "off"]
    BY <1>s, <2>1 DEF phaseOf
  <2>4. ~busyOf[t] /\ busyOf' = busyOf
    BY <1>s, <2>1, <2>2 DEF busyOf
  <2>5. F!Close(t)
    BY <2>1, <2>3, <2>4 DEF F!Close
  <2> QED
    BY <2>5 DEF F!Next
<1>9. CASE OnceSeen(t)
  <2>1. /\ stage[t] \in {"subscribed", "leaving"} /\ ~once[t]
        /\ once' = [once EXCEPT ![t] = TRUE]
        /\ UNCHANGED <<stage, running, shown>>
    BY <1>9 DEF OnceSeen, OnceWritten
  <2>2. t \notin running
    BY <2>1, <1>r
  <2>3. phaseOf[t] = "replay" /\ phaseOf' = [phaseOf EXCEPT ![t] = "live"]
    BY <1>s, <2>1 DEF phaseOf
  <2>4. ~busyOf[t] /\ busyOf' = busyOf
    BY <1>s, <2>1, <2>2 DEF busyOf
  <2>5. F!GoLive(t)
    BY <2>1, <2>3, <2>4 DEF F!GoLive
  <2> QED
    BY <2>5 DEF F!Next
<1> QED
  BY <1>1, <1>2, <1>3, <1>4, <1>5, <1>6, <1>7, <1>8, <1>9 DEF ApiContinues

LEMMA FeedRx ==
  ASSUME IInv, NEW t \in Topic, RxDispatches(t)
  PROVE  [F!Next]_F!vars
<1>t. TypeOK /\ ThreadInv
  BY DEF IInv
<1>1. CASE CallbackDrops(t)
  BY <1>1, FeedStays DEF CallbackDrops
<1>2. CASE CallbackStarts(t)
  <2> DEFINE k == log[rcvd].key
  <2>1. rcvd \in 1..Len(log) /\ Present(t, rcvd)
    BY <1>2, <1>t, CallbackIndex
  <2>2. k \in Key /\ rcvd \in 1..MaxPuts
    BY <2>1, <1>t, PresentEffect, BoundAssumption DEF TypeOK
  <2>3. running = {} /\ running' = {t} /\ once[t] /\ UNCHANGED <<stage, once>>
    BY <1>2 DEF CallbackStarts
  <2>4. stage[t] \in {"subscribed", "leaving"}
    BY <2>3, <1>t DEF ThreadInv, OnceWritten
  <2>5. phaseOf[t] = "live" /\ phaseOf' = phaseOf
    BY <2>3, <2>4 DEF phaseOf
  <2>6. ~busyOf[t] /\ busyOf' = [busyOf EXCEPT ![t] = TRUE]
    BY <2>3, <2>4 DEF busyOf
  <2>7. shown[t][k] <= rcvd
    BY <1>2, <2>2, SampleIsNewest
  <2>8. rcvd >= shown[t][k]
    BY <2>1, <2>2, <2>7, <1>t DEF TypeOK
  <2>9. shown' = [shown EXCEPT ![t][k] = rcvd]
    BY <2>1 DEF Present
  <2>10. F!Show(t, k, rcvd)
    BY <2>5, <2>6, <2>8, <2>9 DEF F!Show
  <2> QED
    BY <2>2, <2>10 DEF F!Next
<1>3. CASE CallbackReturns(t)
  <2>1. t \in running /\ running' = {} /\ UNCHANGED <<stage, once, shown>>
    BY <1>3 DEF CallbackReturns
  <2>2. running = {t} /\ stage[t] # "calling"
    BY <2>1, <1>t DEF ThreadInv, OnceWritten
  <2>3. phaseOf' = phaseOf
    BY <2>1 DEF phaseOf
  <2>4. busyOf[t] /\ busyOf' = [busyOf EXCEPT ![t] = FALSE]
    BY <2>1, <2>2 DEF busyOf
  <2>5. F!EndShow(t)
    BY <2>1, <2>3, <2>4 DEF F!EndShow
  <2> QED
    BY <2>5 DEF F!Next
<1> QED
  BY <1>1, <1>2, <1>3 DEF RxDispatches

LEMMA FeedNext == IInv /\ [Next]_vars => [F!Next]_F!vars
<1> SUFFICES ASSUME IInv, [Next]_vars PROVE [F!Next]_F!vars
  OBVIOUS
<1>1. CASE UNCHANGED vars
  BY <1>1, FeedStays DEF vars
<1>2. CASE Network
  BY <1>2, FeedStays
  DEF Network, Publish, Forward, Store, RouterHears, RouterAnswers, LinkDrop
<1>3. CASE RxReceives \/ QueryTimeout
  BY <1>3, FeedStays DEF RxReceives, RxTake, RxReply, RxFinal, QueryTimeout
<1> QED
  BY <1>1, <1>2, <1>3, FeedApi, FeedRx DEF Next

(* Every behaviour of the two threads, the session, the router and the     *)
(* link looks to the application like a behaviour of Feed.                 *)
THEOREM ImplementsFeed == Spec => FeedSpec
  BY FeedInit, FeedNext, InvCorrect, PTL DEF Spec, FeedSpec, F!Spec
=============================================================================
