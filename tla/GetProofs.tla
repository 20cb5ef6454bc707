------------------------------ MODULE GetProofs ------------------------------
(***************************************************************************)
(* Get for channels of any capacity, answers of any length and any number  *)
(* of queries and samples: its types, that get() collects the beginning of *)
(* the answer to its own query in order, and which replies it releases.    *)
(***************************************************************************)
EXTENDS Get, SequenceTheorems, TLAPS

USE DEF callerVars, sessionVars, routerVars, historyVars

-----------------------------------------------------------------------------
(* The inductive invariant. *)

(* The replies of the router, as they are on the link and with the session, *)
(* and what the timer makes in their place.                                 *)
Genuine(r) ==
    /\ r \in Reply
    /\ r.nr \in 1..Len(sent[r.query])
    /\ r.kind = sent[r.query][r.nr]

FromTimer(r) == r \in Reply /\ r.nr = 0 /\ r.kind = "error"

(* Every reply is one of these. Only what is admin was skipped. *)
DataInv ==
    /\ \A i \in 1..Len(net) : net[i] \in Reply => Genuine(net[i])
    /\ \A r \in hand["rx"] : Genuine(r)
    /\ \A r \in hand["timer"] : FromTimer(r)
    /\ \A q \in Query : \A i \in 1..Len(chan[q]) :
          /\ chan[q][i].query = q
          /\ Genuine(chan[q][i]) \/ FromTimer(chan[q][i])
    /\ \A r \in freed : (Genuine(r) \/ FromTimer(r)) /\ r.kind # "admin"
    /\ \A r \in leaked : Genuine(r) /\ r.kind = "admin"

(* The life of a query: who may still add to its channel. *)
LifeInv ==
    /\ \A t \in Thread : at[t] \in 0..started
    /\ \A x \in Carrier : \A r, s \in hand[x] : r = s
    /\ \A x \in Carrier : \A r \in hand[x] : r.query \in receivers
    /\ open \subseteq receivers /\ open \cap cut = {}
    /\ \A q \in returned : q <= started /\ q \notin receivers /\ chan[q] = <<>>
    /\ \A q \in Query : q > started => sent[q] = <<>>

(* The final message of a query is behind its replies. *)
FinalInv ==
    /\ \A i, j \in 1..Len(net) : \A q \in Query :
          net[i] = Final(q) /\ net[j] \in Reply /\ net[j].query = q => j < i
    /\ \A i \in 1..Len(net) : \A q \in Query :
          net[i] = Final(q) => q \in (1..started) \ answering
    /\ \A q \in 1..started : q \notin open \cup cut =>
          /\ q \notin answering
          /\ \A i \in 1..Len(net) : net[i] \in Reply => net[i].query # q

(* Where the n-th reply to q is. *)
OnLink(q, n) == \E i \in 1..Len(net) : net[i] \in Reply /\ net[i].query = q /\ net[i].nr = n
InHand(q, n) == \E r \in hand["rx"] : r.query = q /\ r.nr = n
InChan(q, n) == \E i \in 1..Len(chan[q]) : chan[q][i].nr = n
Dropped(q, n) == \E r \in freed \cup leaked : r.query = q /\ r.nr = n
Taken(q, n) == InHand(q, n) \/ InChan(q, n) \/ Dropped(q, n)

Number == Nat \ {0}

(* The replies to a query are on their way in one row. *)
LinkRow ==
    \A i, j \in 1..Len(net) :
       net[i] \in Reply /\ net[j] \in Reply /\ net[i].query = net[j].query /\ i < j
          => net[i].nr < net[j].nr

ChanRow ==
    \A q \in Query : \A i, j \in 1..Len(chan[q]) :
       i < j /\ chan[q][i].nr # 0 /\ chan[q][j].nr # 0 => chan[q][i].nr < chan[q][j].nr

Ahead ==
    \A q \in Query : \A m, n \in Number :
       /\ Dropped(q, m) /\ InChan(q, n) => m < n
       /\ Dropped(q, m) /\ InHand(q, n) => m < n
       /\ InChan(q, m) /\ InHand(q, n) => m < n
       /\ Taken(q, m) /\ OnLink(q, n) => m < n

RowInv == LinkRow /\ ChanRow /\ Ahead

(* No reply is missing from the row, but for those of a query that was cut *)
(* off that come behind the last one taken.                                *)
WholeInv ==
    \A q \in Query : \A n \in Number :
       /\ \A m \in Number : Taken(q, n) /\ m < n => Taken(q, m)
       /\ q \notin cut /\ n <= Len(sent[q]) => Taken(q, n) \/ OnLink(q, n)

(* What get() keeps is the values among what it dropped, in order. *)
KeptInv ==
    \A q \in Query :
       /\ \A i, j \in 1..Len(vars[q]) : i < j => vars[q][i] < vars[q][j]
       /\ \A n \in Number :
             n \in Collected(q) <=> Dropped(q, n) /\ sent[q][n] = "value"

IInv == TypeOK /\ DataInv /\ LifeInv /\ FinalInv /\ RowInv /\ WholeInv /\ KeptInv

-----------------------------------------------------------------------------
(* Messages and sequences of them. *)

(* A message is of one form only. *)
LEMMA Forms ==
  ASSUME NEW r \in Reply, NEW q, NEW p, NEW n
  PROVE  r # Final(q) /\ r # Sample(n) /\ Final(q) # Sample(n)
         /\ (Final(q) = Final(p) => q = p)
<1>1. DOMAIN r = {"query", "kind", "nr"} /\ DOMAIN Final(q) = {"final"}
      /\ DOMAIN Sample(n) = {"sample"}
  BY DEF Reply, Final, Sample
<1>2. Final(q).final = q /\ Final(p).final = p
  BY DEF Final
<1> QED
  BY <1>1, <1>2

LEMMA ReplyFields ==
  ASSUME NEW r \in Reply
  PROVE  /\ r.query \in Query /\ r.kind \in Kind /\ r.nr \in 0..Len(Answers)
         /\ r = [query |-> r.query, kind |-> r.kind, nr |-> r.nr]
  BY DEF Reply

(* One message is taken off the front or put at the end. *)
LEMMA FrontAndEnd ==
  ASSUME NEW S, NEW s \in Seq(S)
  PROVE  /\ Len(s) \in Nat
         /\ s # <<>> => /\ Head(s) \in S /\ Head(s) = s[1] /\ 1 \in 1..Len(s)
                        /\ Tail(s) \in Seq(S) /\ Len(Tail(s)) = Len(s) - 1
                        /\ \A i \in 1..Len(Tail(s)) : Tail(s)[i] = s[i + 1] /\ i + 1 \in 1..Len(s)
                        /\ \A i \in 1..Len(s) : i = 1 \/ (i - 1 \in 1..Len(Tail(s)) /\ s[i] = Tail(s)[i - 1])
         /\ \A e \in S : /\ Append(s, e) \in Seq(S) /\ Len(Append(s, e)) = Len(s) + 1
                         /\ Append(s, e)[Len(s) + 1] = e
                         /\ \A i \in 1..Len(s) : Append(s, e)[i] = s[i]
                         /\ \A i \in 1..Len(Append(s, e)) : i \in 1..Len(s) \/ i = Len(s) + 1
<1>1. Len(s) \in Nat
  BY LenProperties
<1>2. ASSUME s # <<>>
      PROVE  /\ Head(s) \in S /\ Head(s) = s[1] /\ 1 \in 1..Len(s)
             /\ Tail(s) \in Seq(S) /\ Len(Tail(s)) = Len(s) - 1
             /\ \A i \in 1..Len(Tail(s)) : Tail(s)[i] = s[i + 1] /\ i + 1 \in 1..Len(s)
             /\ \A i \in 1..Len(s) : i = 1 \/ (i - 1 \in 1..Len(Tail(s)) /\ s[i] = Tail(s)[i - 1])
  <2>1. /\ Head(s) \in S /\ Head(s) = s[1] /\ Len(s) >= 1
        /\ Tail(s) \in Seq(S) /\ Len(Tail(s)) = Len(s) - 1
        /\ \A i \in 1..Len(Tail(s)) : Tail(s)[i] = s[i + 1]
    BY <1>1, <1>2, HeadTailProperties, EmptySeq
  <2>2. \A i \in 1..Len(s) : i = 1 \/ i - 1 \in 1..Len(Tail(s))
    BY <1>1, <2>1
  <2>3. \A i \in 1..Len(s) : i = 1 \/ s[i] = Tail(s)[i - 1]
    BY <2>1, <2>2
  <2> QED
    BY <1>1, <2>1, <2>2, <2>3
<1>3. ASSUME NEW e \in S
      PROVE  /\ Append(s, e) \in Seq(S) /\ Len(Append(s, e)) = Len(s) + 1
             /\ Append(s, e)[Len(s) + 1] = e
             /\ \A i \in 1..Len(s) : Append(s, e)[i] = s[i]
             /\ \A i \in 1..Len(Append(s, e)) : i \in 1..Len(s) \/ i = Len(s) + 1
  BY <1>1, AppendProperties
<1> QED
  BY <1>1, <1>2, <1>3

-----------------------------------------------------------------------------
(* Types, and where replies come from. *)

LEMMA TypeInit == Init => TypeOK
<1> SUFFICES ASSUME Init PROVE TypeOK
  OBVIOUS
<1>1. /\ <<>> \in Seq(Message) /\ <<>> \in Seq(Reply) /\ <<>> \in Seq(Kind)
      /\ <<>> \in Seq(1..Len(Answers)) /\ Len(<<>>) = 0
  BY EmptySeq
<1>2. /\ vars \in [Query -> Seq(1..Len(Answers))] /\ chan \in [Query -> Seq(Reply)]
      /\ \A q \in Query : Len(chan[q]) <= Capacity
      /\ net \in Seq(Message) /\ sent \in [Query -> Seq(Kind)]
  BY <1>1, CapacityAssumption DEF Init
<1>3. /\ at \in [Thread -> Query \cup {NoQuery}]
      /\ started \in 0..MaxGets /\ samples \in 0..MaxSamples /\ shown \in 0..samples
      /\ hand \in [Carrier -> SUBSET Reply]
  BY BoundAssumption DEF Init
<1> QED
  BY <1>2, <1>3 DEF Init, TypeOK

LEMMA DataInit == Init => DataInv
  BY EmptySeq DEF Init, DataInv, Carrier

(* The reply that get() takes, and the one that goes into a channel. *)
LEMMA TakenReply ==
  ASSUME TypeOK, DataInv, NEW q \in Query, chan[q] # <<>>
  PROVE  /\ Head(chan[q]) \in Reply /\ Head(chan[q]).query = q
         /\ (Genuine(Head(chan[q])) \/ FromTimer(Head(chan[q])))
         /\ Tail(chan[q]) \in Seq(Reply) /\ Len(Tail(chan[q])) <= Capacity
<1>1. chan[q] \in Seq(Reply) /\ Len(chan[q]) <= Capacity
  BY DEF TypeOK
<1>2. Head(chan[q]) \in Reply /\ Head(chan[q]) = chan[q][1] /\ 1 \in 1..Len(chan[q])
      /\ Tail(chan[q]) \in Seq(Reply) /\ Len(Tail(chan[q])) = Len(chan[q]) - 1
      /\ Len(chan[q]) \in Nat
  BY <1>1, FrontAndEnd
<1> QED
  BY <1>1, <1>2, CapacityAssumption DEF DataInv

(* The router adds to what it has written, and changes nothing of it. *)
LEMMA SentGrows ==
  ASSUME TypeOK, [Next]_allVars
  PROVE  \A q \in Query :
            /\ Len(sent[q]) \in Nat /\ Len(sent'[q]) \in Nat /\ Len(sent[q]) <= Len(sent'[q])
            /\ \A n \in 1..Len(sent[q]) : sent'[q][n] = sent[q][n]
<1>1. sent \in [Query -> Seq(Kind)]
  BY DEF TypeOK
<1>2. \A q \in Query : Len(sent[q]) \in Nat
  BY <1>1
<1>3. CASE UNCHANGED sent
  BY <1>2, <1>3
<1>4. ASSUME NEW p \in Query, NEW kind \in Kind, RouterReplies(p, kind)
      PROVE  \A q \in Query :
                /\ Len(sent'[q]) \in Nat /\ Len(sent[q]) <= Len(sent'[q])
                /\ \A n \in 1..Len(sent[q]) : sent'[q][n] = sent[q][n]
  <2>1. sent' = [sent EXCEPT ![p] = Append(sent[p], kind)]
    BY <1>4 DEF RouterReplies
  <2>2. \A q \in Query : sent'[q] = IF q = p THEN Append(sent[p], kind) ELSE sent[q]
    BY <1>1, <2>1
  <2>3. /\ Len(Append(sent[p], kind)) = Len(sent[p]) + 1
        /\ \A n \in 1..Len(sent[p]) : Append(sent[p], kind)[n] = sent[p][n]
    BY <1>1, AppendProperties
  <2> SUFFICES ASSUME NEW q \in Query
               PROVE  /\ Len(sent'[q]) \in Nat /\ Len(sent[q]) <= Len(sent'[q])
                      /\ \A n \in 1..Len(sent[q]) : sent'[q][n] = sent[q][n]
    OBVIOUS
  <2>4. CASE q = p
    <3>1. sent'[p] = Append(sent[p], kind)
      BY <2>2
    <3>2. /\ Len(sent'[p]) = Len(sent[p]) + 1
          /\ \A n \in 1..Len(sent[p]) : sent'[p][n] = sent[p][n]
      BY <2>3, <3>1
    <3> QED
      BY <1>2, <2>4, <3>2
  <2>5. CASE q # p
    BY <1>2, <2>2, <2>5
  <2> QED
    BY <2>4, <2>5
<1>5. UNCHANGED sent \/ \E p \in Query, kind \in Kind : RouterReplies(p, kind)
  BY DEF Next, allVars, Ask, Receive, Return, CallbackReturns, RxTakes, Put, Timeout,
         RouterEnds, RouterSample
<1> QED
  BY <1>2, <1>3, <1>4, <1>5

LEMMA GenuineStays ==
  ASSUME TypeOK, [Next]_allVars, NEW r, Genuine(r)
  PROVE  Genuine(r)'
<1>1. r.query \in Query /\ r.nr \in Nat
  BY DEF Genuine, Reply
<1> QED
  BY <1>1, SentGrows DEF Genuine

LEMMA TypeNext == TypeOK /\ DataInv /\ [Next]_allVars => TypeOK'
<1> SUFFICES ASSUME TypeOK, DataInv, [Next]_allVars PROVE TypeOK'
  OBVIOUS
<1> USE CapacityAssumption, BoundAssumption
<1>1. CASE UNCHANGED allVars
  BY <1>1 DEF TypeOK, allVars
<1>2. ASSUME NEW t \in Thread, Ask(t) PROVE TypeOK'
  <2>1. /\ started' = started + 1 /\ started < MaxGets /\ started \in Nat
        /\ at' = [at EXCEPT ![t] = started + 1]
        /\ receivers' = receivers \cup {started + 1}
        /\ open' \subseteq open \cup {started + 1}
        /\ answering' \subseteq answering \cup {started + 1}
        /\ cut' \subseteq cut \cup {started + 1}
        /\ UNCHANGED <<inCallback, vars, returned, hand, chan>>
        /\ UNCHANGED <<net, sent, samples, shown, freed, leaked>>
    BY <1>2 DEF Ask, TypeOK
  <2>2. started + 1 \in Query /\ at' \in [Thread -> Query \cup {NoQuery}]
    BY <2>1 DEF TypeOK, Query
  <2>3. /\ started' \in 0..MaxGets /\ open' \subseteq 1..started'
        /\ receivers' \subseteq 1..started' /\ answering' \subseteq 1..started'
        /\ cut' \subseteq 1..started'
    <3>1. open \cup receivers \cup answering \cup cut \cup {started + 1} \subseteq 1..started'
      BY <2>1 DEF TypeOK
    <3> QED
      BY <2>1, <3>1
  <2>4. /\ inCallback' \in BOOLEAN /\ vars' \in [Query -> Seq(1..Len(Answers))]
        /\ returned' \subseteq Query /\ hand' \in [Carrier -> SUBSET Reply]
        /\ chan' \in [Query -> Seq(Reply)] /\ \A q \in Query : Len(chan'[q]) <= Capacity
        /\ net' \in Seq(Message) /\ sent' \in [Query -> Seq(Kind)]
        /\ samples' \in 0..MaxSamples /\ shown' \in 0..samples'
        /\ freed' \subseteq Reply /\ leaked' \subseteq Reply
    BY <2>1 DEF TypeOK
  <2> QED
    BY <2>2, <2>3, <2>4 DEF TypeOK
<1>3. ASSUME NEW t \in Thread, Receive(t) PROVE TypeOK'
  <2> DEFINE q == at[t]
             r == Head(chan[q])
  <2>1. q \in Query /\ chan[q] # <<>>
    BY <1>3 DEF Receive, TypeOK, NoQuery
  <2>2. /\ r \in Reply /\ (Genuine(r) \/ FromTimer(r))
        /\ Tail(chan[q]) \in Seq(Reply) /\ Len(Tail(chan[q])) <= Capacity
    BY <2>1, TakenReply
  <2>3. Kept(r) => r.nr \in 1..Len(Answers)
    <3>1. r.nr \in 0..Len(Answers)
      BY <2>2 DEF Reply
    <3> QED
      BY <2>2, <3>1 DEF Kept, Genuine, FromTimer
  <2>4. Kept(r) => Append(vars[q], r.nr) \in Seq(1..Len(Answers))
    BY <2>1, <2>3, AppendProperties DEF TypeOK
  <2>5. /\ vars' = [vars EXCEPT ![q] = IF Kept(r) THEN Append(vars[q], r.nr) ELSE vars[q]]
        /\ chan' = [chan EXCEPT ![q] = Tail(chan[q])]
        /\ leaked' = (IF Skipped(r) THEN leaked \cup {r} ELSE leaked)
        /\ freed' = (IF Skipped(r) THEN freed ELSE freed \cup {r})
        /\ UNCHANGED <<at, inCallback, returned, started, open, hand, receivers>>
        /\ UNCHANGED <<routerVars, shown, cut>>
    BY <1>3 DEF Receive
  <2> HIDE DEF q, r
  <2>6. vars' \in [Query -> Seq(1..Len(Answers))]
    BY <2>1, <2>4, <2>5 DEF TypeOK
  <2>7. chan' \in [Query -> Seq(Reply)] /\ \A p \in Query : Len(chan'[p]) <= Capacity
    BY <2>1, <2>2, <2>5 DEF TypeOK
  <2>8. freed' \subseteq Reply /\ leaked' \subseteq Reply
    BY <2>2, <2>5 DEF TypeOK
  <2> QED
    BY <2>5, <2>6, <2>7, <2>8 DEF TypeOK
<1>4. ASSUME NEW t \in Thread, Return(t) PROVE TypeOK'
  BY <1>4 DEF Return, TypeOK, NoQuery
<1>5. CASE CallbackReturns
  BY <1>5 DEF CallbackReturns, TypeOK
<1>6. CASE RxTakes
  <2>1. net \in Seq(Message) /\ net # <<>> /\ net' = Tail(net)
    BY <1>6 DEF RxTakes, TypeOK
  <2>2. net' \in Seq(Message)
    BY <2>1, FrontAndEnd
  <2>3. \/ /\ Head(net) \in Reply
           /\ hand' = [hand EXCEPT !["rx"] = IF Head(net).query \in open THEN {Head(net)} ELSE {}]
           /\ UNCHANGED <<open, inCallback, shown>>
        \/ open' \subseteq open /\ UNCHANGED <<hand, inCallback, shown>>
        \/ shown' \in 1..samples /\ inCallback' = TRUE /\ UNCHANGED <<hand, open>>
    BY <1>6 DEF RxTakes
  <2>4. hand' \in [Carrier -> SUBSET Reply]
    BY <2>3 DEF TypeOK
  <2>5. open' \subseteq open /\ shown' \in 0..samples
    BY <2>3 DEF TypeOK
  <2>6. inCallback' \in BOOLEAN
    <3>1. inCallback' = inCallback \/ inCallback' = TRUE
      BY <2>3
    <3> QED
      BY <3>1 DEF TypeOK
  <2> QED
    BY <1>6, <2>2, <2>4, <2>5, <2>6 DEF RxTakes, TypeOK
<1>7. ASSUME NEW x \in Carrier, Put(x) PROVE TypeOK'
  <2>1. PICK r \in hand[x] :
           IF r.query \in receivers
           THEN /\ Len(chan[r.query]) < Capacity
                /\ chan' = [chan EXCEPT ![r.query] = Append(@, r)]
           ELSE UNCHANGED chan
    BY <1>7 DEF Put
  <2>2. r \in Reply /\ r.query \in Query
    BY <2>1 DEF TypeOK, Reply
  <2>3. chan' \in [Query -> Seq(Reply)] /\ \A p \in Query : Len(chan'[p]) <= Capacity
    <3>1. CASE r.query \in receivers
      <4>1. /\ Len(chan[r.query]) < Capacity /\ Len(chan[r.query]) \in Nat
            /\ chan' = [chan EXCEPT ![r.query] = Append(chan[r.query], r)]
            /\ Append(chan[r.query], r) \in Seq(Reply)
            /\ Len(Append(chan[r.query], r)) = Len(chan[r.query]) + 1
        BY <2>1, <2>2, <3>1, FrontAndEnd DEF TypeOK
      <4> QED
        BY <2>2, <4>1 DEF TypeOK
    <3>2. CASE r.query \notin receivers
      BY <2>1, <3>2 DEF TypeOK
    <3> QED
      BY <3>1, <3>2
  <2>4. hand' = [hand EXCEPT ![x] = {}] /\ UNCHANGED <<callerVars, started, open, receivers>>
        /\ UNCHANGED <<routerVars, historyVars>>
    BY <1>7 DEF Put
  <2> QED
    BY <2>3, <2>4 DEF TypeOK
<1>8. ASSUME NEW q \in Query, Timeout(q) PROVE TypeOK'
  <2>1. TimeoutReply(q) \in Reply
    BY AnswersAssumption DEF TimeoutReply, Reply, Kind
  <2> QED
    BY <1>8, <2>1 DEF Timeout, TypeOK
<1>9. ASSUME NEW q \in Query, RouterEnds(q) PROVE TypeOK'
  <2>1. net' \in Seq(Message)
    BY <1>9, AppendProperties DEF RouterEnds, TypeOK, Message
  <2> QED
    BY <1>9, <2>1 DEF RouterEnds, TypeOK
<1>10. ASSUME NEW q \in Query, NEW kind \in Kind, RouterReplies(q, kind) PROVE TypeOK'
  <2> DEFINE r == [query |-> q, kind |-> kind, nr |-> Len(sent[q]) + 1]
  <2>1. sent[q] \in Seq(Kind) /\ Len(sent[q]) \in Nat /\ Len(sent[q]) < Len(Answers)
        /\ Len(Answers) \in Nat
    BY <1>10, AnswersAssumption DEF RouterReplies, TypeOK
  <2>2. r \in Message
    BY <2>1 DEF Reply, Message
  <2>3. net' = Append(net, r) /\ sent' = [sent EXCEPT ![q] = Append(sent[q], kind)]
        /\ UNCHANGED <<callerVars, sessionVars, answering, samples, historyVars>>
    BY <1>10 DEF RouterReplies
  <2> HIDE DEF r
  <2>4. net' \in Seq(Message) /\ sent' \in [Query -> Seq(Kind)]
    BY <2>1, <2>2, <2>3, AppendProperties DEF TypeOK
  <2> QED
    BY <2>3, <2>4 DEF TypeOK
<1>11. CASE RouterSample
  <2>1. Sample(samples + 1) \in Message
    <3>1. samples + 1 \in 1..MaxSamples
      BY <1>11 DEF RouterSample, TypeOK
    <3> QED
      BY <3>1 DEF Message
  <2>2. net' \in Seq(Message)
    BY <1>11, <2>1, AppendProperties DEF RouterSample, TypeOK
  <2> QED
    BY <1>11, <2>2 DEF RouterSample, TypeOK
<1> QED
  BY <1>1, <1>2, <1>3, <1>4, <1>5, <1>6, <1>7, <1>8, <1>9, <1>10, <1>11 DEF Next

(* Replies that stay where they are, go from one place to the next, or are *)
(* made of what the router has just written, keep DataInv.                 *)
LEMMA DataStays ==
  ASSUME TypeOK, DataInv, [Next]_allVars,
         \A i \in 1..Len(net') :
            (\E j \in 1..Len(net) : net'[i] = net[j]) \/ (net'[i] \in Reply => Genuine(net[i])'),
         \A r \in hand'["rx"] : r \in hand["rx"] \/ Genuine(r),
         \A r \in hand'["timer"] : r \in hand["timer"] \/ FromTimer(r),
         \A q \in Query : \A i \in 1..Len(chan'[q]) :
            \/ \E j \in 1..Len(chan[q]) : chan'[q][i] = chan[q][j]
            \/ /\ chan'[q][i].query = q
               /\ Genuine(chan'[q][i]) \/ FromTimer(chan'[q][i]),
         \A r \in freed' : r \in freed \/ ((Genuine(r) \/ FromTimer(r)) /\ r.kind # "admin"),
         \A r \in leaked' : r \in leaked \/ (Genuine(r) /\ r.kind = "admin")
  PROVE  DataInv'
<1>g. \A r : Genuine(r) => Genuine(r)'
  BY GenuineStays
<1>1. ASSUME NEW i \in 1..Len(net'), net'[i] \in Reply PROVE Genuine(net[i])'
  <2>1. PICK r : r = net'[i]
    OBVIOUS
  <2>2. Genuine(r)'
    <3>1. CASE \E j \in 1..Len(net) : net'[i] = net[j]
      BY <1>1, <1>g, <2>1, <3>1 DEF DataInv
    <3>2. CASE Genuine(net[i])'
      BY <2>1, <3>2 DEF Genuine
    <3> QED
      BY <1>1, <3>1, <3>2
  <2> QED
    BY <2>1, <2>2 DEF Genuine
<1>2. ASSUME NEW q \in Query, NEW i \in 1..Len(chan'[q])
      PROVE  chan'[q][i].query = q /\ (Genuine(chan[q][i])' \/ FromTimer(chan'[q][i]))
  <2>1. PICK r : r = chan'[q][i]
    OBVIOUS
  <2>2. r.query = q /\ (Genuine(r) \/ FromTimer(r))
    BY <1>2, <2>1 DEF DataInv
  <2>3. Genuine(r)' \/ FromTimer(r)
    BY <1>g, <2>2
  <2> QED
    BY <2>1, <2>2, <2>3 DEF Genuine
<1>3. /\ \A r \in hand'["rx"] : Genuine(r)'
      /\ \A r \in hand'["timer"] : FromTimer(r)
      /\ \A r \in freed' : (Genuine(r)' \/ FromTimer(r)) /\ r.kind # "admin"
      /\ \A r \in leaked' : Genuine(r)' /\ r.kind = "admin"
  BY <1>g DEF DataInv
<1> QED
  BY <1>1, <1>2, <1>3 DEF DataInv, FromTimer

LEMMA DataNext == TypeOK /\ DataInv /\ [Next]_allVars => DataInv'
<1> SUFFICES ASSUME TypeOK, DataInv, [Next]_allVars PROVE DataInv'
  OBVIOUS
<1>1. CASE UNCHANGED <<net, hand, chan, freed, leaked>>
  BY <1>1, DataStays
<1>2. ASSUME NEW t \in Thread, Receive(t) PROVE DataInv'
  <2> DEFINE q == at[t]
             r == Head(chan[q])
  <2>1. q \in Query /\ chan[q] # <<>>
    BY <1>2 DEF Receive, TypeOK, NoQuery
  <2>2. r.query = q /\ (Genuine(r) \/ FromTimer(r))
    BY <2>1, TakenReply
  <2>3. /\ chan' = [chan EXCEPT ![q] = Tail(chan[q])]
        /\ leaked' = (IF Skipped(r) THEN leaked \cup {r} ELSE leaked)
        /\ freed' = (IF Skipped(r) THEN freed ELSE freed \cup {r})
        /\ UNCHANGED <<net, hand>>
    BY <1>2 DEF Receive
  <2>4. \A p \in Query : \A i \in 1..Len(chan'[p]) :
           \E j \in 1..Len(chan[p]) : chan'[p][i] = chan[p][j]
    <3>1. \A i \in 1..Len(Tail(chan[q])) :
             Tail(chan[q])[i] = chan[q][i + 1] /\ i + 1 \in 1..Len(chan[q])
      BY <2>1, FrontAndEnd DEF TypeOK
    <3>2. \A p \in Query : chan'[p] = IF p = q THEN Tail(chan[q]) ELSE chan[p]
      BY <2>1, <2>3 DEF TypeOK
    <3> QED
      BY <3>1, <3>2
  <2>5. FromTimer(r) => ~Skipped(r)
    BY DEF FromTimer, Skipped
  <2> HIDE DEF q, r
  <2>6. /\ \A s \in freed' : s \in freed \/ ((Genuine(s) \/ FromTimer(s)) /\ s.kind # "admin")
        /\ \A s \in leaked' : s \in leaked \/ (Genuine(s) /\ s.kind = "admin")
    BY <2>2, <2>3, <2>5 DEF Skipped
  <2> QED
    BY <2>3, <2>4, <2>6, DataStays
<1>3. CASE RxTakes
  <2>1. /\ net \in Seq(Message) /\ net # <<>> /\ net' = Tail(net)
        /\ UNCHANGED <<chan, freed, leaked>>
    BY <1>3 DEF RxTakes, TypeOK
  <2>2. \A i \in 1..Len(net') : \E j \in 1..Len(net) : net'[i] = net[j]
    BY <2>1, FrontAndEnd
  <2>3. Head(net) = net[1] /\ 1 \in 1..Len(net)
    BY <2>1, FrontAndEnd
  <2>4. /\ hand'["timer"] = hand["timer"]
        /\ \A r \in hand'["rx"] : r \in hand["rx"] \/ Genuine(r)
    <3>1. \/ UNCHANGED hand
          \/ /\ Head(net) \in Reply
             /\ hand' = [hand EXCEPT !["rx"] =
                            IF Head(net).query \in open THEN {Head(net)} ELSE {}]
      BY <1>3 DEF RxTakes
    <3>2. Head(net) \in Reply => Genuine(Head(net))
      BY <2>3 DEF DataInv
    <3> QED
      BY <3>1, <3>2 DEF TypeOK, Carrier
  <2> QED
    BY <2>1, <2>2, <2>4, DataStays
<1>4. ASSUME NEW x \in Carrier, Put(x) PROVE DataInv'
  <2>1. PICK r \in hand[x] :
           \/ chan' = [chan EXCEPT ![r.query] = Append(chan[r.query], r)]
           \/ UNCHANGED chan
    BY <1>4 DEF Put
  <2>2. hand' = [hand EXCEPT ![x] = {}] /\ UNCHANGED <<net, freed, leaked>>
    BY <1>4 DEF Put
  <2>3. r \in Reply /\ r.query \in Query /\ (Genuine(r) \/ FromTimer(r))
    BY <2>1 DEF TypeOK, DataInv, Carrier, Reply
  <2>4. \A q \in Query : \A i \in 1..Len(chan'[q]) :
           \/ \E j \in 1..Len(chan[q]) : chan'[q][i] = chan[q][j]
           \/ chan'[q][i] = r /\ r.query = q
    <3>1. \A q \in Query : chan'[q] = chan[q]
                           \/ (chan'[q] = Append(chan[q], r) /\ r.query = q)
      BY <2>1, <2>3 DEF TypeOK
    <3>2. ASSUME NEW q \in Query, NEW i \in 1..Len(Append(chan[q], r))
          PROVE  (\E j \in 1..Len(chan[q]) : Append(chan[q], r)[i] = chan[q][j])
                 \/ Append(chan[q], r)[i] = r
      BY <2>3, FrontAndEnd DEF TypeOK
    <3> QED
      BY <3>1, <3>2
  <2>5. \A y \in Carrier : hand'[y] \subseteq hand[y]
    BY <2>2 DEF TypeOK
  <2> QED
    BY <2>2, <2>3, <2>4, <2>5, DataStays DEF Carrier
<1>5. ASSUME NEW q \in Query, Timeout(q) PROVE DataInv'
  <2>1. hand' = [hand EXCEPT !["timer"] = {TimeoutReply(q)}]
        /\ UNCHANGED <<net, chan, freed, leaked>>
    BY <1>5 DEF Timeout
  <2>2. FromTimer(TimeoutReply(q))
    BY AnswersAssumption DEF FromTimer, TimeoutReply, Reply, Kind
  <2>3. hand'["rx"] = hand["rx"] /\ hand'["timer"] = {TimeoutReply(q)}
    BY <2>1 DEF TypeOK, Carrier
  <2> QED
    BY <2>1, <2>2, <2>3, DataStays
<1>6. ASSUME NEW m \in Message, net' = Append(net, m), m \in Reply => Genuine(m)',
             UNCHANGED <<hand, chan, freed, leaked>>
      PROVE  DataInv'
  <2>1. \A i \in 1..Len(net') : (\E j \in 1..Len(net) : net'[i] = net[j]) \/ net'[i] = m
    BY <1>6, FrontAndEnd DEF TypeOK
  <2>2. ASSUME NEW i \in 1..Len(net'), net'[i] = m, net'[i] \in Reply PROVE Genuine(net[i])'
    BY <1>6, <2>2 DEF Genuine
  <2> QED
    BY <1>6, <2>1, <2>2, DataStays
<1>7. ASSUME NEW q \in Query, RouterEnds(q) PROVE DataInv'
  <2>1. Final(q) \in Message /\ Final(q) \notin Reply
    BY Forms DEF Message
  <2> QED
    BY <1>6, <1>7, <2>1 DEF RouterEnds
<1>8. ASSUME NEW q \in Query, NEW kind \in Kind, RouterReplies(q, kind) PROVE DataInv'
  <2>1. PICK r : r = [query |-> q, kind |-> kind, nr |-> Len(sent[q]) + 1]
    OBVIOUS
  <2>2. sent[q] \in Seq(Kind) /\ Len(sent[q]) \in Nat /\ Len(sent[q]) < Len(Answers)
        /\ Len(Answers) \in Nat
    BY <1>8, AnswersAssumption DEF RouterReplies, TypeOK
  <2>3. r \in Reply /\ r \in Message
    BY <2>1, <2>2 DEF Reply, Message
  <2>4. net' = Append(net, r) /\ sent' = [sent EXCEPT ![q] = Append(sent[q], kind)]
        /\ UNCHANGED <<hand, chan, freed, leaked>>
    BY <1>8, <2>1 DEF RouterReplies
  <2>5. sent'[q] = Append(sent[q], kind)
    BY <2>4 DEF TypeOK
  <2>6. Len(sent'[q]) = Len(sent[q]) + 1 /\ sent'[q][Len(sent[q]) + 1] = kind
    BY <2>2, <2>5, AppendProperties
  <2>7. r.query = q /\ r.kind = kind /\ r.nr = Len(sent[q]) + 1
    BY <2>1
  <2>8. Genuine(r)'
    BY <2>2, <2>3, <2>6, <2>7 DEF Genuine
  <2> QED
    BY <1>6, <2>3, <2>4, <2>8
<1>9. CASE RouterSample
  <2>1. Sample(samples + 1) \in Message /\ Sample(samples + 1) \notin Reply
    <3>1. samples + 1 \in 1..MaxSamples
      BY <1>9, BoundAssumption DEF RouterSample, TypeOK
    <3> QED
      BY <3>1, Forms DEF Message
  <2> QED
    BY <1>6, <1>9, <2>1 DEF RouterSample
<1>10. UNCHANGED allVars \/ CallbackReturns \/ (\E t \in Thread : Ask(t) \/ Return(t))
         => UNCHANGED <<net, hand, chan, freed, leaked>>
  BY DEF allVars, CallbackReturns, Ask, Return
<1> QED
  BY <1>1, <1>2, <1>3, <1>4, <1>5, <1>7, <1>8, <1>9, <1>10 DEF Next

-----------------------------------------------------------------------------
(* What the steps do that move replies. *)

LEMMA ReceiveEffect ==
  ASSUME TypeOK, DataInv, NEW t \in Thread, Receive(t), NEW q, NEW r,
         q = at[t], r = Head(chan[q])
  PROVE  /\ q \in Query /\ chan[q] # <<>> /\ chan[q] \in Seq(Reply)
         /\ r \in Reply /\ r.query = q /\ (Genuine(r) \/ FromTimer(r)) /\ r = chan[q][1]
         /\ chan' = [chan EXCEPT ![q] = Tail(chan[q])] /\ chan'[q] = Tail(chan[q])
         /\ vars' = [vars EXCEPT ![q] = IF Kept(r) THEN Append(vars[q], r.nr) ELSE vars[q]]
         /\ leaked' = (IF Skipped(r) THEN leaked \cup {r} ELSE leaked)
         /\ freed' = (IF Skipped(r) THEN freed ELSE freed \cup {r})
         /\ UNCHANGED <<at, inCallback, returned, started, open, hand, receivers>>
         /\ UNCHANGED <<routerVars, shown, cut>>
<1>1. q \in Query /\ chan[q] # <<>>
  BY DEF Receive, TypeOK, NoQuery
<1>2. r \in Reply /\ r.query = q /\ (Genuine(r) \/ FromTimer(r))
  BY <1>1, TakenReply
<1>3. chan[q] \in Seq(Reply)
  BY <1>1 DEF TypeOK
<1>4. r = chan[q][1]
  BY <1>1, <1>3, FrontAndEnd
<1>5. chan' = [chan EXCEPT ![q] = Tail(chan[q])]
  BY DEF Receive
<1>6. chan'[q] = Tail(chan[q])
  BY <1>1, <1>5 DEF TypeOK
<1> QED
  BY <1>1, <1>2, <1>3, <1>4, <1>5, <1>6 DEF Receive

LEMMA PutEffect ==
  ASSUME TypeOK, DataInv, LifeInv, NEW x \in Carrier, Put(x)
  PROVE  \E r \in hand[x] :
            /\ hand[x] = {r} /\ r \in Reply /\ r.query \in Query
            /\ r.query \in receivers /\ (Genuine(r) \/ FromTimer(r))
            /\ chan[r.query] \in Seq(Reply)
            /\ chan' = [chan EXCEPT ![r.query] = Append(chan[r.query], r)]
            /\ chan'[r.query] = Append(chan[r.query], r)
            /\ hand' = [hand EXCEPT ![x] = {}]
            /\ UNCHANGED <<callerVars, started, open, receivers, routerVars, historyVars>>
<1>1. PICK r \in hand[x] :
         IF r.query \in receivers
         THEN chan' = [chan EXCEPT ![r.query] = Append(chan[r.query], r)]
         ELSE UNCHANGED chan
  BY DEF Put
<1>2. r \in Reply /\ r.query \in Query /\ (Genuine(r) \/ FromTimer(r))
  BY <1>1 DEF TypeOK, DataInv, Carrier, Reply
<1>3. r.query \in receivers /\ hand[x] = {r}
  BY <1>1 DEF LifeInv
<1>4. chan[r.query] \in Seq(Reply) /\ chan'[r.query] = Append(chan[r.query], r)
  BY <1>1, <1>2, <1>3 DEF TypeOK
<1> QED
  BY <1>1, <1>2, <1>3, <1>4 DEF Put

LEMMA TakeEffect ==
  ASSUME TypeOK, RxTakes
  PROVE  /\ net # <<>> /\ net \in Seq(Message) /\ net' = Tail(net) /\ hand["rx"] = {}
         /\ 1 \in 1..Len(net) /\ Len(net') = Len(net) - 1 /\ Len(net) \in Nat
         /\ \A i \in 1..Len(net') : net'[i] = net[i + 1] /\ i + 1 \in 1..Len(net)
         /\ \A i \in 1..Len(net) : i = 1 \/ (i - 1 \in 1..Len(net') /\ net[i] = net'[i - 1])
         /\ \/ /\ net[1] \in Reply
               /\ hand' = [hand EXCEPT !["rx"] = IF net[1].query \in open THEN {net[1]} ELSE {}]
               /\ UNCHANGED open
            \/ /\ \E q \in Query : net[1] = Final(q) /\ open' = open \ {q}
               /\ UNCHANGED hand
            \/ /\ \E n \in 1..samples : net[1] = Sample(n)
               /\ UNCHANGED <<hand, open>>
         /\ UNCHANGED <<at, vars, returned, started, chan, receivers>>
         /\ UNCHANGED <<answering, sent, samples, cut, freed, leaked>>
<1>1. net # <<>> /\ net \in Seq(Message) /\ net' = Tail(net)
  BY DEF RxTakes, TypeOK
<1>2. Head(net) = net[1]
  BY <1>1, FrontAndEnd
<1>3. \/ /\ net[1] \in Reply
         /\ hand' = [hand EXCEPT !["rx"] = IF net[1].query \in open THEN {net[1]} ELSE {}]
         /\ UNCHANGED open
      \/ /\ \E q \in Query : net[1] = Final(q) /\ open' = open \ {q}
         /\ UNCHANGED hand
      \/ /\ \E n \in 1..samples : net[1] = Sample(n)
         /\ UNCHANGED <<hand, open>>
  BY <1>2 DEF RxTakes
<1>4. /\ hand["rx"] = {}
      /\ UNCHANGED <<at, vars, returned, started, chan, receivers>>
      /\ UNCHANGED <<answering, sent, samples, cut, freed, leaked>>
  BY DEF RxTakes
<1> QED
  BY <1>1, <1>3, <1>4, FrontAndEnd

(* The steps that put a message on the link. *)
LEMMA WriteEffect ==
  ASSUME TypeOK, NEW m \in Message, net' = Append(net, m)
  PROVE  /\ Len(net) \in Nat /\ Len(net') = Len(net) + 1 /\ net'[Len(net) + 1] = m
         /\ \A i \in 1..Len(net) : net'[i] = net[i]
         /\ \A i \in 1..Len(net') : i \in 1..Len(net) \/ i = Len(net) + 1
  BY FrontAndEnd DEF TypeOK

LEMMA RepliesEffect ==
  ASSUME TypeOK, NEW q \in Query, NEW kind \in Kind, RouterReplies(q, kind)
  PROVE  \E r \in Reply :
            /\ r.query = q /\ r.kind = kind /\ r.nr = Len(sent[q]) + 1
            /\ Len(sent[q]) \in Nat /\ q \in answering
            /\ r \in Message /\ net' = Append(net, r)
            /\ Len(sent'[q]) = Len(sent[q]) + 1 /\ sent'[q][Len(sent[q]) + 1] = kind
            /\ sent' = [sent EXCEPT ![q] = Append(sent[q], kind)]
            /\ UNCHANGED <<callerVars, sessionVars, answering, samples, historyVars>>
<1>1. PICK r : r = [query |-> q, kind |-> kind, nr |-> Len(sent[q]) + 1]
  OBVIOUS
<1>2. sent[q] \in Seq(Kind) /\ Len(sent[q]) \in Nat /\ Len(sent[q]) < Len(Answers)
      /\ Len(Answers) \in Nat
  BY AnswersAssumption DEF RouterReplies, TypeOK
<1>3. r \in Reply /\ r \in Message /\ r.query = q /\ r.kind = kind /\ r.nr = Len(sent[q]) + 1
  BY <1>1, <1>2 DEF Reply, Message
<1>4. sent'[q] = Append(sent[q], kind)
  BY DEF RouterReplies, TypeOK
<1>5. Len(sent'[q]) = Len(sent[q]) + 1 /\ sent'[q][Len(sent[q]) + 1] = kind
  BY <1>2, <1>4, AppendProperties
<1> QED
  BY <1>1, <1>2, <1>3, <1>5 DEF RouterReplies

(* get() begins on a query of its own. *)
LEMMA AskEffect ==
  ASSUME TypeOK, NEW t \in Thread, Ask(t)
  PROVE  /\ started \in Nat /\ started' = started + 1
         /\ at' = [at EXCEPT ![t] = started + 1]
         /\ receivers' = receivers \cup {started + 1}
         /\ \/ /\ open' = open \cup {started + 1} /\ answering' = answering \cup {started + 1}
               /\ UNCHANGED cut
            \/ /\ cut' = cut \cup {started + 1} /\ UNCHANGED <<open, answering>>
         /\ UNCHANGED <<inCallback, vars, returned, hand, chan>>
         /\ UNCHANGED <<net, sent, samples, shown, freed, leaked>>
  BY DEF Ask, TypeOK

-----------------------------------------------------------------------------
(* The life of a query. *)

LEMMA LifeInit == Init => LifeInv
  BY DEF Init, LifeInv, NoQuery

LEMMA LifeNext == TypeOK /\ DataInv /\ LifeInv /\ [Next]_allVars => LifeInv'
<1> SUFFICES ASSUME TypeOK, DataInv, LifeInv, [Next]_allVars PROVE LifeInv'
  OBVIOUS
<1>t. /\ open \subseteq 1..started /\ receivers \subseteq 1..started /\ cut \subseteq 1..started
      /\ started \in Nat /\ hand \in [Carrier -> SUBSET Reply]
      /\ at \in [Thread -> Query \cup {NoQuery}]
  BY DEF TypeOK
<1>1. CASE UNCHANGED <<at, started, hand, receivers, open, cut, returned, chan, sent>>
  BY <1>1 DEF LifeInv
<1>2. ASSUME NEW t \in Thread, Ask(t) PROVE LifeInv'
  <2>1. /\ started' = started + 1 /\ at' = [at EXCEPT ![t] = started + 1]
        /\ receivers' = receivers \cup {started + 1}
        /\ \/ open' = open \cup {started + 1} /\ UNCHANGED cut
           \/ cut' = cut \cup {started + 1} /\ UNCHANGED open
        /\ UNCHANGED <<returned, hand, chan, sent>>
    BY <1>2, AskEffect
  <2>2. \A u \in Thread : at'[u] \in 0..started'
    BY <1>t, <2>1 DEF LifeInv
  <2>3. open' \subseteq receivers' /\ open' \cap cut' = {}
    <3>1. started + 1 \notin open /\ started + 1 \notin cut
      BY <1>t
    <3>2. open' \subseteq receivers'
      BY <2>1 DEF LifeInv
    <3>3. open' \cap cut' = {}
      BY <2>1, <3>1 DEF LifeInv
    <3> QED
      BY <3>2, <3>3
  <2>4. \A q \in returned' : q <= started' /\ q \notin receivers' /\ chan'[q] = <<>>
    <3>1. \A q \in returned : q \in Nat
      BY DEF TypeOK, Query
    <3> QED
      BY <1>t, <2>1, <3>1 DEF LifeInv
  <2>5. \A q \in Query : q > started' => sent'[q] = <<>>
    BY <1>t, <2>1 DEF LifeInv, Query
  <2> QED
    BY <2>1, <2>2, <2>3, <2>4, <2>5 DEF LifeInv
<1>3. ASSUME NEW t \in Thread, Receive(t) PROVE LifeInv'
  <2>1. PICK q, r : q = at[t] /\ r = Head(chan[q])
    OBVIOUS
  <2>2. /\ q \in Query /\ chan[q] # <<>>
        /\ chan' = [chan EXCEPT ![q] = Tail(chan[q])]
        /\ UNCHANGED <<at, started, hand, receivers, open, cut, returned, sent>>
    BY <1>3, <2>1, ReceiveEffect
  <2>3. q \notin returned
    BY <2>2 DEF LifeInv
  <2>4. \A p \in returned : chan'[p] = chan[p]
    BY <2>2, <2>3 DEF TypeOK
  <2> QED
    BY <2>2, <2>4 DEF LifeInv
<1>4. ASSUME NEW t \in Thread, Return(t) PROVE LifeInv'
  <2>1. PICK q : q = at[t]
    OBVIOUS
  <2>2. /\ q # NoQuery /\ chan[q] = <<>> /\ q \notin open
        /\ \A x \in Carrier : \A r \in hand[x] : r.query # q
        /\ at' = [at EXCEPT ![t] = NoQuery]
        /\ returned' = returned \cup {q} /\ receivers' = receivers \ {q}
        /\ UNCHANGED <<started, hand, open, cut, chan, sent>>
    BY <1>4, <2>1 DEF Return, Closed
  <2>3. q \in 0..started
    BY <2>1 DEF LifeInv
  <2> QED
    BY <1>t, <2>2, <2>3 DEF LifeInv, NoQuery
<1>5. CASE RxTakes
  <2>1. UNCHANGED <<at, started, receivers, cut, returned, chan, sent>> /\ open' \subseteq open
    BY <1>5, TakeEffect
  <2>2. \/ UNCHANGED hand
        \/ /\ net[1] \in Reply /\ UNCHANGED open
           /\ hand' = [hand EXCEPT !["rx"] = IF net[1].query \in open THEN {net[1]} ELSE {}]
    BY <1>5, TakeEffect
  <2>3. \A x \in Carrier : \A r, s \in hand'[x] : r = s
    BY <1>t, <2>2 DEF LifeInv
  <2>4. ASSUME NEW x \in Carrier, NEW r \in hand'[x] PROVE r.query \in receivers
    <3>1. r \in hand[x] \/ r.query \in open
      BY <1>t, <2>2, <2>4
    <3> QED
      BY <3>1 DEF LifeInv
  <2> QED
    BY <2>1, <2>3, <2>4 DEF LifeInv
<1>6. ASSUME NEW x \in Carrier, Put(x) PROVE LifeInv'
  <2>1. PICK r \in hand[x] :
           /\ r.query \in receivers /\ r.query \in Query
           /\ chan' = [chan EXCEPT ![r.query] = Append(chan[r.query], r)]
           /\ hand' = [hand EXCEPT ![x] = {}]
           /\ UNCHANGED <<callerVars, started, open, receivers, routerVars, historyVars>>
    BY <1>6, PutEffect
  <2>2. r.query \notin returned
    BY <2>1 DEF LifeInv
  <2>3. \A p \in returned : chan'[p] = chan[p]
    BY <2>1, <2>2 DEF TypeOK
  <2>4. \A y \in Carrier : hand'[y] \subseteq hand[y]
    BY <1>t, <2>1
  <2> QED
    BY <2>1, <2>3, <2>4 DEF LifeInv
<1>7. ASSUME NEW q \in Query, Timeout(q) PROVE LifeInv'
  <2>1. /\ q \in open /\ hand["timer"] = {}
        /\ open' = open \ {q} /\ cut' = cut \cup {q}
        /\ hand' = [hand EXCEPT !["timer"] = {TimeoutReply(q)}]
        /\ UNCHANGED <<at, started, receivers, returned, chan, sent>>
    BY <1>7 DEF Timeout
  <2>2. TimeoutReply(q).query = q
    BY DEF TimeoutReply
  <2>3. /\ \A x \in Carrier : \A r, s \in hand'[x] : r = s
        /\ \A x \in Carrier : \A r \in hand'[x] : r.query \in receivers
    BY <1>t, <2>1, <2>2 DEF LifeInv
  <2> QED
    BY <2>1, <2>3 DEF LifeInv
<1>8. ASSUME NEW q \in Query, NEW kind \in Kind, RouterReplies(q, kind) PROVE LifeInv'
  <2>1. /\ q \in answering /\ sent' = [sent EXCEPT ![q] = Append(sent[q], kind)]
        /\ UNCHANGED <<at, started, hand, receivers, open, cut, returned, chan>>
    BY <1>8 DEF RouterReplies
  <2>2. q \in 1..started
    BY <2>1 DEF TypeOK
  <2>3. \A p \in Query : p > started => sent'[p] = sent[p]
    BY <1>t, <2>1, <2>2 DEF TypeOK
  <2> QED
    BY <2>1, <2>3 DEF LifeInv
<1>9. UNCHANGED allVars \/ CallbackReturns \/ RouterSample \/ (\E q \in Query : RouterEnds(q))
        => UNCHANGED <<at, started, hand, receivers, open, cut, returned, chan, sent>>
  BY DEF allVars, CallbackReturns, RouterSample, RouterEnds
<1> QED
  BY <1>1, <1>2, <1>3, <1>4, <1>5, <1>6, <1>7, <1>8, <1>9 DEF Next


-----------------------------------------------------------------------------
(* The end of a query. *)

LEMMA FinalInit == Init => FinalInv
  BY EmptySeq DEF Init, FinalInv

LEMMA FinalNext == TypeOK /\ LifeInv /\ FinalInv /\ [Next]_allVars => FinalInv'
<1> SUFFICES ASSUME TypeOK, LifeInv, FinalInv, [Next]_allVars PROVE FinalInv'
  OBVIOUS
<1>t. /\ started \in Nat /\ answering \subseteq 1..started /\ net \in Seq(Message)
      /\ Len(net) \in Nat
  BY LenProperties DEF TypeOK
<1>1. CASE UNCHANGED <<net, started, answering, open, cut>>
  BY <1>1 DEF FinalInv
<1>2. ASSUME NEW t \in Thread, Ask(t) PROVE FinalInv'
  <2>1. /\ started' = started + 1 /\ UNCHANGED net
        /\ answering' \subseteq answering \cup {started + 1}
        /\ open \subseteq open' /\ cut \subseteq cut' /\ started + 1 \in open' \cup cut'
        /\ \A q \in 1..started : q \in answering' => q \in answering
    <3>1. started + 1 \notin 1..started
      BY <1>t
    <3> QED
      BY <1>2, <3>1, AskEffect
  <2>2. ASSUME NEW i \in 1..Len(net), NEW q \in Query, net[i] = Final(q)
        PROVE  q \in (1..started') \ answering'
    <3>1. q \in (1..started) \ answering
      BY <2>2 DEF FinalInv
    <3> QED
      BY <1>t, <2>1, <3>1
  <2>3. ASSUME NEW q \in 1..started', q \notin open' \cup cut'
        PROVE  /\ q \notin answering'
               /\ \A i \in 1..Len(net) : net[i] \in Reply => net[i].query # q
    <3>1. q \in 1..started
      BY <1>t, <2>1, <2>3
    <3>2. q \notin open \cup cut
      BY <2>1, <2>3
    <3> QED
      BY <2>1, <3>1, <3>2 DEF FinalInv
  <2> QED
    BY <2>1, <2>2, <2>3 DEF FinalInv
<1>3. CASE RxTakes
  <2>1. /\ \A i \in 1..Len(net') : net'[i] = net[i + 1] /\ i + 1 \in 1..Len(net)
        /\ \/ UNCHANGED open
           \/ \E q \in Query : net[1] = Final(q) /\ open' = open \ {q}
        /\ UNCHANGED <<started, answering, cut>> /\ 1 \in 1..Len(net) /\ Len(net') \in Nat
    BY <1>3, TakeEffect
  <2>2. ASSUME NEW i \in 1..Len(net'), NEW j \in 1..Len(net'), NEW q \in Query,
               net'[i] = Final(q), net'[j] \in Reply, net'[j].query = q
        PROVE  j < i
    <3>1. j + 1 < i + 1
      BY <2>1, <2>2 DEF FinalInv
    <3> QED
      BY <2>1, <3>1
  <2>3. \A i \in 1..Len(net') : \A q \in Query :
           net'[i] = Final(q) => q \in (1..started) \ answering
    BY <2>1 DEF FinalInv
  <2>4. ASSUME NEW q \in 1..started, q \notin open' \cup cut
        PROVE  /\ q \notin answering
               /\ \A i \in 1..Len(net') : net'[i] \in Reply => net'[i].query # q
    <3>1. CASE q \notin open
      BY <2>1, <2>4, <3>1 DEF FinalInv
    <3>2. CASE q \in open
      <4>1. q \in Query /\ net[1] = Final(q)
        BY <2>1, <2>4, <3>2
      <4>2. q \notin answering
        BY <2>1, <4>1 DEF FinalInv
      <4>3. \A j \in 1..Len(net) : net[j] \in Reply /\ net[j].query = q => j < 1
        BY <2>1, <4>1 DEF FinalInv
      <4> QED
        BY <2>1, <4>2, <4>3
    <3> QED
      BY <3>1, <3>2
  <2> QED
    BY <2>1, <2>2, <2>3, <2>4 DEF FinalInv
<1>4. ASSUME NEW q \in Query, Timeout(q) PROVE FinalInv'
  BY <1>4 DEF Timeout, routerVars, FinalInv
<1>5. ASSUME NEW q \in Query, RouterEnds(q) PROVE FinalInv'
  <2>1. /\ q \in answering /\ answering' = answering \ {q} /\ net' = Append(net, Final(q))
        /\ UNCHANGED <<started, open, cut>>
    BY <1>5 DEF RouterEnds
  <2>2. Final(q) \in Message /\ Final(q) \notin Reply
        /\ \A p \in Query : Final(q) = Final(p) => p = q
    BY Forms DEF Message, Final
  <2>3. /\ net'[Len(net) + 1] = Final(q)
        /\ \A i \in 1..Len(net) : net'[i] = net[i]
        /\ \A i \in 1..Len(net') : i \in 1..Len(net) \/ i = Len(net) + 1
    BY <2>1, <2>2, WriteEffect
  <2>4. ASSUME NEW i \in 1..Len(net'), NEW j \in 1..Len(net'), NEW p \in Query,
               net'[i] = Final(p), net'[j] \in Reply, net'[j].query = p
        PROVE  j < i
    <3>1. j \in 1..Len(net) /\ net[j] \in Reply /\ net[j].query = p
      BY <2>2, <2>3, <2>4
    <3>2. CASE i \in 1..Len(net)
      BY <2>3, <2>4, <3>1, <3>2 DEF FinalInv
    <3>3. CASE i = Len(net) + 1
      BY <1>t, <3>1, <3>3
    <3> QED
      BY <2>3, <3>2, <3>3
  <2>5. \A i \in 1..Len(net') : \A p \in Query :
           net'[i] = Final(p) => p \in (1..started) \ answering'
    BY <1>t, <2>1, <2>2, <2>3 DEF FinalInv
  <2>6. ASSUME NEW p \in 1..started, p \notin open \cup cut
        PROVE  /\ p \notin answering'
               /\ \A i \in 1..Len(net') : net'[i] \in Reply => net'[i].query # p
    BY <2>1, <2>2, <2>3, <2>6 DEF FinalInv
  <2> QED
    BY <2>1, <2>4, <2>5, <2>6 DEF FinalInv
<1>6. ASSUME NEW q \in Query, NEW kind \in Kind, RouterReplies(q, kind) PROVE FinalInv'
  <2>1. PICK r \in Reply :
           /\ r.query = q /\ q \in answering /\ r \in Message /\ net' = Append(net, r)
           /\ UNCHANGED <<callerVars, sessionVars, answering, samples, historyVars>>
    BY <1>6, RepliesEffect
  <2>2. /\ net'[Len(net) + 1] = r
        /\ \A i \in 1..Len(net) : net'[i] = net[i]
        /\ \A i \in 1..Len(net') : i \in 1..Len(net) \/ i = Len(net) + 1
    BY <2>1, WriteEffect
  <2>3. \A p : r # Final(p)
    BY Forms
  <2>4. ASSUME NEW i \in 1..Len(net'), NEW j \in 1..Len(net'), NEW p \in Query,
               net'[i] = Final(p), net'[j] \in Reply, net'[j].query = p
        PROVE  j < i
    <3>1. i \in 1..Len(net) /\ net[i] = Final(p)
      BY <2>2, <2>3, <2>4
    <3>2. p # q
      BY <2>1, <3>1 DEF FinalInv
    <3>3. j \in 1..Len(net) /\ net[j] = net'[j]
      BY <2>1, <2>2, <2>4, <3>2
    <3> QED
      BY <2>4, <3>1, <3>3 DEF FinalInv
  <2>5. \A i \in 1..Len(net') : \A p \in Query :
           net'[i] = Final(p) => p \in (1..started) \ answering
    BY <2>2, <2>3 DEF FinalInv
  <2>6. ASSUME NEW p \in 1..started, p \notin open \cup cut
        PROVE  /\ p \notin answering
               /\ \A i \in 1..Len(net') : net'[i] \in Reply => net'[i].query # p
    <3>1. p \notin answering
      BY <2>6 DEF FinalInv
    <3> QED
      BY <2>1, <2>2, <2>6, <3>1 DEF FinalInv
  <2> QED
    BY <2>1, <2>4, <2>5, <2>6 DEF FinalInv
<1>7. CASE RouterSample
  <2>1. /\ net' = Append(net, Sample(samples + 1)) /\ UNCHANGED <<started, open, cut, answering>>
    BY <1>7 DEF RouterSample
  <2>2. Sample(samples + 1) \in Message /\ Sample(samples + 1) \notin Reply
        /\ \A p \in Query : Sample(samples + 1) # Final(p)
    <3>1. samples + 1 \in 1..MaxSamples
      BY <1>7, BoundAssumption DEF RouterSample, TypeOK
    <3> QED
      BY <3>1, Forms DEF Message, Sample, Final
  <2>3. /\ net'[Len(net) + 1] = Sample(samples + 1)
        /\ \A i \in 1..Len(net) : net'[i] = net[i]
        /\ \A i \in 1..Len(net') : i \in 1..Len(net) \/ i = Len(net) + 1
    BY <2>1, <2>2, WriteEffect
  <2>4. \A i \in 1..Len(net') :
           (net'[i] \in Reply \/ \E q \in Query : net'[i] = Final(q))
              => i \in 1..Len(net) /\ net'[i] = net[i]
    BY <2>2, <2>3
  <2> QED
    BY <2>1, <2>4 DEF FinalInv
<1>8. UNCHANGED allVars \/ CallbackReturns
        \/ (\E t \in Thread : Receive(t) \/ Return(t)) \/ (\E x \in Carrier : Put(x))
        => UNCHANGED <<net, started, answering, open, cut>>
  BY DEF allVars, CallbackReturns, Receive, Return, Put
<1> QED
  BY <1>1, <1>2, <1>3, <1>4, <1>5, <1>6, <1>7, <1>8 DEF Next

-----------------------------------------------------------------------------
(* Where the replies are, before and after a step. *)

(* A reply that is anywhere was written by the router. *)
LEMMA PlacedIsSent ==
  ASSUME TypeOK, DataInv, NEW q \in Query, NEW n \in Number, Taken(q, n) \/ OnLink(q, n)
  PROVE  n \in 1..Len(sent[q])
<1>1. PICK r : r.query = q /\ r.nr = n /\ (Genuine(r) \/ FromTimer(r))
  <2>1. CASE OnLink(q, n)
    BY <2>1 DEF OnLink, DataInv
  <2>2. CASE InHand(q, n)
    BY <2>2 DEF InHand, DataInv
  <2>3. CASE InChan(q, n)
    BY <2>3 DEF InChan, DataInv
  <2>4. CASE Dropped(q, n)
    BY <2>4 DEF Dropped, DataInv
  <2> QED
    BY <2>1, <2>2, <2>3, <2>4 DEF Taken
<1> QED
  BY <1>1 DEF Genuine, FromTimer, Number

LEMMA LinkGrows ==
  ASSUME TypeOK, NEW m \in Message, net' = Append(net, m), NEW p, NEW n
  PROVE  OnLink(p, n)' <=> OnLink(p, n) \/ (m \in Reply /\ m.query = p /\ m.nr = n)
<1>1. /\ Len(net) \in Nat /\ Len(net') = Len(net) + 1 /\ net'[Len(net) + 1] = m
      /\ \A i \in 1..Len(net) : net'[i] = net[i] /\ i \in 1..Len(net')
      /\ \A i \in 1..Len(net') : i \in 1..Len(net) \/ i = Len(net) + 1
  BY WriteEffect
<1>2. Len(net) + 1 \in 1..Len(net')
  BY <1>1
<1> QED
  BY <1>1, <1>2 DEF OnLink

LEMMA LinkShrinks ==
  ASSUME TypeOK, RxTakes, NEW p, NEW n
  PROVE  OnLink(p, n) <=> OnLink(p, n)' \/ (net[1] \in Reply /\ net[1].query = p /\ net[1].nr = n)
<1>1. /\ 1 \in 1..Len(net)
      /\ \A i \in 1..Len(net') : net'[i] = net[i + 1] /\ i + 1 \in 1..Len(net)
      /\ \A i \in 1..Len(net) : i = 1 \/ (i - 1 \in 1..Len(net') /\ net[i] = net'[i - 1])
  BY TakeEffect
<1>2. ASSUME OnLink(p, n)
      PROVE  OnLink(p, n)' \/ (net[1] \in Reply /\ net[1].query = p /\ net[1].nr = n)
  BY <1>1, <1>2 DEF OnLink
<1>3. ASSUME OnLink(p, n)' PROVE OnLink(p, n)
  BY <1>1, <1>3 DEF OnLink
<1> QED
  BY <1>1, <1>2, <1>3 DEF OnLink

(* The reply that the RX thread takes is in its hand, when its query is open. *)
LEMMA HandTakes ==
  ASSUME TypeOK, RxTakes, NEW p, NEW n
  PROVE  /\ ~InHand(p, n)
         /\ InHand(p, n)' <=> /\ net[1] \in Reply /\ net[1].query \in open
                              /\ net[1].query = p /\ net[1].nr = n
         /\ InChan(p, n)' <=> InChan(p, n)
         /\ Dropped(p, n)' <=> Dropped(p, n)
<1>1. /\ hand["rx"] = {} /\ hand \in [Carrier -> SUBSET Reply] /\ "rx" \in Carrier
      /\ \/ /\ net[1] \in Reply
            /\ hand' = [hand EXCEPT !["rx"] = IF net[1].query \in open THEN {net[1]} ELSE {}]
         \/ net[1] \notin Reply /\ UNCHANGED hand
      /\ UNCHANGED <<chan, freed, leaked>>
  <2>1. /\ hand["rx"] = {} /\ UNCHANGED <<chan, freed, leaked>>
        /\ \/ /\ net[1] \in Reply
              /\ hand' = [hand EXCEPT !["rx"] = IF net[1].query \in open THEN {net[1]} ELSE {}]
           \/ (\E q \in Query : net[1] = Final(q)) /\ UNCHANGED hand
           \/ (\E k \in 1..samples : net[1] = Sample(k)) /\ UNCHANGED hand
    BY TakeEffect
  <2>2. (\E q \in Query : net[1] = Final(q)) \/ (\E k \in 1..samples : net[1] = Sample(k))
          => net[1] \notin Reply
    BY Forms
  <2> QED
    BY <2>1, <2>2 DEF TypeOK, Carrier
<1>2. /\ InChan(p, n)' <=> InChan(p, n)
      /\ Dropped(p, n)' <=> Dropped(p, n)
  BY <1>1 DEF InChan, Dropped
<1>3. \/ /\ net[1] \in Reply
         /\ hand'["rx"] = (IF net[1].query \in open THEN {net[1]} ELSE {})
      \/ net[1] \notin Reply /\ hand'["rx"] = {}
  BY <1>1
<1> QED
  BY <1>1, <1>2, <1>3 DEF InHand

(* A reply goes from a hand into its channel. One of the timer's has no number. *)
LEMMA PutPlaces ==
  ASSUME TypeOK, DataInv, LifeInv, NEW x \in Carrier, Put(x), NEW p \in Query, NEW n \in Number
  PROVE  /\ OnLink(p, n)' <=> OnLink(p, n)
         /\ Dropped(p, n)' <=> Dropped(p, n)
         /\ InHand(p, n)' => InHand(p, n) /\ (InChan(p, n)' <=> InChan(p, n))
         /\ InHand(p, n) \/ InChan(p, n) <=> InHand(p, n)' \/ InChan(p, n)'
         /\ x = "rx" => ~InHand(p, n)'
<1>1. PICK r \in hand[x] :
         /\ hand[x] = {r} /\ r \in Reply /\ r.query \in Query
         /\ chan[r.query] \in Seq(Reply)
         /\ chan' = [chan EXCEPT ![r.query] = Append(chan[r.query], r)]
         /\ chan'[r.query] = Append(chan[r.query], r)
         /\ hand' = [hand EXCEPT ![x] = {}]
         /\ UNCHANGED <<net, freed, leaked>>
  BY PutEffect
<1>2. /\ OnLink(p, n)' <=> OnLink(p, n)
      /\ Dropped(p, n)' <=> Dropped(p, n)
  BY <1>1 DEF OnLink, Dropped
<1>3. InChan(p, n)' <=> InChan(p, n) \/ (r.query = p /\ r.nr = n)
  <2>1. CASE r.query # p
    BY <1>1, <2>1 DEF InChan, TypeOK
  <2>2. CASE r.query = p
    <3>1. chan'[p] = Append(chan[p], r) /\ chan[p] \in Seq(Reply)
      BY <1>1, <2>2
    <3>2. /\ Len(chan[p]) \in Nat /\ Len(chan'[p]) = Len(chan[p]) + 1
          /\ chan'[p][Len(chan[p]) + 1] = r
          /\ \A i \in 1..Len(chan[p]) : chan'[p][i] = chan[p][i]
          /\ \A i \in 1..Len(chan'[p]) : i \in 1..Len(chan[p]) \/ i = Len(chan[p]) + 1
      BY <1>1, <3>1, FrontAndEnd
    <3>3. /\ Len(chan[p]) + 1 \in 1..Len(chan'[p])
          /\ \A i \in 1..Len(chan[p]) : i \in 1..Len(chan'[p])
      BY <3>2
    <3> QED
      BY <2>2, <3>2, <3>3 DEF InChan
  <2> QED
    BY <2>1, <2>2
<1>4. CASE x = "rx"
  <2>1. hand'["rx"] = {} /\ hand["rx"] = {r}
    BY <1>1, <1>4 DEF TypeOK, Carrier
  <2>2. ~InHand(p, n)' /\ (InHand(p, n) <=> r.query = p /\ r.nr = n)
    BY <2>1 DEF InHand
  <2> QED
    BY <1>2, <1>3, <2>2
<1>5. CASE x = "timer"
  <2>1. hand'["rx"] = hand["rx"] /\ r.nr = 0
    BY <1>1, <1>5 DEF TypeOK, DataInv, FromTimer
  <2>2. InHand(p, n)' <=> InHand(p, n)
    BY <2>1 DEF InHand
  <2>3. InChan(p, n)' <=> InChan(p, n)
    BY <1>3, <2>1 DEF Number
  <2> QED
    BY <1>2, <1>5, <2>2, <2>3
<1> QED
  BY <1>4, <1>5 DEF Carrier

(* get() takes a reply out of the channel, and is done with it. *)
LEMMA ReceivePlaces ==
  ASSUME TypeOK, DataInv, NEW t \in Thread, Receive(t), NEW q, NEW r,
         q = at[t], r = Head(chan[q]), NEW p \in Query, NEW n
  PROVE  /\ OnLink(p, n)' <=> OnLink(p, n)
         /\ InHand(p, n)' <=> InHand(p, n)
         /\ InChan(p, n) <=> InChan(p, n)' \/ (p = q /\ n = r.nr)
         /\ Dropped(p, n)' <=> Dropped(p, n) \/ (p = q /\ n = r.nr)
<1>1. /\ q \in Query /\ chan[q] # <<>> /\ chan[q] \in Seq(Reply)
      /\ r.query = q /\ r = chan[q][1]
      /\ chan' = [chan EXCEPT ![q] = Tail(chan[q])] /\ chan'[q] = Tail(chan[q])
      /\ leaked' = (IF Skipped(r) THEN leaked \cup {r} ELSE leaked)
      /\ freed' = (IF Skipped(r) THEN freed ELSE freed \cup {r})
      /\ UNCHANGED <<net, hand>>
  BY ReceiveEffect DEF routerVars
<1>2. /\ OnLink(p, n)' <=> OnLink(p, n)
      /\ InHand(p, n)' <=> InHand(p, n)
  BY <1>1 DEF OnLink, InHand
<1>3. freed' \cup leaked' = freed \cup leaked \cup {r}
  BY <1>1
<1>4. Dropped(p, n)' <=> Dropped(p, n) \/ (p = q /\ n = r.nr)
  BY <1>1, <1>3 DEF Dropped
<1>5. InChan(p, n) <=> InChan(p, n)' \/ (p = q /\ n = r.nr)
  <2>1. CASE p # q
    BY <1>1, <2>1 DEF InChan, TypeOK
  <2>2. CASE p = q
    <3>1. /\ 1 \in 1..Len(chan[q])
          /\ \A i \in 1..Len(chan'[q]) : chan'[q][i] = chan[q][i + 1] /\ i + 1 \in 1..Len(chan[q])
          /\ \A i \in 1..Len(chan[q]) :
                i = 1 \/ (i - 1 \in 1..Len(chan'[q]) /\ chan[q][i] = chan'[q][i - 1])
      <4>1. PICK s : s = Tail(chan[q])
        OBVIOUS
      <4>2. /\ 1 \in 1..Len(chan[q])
            /\ \A i \in 1..Len(s) : s[i] = chan[q][i + 1] /\ i + 1 \in 1..Len(chan[q])
            /\ \A i \in 1..Len(chan[q]) : i = 1 \/ (i - 1 \in 1..Len(s) /\ chan[q][i] = s[i - 1])
        BY <1>1, <4>1, FrontAndEnd
      <4> QED
        BY <1>1, <4>1, <4>2
    <3> QED
      BY <1>1, <2>2, <3>1 DEF InChan
  <2> QED
    BY <2>1, <2>2
<1> QED
  BY <1>2, <1>4, <1>5

(* The other steps leave replies where they are. *)
LEMMA OtherPlaces ==
  ASSUME TypeOK, UNCHANGED <<chan, freed, leaked>>, hand'["rx"] = hand["rx"], NEW p, NEW n
  PROVE  /\ InHand(p, n)' <=> InHand(p, n)
         /\ InChan(p, n)' <=> InChan(p, n)
         /\ Dropped(p, n)' <=> Dropped(p, n)
  BY DEF InHand, InChan, Dropped

-----------------------------------------------------------------------------
(* One row. *)

LEMMA PlacesInit ==
  ASSUME Init, NEW q \in Query, NEW n
  PROVE  ~OnLink(q, n) /\ ~InHand(q, n) /\ ~InChan(q, n) /\ ~Dropped(q, n)
  BY EmptySeq DEF Init, OnLink, InHand, InChan, Dropped, Carrier

LEMMA RowInit == Init => RowInv
<1> SUFFICES ASSUME Init PROVE RowInv
  OBVIOUS
<1>1. LinkRow /\ ChanRow
  BY EmptySeq DEF Init, LinkRow, ChanRow
<1>2. Ahead
  BY PlacesInit DEF Ahead, Taken
<1> QED
  BY <1>1, <1>2 DEF RowInv

LEMMA LinkRowNext == TypeOK /\ DataInv /\ LinkRow /\ [Next]_allVars => LinkRow'
<1> SUFFICES ASSUME TypeOK, DataInv, LinkRow, [Next]_allVars PROVE LinkRow'
  OBVIOUS
<1>1. CASE UNCHANGED net
  BY <1>1 DEF LinkRow
<1>2. CASE RxTakes
  <2>1. /\ \A i \in 1..Len(net') : net'[i] = net[i + 1] /\ i + 1 \in 1..Len(net)
        /\ Len(net') \in Nat
    BY <1>2, TakeEffect
  <2>2. \A i, j \in 1..Len(net') : i < j => i + 1 < j + 1
    BY <2>1
  <2> QED
    BY <2>1, <2>2 DEF LinkRow
<1>3. ASSUME NEW m \in Message, net' = Append(net, m),
             m \in Reply => \A i \in 1..Len(net) :
                               net[i] \in Reply /\ net[i].query = m.query => net[i].nr < m.nr
      PROVE  LinkRow'
  <2>1. /\ Len(net) \in Nat /\ net'[Len(net) + 1] = m
        /\ \A i \in 1..Len(net) : net'[i] = net[i]
        /\ \A i \in 1..Len(net') : i \in 1..Len(net) \/ i = Len(net) + 1
    BY <1>3, WriteEffect
  <2> SUFFICES ASSUME NEW i \in 1..Len(net'), NEW j \in 1..Len(net'), i < j,
                      net'[i] \in Reply, net'[j] \in Reply, net'[i].query = net'[j].query
               PROVE  net'[i].nr < net'[j].nr
    BY DEF LinkRow
  <2>2. i \in 1..Len(net) /\ net'[i] = net[i]
    BY <2>1
  <2>3. CASE j \in 1..Len(net)
    BY <2>1, <2>2, <2>3 DEF LinkRow
  <2>4. CASE j = Len(net) + 1
    BY <1>3, <2>1, <2>2, <2>4
  <2> QED
    BY <2>1, <2>3, <2>4
<1>4. ASSUME NEW q \in Query, RouterEnds(q) PROVE LinkRow'
  <2>1. Final(q) \in Message /\ Final(q) \notin Reply
    BY Forms DEF Message
  <2> QED
    BY <1>3, <1>4, <2>1 DEF RouterEnds
<1>5. CASE RouterSample
  <2>1. Sample(samples + 1) \in Message /\ Sample(samples + 1) \notin Reply
    <3>1. samples + 1 \in 1..MaxSamples
      BY <1>5, BoundAssumption DEF RouterSample, TypeOK
    <3> QED
      BY <3>1, Forms DEF Message
  <2> QED
    BY <1>3, <1>5, <2>1 DEF RouterSample
<1>6. ASSUME NEW q \in Query, NEW kind \in Kind, RouterReplies(q, kind) PROVE LinkRow'
  <2>1. PICK r \in Reply :
           /\ r.query = q /\ r.nr = Len(sent[q]) + 1 /\ Len(sent[q]) \in Nat
           /\ r \in Message /\ net' = Append(net, r)
    BY <1>6, RepliesEffect
  <2>2. ASSUME NEW i \in 1..Len(net), net[i] \in Reply, net[i].query = q
        PROVE  net[i].nr < r.nr
    <3>1. Genuine(net[i])
      BY <2>2 DEF DataInv
    <3> QED
      BY <2>1, <2>2, <3>1 DEF Genuine
  <2> QED
    BY <1>3, <2>1, <2>2
<1>7. UNCHANGED net \/ RxTakes \/ RouterSample
        \/ \E q \in Query : RouterEnds(q) \/ \E kind \in Kind : RouterReplies(q, kind)
  BY DEF Next, allVars, Ask, Receive, Return, CallbackReturns, Put, Timeout
<1> QED
  BY <1>1, <1>2, <1>4, <1>5, <1>6, <1>7

LEMMA ChanRowNext ==
  TypeOK /\ DataInv /\ LifeInv /\ RowInv /\ [Next]_allVars => ChanRow'
<1> SUFFICES ASSUME TypeOK, DataInv, LifeInv, RowInv, [Next]_allVars PROVE ChanRow'
  OBVIOUS
<1>1. CASE UNCHANGED chan
  BY <1>1 DEF RowInv, ChanRow
<1>2. ASSUME NEW t \in Thread, Receive(t) PROVE ChanRow'
  <2>1. PICK q, s : q = at[t] /\ s = Tail(chan[q])
    OBVIOUS
  <2>2. /\ q \in Query /\ chan[q] # <<>> /\ chan[q] \in Seq(Reply)
        /\ chan' = [chan EXCEPT ![q] = Tail(chan[q])] /\ chan'[q] = s
    BY <1>2, <2>1, ReceiveEffect
  <2>3. /\ \A i \in 1..Len(s) : s[i] = chan[q][i + 1] /\ i + 1 \in 1..Len(chan[q])
        /\ Len(s) \in Nat
    BY <2>1, <2>2, FrontAndEnd
  <2>4. \A i, j \in 1..Len(s) : i < j => i + 1 < j + 1
    BY <2>3
  <2>5. ASSUME NEW i \in 1..Len(s), NEW j \in 1..Len(s), i < j, s[i].nr # 0, s[j].nr # 0
        PROVE  s[i].nr < s[j].nr
    <3>1. \A k, l \in 1..Len(chan[q]) :
             k < l /\ chan[q][k].nr # 0 /\ chan[q][l].nr # 0 => chan[q][k].nr < chan[q][l].nr
      BY <2>2 DEF RowInv, ChanRow
    <3>2. /\ i + 1 \in 1..Len(chan[q]) /\ j + 1 \in 1..Len(chan[q]) /\ i + 1 < j + 1
          /\ s[i] = chan[q][i + 1] /\ s[j] = chan[q][j + 1]
      BY <2>3, <2>4, <2>5
    <3> QED
      BY <2>5, <3>1, <3>2
  <2>6. \A p \in Query : p # q => chan'[p] = chan[p]
    BY <2>2 DEF TypeOK
  <2> QED
    BY <2>2, <2>5, <2>6 DEF RowInv, ChanRow
<1>3. ASSUME NEW x \in Carrier, Put(x) PROVE ChanRow'
  <2>1. PICK r \in hand[x] :
           /\ r \in Reply /\ r.query \in Query /\ chan[r.query] \in Seq(Reply)
           /\ chan' = [chan EXCEPT ![r.query] = Append(chan[r.query], r)]
           /\ chan'[r.query] = Append(chan[r.query], r)
    BY <1>3, PutEffect
  <2>2. PICK q, s : q = r.query /\ s = Append(chan[q], r)
    OBVIOUS
  <2>3. /\ Len(chan[q]) \in Nat /\ s[Len(chan[q]) + 1] = r
        /\ \A i \in 1..Len(chan[q]) : s[i] = chan[q][i]
        /\ \A i \in 1..Len(s) : i \in 1..Len(chan[q]) \/ i = Len(chan[q]) + 1
    BY <2>1, <2>2, FrontAndEnd
  <2>4. ASSUME NEW i \in 1..Len(chan[q]), chan[q][i].nr # 0, r.nr # 0
        PROVE  chan[q][i].nr < r.nr
    <3>1. x = "rx"
      BY <2>1, <2>4 DEF Carrier, DataInv, FromTimer
    <3>2. InHand(q, r.nr)
      BY <2>1, <2>2, <3>1 DEF InHand
    <3>3. InChan(q, chan[q][i].nr)
      BY DEF InChan
    <3>4. r.nr \in Number /\ chan[q][i].nr \in Number /\ q \in Query
      <4>1. chan[q][i] \in Reply
        BY <2>1, <2>2, ElementOfSeq
      <4>2. r.nr \in Nat /\ chan[q][i].nr \in Nat
        BY <2>1, <4>1, ReplyFields
      <4> QED
        BY <2>1, <2>2, <2>4, <4>2 DEF Number
    <3> QED
      BY <3>2, <3>3, <3>4 DEF RowInv, Ahead
  <2>5. ASSUME NEW i \in 1..Len(s), NEW j \in 1..Len(s), i < j, s[i].nr # 0, s[j].nr # 0
        PROVE  s[i].nr < s[j].nr
    <3>1. i \in 1..Len(chan[q])
      BY <2>3, <2>5
    <3>2. CASE j \in 1..Len(chan[q])
      BY <2>1, <2>2, <2>3, <2>5, <3>1, <3>2 DEF RowInv, ChanRow
    <3>3. CASE j = Len(chan[q]) + 1
      BY <2>3, <2>4, <2>5, <3>1, <3>3
    <3> QED
      BY <2>3, <3>2, <3>3
  <2>6. \A p \in Query : p # q => chan'[p] = chan[p]
    BY <2>1, <2>2 DEF TypeOK
  <2> QED
    BY <2>1, <2>2, <2>5, <2>6 DEF RowInv, ChanRow
<1>4. UNCHANGED chan \/ (\E t \in Thread : Receive(t)) \/ \E x \in Carrier : Put(x)
  BY DEF Next, allVars, Ask, Return, CallbackReturns, RxTakes, Timeout, RouterEnds,
         RouterReplies, RouterSample
<1> QED
  BY <1>1, <1>2, <1>3, <1>4

(* The reply that the RX thread takes off the link: it comes next in the row. *)
LEMMA FrontIsNext ==
  ASSUME TypeOK, LinkRow, RxTakes, net[1] \in Reply, NEW q, q = net[1].query,
         NEW n, OnLink(q, n)'
  PROVE  net[1].nr < n
<1>1. /\ 1 \in 1..Len(net) /\ Len(net') \in Nat
      /\ \A i \in 1..Len(net') : net'[i] = net[i + 1] /\ i + 1 \in 1..Len(net)
  BY TakeEffect
<1>2. PICK i \in 1..Len(net') :
         net'[i] \in Reply /\ net'[i].query = q /\ net'[i].nr = n
  BY DEF OnLink
<1>3. 1 < i + 1 /\ net[i + 1] = net'[i] /\ i + 1 \in 1..Len(net)
  BY <1>1
<1> QED
  BY <1>1, <1>2, <1>3 DEF LinkRow

(* A step that adds nothing to a place but leaves replies out, or does not *)
(* move any, keeps the row.                                                *)
LEMMA AheadStays ==
  ASSUME Ahead,
         \A p \in Query : \A n \in Number :
            /\ OnLink(p, n)' => OnLink(p, n)
            /\ InHand(p, n)' <=> InHand(p, n)
            /\ InChan(p, n)' <=> InChan(p, n)
            /\ Dropped(p, n)' <=> Dropped(p, n)
  PROVE  Ahead'
  BY DEF Ahead, Taken

LEMMA AheadNext ==
  TypeOK /\ DataInv /\ LifeInv /\ RowInv /\ [Next]_allVars => Ahead'
<1> SUFFICES ASSUME TypeOK, DataInv, LifeInv, RowInv, [Next]_allVars PROVE Ahead'
  OBVIOUS
<1>a. Ahead /\ LinkRow /\ ChanRow
  BY DEF RowInv
<1>1. ASSUME net' = net, UNCHANGED <<chan, freed, leaked>>, hand'["rx"] = hand["rx"]
      PROVE  Ahead'
  <2>1. \A p \in Query : \A n \in Number : OnLink(p, n)' <=> OnLink(p, n)
    BY <1>1 DEF OnLink
  <2> QED
    BY <1>1, <1>a, <2>1, OtherPlaces, AheadStays
<1>2. CASE RxTakes
  <2>1. CASE ~(net[1] \in Reply /\ net[1].query \in open)
    BY <1>2, <1>a, <2>1, LinkShrinks, HandTakes, AheadStays
  <2>2. CASE net[1] \in Reply /\ net[1].query \in open
    <3>1. PICK q, k : q = net[1].query /\ k = net[1].nr
      OBVIOUS
    <3>2. \A p \in Query : \A n \in Number :
             /\ OnLink(p, n) <=> OnLink(p, n)' \/ (p = q /\ n = k)
             /\ InHand(p, n)' <=> p = q /\ n = k
             /\ InChan(p, n)' <=> InChan(p, n)
             /\ Dropped(p, n)' <=> Dropped(p, n)
             /\ ~InHand(p, n)
      BY <1>2, <2>2, <3>1, LinkShrinks, HandTakes
    <3>3. \A n \in Number : OnLink(q, n)' => k < n
      BY <1>2, <1>a, <2>2, <3>1, FrontIsNext
    <3> SUFFICES ASSUME NEW p \in Query, NEW m \in Number, NEW n \in Number
                 PROVE  (/\ Dropped(p, m) /\ InChan(p, n) => m < n
                         /\ Dropped(p, m) /\ InHand(p, n) => m < n
                         /\ InChan(p, m) /\ InHand(p, n) => m < n
                         /\ Taken(p, m) /\ OnLink(p, n) => m < n)'
      BY DEF Ahead
    <3>4. /\ Dropped(p, m) /\ InChan(p, n) => m < n
          /\ Taken(p, m) /\ OnLink(p, n) => m < n
      BY <1>a DEF Ahead
    <3> QED
      BY <3>2, <3>3, <3>4 DEF Taken
  <2> QED
    BY <2>1, <2>2
<1>3. ASSUME NEW t \in Thread, Receive(t) PROVE Ahead'
  <2>1. PICK q, r : q = at[t] /\ r = Head(chan[q])
    OBVIOUS
  <2>2. /\ q \in Query /\ chan[q] # <<>> /\ chan[q] \in Seq(Reply) /\ r = chan[q][1]
        /\ chan'[q] = Tail(chan[q])
    BY <1>3, <2>1, ReceiveEffect
  <2>3. \A p \in Query : \A n \in Number :
           /\ OnLink(p, n)' <=> OnLink(p, n)
           /\ InHand(p, n)' <=> InHand(p, n)
           /\ InChan(p, n) <=> InChan(p, n)' \/ (p = q /\ n = r.nr)
           /\ Dropped(p, n)' <=> Dropped(p, n) \/ (p = q /\ n = r.nr)
    BY <1>3, <2>1, ReceivePlaces
  <2>4. \A n \in Number : r.nr \in Number /\ InChan(q, n)' => r.nr < n
    <3>1. PICK s : s = Tail(chan[q])
      OBVIOUS
    <3>2. /\ \A i \in 1..Len(s) : s[i] = chan[q][i + 1] /\ i + 1 \in 1..Len(chan[q])
          /\ Len(s) \in Nat /\ 1 \in 1..Len(chan[q])
      BY <2>2, <3>1, FrontAndEnd
    <3> SUFFICES ASSUME NEW n \in Number, r.nr \in Number, InChan(q, n)' PROVE r.nr < n
      OBVIOUS
    <3>3. PICK i \in 1..Len(s) : s[i].nr = n
      BY <2>2, <3>1 DEF InChan
    <3>4. \A k, l \in 1..Len(chan[q]) :
             k < l /\ chan[q][k].nr # 0 /\ chan[q][l].nr # 0 => chan[q][k].nr < chan[q][l].nr
      BY <1>a, <2>2 DEF ChanRow
    <3>5. 1 < i + 1 /\ i + 1 \in 1..Len(chan[q]) /\ chan[q][i + 1].nr = n
      BY <3>2, <3>3
    <3> QED
      BY <2>2, <3>2, <3>4, <3>5 DEF Number
  <2> SUFFICES ASSUME NEW p \in Query, NEW m \in Number, NEW n \in Number
               PROVE  (/\ Dropped(p, m) /\ InChan(p, n) => m < n
                       /\ Dropped(p, m) /\ InHand(p, n) => m < n
                       /\ InChan(p, m) /\ InHand(p, n) => m < n
                       /\ Taken(p, m) /\ OnLink(p, n) => m < n)'
    BY DEF Ahead
  <2>5. /\ Dropped(p, m) /\ InChan(p, n) => m < n
        /\ Dropped(p, m) /\ InHand(p, n) => m < n
        /\ InChan(p, m) /\ InHand(p, n) => m < n
        /\ Taken(p, m) /\ OnLink(p, n) => m < n
    BY <1>a DEF Ahead
  <2> QED
    BY <2>3, <2>4, <2>5 DEF Taken
<1>4. ASSUME NEW x \in Carrier, Put(x) PROVE Ahead'
  <2> SUFFICES ASSUME NEW p \in Query, NEW m \in Number, NEW n \in Number
               PROVE  (/\ Dropped(p, m) /\ InChan(p, n) => m < n
                       /\ Dropped(p, m) /\ InHand(p, n) => m < n
                       /\ InChan(p, m) /\ InHand(p, n) => m < n
                       /\ Taken(p, m) /\ OnLink(p, n) => m < n)'
    BY DEF Ahead
  <2>1. \A k \in Number :
           /\ OnLink(p, k)' <=> OnLink(p, k)
           /\ Dropped(p, k)' <=> Dropped(p, k)
           /\ InHand(p, k)' => InHand(p, k) /\ \A l \in Number : InChan(p, l)' <=> InChan(p, l)
           /\ InHand(p, k) \/ InChan(p, k) <=> InHand(p, k)' \/ InChan(p, k)'
    <3>1. CASE x = "rx"
      BY <1>4, <3>1, PutPlaces
    <3>2. CASE x = "timer"
      <4>1. hand'["rx"] = hand["rx"]
        BY <1>4, <3>2 DEF Put, TypeOK
      <4>2. \A k \in Number : InHand(p, k)' <=> InHand(p, k)
        BY <4>1 DEF InHand
      <4>3. UNCHANGED net
        BY <1>4 DEF Put
      <4> QED
        BY <1>4, <4>2, PutPlaces
    <3> QED
      BY <3>1, <3>2 DEF Carrier
  <2>5. /\ Dropped(p, m) /\ InChan(p, n) => m < n
        /\ Dropped(p, m) /\ InHand(p, n) => m < n
        /\ InChan(p, m) /\ InHand(p, n) => m < n
        /\ Taken(p, m) /\ OnLink(p, n) => m < n
    BY <1>a DEF Ahead
  <2> QED
    BY <2>1, <2>5 DEF Taken
<1>5. ASSUME NEW m \in Message, net' = Append(net, m), m \notin Reply,
             UNCHANGED <<chan, freed, leaked, hand>>
      PROVE  Ahead'
  BY <1>5, <1>a, LinkGrows, OtherPlaces, AheadStays
<1>6. ASSUME NEW q \in Query, RouterEnds(q) PROVE Ahead'
  <2>1. Final(q) \in Message /\ Final(q) \notin Reply
    BY Forms DEF Message
  <2> QED
    BY <1>5, <1>6, <2>1 DEF RouterEnds
<1>7. CASE RouterSample
  <2>1. Sample(samples + 1) \in Message /\ Sample(samples + 1) \notin Reply
    <3>1. samples + 1 \in 1..MaxSamples
      BY <1>7, BoundAssumption DEF RouterSample, TypeOK
    <3> QED
      BY <3>1, Forms DEF Message
  <2> QED
    BY <1>5, <1>7, <2>1 DEF RouterSample
<1>8. ASSUME NEW q \in Query, NEW kind \in Kind, RouterReplies(q, kind) PROVE Ahead'
  <2>1. PICK r \in Reply :
           /\ r.query = q /\ r.nr = Len(sent[q]) + 1 /\ Len(sent[q]) \in Nat
           /\ r \in Message /\ net' = Append(net, r)
           /\ UNCHANGED <<callerVars, sessionVars, answering, samples, historyVars>>
    BY <1>8, RepliesEffect
  <2>2. \A p \in Query : \A n \in Number :
           /\ OnLink(p, n)' <=> OnLink(p, n) \/ (p = q /\ n = r.nr)
           /\ InHand(p, n)' <=> InHand(p, n)
           /\ InChan(p, n)' <=> InChan(p, n)
           /\ Dropped(p, n)' <=> Dropped(p, n)
    BY <2>1, LinkGrows, OtherPlaces
  <2>3. \A m \in Number : Taken(q, m) => m < r.nr
    <3>1. \A m \in Number : Taken(q, m) => m \in 1..Len(sent[q])
      BY PlacedIsSent
    <3> QED
      BY <2>1, <3>1
  <2> SUFFICES ASSUME NEW p \in Query, NEW m \in Number, NEW n \in Number
               PROVE  (/\ Dropped(p, m) /\ InChan(p, n) => m < n
                       /\ Dropped(p, m) /\ InHand(p, n) => m < n
                       /\ InChan(p, m) /\ InHand(p, n) => m < n
                       /\ Taken(p, m) /\ OnLink(p, n) => m < n)'
    BY DEF Ahead
  <2>4. /\ Dropped(p, m) /\ InChan(p, n) => m < n
        /\ Dropped(p, m) /\ InHand(p, n) => m < n
        /\ InChan(p, m) /\ InHand(p, n) => m < n
        /\ Taken(p, m) /\ OnLink(p, n) => m < n
    BY <1>a DEF Ahead
  <2> QED
    BY <2>2, <2>3, <2>4 DEF Taken
<1>9. ASSUME UNCHANGED allVars \/ CallbackReturns \/ (\E t \in Thread : Ask(t) \/ Return(t))
             \/ \E q \in Query : Timeout(q)
      PROVE  Ahead'
  <2>1. net' = net /\ UNCHANGED <<chan, freed, leaked>>
    BY <1>9 DEF allVars, CallbackReturns, Ask, Return, Timeout
  <2>2. hand'["rx"] = hand["rx"]
    BY <1>9 DEF allVars, CallbackReturns, Ask, Return, Timeout, TypeOK, Carrier
  <2> QED
    BY <1>1, <2>1, <2>2
<1> QED
  BY <1>2, <1>3, <1>4, <1>6, <1>7, <1>8, <1>9 DEF Next

LEMMA RowNext ==
  TypeOK /\ DataInv /\ LifeInv /\ RowInv /\ [Next]_allVars => RowInv'
  BY LinkRowNext, ChanRowNext, AheadNext DEF RowInv

-----------------------------------------------------------------------------
(* Nothing is missing. *)

LEMMA WholeInit == Init => WholeInv
<1> SUFFICES ASSUME Init PROVE WholeInv
  OBVIOUS
<1>1. \A q \in Query : Len(sent[q]) = 0
  BY EmptySeq DEF Init
<1> QED
  BY <1>1, PlacesInit DEF WholeInv, Taken, Number

LEMMA WholeNext ==
  TypeOK /\ DataInv /\ LifeInv /\ FinalInv /\ RowInv /\ WholeInv /\ [Next]_allVars
     => WholeInv'
<1> SUFFICES ASSUME TypeOK, DataInv, LifeInv, FinalInv, RowInv, WholeInv, [Next]_allVars
             PROVE  WholeInv'
  OBVIOUS
<1>1. ASSUME UNCHANGED sent, cut \subseteq cut',
             \A p \in Query : \A n \in Number :
                /\ Taken(p, n)' <=> Taken(p, n)
                /\ p \notin cut' => (OnLink(p, n) => OnLink(p, n)' \/ Taken(p, n)')
      PROVE  WholeInv'
  BY <1>1 DEF WholeInv
<1>2. CASE RxTakes
  <2>1. UNCHANGED <<sent, cut, started>>
    BY <1>2, TakeEffect
  <2>2. CASE net[1] \notin Reply
    BY <1>1, <1>2, <2>1, <2>2, LinkShrinks, HandTakes DEF Taken
  <2>3. CASE net[1] \in Reply
    <3>1. PICK q, k : q = net[1].query /\ k = net[1].nr
      OBVIOUS
    <3>2. /\ q \in Query /\ 1 \in 1..Len(net) /\ Genuine(net[1])
      <4>1. 1 \in 1..Len(net)
        BY <1>2, TakeEffect
      <4> QED
        BY <2>3, <3>1, <4>1, ReplyFields DEF DataInv
    <3>3. k \in Number /\ k \in 1..Len(sent[q]) /\ Len(sent[q]) \in Nat
      BY <3>1, <3>2 DEF Genuine, Number, TypeOK
    <3>4. CASE q \notin open
      <4>1. q \in cut
        <5>1. q \in 1..started
          <6>1. sent[q] # <<>>
            BY <3>3, EmptySeq
          <6> QED
            BY <3>2, <6>1 DEF LifeInv, TypeOK, Query
        <5> QED
          BY <2>3, <3>1, <3>2, <3>4, <5>1 DEF FinalInv
      <4> QED
        BY <1>1, <1>2, <2>1, <3>1, <3>4, <4>1, LinkShrinks, HandTakes DEF Taken
    <3>5. CASE q \in open
      <4>1. \A p \in Query : \A n \in Number :
               /\ OnLink(p, n) <=> OnLink(p, n)' \/ (p = q /\ n = k)
               /\ Taken(p, n)' <=> Taken(p, n) \/ (p = q /\ n = k)
        BY <1>2, <2>3, <3>1, <3>5, LinkShrinks, HandTakes DEF Taken
      <4>2. \A n \in Number : OnLink(q, n)' => k < n
        BY <1>2, <2>3, <3>1, FrontIsNext DEF RowInv
      <4>3. q \notin cut
        BY <3>5 DEF LifeInv
      <4>4. \A m \in Number : m < k => Taken(q, m)
        <5> SUFFICES ASSUME NEW m \in Number, m < k PROVE Taken(q, m)
          OBVIOUS
        <5>1. m <= Len(sent[q])
          BY <3>3 DEF Number
        <5>2. Taken(q, m) \/ OnLink(q, m)
          BY <3>2, <4>3, <5>1 DEF WholeInv
        <5>3. ~OnLink(q, m)
          BY <3>2, <3>3, <4>1, <4>2 DEF Number
        <5> QED
          BY <5>2, <5>3
      <4> SUFFICES ASSUME NEW p \in Query, NEW n \in Number
                   PROVE  (/\ \A m \in Number : Taken(p, n) /\ m < n => Taken(p, m)
                           /\ p \notin cut /\ n <= Len(sent[p]) => Taken(p, n) \/ OnLink(p, n))'
        BY DEF WholeInv
      <4>5. /\ \A m \in Number : Taken(p, n) /\ m < n => Taken(p, m)
            /\ p \notin cut /\ n <= Len(sent[p]) => Taken(p, n) \/ OnLink(p, n)
        BY DEF WholeInv
      <4> QED
        BY <2>1, <4>1, <4>4, <4>5
    <3> QED
      BY <3>4, <3>5
  <2> QED
    BY <2>2, <2>3
<1>3. ASSUME NEW t \in Thread, Receive(t) PROVE WholeInv'
  <2>1. PICK q, r : q = at[t] /\ r = Head(chan[q])
    OBVIOUS
  <2>2. UNCHANGED <<sent, cut>>
    BY <1>3 DEF Receive
  <2>3. \A p \in Query : \A n \in Number :
           /\ OnLink(p, n)' <=> OnLink(p, n)
           /\ InHand(p, n)' <=> InHand(p, n)
           /\ InChan(p, n) <=> InChan(p, n)' \/ (p = q /\ n = r.nr)
           /\ Dropped(p, n)' <=> Dropped(p, n) \/ (p = q /\ n = r.nr)
    BY <1>3, <2>1, ReceivePlaces
  <2>4. \A p \in Query : \A n \in Number : Taken(p, n)' <=> Taken(p, n)
    BY <2>3 DEF Taken
  <2> QED
    BY <1>1, <2>2, <2>3, <2>4
<1>4. ASSUME NEW x \in Carrier, Put(x) PROVE WholeInv'
  <2>1. UNCHANGED <<sent, cut>>
    BY <1>4 DEF Put
  <2>2. \A p \in Query : \A n \in Number :
           (OnLink(p, n)' <=> OnLink(p, n)) /\ (Taken(p, n)' <=> Taken(p, n))
    BY <1>4, PutPlaces DEF Taken
  <2> QED
    BY <1>1, <2>1, <2>2
<1>5. ASSUME NEW q \in Query, NEW kind \in Kind, RouterReplies(q, kind) PROVE WholeInv'
  <2>1. PICK r \in Reply :
           /\ r.query = q /\ r.nr = Len(sent[q]) + 1 /\ Len(sent[q]) \in Nat
           /\ r \in Message /\ net' = Append(net, r) /\ Len(sent'[q]) = Len(sent[q]) + 1
           /\ sent' = [sent EXCEPT ![q] = Append(sent[q], kind)]
           /\ UNCHANGED <<callerVars, sessionVars, answering, samples, historyVars>>
    BY <1>5, RepliesEffect
  <2>2. \A p \in Query : \A n \in Number :
           /\ OnLink(p, n)' <=> OnLink(p, n) \/ (p = q /\ n = r.nr)
           /\ Taken(p, n)' <=> Taken(p, n)
    BY <2>1, LinkGrows, OtherPlaces DEF Taken
  <2>3. \A p \in Query : p # q => sent'[p] = sent[p]
    BY <2>1 DEF TypeOK
  <2>4. \A n \in Number : n <= Len(sent'[q]) => n <= Len(sent[q]) \/ n = r.nr
    BY <2>1 DEF Number
  <2> SUFFICES ASSUME NEW p \in Query, NEW n \in Number
               PROVE  (/\ \A m \in Number : Taken(p, n) /\ m < n => Taken(p, m)
                       /\ p \notin cut /\ n <= Len(sent[p]) => Taken(p, n) \/ OnLink(p, n))'
    BY DEF WholeInv
  <2>5. /\ \A m \in Number : Taken(p, n) /\ m < n => Taken(p, m)
        /\ p \notin cut /\ n <= Len(sent[p]) => Taken(p, n) \/ OnLink(p, n)
    BY DEF WholeInv
  <2> QED
    BY <2>1, <2>2, <2>3, <2>4, <2>5
<1>6. ASSUME NEW m \in Message, net' = Append(net, m), m \notin Reply,
             UNCHANGED <<chan, freed, leaked, hand, sent, cut>>
      PROVE  WholeInv'
  BY <1>1, <1>6, LinkGrows, OtherPlaces DEF Taken
<1>7. ASSUME NEW q \in Query, RouterEnds(q) PROVE WholeInv'
  <2>1. Final(q) \in Message /\ Final(q) \notin Reply
    BY Forms DEF Message
  <2> QED
    BY <1>6, <1>7, <2>1 DEF RouterEnds
<1>8. CASE RouterSample
  <2>1. Sample(samples + 1) \in Message /\ Sample(samples + 1) \notin Reply
    <3>1. samples + 1 \in 1..MaxSamples
      BY <1>8, BoundAssumption DEF RouterSample, TypeOK
    <3> QED
      BY <3>1, Forms DEF Message
  <2> QED
    BY <1>6, <1>8, <2>1 DEF RouterSample
<1>9. ASSUME UNCHANGED allVars \/ CallbackReturns \/ (\E t \in Thread : Ask(t) \/ Return(t))
             \/ \E q \in Query : Timeout(q)
      PROVE  WholeInv'
  <2>1. net' = net /\ UNCHANGED <<chan, freed, leaked, sent>> /\ cut \subseteq cut'
    BY <1>9 DEF allVars, CallbackReturns, Ask, Return, Timeout
  <2>2. hand'["rx"] = hand["rx"]
    BY <1>9 DEF allVars, CallbackReturns, Ask, Return, Timeout, TypeOK, Carrier
  <2>3. \A p \in Query : \A n \in Number : OnLink(p, n)' <=> OnLink(p, n)
    BY <2>1 DEF OnLink
  <2> QED
    BY <1>1, <2>1, <2>2, <2>3, OtherPlaces DEF Taken
<1> QED
  BY <1>2, <1>3, <1>4, <1>5, <1>7, <1>8, <1>9 DEF Next

-----------------------------------------------------------------------------
(* What get() keeps. *)

LEMMA KeptInit == Init => KeptInv
<1> SUFFICES ASSUME Init PROVE KeptInv
  OBVIOUS
<1>1. \A q \in Query : vars[q] = <<>> /\ Len(vars[q]) = 0 /\ 1..Len(vars[q]) = {}
  BY EmptySeq DEF Init
<1> QED
  BY <1>1, PlacesInit DEF KeptInv, Collected

LEMMA KeptNext ==
  TypeOK /\ DataInv /\ RowInv /\ KeptInv /\ [Next]_allVars => KeptInv'
<1> SUFFICES ASSUME TypeOK, DataInv, RowInv, KeptInv, [Next]_allVars PROVE KeptInv'
  OBVIOUS
<1>1. ASSUME NEW q \in Query, NEW n \in Number, Dropped(q, n)
      PROVE  sent'[q][n] = sent[q][n]
  <2>1. n \in 1..Len(sent[q])
    BY <1>1, PlacedIsSent DEF Taken
  <2> QED
    BY <2>1, SentGrows
<1>2. CASE UNCHANGED <<vars, freed, leaked>>
  <2>1. \A q \in Query : Collected(q)' = Collected(q)
    BY <1>2 DEF Collected
  <2>2. \A q \in Query : \A n \in Number : Dropped(q, n)' <=> Dropped(q, n)
    BY <1>2 DEF Dropped
  <2> QED
    BY <1>1, <1>2, <2>1, <2>2 DEF KeptInv
<1>3. ASSUME NEW t \in Thread, Receive(t) PROVE KeptInv'
  <2>1. PICK q, r : q = at[t] /\ r = Head(chan[q])
    OBVIOUS
  <2>2. /\ q \in Query /\ chan[q] # <<>> /\ chan[q] \in Seq(Reply)
        /\ r \in Reply /\ r.query = q /\ (Genuine(r) \/ FromTimer(r)) /\ r = chan[q][1]
        /\ vars' = [vars EXCEPT ![q] = IF Kept(r) THEN Append(vars[q], r.nr) ELSE vars[q]]
        /\ UNCHANGED sent
    <3>1. UNCHANGED sent
      BY <1>3 DEF Receive
    <3>2. /\ q \in Query /\ chan[q] # <<>> /\ chan[q] \in Seq(Reply)
          /\ r \in Reply /\ r.query = q /\ r = chan[q][1]
      BY <1>3, <2>1, ReceiveEffect
    <3>3. Genuine(r) \/ FromTimer(r)
      BY <1>3, <2>1, ReceiveEffect
    <3>4. vars' = [vars EXCEPT ![q] = IF Kept(r) THEN Append(vars[q], r.nr) ELSE vars[q]]
      BY <1>3, <2>1 DEF Receive
    <3> QED
      BY <3>1, <3>2, <3>3, <3>4
  <2>3. \A p \in Query : \A n \in Number :
           Dropped(p, n)' <=> Dropped(p, n) \/ (p = q /\ n = r.nr)
    BY <1>3, <2>1, ReceivePlaces
  <2>4. vars \in [Query -> Seq(1..Len(Answers))]
    BY DEF TypeOK
  <2>5. /\ vars'[q] = IF Kept(r) THEN Append(vars[q], r.nr) ELSE vars[q]
        /\ \A p \in Query : p # q => vars'[p] = vars[p]
    BY <2>2, <2>4
  <2>6. /\ r.nr \in Number => InChan(q, r.nr) /\ sent[q][r.nr] = r.kind
        /\ Kept(r) => r.nr \in Number /\ r.nr \in 1..Len(Answers)
    <3>1. r.nr \in 0..Len(Answers) /\ 1 \in 1..Len(chan[q]) /\ Len(Answers) \in Nat
      BY <2>2, ReplyFields, FrontAndEnd, AnswersAssumption
    <3>2. InChan(q, r.nr)
      BY <2>2, <3>1 DEF InChan
    <3>3. Genuine(r) => r.nr # 0 /\ sent[q][r.nr] = r.kind
      BY <2>2 DEF Genuine
    <3>4. FromTimer(r) => r.nr = 0 /\ ~Kept(r)
      BY DEF FromTimer, Kept
    <3> QED
      BY <2>2, <3>1, <3>2, <3>3, <3>4 DEF Number
  <2>7. ASSUME NEW p \in Query, p # q
        PROVE  (/\ \A i, j \in 1..Len(vars[p]) : i < j => vars[p][i] < vars[p][j]
                /\ \A n \in Number :
                      n \in Collected(p) <=> Dropped(p, n) /\ sent[p][n] = "value")'
    <3>1. Collected(p)' = Collected(p) /\ vars'[p] = vars[p]
      BY <2>5, <2>7 DEF Collected
    <3> QED
      BY <2>2, <2>3, <2>7, <3>1 DEF KeptInv
  <2>8. CASE ~Kept(r)
    <3>1. Collected(q)' = Collected(q) /\ vars'[q] = vars[q]
      BY <2>5, <2>8 DEF Collected
    <3>2. r.nr \in Number => sent[q][r.nr] # "value"
      BY <2>6, <2>8 DEF Kept
    <3>3. \A i, j \in 1..Len(vars'[q]) : i < j => vars'[q][i] < vars'[q][j]
      BY <2>2, <3>1 DEF KeptInv
    <3>4. \A n \in Number :
             n \in Collected(q)' <=> Dropped(q, n)' /\ sent'[q][n] = "value"
      BY <2>2, <2>3, <3>1, <3>2 DEF KeptInv
    <3> QED
      BY <2>7, <3>3, <3>4 DEF KeptInv
  <2>9. CASE Kept(r)
    <3>1. /\ Len(vars[q]) \in Nat /\ vars'[q] = Append(vars[q], r.nr)
          /\ r.nr \in Number /\ InChan(q, r.nr) /\ sent[q][r.nr] = "value"
      BY <2>2, <2>4, <2>5, <2>6, <2>9 DEF Kept
    <3>2. /\ Len(vars'[q]) = Len(vars[q]) + 1 /\ vars'[q][Len(vars[q]) + 1] = r.nr
          /\ \A i \in 1..Len(vars[q]) : vars'[q][i] = vars[q][i]
      BY <2>2, <2>4, <2>6, <2>9, <3>1, AppendProperties
    <3>3. \A i \in 1..Len(vars'[q]) : i \in 1..Len(vars[q]) \/ i = Len(vars[q]) + 1
      BY <3>1, <3>2
    <3>4. Collected(q)' = Collected(q) \cup {r.nr}
      <4>1. \A i \in 1..Len(vars[q]) : i \in 1..Len(vars'[q])
        BY <3>1, <3>2
      <4>2. Len(vars[q]) + 1 \in 1..Len(vars'[q])
        BY <3>1, <3>2
      <4> QED
        BY <3>2, <3>3, <4>1, <4>2 DEF Collected
    <3>5. ASSUME NEW i \in 1..Len(vars[q]) PROVE vars[q][i] < r.nr
      <4>1. vars[q][i] \in Number /\ vars[q][i] \in Collected(q)
        BY <2>2, <2>4, ElementOfSeq DEF Number, Collected
      <4>2. Dropped(q, vars[q][i])
        BY <2>2, <4>1 DEF KeptInv
      <4> QED
        BY <2>2, <3>1, <4>1, <4>2 DEF RowInv, Ahead
    <3>6. \A i, j \in 1..Len(vars[q]) : i < j => vars[q][i] < vars[q][j]
      BY <2>2 DEF KeptInv
    <3>7. ASSUME NEW i \in 1..Len(vars'[q]), NEW j \in 1..Len(vars'[q]), i < j
          PROVE  vars'[q][i] < vars'[q][j]
      <4>1. i \in 1..Len(vars[q]) /\ vars'[q][i] = vars[q][i]
        BY <3>1, <3>2, <3>3, <3>7
      <4> QED
        BY <3>2, <3>3, <3>5, <3>6, <3>7, <4>1
    <3>8. \A n \in Number :
             n \in Collected(q)' <=> Dropped(q, n)' /\ sent'[q][n] = "value"
      BY <2>2, <2>3, <3>1, <3>4 DEF KeptInv
    <3> QED
      BY <2>7, <3>7, <3>8 DEF KeptInv
  <2> QED
    BY <2>8, <2>9
<1>4. UNCHANGED <<vars, freed, leaked>> \/ \E t \in Thread : Receive(t)
  BY DEF Next, allVars, Ask, Return, CallbackReturns, RxTakes, Put, Timeout, RouterEnds,
         RouterReplies, RouterSample
<1> QED
  BY <1>2, <1>3, <1>4

-----------------------------------------------------------------------------
(* The theorems. *)

LEMMA InvCorrect == Spec => []IInv
<1>1. Init => IInv
  BY TypeInit, DataInit, LifeInit, FinalInit, RowInit, WholeInit, KeptInit DEF IInv
<1>2. IInv /\ [Next]_allVars => IInv'
  BY TypeNext, DataNext, LifeNext, FinalNext, RowNext, WholeNext, KeptNext DEF IInv
<1> QED
  BY <1>1, <1>2, PTL DEF Spec

(* Every variable has its type: no channel holds more than its places, and *)
(* what get() has collected are numbers of replies.                        *)
THEOREM TypeCorrect == Spec => []TypeOK
<1>1. IInv => TypeOK
  BY DEF IInv
<1> QED
  BY <1>1, InvCorrect, PTL

(* Once get() has returned to a caller whose query was neither refused nor *)
(* cut off, it has dealt with every reply.                                 *)
LEMMA AllDropped ==
  ASSUME IInv, NEW q \in returned \ cut, NEW n \in 1..Len(sent[q])
  PROVE  Dropped(q, n)
<1>1. /\ q \in Query /\ q \in 1..started /\ q \notin receivers /\ chan[q] = <<>>
      /\ n \in Number
  BY DEF IInv, LifeInv, TypeOK, Query, Number
<1>2. Taken(q, n) \/ OnLink(q, n)
  <2>1. n <= Len(sent[q])
    BY <1>1 DEF IInv, TypeOK
  <2> QED
    BY <1>1, <2>1 DEF IInv, WholeInv
<1>3. ~OnLink(q, n)
  <2>1. q \notin open \cup cut
    BY <1>1 DEF IInv, LifeInv
  <2> QED
    BY <1>1, <2>1 DEF IInv, FinalInv, OnLink
<1>4. ~InHand(q, n)
  BY <1>1 DEF IInv, LifeInv, InHand, Carrier
<1>5. ~InChan(q, n)
  BY <1>1, EmptySeq DEF InChan
<1> QED
  BY <1>2, <1>3, <1>4, <1>5 DEF Taken

LEMMA KeptIsDropped ==
  ASSUME IInv, NEW q \in Query, NEW n
  PROVE  n \in Collected(q) <=> n \in Values(q) /\ Dropped(q, n)
<1>1. ASSUME n \in Collected(q) PROVE n \in Values(q) /\ Dropped(q, n)
  <2>1. n \in Number
    BY <1>1, ElementOfSeq DEF Collected, IInv, TypeOK, Number
  <2>2. Dropped(q, n) /\ sent[q][n] = "value"
    BY <1>1, <2>1 DEF IInv, KeptInv
  <2>3. n \in 1..Len(sent[q])
    BY <2>1, <2>2, PlacedIsSent DEF IInv, Taken
  <2> QED
    BY <2>2, <2>3 DEF Values
<1>2. ASSUME n \in Values(q), Dropped(q, n) PROVE n \in Collected(q)
  <2>1. n \in Number /\ sent[q][n] = "value"
    BY <1>2 DEF Values, Number
  <2> QED
    BY <1>2, <2>1 DEF IInv, KeptInv
<1> QED
  BY <1>1, <1>2

(* What get() collects is the beginning of the answer to its own query, in  *)
(* order and without gap or repetition, and all of it when the query was    *)
(* neither refused nor cut off: no interleaving of the two threads that put *)
(* replies into channels, of late replies and of nested calls changes that. *)
THEOREM AnswersInOrder == Spec => []AnswerInOrder
<1>1. IInv => AnswerInOrder
  <2> SUFFICES ASSUME IInv, NEW q \in Query
               PROVE  /\ \A i, j \in 1..Len(vars[q]) : i < j => vars[q][i] < vars[q][j]
                      /\ Collected(q) \subseteq Values(q)
                      /\ \A n \in Values(q), m \in Collected(q) : n <= m => n \in Collected(q)
                      /\ q \in returned \ cut => Collected(q) = Values(q)
    BY DEF AnswerInOrder
  <2>1. \A i, j \in 1..Len(vars[q]) : i < j => vars[q][i] < vars[q][j]
    BY DEF IInv, KeptInv
  <2>2. Collected(q) \subseteq Values(q)
    BY KeptIsDropped
  <2>3. ASSUME NEW n \in Values(q), NEW m \in Collected(q), n <= m
        PROVE  n \in Collected(q)
    <3>1. m \in Values(q) /\ Dropped(q, m)
      BY KeptIsDropped
    <3>2. n \in Number /\ m \in Number
      BY <3>1 DEF Values, Number
    <3>3. CASE n = m
      BY <3>3
    <3>4. CASE n < m
      <4>1. Taken(q, n)
        BY <3>1, <3>2, <3>4 DEF IInv, WholeInv, Taken
      <4>2. ~(m < n)
        BY <3>2, <3>4 DEF Number
      <4>3. ~InHand(q, n) /\ ~InChan(q, n)
        BY <3>1, <3>2, <4>2 DEF IInv, RowInv, Ahead
      <4> QED
        BY <4>1, <4>3, KeptIsDropped DEF Taken
    <3> QED
      BY <2>3, <3>2, <3>3, <3>4 DEF Number
  <2>4. ASSUME q \in returned \ cut PROVE Collected(q) = Values(q)
    <3>1. \A n \in Values(q) : Dropped(q, n)
      BY <2>4, AllDropped DEF Values
    <3> QED
      BY <3>1, KeptIsDropped
  <2> QED
    BY <2>1, <2>2, <2>3, <2>4
<1> QED
  BY <1>1, InvCorrect, PTL

(* Of a query that get() has returned from, and that was neither refused    *)
(* nor cut off, every reply was released but for those under keys with '@', *)
(* and each of those leaked.                                                *)
THEOREM AdminRepliesLeak == Spec => []OnlyAdminLeaks
<1>1. IInv => OnlyAdminLeaks
  <2> SUFFICES ASSUME IInv, NEW q \in returned \ cut, NEW n \in 1..Len(sent[q])
               PROVE  [query |-> q, kind |-> sent[q][n], nr |-> n]
                         \in IF sent[q][n] = "admin" THEN leaked ELSE freed
    BY DEF OnlyAdminLeaks
  <2>1. PICK r \in freed \cup leaked : r.query = q /\ r.nr = n
    BY AllDropped DEF Dropped
  <2>2. Genuine(r) /\ (r \in freed => r.kind # "admin") /\ (r \in leaked => r.kind = "admin")
    <3>1. r.nr # 0
      BY <2>1
    <3> QED
      BY <2>1, <3>1 DEF IInv, DataInv, FromTimer
  <2>3. r.kind = sent[q][n] /\ r = [query |-> q, kind |-> sent[q][n], nr |-> n]
    BY <2>1, <2>2, ReplyFields DEF Genuine
  <2> QED
    BY <2>1, <2>2, <2>3
<1> QED
  BY <1>1, InvCorrect, PTL

=============================================================================
