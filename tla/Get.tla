-------------------------------- MODULE Get ---------------------------------
(***************************************************************************)
(* get(): the query itself. z_get hands the session a closure that puts    *)
(* replies into a FIFO channel of Capacity places; get() takes them out    *)
(* with z_recv until the channel is closed, keeps the values in vars, and  *)
(* drops each reply.                                                       *)
(*                                                                         *)
(* A thread that puts a reply into a full channel waits. There are two:    *)
(* the RX thread of the session, which takes replies and samples off the   *)
(* link in one order, and its timer, which ends a query that has had its   *)
(* time with an error reply. get() is called by the application on the     *)
(* API thread, or by the callback of a live sample on the RX thread, and   *)
(* by both at once. A reply may come in after the query has ended.         *)
(*                                                                         *)
(* Assumed of the code outside src/: the channel is closed when the        *)
(* session has ended the query and no thread is left in the closure; what  *)
(* is put into a channel whose handler was dropped is dropped; the router  *)
(* answers a query with replies and a final message, or falls silent at    *)
(* any point, which is all that get() sees of a link that breaks; a query  *)
(* ends on its final message or, whatever else happens, on its timeout.    *)
(***************************************************************************)
EXTENDS Naturals, Sequences

CONSTANTS
    Capacity,     \* places of the channel, 64 in the code
    Answers,      \* Answers[i]: kinds of the i-th reply to a query; bound:
                  \* there are no more replies than that
    MaxGets,      \* bound: number of get() calls that reach z_get
    MaxSamples    \* bound: number of live samples

(* A value, a value under a key that begins with '@', an error. The timer  *)
(* gives errors as well.                                                   *)
Kind == {"value", "admin", "error"}

ASSUME CapacityAssumption == Capacity \in Nat \ {0}
ASSUME AnswersAssumption == Answers \in Seq(SUBSET Kind)
ASSUME BoundAssumption == MaxGets \in Nat /\ MaxSamples \in Nat

Thread == {"api", "rx"}     \* of the process: who calls get()
Carrier == {"rx", "timer"}  \* of the session: who calls the closure
Query == 1..MaxGets
NoQuery == 0

Reply == [query : Query, kind : Kind, nr : 0..Len(Answers)]
TimeoutReply(q) == [query |-> q, kind |-> "error", nr |-> 0]
Final(q) == [final |-> q]
Sample(n) == [sample |-> n]
Message == Reply \cup {Final(q) : q \in Query} \cup {Sample(n) : n \in 1..MaxSamples}

VARIABLES
    \* callers
    at,           \* at[t]: the query that thread t is in get() for, if any
    inCallback,   \* the RX thread is in the callback of a sample
    vars,         \* vars[q]: numbers of the replies that get() has kept
    returned,     \* queries whose get() has returned
    \* the session
    started,      \* number of queries started
    open,         \* queries that neither the router nor the timer has ended
    hand,         \* hand[x]: the reply that x is putting into its channel
    chan,         \* chan[q]: replies in the channel
    receivers,    \* channels whose handler was not dropped
    \* link and router
    net,          \* messages on the link to this client
    answering,    \* queries that the router has not ended
    sent,         \* sent[q]: replies that the router has written
    samples,      \* number of samples it has written
    \* history
    shown,        \* number of samples given to a callback
    cut,          \* queries that the timer or a failing z_get has ended
    freed, leaked \* replies that get() has dropped, and those it has not

callerVars == <<at, inCallback, vars, returned>>
sessionVars == <<started, open, hand, chan, receivers>>
routerVars == <<net, answering, sent, samples>>
historyVars == <<shown, cut, freed, leaked>>
allVars == <<callerVars, sessionVars, routerVars, historyVars>>

Init ==
    /\ at = [t \in Thread |-> NoQuery] /\ inCallback = FALSE
    /\ vars = [q \in Query |-> <<>>] /\ returned = {}
    /\ started = 0 /\ open = {}
    /\ hand = [x \in Carrier |-> {}]
    /\ chan = [q \in Query |-> <<>>] /\ receivers = {}
    /\ net = <<>> /\ answering = {}
    /\ sent = [q \in Query |-> <<>>] /\ samples = 0
    /\ shown = 0 /\ cut = {} /\ freed = {} /\ leaked = {}

-----------------------------------------------------------------------------
(* get() on thread t. *)

MayCall(t) == at[t] = NoQuery /\ (t = "rx" => inCallback)

(* get() up to z_get, whose result is ignored: when it fails the closure   *)
(* is dropped, which closes the channel. A client without session and a    *)
(* malformed topic are refused before that, with no effect.                *)
Ask(t) ==
    /\ MayCall(t)
    /\ started < MaxGets
    /\ LET q == started + 1 IN
       /\ started' = q
       /\ at' = [at EXCEPT ![t] = q]
       /\ receivers' = receivers \cup {q}
       /\ \/ open' = open \cup {q} /\ answering' = answering \cup {q} /\ UNCHANGED cut
          \/ cut' = cut \cup {q} /\ UNCHANGED <<open, answering>>
    /\ UNCHANGED <<inCallback, vars, returned, hand, chan>>
    /\ UNCHANGED <<net, sent, samples, shown, freed, leaked>>

(* Variant with a bug: z_reply_is_ok is not asked. *)
KeptAny(r) == r.kind # "admin"

(* What the loop makes of a reply: values are kept, and the continue that  *)
(* skips the key of an admin reply skips z_drop as well.                   *)
Kept(r) == r.kind = "value"

(* Variant with a bug: an error is skipped the way an admin reply is.      *)
SkippedOrError(r) == r.kind \in {"admin", "error"}

Skipped(r) == r.kind = "admin"

(* Variant with a bug: the loop ends on the first error. *)
ReceiveUpToError(t) ==
    LET q == at[t] IN
    /\ q # NoQuery
    /\ chan[q] # <<>>
    /\ LET r == Head(chan[q]) IN
       /\ vars' = [vars EXCEPT ![q] = IF Kept(r) THEN Append(@, r.nr) ELSE @]
       /\ leaked' = IF Skipped(r) THEN leaked \cup {r} ELSE leaked
       /\ freed' = IF Skipped(r) THEN freed ELSE freed \cup {r}
       /\ at' = IF r.kind = "error" THEN [at EXCEPT ![t] = NoQuery] ELSE at
       /\ returned' = IF r.kind = "error" THEN returned \cup {q} ELSE returned
    /\ chan' = [chan EXCEPT ![q] = Tail(@)]
    /\ receivers' = IF Head(chan[q]).kind = "error" THEN receivers \ {q} ELSE receivers
    /\ UNCHANGED <<inCallback, started, open, hand>>
    /\ UNCHANGED <<routerVars, shown, cut>>

(* The loop takes a reply out of the channel. *)
Receive(t) ==
    LET q == at[t] IN
    /\ q # NoQuery
    /\ chan[q] # <<>>
    /\ LET r == Head(chan[q]) IN
       /\ vars' = [vars EXCEPT ![q] = IF Kept(r) THEN Append(@, r.nr) ELSE @]
       /\ leaked' = IF Skipped(r) THEN leaked \cup {r} ELSE leaked
       /\ freed' = IF Skipped(r) THEN freed ELSE freed \cup {r}
    /\ chan' = [chan EXCEPT ![q] = Tail(@)]
    /\ UNCHANGED <<at, inCallback, returned, started, open, hand, receivers>>
    /\ UNCHANGED <<routerVars, shown, cut>>

Closed(q) == q \notin open /\ \A x \in Carrier : \A r \in hand[x] : r.query # q

(* Variant with a bug: z_try_recv and no z_drop: an empty channel ends the *)
(* loop, and the handler stays.                                            *)
ReturnWhenEmpty(t) ==
    LET q == at[t] IN
    /\ q # NoQuery
    /\ chan[q] = <<>>
    /\ at' = [at EXCEPT ![t] = NoQuery]
    /\ returned' = returned \cup {q}
    /\ UNCHANGED <<inCallback, vars, sessionVars, routerVars, historyVars>>

(* Variant with a bug: a query that was cut off is waited for. *)
ReturnIfWhole(t) ==
    LET q == at[t] IN
    /\ q # NoQuery
    /\ chan[q] = <<>>
    /\ Closed(q)
    /\ q \notin cut
    /\ at' = [at EXCEPT ![t] = NoQuery]
    /\ returned' = returned \cup {q}
    /\ receivers' = receivers \ {q}
    /\ UNCHANGED <<inCallback, vars, started, open, hand, chan>>
    /\ UNCHANGED <<routerVars, historyVars>>

(* z_recv finds the channel empty and closed: the handler is dropped and   *)
(* get() returns 0 and vars, however the query has ended.                  *)
Return(t) ==
    LET q == at[t] IN
    /\ q # NoQuery
    /\ chan[q] = <<>>
    /\ Closed(q)
    /\ at' = [at EXCEPT ![t] = NoQuery]
    /\ returned' = returned \cup {q}
    /\ receivers' = receivers \ {q}
    /\ UNCHANGED <<inCallback, vars, started, open, hand, chan>>
    /\ UNCHANGED <<routerVars, historyVars>>

(* The callback of a sample returns, when no get() is left in it. *)
CallbackReturns ==
    /\ inCallback
    /\ at["rx"] = NoQuery
    /\ inCallback' = FALSE
    /\ UNCHANGED <<at, vars, returned, sessionVars, routerVars, historyVars>>

-----------------------------------------------------------------------------
(* The session. *)

(* The RX thread takes the next message, unless it waits for a channel or  *)
(* is in a callback. What belongs to a query that has ended is dropped.    *)
RxTakes ==
    /\ hand["rx"] = {}
    /\ ~inCallback
    /\ net # <<>>
    /\ net' = Tail(net)
    /\ LET m == Head(net) IN
       \/ /\ m \in Reply
          /\ hand' = [hand EXCEPT !["rx"] = IF m.query \in open THEN {m} ELSE {}]
          /\ UNCHANGED <<open, inCallback, shown>>
       \/ /\ \E q \in Query : m = Final(q) /\ open' = open \ {q}
          /\ UNCHANGED <<hand, inCallback, shown>>
       \/ /\ \E n \in 1..samples : m = Sample(n) /\ shown' = n
          /\ inCallback' = TRUE
          /\ UNCHANGED <<hand, open>>
    /\ UNCHANGED <<at, vars, returned, started, chan, receivers>>
    /\ UNCHANGED <<answering, sent, samples, cut, freed, leaked>>

(* The timer ends a query, with an error for the channel. *)
Timeout(q) ==
    /\ q \in open
    /\ hand["timer"] = {}
    /\ open' = open \ {q}
    /\ cut' = cut \cup {q}
    /\ hand' = [hand EXCEPT !["timer"] = {TimeoutReply(q)}]
    /\ UNCHANGED <<callerVars, started, chan, receivers, routerVars>>
    /\ UNCHANGED <<shown, freed, leaked>>

(* A reply goes into its channel, or nowhere when the handler is gone.     *)
Put(x) ==
    /\ \E r \in hand[x] :
          IF r.query \in receivers
          THEN /\ Len(chan[r.query]) < Capacity
               /\ chan' = [chan EXCEPT ![r.query] = Append(@, r)]
          ELSE UNCHANGED chan
    /\ hand' = [hand EXCEPT ![x] = {}]
    /\ UNCHANGED <<callerVars, started, open, receivers>>
    /\ UNCHANGED <<routerVars, historyVars>>

-----------------------------------------------------------------------------
(* The router and the link. *)

RouterReplies(q, kind) ==
    /\ q \in answering
    /\ Len(sent[q]) < Len(Answers)
    /\ kind \in Answers[Len(sent[q]) + 1]
    /\ sent' = [sent EXCEPT ![q] = Append(@, kind)]
    /\ net' = Append(net, [query |-> q, kind |-> kind, nr |-> Len(sent[q]) + 1])
    /\ UNCHANGED <<callerVars, sessionVars, answering, samples, historyVars>>

RouterEnds(q) ==
    /\ q \in answering
    /\ answering' = answering \ {q}
    /\ net' = Append(net, Final(q))
    /\ UNCHANGED <<callerVars, sessionVars, sent, samples, historyVars>>

RouterSample ==
    /\ samples < MaxSamples
    /\ samples' = samples + 1
    /\ net' = Append(net, Sample(samples + 1))
    /\ UNCHANGED <<callerVars, sessionVars, answering, sent, historyVars>>

-----------------------------------------------------------------------------

Next ==
    \/ \E t \in Thread : Ask(t) \/ Receive(t) \/ Return(t)
    \/ CallbackReturns
    \/ RxTakes
    \/ \E x \in Carrier : Put(x)
    \/ \E q \in Query :
          \/ Timeout(q)
          \/ RouterEnds(q)
          \/ \E kind \in Kind : RouterReplies(q, kind)
    \/ RouterSample

Spec == Init /\ [][Next]_allVars

(* The threads go on, and the time of a query passes. Nothing is asked of  *)
(* the router.                                                             *)
FairSpec ==
    /\ Spec
    /\ \A t \in Thread : WF_allVars(Receive(t)) /\ WF_allVars(Return(t))
    /\ \A x \in Carrier : WF_allVars(Put(x))
    /\ WF_allVars(CallbackReturns) /\ WF_allVars(RxTakes)
    /\ \A q \in Query : WF_allVars(Timeout(q))

-----------------------------------------------------------------------------

TypeOK ==
    /\ at \in [Thread -> Query \cup {NoQuery}] /\ inCallback \in BOOLEAN
    /\ vars \in [Query -> Seq(1..Len(Answers))] /\ returned \subseteq Query
    /\ started \in 0..MaxGets /\ open \subseteq 1..started
    /\ hand \in [Carrier -> SUBSET Reply]
    /\ chan \in [Query -> Seq(Reply)] /\ receivers \subseteq 1..started
    /\ \A q \in Query : Len(chan[q]) <= Capacity
    /\ net \in Seq(Message) /\ answering \subseteq 1..started
    /\ sent \in [Query -> Seq(Kind)] /\ samples \in 0..MaxSamples
    /\ shown \in 0..samples /\ cut \subseteq 1..started
    /\ freed \subseteq Reply /\ leaked \subseteq Reply

(* Numbers of the replies to q that are values, and of those that get()    *)
(* has kept.                                                               *)
Values(q) == {n \in 1..Len(sent[q]) : sent[q][n] = "value"}
Collected(q) == {vars[q][i] : i \in 1..Len(vars[q])}

(* What get() collects is the beginning of what the router has answered to *)
(* this very query, in order, nothing twice, errors and admin keys left    *)
(* out; and it is all of it when get() returns and the query was neither   *)
(* refused nor cut off by its timeout. A caller cannot see the difference. *)
AnswerInOrder ==
    \A q \in Query :
        /\ \A i, j \in 1..Len(vars[q]) : i < j => vars[q][i] < vars[q][j]
        /\ Collected(q) \subseteq Values(q)
        /\ \A n \in Values(q), m \in Collected(q) : n <= m => n \in Collected(q)
        /\ q \in returned \ cut => Collected(q) = Values(q)

(* Replies are released: once get() has returned from a query that was     *)
(* neither refused nor cut off, every reply to it was dropped, except for  *)
(* those under keys with '@', which the loop skips past its z_drop.        *)
OnlyAdminLeaks ==
    \A q \in returned \ cut : \A i \in 1..Len(sent[q]) :
        [query |-> q, kind |-> sent[q][i], nr |-> i]
            \in IF sent[q][i] = "admin" THEN leaked ELSE freed

(* No two actors wait for each other: get() returns on every thread, also  *)
(* in a callback on the RX thread, where nobody can bring it a reply, and  *)
(* when its replies fill the channel.                                      *)
GetReturns == \A t \in Thread : at[t] # NoQuery ~> at[t] = NoQuery

(* Samples get through behind replies that fill a channel and behind       *)
(* callbacks that call get(): none is lost.                                *)
SamplesGetThrough == \A n \in 1..MaxSamples : samples >= n ~> shown >= n
=============================================================================
