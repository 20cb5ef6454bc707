----------------------------- MODULE Callbacks ------------------------------
(***************************************************************************)
(* Callbacks that call the client again. In Subscription a callback just   *)
(* returns; here it may subscribe, unsubscribe, query and publish, and     *)
(* each thread has a stack of calls. A callback is run from three places:  *)
(* by the RX thread for the sample of another client ("live"), by the loop *)
(* in do_subscribe() for a stored value ("replay"), and by whichever       *)
(* thread is in publish() for a subscription of the same client ("local"), *)
(* as both examples and the tests have it.                                 *)
(*                                                                         *)
(* _subscriptions has no lock, the loop in do_subscribe() uses its context *)
(* after each callback, and unsubscribe() waits in zenoh. Tolerated says   *)
(* what the application may then do in a callback; the properties say that *)
(* this much is safe, and fail with more.                                  *)
(*                                                                         *)
(* Assumed of the code outside src/: z_put runs local callbacks before it  *)
(* returns, on the same thread; z_undeclare_subscriber waits for running   *)
(* callbacks that zenoh itself has called, of which the replay is none; a  *)
(* query ends, by its timeout if need be (see Get).                        *)
(***************************************************************************)
EXTENDS Naturals, SequencesExt

CONSTANTS
    Topic,
    MaxContexts,  \* bound: number of contexts ever made
    MaxCalls,     \* bound: number of calls and samples
    MaxReplay     \* bound: number of stored values of a topic

ASSUME BoundAssumption ==
    MaxContexts \in Nat /\ MaxCalls \in Nat /\ MaxReplay \in Nat

VARIABLES
    stack,        \* stack[th]: calls that thread th is in, innermost last
    entry,        \* entry[t]: the context of t in _subscriptions, if any
    declared,     \* declared[t]: the context that zenoh calls back with
    once,         \* contexts whose _once is true
    made,         \* number of contexts made
    calls         \* number of calls and samples

vars == <<stack, entry, declared, once, made, calls>>

Thread == {"api", "rx"}
Callback == {"live", "replay", "local"}
Context == 1..MaxContexts
NoContext == 0

(* A call or callback: what it is about, the context it holds the address  *)
(* of, where it is, and how many values the loop has left.                 *)
Frame == [in : Callback \cup {"subscribe", "unsubscribe", "get", "publish"},
          topic : Topic, ctx : 0..MaxContexts,
          at : {"emplace", "get", "loop", "undeclare", "waiting", "erase", "put", "done",
                "entered", "running"},
          left : 0..MaxReplay]

Enter(in, t, c, at) == [in |-> in, topic |-> t, ctx |-> c, at |-> at, left |-> 0]

Init ==
    /\ stack = [th \in Thread |-> <<>>]
    /\ entry = [t \in Topic |-> NoContext]
    /\ declared = [t \in Topic |-> NoContext]
    /\ once = {} /\ made = 0 /\ calls = 0

Top(th) == Last(stack[th])
Is(th, in, at) == stack[th] # <<>> /\ Top(th).in = in /\ Top(th).at = at
Push(th, frame) == stack' = [stack EXCEPT ![th] = Append(@, frame)]
GoTo(th, at) == stack' = [stack EXCEPT ![th][Len(stack[th])].at = at]
Pop(th) == stack' = [stack EXCEPT ![th] = Front(@)]

Frames(th) == ToSet(stack[th])

(* Topics that thread th is subscribing or in a callback of. *)
Busy(th) == {f.topic : f \in {g \in Frames(th) : g.in \in Callback \cup {"subscribe"}}}

-----------------------------------------------------------------------------
(* The application. *)

(* What the application may call, in a callback and outside of any: on the *)
(* RX thread only what leaves _subscriptions alone, for the API thread may *)
(* be at it; and nothing that erases the context, or calls the callback,   *)
(* that it is just in. That rules out disconnect(), reconnect() and the    *)
(* destructor as well, which unsubscribe every topic.                      *)
Tolerated(th, in, t) ==
    \/ in = "get"
    \/ in = "publish" /\ t \notin Busy(th)
    \/ in = "subscribe" /\ th = "api"
    \/ in = "unsubscribe" /\ th = "api" /\ t \notin Busy(th)

(* The API thread is in no call, or a callback is running. *)
MayCall(th) ==
    \/ th = "api" /\ stack[th] = <<>>
    \/ \E in \in Callback : Is(th, in, "running")

Call(th, in, t) ==
    /\ MayCall(th)
    /\ Tolerated(th, in, t)
    /\ calls < MaxCalls /\ calls' = calls + 1

-----------------------------------------------------------------------------
(* subscribe() *)

(* A topic that is in the map is refused: no effect. *)
Subscribe(th, t) ==
    /\ Call(th, "subscribe", t)
    /\ entry[t] = NoContext
    /\ made < MaxContexts
    /\ Push(th, Enter("subscribe", t, NoContext, "emplace"))
    /\ UNCHANGED <<entry, declared, once, made>>

(* The entry is in the map, and declared with zenoh unless that fails, in  *)
(* which case it is erased again.                                          *)
Emplace(th) ==
    /\ Is(th, "subscribe", "emplace")
    /\ \/ /\ made' = made + 1
          /\ entry' = [entry EXCEPT ![Top(th).topic] = made + 1]
          /\ declared' = [declared EXCEPT ![Top(th).topic] = made + 1]
          /\ stack' = [stack EXCEPT ![th][Len(stack[th])] =
                          Enter("subscribe", Top(th).topic, made + 1, "get")]
       \/ Pop(th) /\ UNCHANGED <<entry, declared, made>>
    /\ UNCHANGED <<once, calls>>

(* get() in it returns some number of values. *)
SubscribeGot(th) ==
    /\ Is(th, "subscribe", "get")
    /\ \E n \in 0..MaxReplay :
          stack' = [stack EXCEPT ![th][Len(stack[th])] =
                       [Top(th) EXCEPT !.at = "loop", !.left = n]]
    /\ UNCHANGED <<entry, declared, once, made, calls>>

Replay(th) ==
    /\ Is(th, "subscribe", "loop")
    /\ Top(th).left > 0
    /\ stack' = [stack EXCEPT ![th] =
                    Append([@ EXCEPT ![Len(@)].left = Top(th).left - 1],
                           Enter("replay", Top(th).topic, Top(th).ctx, "running"))]
    /\ UNCHANGED <<entry, declared, once, made, calls>>

(* Variant with a bug: _once is set before the last callbacks. *)
SetOnceEarly(th) ==
    /\ Is(th, "subscribe", "loop")
    /\ once' = once \cup {Top(th).ctx}
    /\ IF Top(th).left = 0 THEN Pop(th) ELSE UNCHANGED stack
    /\ UNCHANGED <<entry, declared, made, calls>>

SetOnce(th) ==
    /\ Is(th, "subscribe", "loop")
    /\ Top(th).left = 0
    /\ once' = once \cup {Top(th).ctx}
    /\ Pop(th)
    /\ UNCHANGED <<entry, declared, made, calls>>

-----------------------------------------------------------------------------
(* unsubscribe(), get() and publish() *)

Unsubscribe(th, t) ==
    /\ Call(th, "unsubscribe", t)
    /\ entry[t] # NoContext
    /\ Push(th, Enter("unsubscribe", t, entry[t], "undeclare"))
    /\ UNCHANGED <<entry, declared, once, made>>

(* Variant with a bug: the subscriber stays declared. *)
UndeclareNot(th) ==
    /\ Is(th, "unsubscribe", "undeclare")
    /\ GoTo(th, "waiting")
    /\ UNCHANGED <<entry, declared, once, made, calls>>

(* Variant with a bug: the entry is erased first. *)
UndeclareErased(th) ==
    /\ Is(th, "unsubscribe", "undeclare")
    /\ declared' = [declared EXCEPT ![Top(th).topic] = NoContext]
    /\ entry' = [entry EXCEPT ![Top(th).topic] = NoContext]
    /\ GoTo(th, "waiting")
    /\ UNCHANGED <<once, made, calls>>

(* z_undeclare_subscriber: zenoh calls back no more. *)
Undeclare(th) ==
    /\ Is(th, "unsubscribe", "undeclare")
    /\ declared' = [declared EXCEPT ![Top(th).topic] = NoContext]
    /\ GoTo(th, "waiting")
    /\ UNCHANGED <<entry, once, made, calls>>

(* It returns when no callback that zenoh has called is left. *)
UndeclareReturns(th) ==
    /\ Is(th, "unsubscribe", "waiting")
    /\ \A x \in Thread : \A f \in Frames(x) :
          ~(f.in \in {"live", "local"} /\ f.ctx = Top(th).ctx)
    /\ GoTo(th, "erase")
    /\ UNCHANGED <<entry, declared, once, made, calls>>

Erase(th) ==
    /\ Is(th, "unsubscribe", "erase")
    /\ entry' = [entry EXCEPT ![Top(th).topic] = NoContext]
    /\ once' = once \ {Top(th).ctx}
    /\ Pop(th)
    /\ UNCHANGED <<declared, made, calls>>

Get(th, t) ==
    /\ Call(th, "get", t)
    /\ Push(th, Enter("get", t, NoContext, "waiting"))
    /\ UNCHANGED <<entry, declared, once, made>>

(* Variant with a bug: a query has no timeout, so that its end has to come *)
(* by way of the RX thread.                                                *)
GetReturnsUntimed(th) ==
    /\ Is(th, "get", "waiting")
    /\ stack["rx"] = <<>>
    /\ Pop(th)
    /\ UNCHANGED <<entry, declared, once, made, calls>>

GetReturns(th) ==
    /\ Is(th, "get", "waiting")
    /\ Pop(th)
    /\ UNCHANGED <<entry, declared, once, made, calls>>

Publish(th, t) ==
    /\ Call(th, "publish", t)
    /\ Push(th, Enter("publish", t, NoContext, "put"))
    /\ UNCHANGED <<entry, declared, once, made>>

(* z_put: zenoh calls lib_subscribe_callback if the client has subscribed. *)
Put(th) ==
    /\ Is(th, "publish", "put")
    /\ LET t == Top(th).topic
           done == [stack[th] EXCEPT ![Len(stack[th])].at = "done"]
       IN  stack' = [stack EXCEPT ![th] =
                        IF declared[t] = NoContext THEN done
                        ELSE Append(done, Enter("local", t, declared[t], "entered"))]
    /\ UNCHANGED <<entry, declared, once, made, calls>>

PublishReturns(th) ==
    /\ Is(th, "publish", "done")
    /\ Pop(th)
    /\ UNCHANGED <<entry, declared, once, made, calls>>

-----------------------------------------------------------------------------
(* Callbacks *)

(* The RX thread is given a sample of another client. *)
Sample(t) ==
    /\ stack["rx"] = <<>>
    /\ declared[t] # NoContext
    /\ calls < MaxCalls /\ calls' = calls + 1
    /\ Push("rx", Enter("live", t, declared[t], "entered"))
    /\ UNCHANGED <<entry, declared, once, made>>

(* lib_subscribe_callback: nothing is called while _once is false. *)
LibSubscribeCallback(th) ==
    /\ \E in \in {"live", "local"} : Is(th, in, "entered")
    /\ IF Top(th).ctx \in once THEN GoTo(th, "running") ELSE Pop(th)
    /\ UNCHANGED <<entry, declared, once, made, calls>>

CallbackReturns(th) ==
    /\ \E in \in Callback : Is(th, in, "running")
    /\ Pop(th)
    /\ UNCHANGED <<entry, declared, once, made, calls>>

-----------------------------------------------------------------------------

Step(th) ==
    \/ Emplace(th) \/ SubscribeGot(th) \/ Replay(th) \/ SetOnce(th)
    \/ Undeclare(th) \/ UndeclareReturns(th) \/ Erase(th)
    \/ GetReturns(th)
    \/ Put(th) \/ PublishReturns(th)
    \/ LibSubscribeCallback(th) \/ CallbackReturns(th)

Next ==
    \/ \E th \in Thread :
          \/ Step(th)
          \/ \E t \in Topic :
                Subscribe(th, t) \/ Unsubscribe(th, t) \/ Get(th, t) \/ Publish(th, t)
    \/ \E t \in Topic : Sample(t)

Spec == Init /\ [][Next]_vars

(* Threads go on with what they are in, as far as nothing stops them.      *)
FairSpec == Spec /\ \A th \in Thread : WF_vars(Step(th))

-----------------------------------------------------------------------------

TypeOK ==
    /\ stack \in [Thread -> Seq(Frame)]
    /\ entry \in [Topic -> 0..made] /\ declared \in [Topic -> 0..made]
    /\ \A t \in Topic : declared[t] \in {NoContext, entry[t]}
    /\ once \subseteq 1..made
    /\ made \in 0..MaxContexts /\ calls \in 0..MaxCalls

(* Contexts are not used after unsubscribe() has freed them: neither by    *)
(* the loop in do_subscribe(), to which each callback returns, nor by a    *)
(* callback that zenoh has begun.                                          *)
ContextInMap ==
    \A th \in Thread : \A f \in Frames(th) :
        f.ctx # NoContext => entry[f.topic] = f.ctx

(* One callback of a subscription at a time, as far as the library goes:   *)
(* two threads are in the callback of one topic only when one of them has  *)
(* published to it itself, and a replay is not overtaken even then.        *)
AloneUnlessLocal ==
    \A f \in Frames("api"), g \in Frames("rx") :
        /\ {f.in, g.in} \subseteq Callback
        /\ f.topic = g.topic
        /\ f.at = "running" /\ g.at = "running"
        => "local" \in {f.in, g.in} /\ "replay" \notin {f.in, g.in}

(* Nobody waits for himself or in a circle: every call returns, whatever   *)
(* tolerated calls callbacks have made on both threads.                    *)
CallsReturn == \A th \in Thread : stack[th] # <<>> ~> stack[th] = <<>>
=============================================================================
