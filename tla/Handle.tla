------------------------------- MODULE Handle -------------------------------
(***************************************************************************)
(* The facade client_t: an object at some address that owns, by a          *)
(* unique_ptr, the implementation with the session and the subscriptions.  *)
(* Moving swaps the implementations of two objects. The context of a       *)
(* subscription holds the address of the object that subscribe() was       *)
(* called on, and every callback is given that address; the callback may   *)
(* run, on the RX thread, between any two steps of the API thread.         *)
(*                                                                         *)
(* flunder_client_new and flunder_client_destroy are new and delete of     *)
(* such an object; an address may be used again.                           *)
(***************************************************************************)
EXTENDS Naturals

CONSTANTS
    Handle,       \* addresses of client_t objects
    Topic,
    MaxImpls      \* bound: number of implementations ever made

ASSUME BoundAssumption == MaxImpls \in Nat

Impl == 1..MaxImpls
Null == 0
Subscription == [topic : Topic, client : Handle]

VARIABLES
    alive,        \* addresses with an object
    impl,         \* impl[h]: _impl of the object at h
    temp,         \* the third pointer of a swap, while one is running
    swapping,     \* the two objects of that swap, as <<lhs, rhs>>
    made,         \* number of implementations made
    heap,         \* implementations not freed
    connected,    \* implementations with an open session
    subs,         \* subs[i]: _subscriptions, topic and _client
    carried       \* implementations that were swapped since they had their
                  \* first subscription

handleVars == <<alive, impl>>
swapVars == <<temp, swapping>>
implVars == <<made, heap, connected, subs>>
vars == <<handleVars, swapVars, implVars, carried>>

Init ==
    /\ alive = {} /\ impl = [h \in Handle |-> Null]
    /\ temp = Null /\ swapping = <<>>
    /\ made = 0 /\ heap = {} /\ connected = {}
    /\ subs = [i \in Impl |-> {}] /\ carried = {}

(* Calls come from one thread. *)
Idle == swapping = <<>>

-----------------------------------------------------------------------------
(* Life of an object. *)

(* client_t(): a new implementation, without session. *)
Make(h) ==
    /\ Idle
    /\ h \notin alive
    /\ made < MaxImpls
    /\ made' = made + 1 /\ heap' = heap \cup {made + 1}
    /\ alive' = alive \cup {h}
    /\ impl' = [impl EXCEPT ![h] = made + 1]
    /\ UNCHANGED <<connected, subs>>

New(h) == Make(h) /\ UNCHANGED <<swapVars, carried>>

(* The subscriptions that wander to another object. *)
Carry(l, r) == carried' = carried \cup {i \in {impl'[l], impl'[r]} \ {Null} : subs[i] # {}}

(* client_t(client_t&&): a new object, whose implementation is swapped.    *)
MoveConstruct(h, other) ==
    /\ other \in alive
    /\ Make(h)
    /\ swapping' = <<h, other>>
    /\ Carry(h, other)
    /\ UNCHANGED temp

(* Variant with a bug: the pointer is moved and the old one freed. *)
MoveAssignReset(h, other) ==
    /\ Idle
    /\ {h, other} \subseteq alive
    /\ h # other
    /\ impl' = [impl EXCEPT ![h] = impl[other], ![other] = Null]
    /\ heap' = heap \ {impl[h]}
    /\ UNCHANGED <<alive, swapVars, made, connected, subs, carried>>

(* operator=(client_t&&), of an object to itself as well. *)
MoveAssign(h, other) ==
    /\ Idle
    /\ {h, other} \subseteq alive
    /\ UNCHANGED <<handleVars, temp, implVars>>
    /\ swapping' = <<h, other>>
    /\ Carry(h, other)

(* swap(): of two raw pointers in the end, through a third. *)
SwapTake(l, r) ==
    /\ swapping = <<l, r>>
    /\ temp = Null
    /\ temp' = impl[l]
    /\ impl' = [impl EXCEPT ![l] = impl[r]]
    /\ UNCHANGED <<alive, swapping, implVars, carried>>

(* Variant with a bug: the second object keeps its pointer. *)
SwapGiveNothing(l, r) ==
    /\ swapping = <<l, r>>
    /\ temp # Null
    /\ temp' = Null /\ swapping' = <<>>
    /\ UNCHANGED <<handleVars, implVars, carried>>

SwapGive(l, r) ==
    /\ swapping = <<l, r>>
    /\ temp # Null
    /\ impl' = [impl EXCEPT ![r] = temp]
    /\ temp' = Null /\ swapping' = <<>>
    /\ UNCHANGED <<alive, implVars, carried>>

(* What disconnect() leaves of an implementation: see Client. *)
Drained(i) == [subs EXCEPT ![i] = {}]

(* Variant with a bug: the destructor leaves it to that of impl::client_t, *)
(* which is empty.                                                         *)
DestroyConnected(h) ==
    /\ Idle
    /\ h \in alive
    /\ alive' = alive \ {h}
    /\ heap' = heap \ {impl[h]}
    /\ impl' = [impl EXCEPT ![h] = Null]
    /\ UNCHANGED <<swapVars, made, connected, subs, carried>>

(* Variant with a bug: not on the thread that the calls come from. *)
DestroyAnytime(h) ==
    /\ h \in alive
    /\ alive' = alive \ {h}
    /\ subs' = Drained(impl[h])
    /\ connected' = connected \ {impl[h]}
    /\ carried' = carried \ {impl[h]}
    /\ heap' = heap \ {impl[h]}
    /\ impl' = [impl EXCEPT ![h] = Null]
    /\ UNCHANGED <<swapVars, made>>

(* ~client_t(): disconnect(), then the implementation is freed. *)
Destroy(h) ==
    /\ Idle
    /\ h \in alive
    /\ alive' = alive \ {h}
    /\ subs' = Drained(impl[h])
    /\ connected' = connected \ {impl[h]}
    /\ carried' = carried \ {impl[h]}
    /\ heap' = heap \ {impl[h]}
    /\ impl' = [impl EXCEPT ![h] = Null]
    /\ UNCHANGED <<swapVars, made>>

-----------------------------------------------------------------------------
(* Calls that are forwarded to the implementation. *)

(* connect() and reconnect(), which begin with disconnect() and may fail,  *)
(* and disconnect().                                                       *)
Dial(h, opened) ==
    /\ Idle
    /\ h \in alive
    /\ subs' = Drained(impl[h])
    /\ carried' = carried \ {impl[h]}
    /\ connected' = IF opened THEN connected \cup {impl[h]}
                              ELSE connected \ {impl[h]}
    /\ UNCHANGED <<handleVars, swapVars, made, heap>>

(* subscribe(): "this" goes into the context. *)
Subscribe(h, t) ==
    /\ Idle
    /\ h \in alive
    /\ impl[h] \in connected
    /\ \A s \in subs[impl[h]] : s.topic # t
    /\ subs' = [subs EXCEPT ![impl[h]] = @ \cup {[topic |-> t, client |-> h]}]
    /\ UNCHANGED <<handleVars, swapVars, made, heap, connected, carried>>

Unsubscribe(h, t) ==
    /\ Idle
    /\ h \in alive
    /\ \E s \in subs[impl[h]] :
          /\ s.topic = t
          /\ subs' = [subs EXCEPT ![impl[h]] = @ \ {s}]
          /\ carried' = IF subs[impl[h]] = {s} THEN carried \ {impl[h]} ELSE carried
    /\ UNCHANGED <<handleVars, swapVars, made, heap, connected>>

-----------------------------------------------------------------------------

Next ==
    \E h \in Handle :
        \/ New(h) \/ Destroy(h)
        \/ \E other \in Handle :
              \/ MoveConstruct(h, other) \/ MoveAssign(h, other)
              \/ SwapTake(h, other) \/ SwapGive(h, other)
        \/ \E opened \in BOOLEAN : Dial(h, opened)
        \/ \E t \in Topic : Subscribe(h, t) \/ Unsubscribe(h, t)

Spec == Init /\ [][Next]_vars

-----------------------------------------------------------------------------

TypeOK ==
    /\ alive \subseteq Handle /\ impl \in [Handle -> 0..made]
    /\ temp \in 0..made
    /\ swapping \in {<<>>} \cup (alive \X alive)
    /\ made \in 0..MaxImpls /\ heap \subseteq 1..made
    /\ connected \subseteq Impl /\ carried \subseteq Impl
    /\ subs \in [Impl -> SUBSET Subscription]

(* Ownership: between calls every object, a moved-from one as well, has an *)
(* implementation of its own that is not freed, and every implementation   *)
(* not freed has its object: none leaks, none is freed twice.              *)
OneOwner ==
    Idle =>
        /\ heap = {impl[h] : h \in alive}
        /\ \A g, h \in alive : impl[g] = impl[h] => g = h
        /\ \A h \in Handle \ alive : impl[h] = Null

(* The destructor of impl::client_t is empty. All the same no session and  *)
(* no context that zenoh knows the address of outlives its implementation, *)
(* and there are subscriptions in open sessions only.                      *)
NothingOutlivesImpl ==
    /\ connected \subseteq heap
    /\ \A i \in Impl : subs[i] # {} => i \in connected

(* A callback is given the object whose implementation runs it, at every   *)
(* moment that it may run, unless that object was moved to or from while   *)
(* it had subscriptions.                                                   *)
OwnClientUnlessMoved ==
    \A i \in Impl \ carried : \A s \in subs[i] : s.client \in alive /\ impl[s.client] = i

(* What the examples print of a callback's message, "on client %p": the    *)
(* client that a callback is given is the one the message came in on.      *)
CallbackOnClient ==
    Idle => \A i \in Impl : \A s \in subs[i] : s.client \in alive /\ impl[s.client] = i
=============================================================================
