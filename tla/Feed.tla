-------------------------------- MODULE Feed --------------------------------
(***************************************************************************)
(* What a subscription of flunder promises to the application that         *)
(* registered the callback, without threads, session, router or storage.   *)
(* A subscription is closed, replaying what the storage held when it was   *)
(* opened, or live. The callback is called for one value at a time, the    *)
(* replay shows a key once and comes before the live values, a key never   *)
(* goes back to an older value, and after the subscription is closed the   *)
(* callback is not called any more. Subscription.tla is the program that   *)
(* implements this.                                                        *)
(***************************************************************************)
EXTENDS Naturals

CONSTANTS
    Topic,    \* topics that may be subscribed to
    Key,      \* keys that carry values
    Stamp     \* stamps of values, positive naturals: the later value of a key
              \* has the higher one

VARIABLES
    phase,    \* phase[t]: state of the subscription to t
    shown,    \* shown[t][k]: stamp of the last value of k shown, 0 when none
    busy      \* busy[t]: the callback of t is being executed

vars == <<phase, shown, busy>>

Phase == {"off", "replay", "live"}

Init ==
    /\ phase = [t \in Topic |-> "off"]
    /\ shown = [t \in Topic |-> [k \in Key |-> 0]]
    /\ busy = [t \in Topic |-> FALSE]

(* The application subscribes. *)
Open(t) ==
    /\ phase[t] = "off"
    /\ phase' = [phase EXCEPT ![t] = "replay"]
    /\ UNCHANGED <<shown, busy>>

(* The callback is entered with a value of k. *)
Show(t, k, n) ==
    /\ phase[t] # "off"
    /\ ~busy[t]
    /\ n >= shown[t][k]
    /\ phase[t] = "replay" => shown[t][k] = 0
    /\ shown' = [shown EXCEPT ![t][k] = n]
    /\ busy' = [busy EXCEPT ![t] = TRUE]
    /\ UNCHANGED phase

(* The callback returns. *)
EndShow(t) ==
    /\ busy[t]
    /\ busy' = [busy EXCEPT ![t] = FALSE]
    /\ UNCHANGED <<phase, shown>>

(* The replay is over: from here on new values are shown as they come. *)
GoLive(t) ==
    /\ phase[t] = "replay"
    /\ ~busy[t]
    /\ phase' = [phase EXCEPT ![t] = "live"]
    /\ UNCHANGED <<shown, busy>>

(* The subscription ends, never under a running callback, and leaves       *)
(* nothing behind for the next one.                                        *)
Close(t) ==
    /\ phase[t] # "off"
    /\ ~busy[t]
    /\ phase' = [phase EXCEPT ![t] = "off"]
    /\ shown' = [shown EXCEPT ![t] = [k \in Key |-> 0]]
    /\ UNCHANGED busy

Next ==
    \E t \in Topic :
        \/ Open(t)
        \/ \E k \in Key, n \in Stamp : Show(t, k, n)
        \/ EndShow(t)
        \/ GoLive(t)
        \/ Close(t)

Spec == Init /\ [][Next]_vars

-----------------------------------------------------------------------------

TypeOK ==
    /\ phase \in [Topic -> Phase]
    /\ shown \in [Topic -> [Key -> Stamp \cup {0}]]
    /\ busy \in [Topic -> BOOLEAN]
=============================================================================
