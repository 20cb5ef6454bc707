----------------------------- MODULE MCLiveData -----------------------------
(***************************************************************************)
(* What the header says of subscribe(), stated of Subscription with a      *)
(* history variable, and checked with one topic and one key. The query of  *)
(* get() is taken to succeed here: what is lost is not lost with it.       *)
(***************************************************************************)
EXTENDS MCSubscription

VARIABLE since    \* since[t]: length of log when subscribe() declared t

HistoryInit == Init /\ since = [t \in Topic |-> 0]

HistoryNext ==
    /\ Next
    /\ query' # "expired"
    /\ since' = [t \in Topic |-> IF t \in declared' \ declared THEN Len(log)
                                 ELSE since[t]]

HistorySpec == HistoryInit /\ [][HistoryNext]_<<vars, since>>

(* client.h says of subscribe(): "subscribe to live data". Read as: once   *)
(* subscribe() has returned and its flag is seen, a value that was         *)
(* published after the subscriber was declared, and that the RX thread has *)
(* taken off the link, has been shown, or a newer one of its key has.      *)
LiveDataShown ==
    \A t \in declared :
        RxIdle /\ once[t] =>
            \A i \in {j \in forwarded : since[t] < j /\ j <= rcvd} :
                log[i].key \in Match[t] => shown[t][log[i].key] >= i
=============================================================================
