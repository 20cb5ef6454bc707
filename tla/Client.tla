------------------------------- MODULE Client -------------------------------
(***************************************************************************)
(* The life of impl::client_t: connect, reconnect, disconnect, and the two *)
(* sets of records that a connection owns, _subscriptions and              *)
(* _mem_storages. The calls come from one thread and one at a time, but a  *)
(* call is not one step: disconnect(), which every connect() and every     *)
(* reconnect() begins with, drains the records one by one through the      *)
(* session, and the calls into zenoh may fail on the way. remove_mem_      *)
(* storage(), unsubscribe() and erase() do not look whether there is a     *)
(* session; that they have one is a matter of which records exist when.    *)
(*                                                                         *)
(* What happens inside subscribe() is in Subscription. Here it takes one   *)
(* step. publish() and get() check for a session and change no record; so  *)
(* does a call that is refused: they are steps that change nothing.        *)
(*                                                                         *)
(* subscribe() and unsubscribe() take one leading '/' off the topic they   *)
(* are given. disconnect() gives unsubscribe() the keys of _subscriptions, *)
(* from which it has been taken off already: a key that begins with '/' is *)
(* then not found under its own name. Whether there is such a key is up to *)
(* zenoh, which may refuse to declare it or not.                           *)
(***************************************************************************)
EXTENDS Integers

CONSTANTS
    Topic,          \* topics as they may be spelled, numbered in the order
                    \* of strings, which is that of the map's keys
    Strip,          \* Strip[t]: t without one leading '/', if it has one
    Name,           \* names of storages, numbered in the order of the set
    Host,           \* hosts to connect to
    NoHost,         \* the empty string
    Port,           \* ports to connect to, as int: any of them
    PortRange,      \* number of values of std::uint16_t, the type of _port
    MaxSessions,    \* bound: number of sessions opened
    MaxFaults       \* bound: number of failing z_delete

ASSUME NumberAssumption == Topic \subseteq Nat /\ Name \subseteq Nat
ASSUME StripAssumption == Strip \in [Topic -> Topic]
ASSUME HostAssumption == NoHost \notin Host
ASSUME PortAssumption == Port \subseteq Nat /\ PortRange \in Nat \ {0}
ASSUME BoundAssumption == MaxSessions \in Nat /\ MaxFaults \in Nat

VARIABLES
    host, port,     \* _host, _port
    session,        \* _z_session: 0 when null, else the number of the session
    subs,           \* _subscriptions: topic and session of each subscriber
    mem,            \* _mem_storages: name and session it was added through
    pc,             \* where the call is: "idle", or draining or dialling
    dial,           \* endpoint to dial when drained, Nowhere in disconnect()
    opened,         \* number of sessions opened so far
    zopen, zsubs,   \* zenoh: open sessions, declared subscribers
    faults,         \* number of z_delete that have failed
    nullUse,        \* history: calls that gave a null session to zenoh
    given           \* history: endpoint of the last connect(), if any, after
                    \* which disconnect() was not called

recordVars == <<subs, mem, zsubs>>
sessionVars == <<session, opened, zopen>>
endpointVars == <<host, port, given>>
callVars == <<pc, dial>>
vars == <<recordVars, sessionVars, endpointVars, callVars, faults, nullUse>>

Endpoint == [host : Host \cup {NoHost}, port : Nat]
Nowhere == [host |-> NoHost, port |-> -1]
Blank == [host |-> NoHost, port |-> 0]

Init ==
    /\ host = NoHost /\ port = 0
    /\ session = 0 /\ opened = 0 /\ zopen = {}
    /\ subs = {} /\ mem = {} /\ zsubs = {}
    /\ pc = "idle" /\ dial = Nowhere
    /\ faults = 0 /\ nullUse = {} /\ given = Blank

-----------------------------------------------------------------------------
(* The calls that begin with disconnect(). *)

(* connect(h, p) *)
Connect(h, p) ==
    /\ pc = "idle"
    /\ pc' = "drain"
    /\ dial' = [host |-> h, port |-> p]
    /\ given' = [host |-> h, port |-> p]
    /\ UNCHANGED <<host, port, recordVars, sessionVars, faults, nullUse>>

(* Variant with a bug: _host and _port are read behind disconnect(). *)
ReconnectUncopied ==
    /\ pc = "idle"
    /\ pc' = "drain"
    /\ dial' = Blank
    /\ UNCHANGED <<endpointVars, recordVars, sessionVars, faults, nullUse>>

(* reconnect(): _host and _port are copied before disconnect() clears them. *)
Reconnect ==
    /\ pc = "idle"
    /\ pc' = "drain"
    /\ dial' = [host |-> host, port |-> port]
    /\ UNCHANGED <<endpointVars, recordVars, sessionVars, faults, nullUse>>

(* disconnect(), from the application or from the destructor. *)
Disconnect ==
    /\ pc = "idle"
    /\ pc' = "drain"
    /\ dial' = Nowhere
    /\ given' = Blank
    /\ UNCHANGED <<host, port, recordVars, sessionVars, faults, nullUse>>

-----------------------------------------------------------------------------
(* disconnect(), and what connect() does behind it. *)

(* Variant with a bug: the subscriber goes, its entry stays. *)
EraseSubscriptionStuck(t) ==
    /\ zsubs' = {s \in zsubs : s.topic # Strip[t]}
    /\ UNCHANGED subs

(* unsubscribe(): a topic that is not there is refused with -1. *)
EraseSubscription(t) ==
    \/ \E s \in subs :
          /\ s.topic = Strip[t]
          /\ subs' = subs \ {s}
          /\ zsubs' = zsubs \ {s}
    \/ /\ \A s \in subs : s.topic # Strip[t]
       /\ UNCHANGED <<subs, zsubs>>

(* unsubscribe(_subscriptions.rbegin()->first): its result is not looked   *)
(* at. A key that begins with '/' may be refused, for ever, or stand for   *)
(* the entry of another one.                                               *)
DrainSubscription ==
    /\ pc = "drain"
    /\ \E last \in subs :
          /\ \A other \in subs : other.topic <= last.topic
          /\ EraseSubscription(last.topic)
    /\ UNCHANGED <<mem, sessionVars, endpointVars, callVars, faults, nullUse>>

(* What z_delete does for the call op, which hands it the session. *)
Uses(op) == nullUse' = IF session = 0 THEN nullUse \cup {op} ELSE nullUse

(* remove_mem_storage(_mem_storages.rbegin()->name): its result is not     *)
(* looked at, when it fails the record is still there and the loop comes   *)
(* back to it.                                                             *)
DrainStorage ==
    /\ pc = "drain" /\ subs = {}
    /\ \E m \in mem :
          /\ \A other \in mem : other.name <= m.name
          /\ \/ mem' = mem \ {m} /\ UNCHANGED faults
             \/ faults < MaxFaults /\ faults' = faults + 1 /\ UNCHANGED mem
    /\ Uses("remove_mem_storage")
    /\ UNCHANGED <<subs, zsubs, sessionVars, endpointVars, callVars>>

(* Variant with a bug: the session is closed before the storages go. *)
CloseSessionEarly ==
    /\ pc = "drain" /\ subs = {}
    /\ zopen' = zopen \ {session}
    /\ session' = 0
    /\ host' = NoHost /\ port' = 0
    /\ pc' = IF dial = Nowhere THEN "idle" ELSE "dial"
    /\ UNCHANGED <<opened, given, recordVars, dial, faults, nullUse>>

(* Variant with a bug: the handle is dropped, the session is not closed. *)
CloseSessionLeaky ==
    /\ pc = "drain" /\ subs = {} /\ mem = {}
    /\ session' = 0
    /\ host' = NoHost /\ port' = 0
    /\ pc' = IF dial = Nowhere THEN "idle" ELSE "dial"
    /\ UNCHANGED <<zopen, opened, given, recordVars, dial, faults, nullUse>>

(* z_close when there is a session; _host and _port are cleared. In        *)
(* reconnect() the disconnect() of connect() follows and finds nothing.    *)
CloseSession ==
    /\ pc = "drain" /\ subs = {} /\ mem = {}
    /\ zopen' = zopen \ {session}
    /\ session' = 0
    /\ host' = NoHost /\ port' = 0
    /\ pc' = IF dial = Nowhere THEN "idle" ELSE "dial"
    /\ UNCHANGED <<opened, given, recordVars, dial, faults, nullUse>>

(* Variant with a bug: _port is not cut down. *)
DialWide ==
    /\ pc = "dial"
    /\ host' = dial.host
    /\ port' = dial.port
    /\ \/ UNCHANGED sessionVars
       \/ /\ opened < MaxSessions /\ dial.host # NoHost
          /\ opened' = opened + 1
          /\ session' = opened + 1
          /\ zopen' = zopen \cup {opened + 1}
    /\ pc' = "idle" /\ dial' = Nowhere
    /\ UNCHANGED <<given, recordVars, faults, nullUse>>

(* connect() behind disconnect(): the endpoint is kept, cut down to the    *)
(* width of _port, then the configuration or z_open fails, which leaves a  *)
(* null session, or a session is opened. No host, no session: reconnect()  *)
(* after disconnect() fails.                                               *)
Dial ==
    /\ pc = "dial"
    /\ host' = dial.host
    /\ port' = dial.port % PortRange
    /\ \/ UNCHANGED sessionVars
       \/ /\ opened < MaxSessions /\ dial.host # NoHost
          /\ opened' = opened + 1
          /\ session' = opened + 1
          /\ zopen' = zopen \cup {opened + 1}
    /\ pc' = "idle" /\ dial' = Nowhere
    /\ UNCHANGED <<given, recordVars, faults, nullUse>>

-----------------------------------------------------------------------------
(* The calls that add and remove records, and erase(). *)

(* subscribe(): needs a session, refuses a topic that it has, and keeps no *)
(* entry when z_declare_subscriber fails.                                  *)
Subscribe(t) ==
    /\ pc = "idle" /\ session # 0
    /\ \A s \in subs : s.topic # Strip[t]
    /\ subs' = subs \cup {[topic |-> Strip[t], session |-> session]}
    /\ zsubs' = zsubs \cup {[topic |-> Strip[t], session |-> session]}
    /\ UNCHANGED <<mem, sessionVars, endpointVars, callVars, faults, nullUse>>

(* unsubscribe(), by the application *)
Unsubscribe(t) ==
    /\ pc = "idle"
    /\ EraseSubscription(t)
    /\ UNCHANGED <<mem, sessionVars, endpointVars, callVars, faults, nullUse>>

(* Variant with a bug: the check for a session is missing. *)
AddMemStorageUnchecked(n) ==
    /\ pc = "idle"
    /\ \A m \in mem : m.name # n
    /\ mem' = mem \cup {[name |-> n, session |-> session]}
    /\ UNCHANGED <<subs, zsubs, sessionVars, endpointVars, callVars, faults, nullUse>>

(* add_mem_storage(): needs a session, refuses a name that it has, and     *)
(* keeps no record when the router is not known or the put fails.          *)
AddMemStorage(n) ==
    /\ pc = "idle" /\ session # 0
    /\ \A m \in mem : m.name # n
    /\ mem' = mem \cup {[name |-> n, session |-> session]}
    /\ UNCHANGED <<subs, zsubs, sessionVars, endpointVars, callVars, faults, nullUse>>

(* remove_mem_storage(): refuses a name it does not have, does not look    *)
(* for a session, and keeps the record when z_delete fails.                *)
RemoveMemStorage(n) ==
    /\ pc = "idle"
    /\ \E m \in mem :
          /\ m.name = n
          /\ \/ mem' = mem \ {m} /\ UNCHANGED faults
             \/ faults < MaxFaults /\ faults' = faults + 1 /\ UNCHANGED mem
    /\ Uses("remove_mem_storage")
    /\ UNCHANGED <<subs, zsubs, sessionVars, endpointVars, callVars>>

(* erase(): does not look for a session. *)
Erase ==
    /\ pc = "idle"
    /\ Uses("erase")
    /\ UNCHANGED <<recordVars, sessionVars, endpointVars, callVars, faults>>

-----------------------------------------------------------------------------

(* What the thread does once the application has called. *)
CallContinues ==
    \/ DrainSubscription
    \/ DrainStorage
    \/ CloseSession
    \/ Dial

Next ==
    \/ \E h \in Host, p \in Port : Connect(h, p)
    \/ Reconnect
    \/ Disconnect
    \/ CallContinues
    \/ \E t \in Topic : Subscribe(t) \/ Unsubscribe(t)
    \/ \E n \in Name : AddMemStorage(n) \/ RemoveMemStorage(n)
    \/ Erase

Spec == Init /\ [][Next]_vars

(* A call that was made goes on. z_delete fails MaxFaults times at most:   *)
(* a loop that is left only by a z_delete that succeeds needs one.         *)
FairSpec == Spec /\ WF_vars(CallContinues)

-----------------------------------------------------------------------------

TypeOK ==
    /\ host \in Host \cup {NoHost} /\ port \in 0..(PortRange - 1)
    /\ opened \in 0..MaxSessions /\ session \in 0..opened
    /\ zopen \subseteq 1..opened
    /\ subs \subseteq [topic : Topic, session : Nat]
    /\ zsubs \subseteq [topic : Topic, session : Nat]
    /\ mem \subseteq [name : Name, session : Nat]
    /\ pc \in {"idle", "drain", "dial"}
    /\ dial \in Endpoint \cup {Nowhere} /\ given \in Endpoint
    /\ (pc = "idle" => dial = Nowhere) /\ (pc = "dial" => dial # Nowhere)
    /\ faults \in 0..MaxFaults
    /\ nullUse \subseteq {"erase", "remove_mem_storage"}

(* Every record belongs to the session that is open now: unsubscribe() and *)
(* remove_mem_storage() need not look for one, and no record of a former   *)
(* connection makes a later call refuse its topic or its name.             *)
RecordsHaveSession ==
    /\ \A s \in subs : s.session = session /\ session # 0
    /\ \A m \in mem : m.session = session /\ session # 0

(* Of all calls only erase() hands a null session to zenoh. *)
NullOnlyInErase == nullUse \subseteq {"erase"}

(* zenoh has no session open but the one the client holds, and no          *)
(* subscriber declared, with its pointer into _subscriptions, but those    *)
(* that _subscriptions lists: nothing outlives connect() and disconnect(). *)
NothingLeaks ==
    /\ zopen = {session} \ {0}
    /\ zsubs = subs

(* Between calls the client knows the endpoint of the last connect(),      *)
(* whether that succeeded or not, and no endpoint after disconnect(); a    *)
(* reconnect() goes where that connect() went. Ports are equal as 16 bits. *)
EndpointKept ==
    /\ pc = "idle" => host = given.host /\ port = given.port % PortRange
    /\ dial # Nowhere => /\ dial.host = given.host
                         /\ dial.port % PortRange = given.port % PortRange

(* A key of _subscriptions begins with '/': it was subscribed with two. *)
Slashed == \E s \in subs : Strip[s.topic] # s.topic

(* connect(), reconnect() and disconnect() return, though their loops      *)
(* ignore what the calls in them return, unless a key of _subscriptions    *)
(* begins with '/', which unsubscribe() does not find under its own name.  *)
CallsReturn == pc # "idle" /\ ~Slashed ~> pc = "idle"
=============================================================================
