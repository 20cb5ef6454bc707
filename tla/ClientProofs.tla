---------------------------- MODULE ClientProofs ----------------------------
(***************************************************************************)
(* The invariants of Client, proved for all topics, names, hosts, ports    *)
(* and bounds.                                                             *)
(***************************************************************************)
EXTENDS Client, TLAPS

USE DEF recordVars, sessionVars, endpointVars, callVars

(* Behind the drain nothing is left that belongs to a session, and a drain *)
(* that is not for a connect() is for a disconnect().                      *)
DrainInv ==
    /\ pc = "dial" => session = 0 /\ subs = {} /\ mem = {}
    /\ pc = "drain" /\ dial = Nowhere => given = Blank

IInv ==
    /\ TypeOK
    /\ DrainInv
    /\ RecordsHaveSession
    /\ NullOnlyInErase
    /\ NothingLeaks
    /\ EndpointKept

-----------------------------------------------------------------------------
(* 16-bit ports: cutting a port down twice is cutting it down once. *)
LEMMA CutPort ==
  /\ \A p \in Nat : p % PortRange \in 0..(PortRange - 1)
  /\ \A p \in 0..(PortRange - 1) : p % PortRange = p
  BY PortAssumption

LEMMA EndpointFacts ==
  /\ Blank \in Endpoint /\ Nowhere \notin Endpoint
  /\ \A h \in Host, p \in Port : [host |-> h, port |-> p] \in Endpoint
  /\ Blank.port % PortRange = 0
  BY PortAssumption, CutPort DEF Blank, Nowhere, Endpoint

LEMMA InvInit == Init => IInv
  BY PortAssumption, BoundAssumption, EndpointFacts
  DEF Init, IInv, TypeOK, DrainInv, RecordsHaveSession, NullOnlyInErase, NothingLeaks,
      EndpointKept, Blank, Nowhere

-----------------------------------------------------------------------------
(* Every action preserves the invariant. *)

LEMMA InvConnect ==
  ASSUME IInv, NEW h \in Host, NEW p \in Port, Connect(h, p)
  PROVE  IInv'
  BY EndpointFacts, PortAssumption
  DEF IInv, TypeOK, DrainInv, RecordsHaveSession, NullOnlyInErase, NothingLeaks,
      EndpointKept, Connect

LEMMA InvReconnect == IInv /\ Reconnect => IInv'
<1> SUFFICES ASSUME IInv, Reconnect PROVE IInv'
  OBVIOUS
<1>1. /\ pc = "idle" /\ host = given.host /\ port = given.port % PortRange
      /\ host \in Host \cup {NoHost} /\ port \in 0..(PortRange - 1)
  BY DEF IInv, TypeOK, EndpointKept, Reconnect
<1>2. dial' = [host |-> host, port |-> port] /\ dial' \in Endpoint
  BY <1>1, PortAssumption DEF Reconnect, Endpoint
<1>3. dial'.host = given.host /\ dial'.port % PortRange = given.port % PortRange
  BY <1>1, <1>2, CutPort
<1> QED
  BY <1>2, <1>3, EndpointFacts
  DEF IInv, TypeOK, DrainInv, RecordsHaveSession, NullOnlyInErase, NothingLeaks,
      EndpointKept, Reconnect

LEMMA InvDisconnect == IInv /\ Disconnect => IInv'
  BY EndpointFacts
  DEF IInv, TypeOK, DrainInv, RecordsHaveSession, NullOnlyInErase, NothingLeaks,
      EndpointKept, Disconnect

(* unsubscribe(), whether it finds its topic or not: zenoh's books go with *)
(* the client's, and nothing is added.                                     *)
LEMMA EraseEffect ==
  ASSUME IInv, NEW t \in Topic, EraseSubscription(t)
  PROVE  subs' \subseteq subs /\ zsubs' = subs'
  BY DEF EraseSubscription, IInv, NothingLeaks

LEMMA InvDrain == IInv /\ (DrainSubscription \/ DrainStorage) => IInv'
<1> SUFFICES ASSUME IInv, DrainSubscription \/ DrainStorage PROVE IInv'
  OBVIOUS
<1> USE BoundAssumption
    DEF IInv, TypeOK, DrainInv, RecordsHaveSession, NullOnlyInErase, NothingLeaks,
        EndpointKept
<1>1. CASE DrainSubscription
  <2>1. PICK s \in subs : EraseSubscription(s.topic)
    BY <1>1 DEF DrainSubscription
  <2>2. subs' \subseteq subs /\ zsubs' = subs'
    BY <2>1, EraseEffect
  <2> QED
    BY <1>1, <2>2 DEF DrainSubscription
<1>2. CASE DrainStorage
  BY <1>2 DEF DrainStorage, Uses
<1> QED
  BY <1>1, <1>2

LEMMA InvClose == IInv /\ CloseSession => IInv'
<1> SUFFICES ASSUME IInv, CloseSession PROVE IInv'
  OBVIOUS
<1>1. dial = Nowhere => given = Blank
  BY DEF IInv, DrainInv, CloseSession
<1>2. Blank.host = NoHost /\ Blank.port % PortRange = 0
  BY EndpointFacts DEF Blank
<1>3. zopen' = {}
  BY DEF IInv, NothingLeaks, CloseSession
<1> QED
  BY <1>1, <1>2, <1>3, PortAssumption
  DEF IInv, TypeOK, DrainInv, RecordsHaveSession, NullOnlyInErase, NothingLeaks,
      EndpointKept, CloseSession

LEMMA InvDial == IInv /\ Dial => IInv'
<1> SUFFICES ASSUME IInv, Dial PROVE IInv'
  OBVIOUS
<1>1. /\ dial \in Endpoint /\ session = 0 /\ subs = {} /\ mem = {} /\ zopen = {}
      /\ dial.host = given.host /\ dial.port % PortRange = given.port % PortRange
  BY DEF IInv, TypeOK, DrainInv, NothingLeaks, EndpointKept, Dial
<1>2. host' = dial.host /\ port' = dial.port % PortRange /\ pc' = "idle"
      /\ dial' = Nowhere /\ UNCHANGED <<given, recordVars, faults, nullUse>>
  BY DEF Dial
<1>3. host' \in Host \cup {NoHost} /\ port' \in 0..(PortRange - 1)
  BY <1>1, <1>2, CutPort DEF Endpoint
<1>4. /\ opened' \in 0..MaxSessions /\ session' \in 0..opened'
      /\ zopen' = {session'} \ {0} /\ zopen' \subseteq 1..opened'
  BY <1>1, BoundAssumption DEF IInv, TypeOK, Dial
<1> QED
  BY <1>1, <1>2, <1>3, <1>4
  DEF IInv, TypeOK, DrainInv, RecordsHaveSession, NullOnlyInErase, NothingLeaks,
      EndpointKept

LEMMA InvRecords ==
  ASSUME IInv,
         \/ \E t \in Topic : Subscribe(t) \/ Unsubscribe(t)
         \/ \E n \in Name : AddMemStorage(n) \/ RemoveMemStorage(n)
         \/ Erase
  PROVE  IInv'
<1> USE BoundAssumption
    DEF IInv, TypeOK, DrainInv, RecordsHaveSession, NullOnlyInErase, NothingLeaks,
        EndpointKept
<1>1. ASSUME NEW t \in Topic, Subscribe(t) PROVE IInv'
  <2>1. Strip[t] \in Topic
    BY StripAssumption
  <2> QED
    BY <1>1, <2>1 DEF Subscribe
<1>2. ASSUME NEW t \in Topic, Unsubscribe(t) PROVE IInv'
  <2>1. subs' \subseteq subs /\ zsubs' = subs'
    BY <1>2, EraseEffect DEF Unsubscribe
  <2> QED
    BY <1>2, <2>1 DEF Unsubscribe
<1>3. ASSUME NEW n \in Name, AddMemStorage(n) PROVE IInv'
  BY <1>3 DEF AddMemStorage
<1>4. ASSUME NEW n \in Name, RemoveMemStorage(n) PROVE IInv'
  BY <1>4 DEF RemoveMemStorage, Uses
<1>5. CASE Erase
  BY <1>5 DEF Erase, Uses
<1> QED
  BY <1>1, <1>2, <1>3, <1>4, <1>5

LEMMA InvNext == IInv /\ [Next]_vars => IInv'
<1>1. IInv /\ UNCHANGED vars => IInv'
  BY DEF IInv, TypeOK, DrainInv, RecordsHaveSession, NullOnlyInErase, NothingLeaks,
         EndpointKept, vars
<1> QED
  BY <1>1, InvConnect, InvReconnect, InvDisconnect, InvDrain, InvClose, InvDial,
     InvRecords
  DEF Next, CallContinues

LEMMA InvCorrect == Spec => []IInv
  BY InvInit, InvNext, PTL DEF Spec

-----------------------------------------------------------------------------

(* Types, and the place of a call agrees with what it has to do. *)
THEOREM TypeCorrect == Spec => []TypeOK
<1>1. IInv => TypeOK
  BY DEF IInv
<1> QED
  BY <1>1, InvCorrect, PTL

(* A record exists only as long as the session it was made through: what   *)
(* unsubscribe() and remove_mem_storage() rely on without a check.         *)
THEOREM RecordsSafe == Spec => []RecordsHaveSession
<1>1. IInv => RecordsHaveSession
  BY DEF IInv
<1> QED
  BY <1>1, InvCorrect, PTL

(* erase() is the only call that hands zenoh a null session. *)
THEOREM NullOnly == Spec => []NullOnlyInErase
<1>1. IInv => NullOnlyInErase
  BY DEF IInv
<1> QED
  BY <1>1, InvCorrect, PTL

(* connect(), reconnect() and disconnect() leave no session open behind    *)
(* the handle and no subscriber declared behind its entry.                 *)
THEOREM NoLeak == Spec => []NothingLeaks
<1>1. IInv => NothingLeaks
  BY DEF IInv
<1> QED
  BY <1>1, InvCorrect, PTL

(* reconnect() dials what the last connect() was given, as 16-bit port.    *)
THEOREM EndpointCorrect == Spec => []EndpointKept
<1>1. IInv => EndpointKept
  BY DEF IInv
<1> QED
  BY <1>1, InvCorrect, PTL

(* The other half of CallsReturn: a drain that meets a key with a leading  *)
(* '/' does not end. The entry that unsubscribe() takes away in its stead, *)
(* if any, is another one.                                                 *)
THEOREM SlashedSpins ==
  Spec => [][pc = "drain" /\ Slashed => pc' = "drain" /\ Slashed']_vars
<1>1. ASSUME IInv, [Next]_vars, pc = "drain", Slashed
      PROVE  pc' = "drain" /\ Slashed'
  <2>1. PICK w \in subs : Strip[w.topic] # w.topic
    BY <1>1 DEF Slashed
  <2>2. \A r, s \in subs : r.topic = s.topic => r = s
    BY <1>1 DEF IInv, TypeOK, RecordsHaveSession
  <2>3. CASE UNCHANGED <<pc, subs>>
    BY <1>1, <2>3 DEF Slashed
  <2>4. CASE DrainSubscription
    <3>1. PICK s \in subs : EraseSubscription(s.topic)
      BY <2>4 DEF DrainSubscription
    <3>2. CASE \E r \in subs : r.topic = Strip[s.topic] /\ subs' = subs \ {r}
      <4>1. PICK r \in subs : r.topic = Strip[s.topic] /\ subs' = subs \ {r}
        BY <3>2
      <4>2. w # r => w \in subs'
        BY <4>1
      <4>3. w = r => s \in subs' /\ Strip[s.topic] # s.topic
        BY <2>1, <2>2, <4>1
      <4> QED
        BY <2>1, <2>4, <4>2, <4>3, <1>1 DEF Slashed, DrainSubscription
    <3> QED
      BY <2>3, <2>4, <3>1, <3>2, <1>1 DEF EraseSubscription, DrainSubscription
  <2>5. subs # {}
    BY <2>1
  <2> QED
    BY <1>1, <2>3, <2>4, <2>5
    DEF Next, CallContinues, Connect, Reconnect, Disconnect, DrainStorage, CloseSession,
        Dial, Subscribe, Unsubscribe, AddMemStorage, RemoveMemStorage, Erase, vars
<1> QED
  BY <1>1, InvCorrect, PTL DEF Spec
=============================================================================
