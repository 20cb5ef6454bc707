---------------------------- MODULE HandleProofs ----------------------------
(***************************************************************************)
(* The invariants of Handle, proved for any number of addresses, topics    *)
(* and implementations. Between the two steps of a swap one pointer is in  *)
(* temp only; what the objects will own then is Owns.                      *)
(***************************************************************************)
EXTENDS Handle, TLAPS

USE DEF handleVars, swapVars, implVars, Null, Idle, Impl

(* The object that temp is for. *)
Waits(h) == temp # Null /\ \E l \in Handle : swapping = <<l, h>>

Owns(h) == IF Waits(h) THEN temp ELSE impl[h]

(* Each object has its own implementation, and each implementation has its *)
(* object, also within a swap.                                             *)
OwnedInv ==
    /\ swapping = <<>> => temp = Null
    /\ \A h \in Handle \ alive : impl[h] = Null
    /\ \A h \in alive : Owns(h) \in heap
    /\ \A g, h \in alive : Owns(g) = Owns(h) => g = h
    /\ \A i \in heap : \E h \in alive : i = Owns(h)

(* What a swap exchanges counts as carried from its beginning, and between *)
(* its two steps both objects point to the same implementation.            *)
SwapInv ==
    \A l, r \in Handle : swapping = <<l, r>> =>
        /\ subs[Owns(l)] # {} => Owns(l) \in carried
        /\ subs[Owns(r)] # {} => Owns(r) \in carried
        /\ temp # Null => impl[l] = impl[r] /\ (l = r => impl[l] = temp)

IInv ==
    /\ TypeOK
    /\ OwnedInv
    /\ SwapInv
    /\ NothingOutlivesImpl
    /\ OwnClientUnlessMoved

-----------------------------------------------------------------------------
(* Out of a swap an object owns what it points to. *)
LEMMA OwnsIdle ==
  ASSUME swapping = <<>>, NEW h
  PROVE  Owns(h) = impl[h]
  BY DEF Owns, Waits

LEMMA InvInit == Init => IInv
  BY BoundAssumption
  DEF Init, IInv, TypeOK, OwnedInv, SwapInv, NothingOutlivesImpl, OwnClientUnlessMoved,
      Owns, Waits, Subscription

(* A new object, with a new implementation: the part that New and          *)
(* MoveConstruct have in common.                                           *)
LEMMA MakeOwns ==
  ASSUME IInv, NEW h \in Handle, Make(h), temp' = temp
  PROVE  /\ \A g \in Handle \ alive' : impl'[g] = Null
         /\ \A g \in alive' : impl'[g] \in heap'
         /\ \A f, g \in alive' : impl'[f] = impl'[g] => f = g
         /\ \A i \in heap' : \E g \in alive' : i = impl'[g]
         /\ impl' \in [Handle -> 0..made'] /\ heap' \subseteq 1..made'
         /\ made' \in 0..MaxImpls /\ alive' \subseteq Handle /\ 0 \in 0..made'
<1>1. made + 1 \notin heap /\ made \in Nat
  BY DEF IInv, TypeOK
<1>2. \A g \in alive : impl[g] \in heap /\ g # h
  BY OwnsIdle DEF Make, IInv, OwnedInv
<1>3. \A f, g \in alive : impl[f] = impl[g] => f = g
  BY OwnsIdle DEF Make, IInv, OwnedInv
<1>4. \A i \in heap : \E g \in alive : i = impl[g]
  BY OwnsIdle DEF Make, IInv, OwnedInv
<1>5. impl'[h] = made + 1 /\ \A g \in Handle \ {h} : impl'[g] = impl[g]
  BY DEF Make, IInv, TypeOK
<1>6. alive \subseteq Handle /\ alive' = alive \cup {h} /\ heap' = heap \cup {made + 1}
  BY DEF Make, IInv, TypeOK
<1>7. \A g \in Handle \ alive' : impl'[g] = Null
  BY <1>5, <1>6 DEF IInv, OwnedInv
<1>8. \A g \in alive' : impl'[g] \in heap'
  BY <1>2, <1>5, <1>6
<1>9. \A f, g \in alive' : impl'[f] = impl'[g] => f = g
  BY <1>1, <1>2, <1>3, <1>5, <1>6
<1>10. \A i \in heap' : \E g \in alive' : i = impl'[g]
  BY <1>2, <1>4, <1>5, <1>6
<1>11. /\ impl' \in [Handle -> 0..made'] /\ heap' \subseteq 1..made'
       /\ made' \in 0..MaxImpls /\ 0 \in 0..made'
  BY BoundAssumption DEF Make, IInv, TypeOK
<1> QED
  BY <1>6, <1>7, <1>8, <1>9, <1>10, <1>11

(* Between calls OwnedInv is about impl itself. *)
LEMMA IdleOwned ==
  ASSUME IInv, Idle
  PROVE  /\ temp = Null
         /\ \A h \in Handle \ alive : impl[h] = Null
         /\ \A h \in alive : impl[h] \in heap
         /\ \A g, h \in alive : impl[g] = impl[h] => g = h
         /\ \A i \in heap : \E h \in alive : i = impl[h]
  BY OwnsIdle DEF IInv, OwnedInv

(* The same facts after a step make OwnedInv again, if no swap is under    *)
(* way then or one has only begun.                                         *)
LEMMA OwnedIdle ==
  ASSUME temp' = Null,
         \A h \in Handle \ alive' : impl'[h] = Null,
         \A h \in alive' : impl'[h] \in heap',
         \A g, h \in alive' : impl'[g] = impl'[h] => g = h,
         \A i \in heap' : \E h \in alive' : i = impl'[h]
  PROVE  OwnedInv' /\ \A h : Owns(h)' = impl'[h]
  BY DEF OwnedInv, Owns, Waits

LEMMA SwapIdle == ASSUME swapping' = <<>> PROVE SwapInv'
  BY DEF SwapInv

(* A swap that begins: SwapInv is what Carry adds to carried.              *)
LEMMA SwapBegins ==
  ASSUME NEW l \in Handle, NEW r \in Handle,
         swapping' = <<l, r>>, temp' = Null, Carry(l, r), subs' = subs,
         impl'[l] # Null, impl'[r] # Null
  PROVE  SwapInv'
<1>1. Owns(l)' = impl'[l] /\ Owns(r)' = impl'[r]
  BY DEF Owns, Waits
<1>2. /\ subs'[impl'[l]] # {} => impl'[l] \in carried'
      /\ subs'[impl'[r]] # {} => impl'[r] \in carried'
  BY DEF Carry
<1>3. SUFFICES ASSUME NEW a \in Handle, NEW b \in Handle, swapping' = <<a, b>>
               PROVE  a = l /\ b = r
  BY <1>1, <1>2 DEF SwapInv
<1> QED
  BY <1>3

-----------------------------------------------------------------------------

LEMMA InvNew == ASSUME IInv, NEW h \in Handle, New(h) PROVE IInv'
<1> USE DEF New
<1>1. temp = Null /\ temp' = Null /\ swapping' = <<>>
  BY IdleOwned DEF Make
<1>2. OwnedInv' /\ SwapInv'
  BY <1>1, MakeOwns, OwnedIdle, SwapIdle
<1>3. TypeOK'
  <2>1. connected' \subseteq Impl /\ carried' \subseteq Impl
        /\ subs' \in [Impl -> SUBSET Subscription]
    BY DEF Make, IInv, TypeOK
  <2> QED
    BY <1>1, <2>1, MakeOwns DEF TypeOK
<1>4. \A g \in alive : g \in alive' /\ impl'[g] = impl[g]
  BY DEF Make, IInv, TypeOK
<1>5. NothingOutlivesImpl' /\ OwnClientUnlessMoved'
  BY <1>4 DEF Make, IInv, NothingOutlivesImpl, OwnClientUnlessMoved
<1> QED
  BY <1>2, <1>3, <1>5 DEF IInv

LEMMA InvMoveConstruct ==
  ASSUME IInv, NEW h \in Handle, NEW other \in Handle, MoveConstruct(h, other)
  PROVE  IInv'
<1> USE DEF MoveConstruct
<1>1. temp = Null /\ temp' = Null
  BY IdleOwned DEF Make
<1>2. OwnedInv'
  BY <1>1, MakeOwns, OwnedIdle
<1>3. h \in alive' /\ other \in alive' /\ made \in Nat /\ made' \in Nat
  BY DEF Make, IInv, TypeOK
<1>4. impl'[h] \in 1..made' /\ impl'[other] \in 1..made'
  BY <1>1, <1>3, MakeOwns
<1>5. SwapInv'
  BY <1>1, <1>4, SwapBegins DEF Make
<1>6. /\ connected' \subseteq Impl /\ carried' \subseteq Impl
      /\ subs' \in [Impl -> SUBSET Subscription]
  <2>1. impl'[h] \in Impl /\ impl'[other] \in Impl
    BY <1>3, <1>4, MakeOwns, BoundAssumption
  <2>2. connected \subseteq Impl /\ carried \subseteq Impl /\ subs \in [Impl -> SUBSET Subscription]
    BY DEF IInv, TypeOK
  <2>3. carried' \subseteq Impl
    BY <2>1, <2>2 DEF Carry
  <2> QED
    BY <2>2, <2>3 DEF Make
<1>7. swapping' \in alive' \X alive'
  BY <1>3
<1>8. TypeOK'
  BY <1>1, <1>6, <1>7, MakeOwns DEF TypeOK
<1>9. \A g \in alive : g \in alive' /\ impl'[g] = impl[g]
  BY DEF Make, IInv, TypeOK
<1>10. NothingOutlivesImpl' /\ OwnClientUnlessMoved'
  BY <1>9 DEF Make, Carry, IInv, NothingOutlivesImpl, OwnClientUnlessMoved
<1> QED
  BY <1>2, <1>5, <1>8, <1>10 DEF IInv

LEMMA InvMoveAssign ==
  ASSUME IInv, NEW h \in Handle, NEW other \in Handle, MoveAssign(h, other)
  PROVE  IInv'
<1> USE DEF MoveAssign
<1>1. temp = Null /\ temp' = Null
  BY IdleOwned
<1>2. OwnedInv'
  BY <1>1, IdleOwned, OwnedIdle
<1>3. impl[h] \in 1..made /\ impl[other] \in 1..made /\ made \in 0..MaxImpls
  BY IdleOwned DEF IInv, TypeOK
<1>4. SwapInv'
  BY <1>1, <1>3, SwapBegins
<1>5. carried' \subseteq Impl
  <2>1. impl[h] \in Impl /\ impl[other] \in Impl
    BY <1>3, BoundAssumption
  <2>2. carried \subseteq Impl
    BY DEF IInv, TypeOK
  <2> QED
    BY <2>1, <2>2 DEF Carry
<1>6. TypeOK'
  BY <1>5 DEF TypeOK, IInv
<1>7. NothingOutlivesImpl' /\ OwnClientUnlessMoved'
  BY DEF Carry, IInv, NothingOutlivesImpl, OwnClientUnlessMoved
<1> QED
  BY <1>2, <1>4, <1>6, <1>7 DEF IInv

(* Between the steps of a swap: what the two objects will own.             *)
LEMMA OwnsInSwap ==
  ASSUME IInv, NEW l \in Handle, NEW r \in Handle, swapping = <<l, r>>
  PROVE  /\ l \in alive /\ r \in alive
         /\ temp = Null => \A g : Owns(g) = impl[g]
         /\ temp # Null => Owns(r) = temp /\ \A g \in Handle : g # r => Owns(g) = impl[g]
<1>1. swapping \in alive \X alive
  BY DEF IInv, TypeOK
<1> QED
  BY <1>1 DEF Owns, Waits

LEMMA InvSwapTake ==
  ASSUME IInv, NEW l \in Handle, NEW r \in Handle, SwapTake(l, r)
  PROVE  IInv'
<1> USE DEF SwapTake
<1> DEFINE other(g) == IF g = l THEN r ELSE IF g = r THEN l ELSE g
<1>1. l \in alive /\ r \in alive /\ alive \subseteq Handle /\ \A g : Owns(g) = impl[g]
  BY OwnsInSwap DEF IInv, TypeOK
<1>2. impl' \in [Handle -> 0..made] /\ temp' \in 0..made /\ temp' # Null
  BY <1>1 DEF IInv, TypeOK, OwnedInv
<1>3. impl'[l] = impl[r] /\ \A g \in Handle : g # l => impl'[g] = impl[g]
  BY DEF IInv, TypeOK
<1>4. Waits(r)' /\ \A g \in Handle : g # r => ~Waits(g)'
  BY <1>2 DEF Waits
<1>5. \A g \in Handle : Owns(g)' = impl[other(g)]
  BY <1>3, <1>4 DEF Owns
<1>6. OwnedInv'
  <2>1. \A g \in alive : other(g) \in alive /\ other(other(g)) = g
    BY <1>1
  <2>2. /\ \A g \in alive : impl[g] \in heap
        /\ \A g, h \in alive : impl[g] = impl[h] => g = h
        /\ \A i \in heap : \E h \in alive : i = impl[h]
    BY <1>1 DEF IInv, OwnedInv
  <2>3. \A g \in alive : Owns(g)' \in heap
    BY <1>1, <1>5, <2>1, <2>2
  <2>4. \A g, h \in alive : Owns(g)' = Owns(h)' => g = h
    <3> SUFFICES ASSUME NEW g \in alive, NEW h \in alive, impl[other(g)] = impl[other(h)]
                 PROVE  g = h
      BY <1>1, <1>5
    <3>1. other(g) = other(h)
      BY <2>1, <2>2
    <3> QED
      BY <2>1, <3>1
  <2>5. \A i \in heap : \E h \in alive : i = Owns(h)'
    <3> SUFFICES ASSUME NEW i \in heap PROVE \E h \in alive : i = Owns(h)'
      OBVIOUS
    <3>1. PICK g \in alive : i = impl[g]
      BY <2>2
    <3>2. other(g) \in alive /\ i = Owns(other(g))'
      BY <1>1, <1>5, <2>1, <3>1
    <3> QED
      BY <3>2
  <2>6. \A g \in Handle \ alive : impl'[g] = Null
    BY <1>1, <1>3 DEF IInv, OwnedInv
  <2> QED
    BY <2>3, <2>4, <2>5, <2>6 DEF OwnedInv
<1>7. SwapInv'
  <2>1. /\ subs[impl[l]] # {} => impl[l] \in carried
        /\ subs[impl[r]] # {} => impl[r] \in carried
    BY <1>1 DEF IInv, SwapInv
  <2>2. Owns(l)' = impl[r] /\ Owns(r)' = impl[l]
    BY <1>5
  <2>3. impl'[l] = impl'[r] /\ (l = r => impl'[l] = temp')
    BY <1>3
  <2>4. SUFFICES ASSUME NEW a \in Handle, NEW b \in Handle, swapping = <<a, b>>
                 PROVE  a = l /\ b = r
    BY <2>1, <2>2, <2>3 DEF SwapInv
  <2> QED
    BY <2>4
<1>8. TypeOK'
  BY <1>2 DEF TypeOK, IInv
<1>9. OwnClientUnlessMoved'
  <2> SUFFICES ASSUME NEW i \in Impl \ carried, NEW s \in subs[i]
               PROVE  s.client \in alive /\ impl'[s.client] = i
    BY DEF OwnClientUnlessMoved
  <2>1. s.client \in alive /\ impl[s.client] = i
    BY DEF IInv, OwnClientUnlessMoved
  <2>2. s.client # l
    BY <1>1, <2>1 DEF IInv, SwapInv
  <2> QED
    BY <1>1, <1>3, <2>1, <2>2
<1>10. NothingOutlivesImpl'
  BY DEF IInv, NothingOutlivesImpl
<1> QED
  BY <1>6, <1>7, <1>8, <1>9, <1>10 DEF IInv

LEMMA InvSwapGive ==
  ASSUME IInv, NEW l \in Handle, NEW r \in Handle, SwapGive(l, r)
  PROVE  IInv'
<1> USE DEF SwapGive
<1>1. /\ l \in alive /\ r \in alive /\ alive \subseteq Handle
      /\ Owns(r) = temp /\ \A g \in Handle : g # r => Owns(g) = impl[g]
  BY OwnsInSwap DEF IInv, TypeOK
<1>2. impl'[r] = temp /\ \A g \in Handle : g # r => impl'[g] = impl[g]
  BY DEF IInv, TypeOK
<1>3. \A g \in Handle : impl'[g] = Owns(g)
  BY <1>1, <1>2
<1>4. OwnedInv'
  <2>1. \A g \in Handle \ alive : impl'[g] = Null
    BY <1>1, <1>2 DEF IInv, OwnedInv
  <2>2. /\ \A g \in alive : impl'[g] \in heap
        /\ \A g, h \in alive : impl'[g] = impl'[h] => g = h
        /\ \A i \in heap : \E h \in alive : i = impl'[h]
    BY <1>1, <1>3 DEF IInv, OwnedInv
  <2> QED
    BY <2>1, <2>2, OwnedIdle
<1>5. SwapInv'
  BY SwapIdle
<1>6. TypeOK'
  BY DEF TypeOK, IInv
<1>7. OwnClientUnlessMoved'
  <2> SUFFICES ASSUME NEW i \in Impl \ carried, NEW s \in subs[i]
               PROVE  s.client \in alive /\ impl'[s.client] = i
    BY DEF OwnClientUnlessMoved
  <2>1. s.client \in alive /\ impl[s.client] = i
    BY DEF IInv, OwnClientUnlessMoved
  <2>2. CASE l = r
    <3>1. impl[r] = temp
      BY <2>2 DEF IInv, SwapInv
    <3> QED
      BY <1>1, <1>2, <2>1, <3>1
  <2>3. CASE l # r
    <3>1. impl[r] = Owns(l) /\ (subs[Owns(l)] # {} => Owns(l) \in carried)
      BY <1>1, <2>3 DEF IInv, SwapInv
    <3> QED
      BY <1>1, <1>2, <2>1, <3>1
  <2> QED
    BY <2>2, <2>3
<1>8. NothingOutlivesImpl'
  BY DEF IInv, NothingOutlivesImpl
<1> QED
  BY <1>4, <1>5, <1>6, <1>7, <1>8 DEF IInv

-----------------------------------------------------------------------------

(* What the calls on one object have in common: it has an implementation,  *)
(* which no other object has.                                              *)
LEMMA CallOn ==
  ASSUME IInv, Idle, NEW h \in Handle, h \in alive
  PROVE  impl[h] \in Impl /\ impl[h] \in heap /\ impl[h] # Null
<1>1. impl[h] \in heap
  BY IdleOwned
<1>2. impl[h] \in 1..made /\ made \in 0..MaxImpls
  BY <1>1 DEF IInv, TypeOK
<1>3. impl[h] \in 1..MaxImpls
  BY <1>2, BoundAssumption
<1> QED
  BY <1>1, <1>3

(* After disconnect() there is no subscription left of this implementation. *)
LEMMA DrainedSubs ==
  ASSUME IInv, NEW j \in Impl
  PROVE  /\ Drained(j) \in [Impl -> SUBSET Subscription]
         /\ Drained(j)[j] = {}
         /\ \A i \in Impl : i # j => Drained(j)[i] = subs[i]
  BY DEF Drained, IInv, TypeOK

LEMMA InvDestroy == ASSUME IInv, NEW h \in Handle, Destroy(h) PROVE IInv'
<1> USE DEF Destroy
<1>1. impl[h] \in Impl /\ impl[h] \in heap
  BY CallOn
<1>2. impl'[h] = Null /\ (\A g \in Handle : g # h => impl'[g] = impl[g])
      /\ alive \subseteq Handle
  BY DEF IInv, TypeOK
<1>3. OwnedInv' /\ SwapInv'
  <2>1. \A g \in Handle \ alive' : impl'[g] = Null
    BY <1>2, IdleOwned
  <2>2. /\ \A g \in alive' : impl'[g] \in heap'
        /\ \A f, g \in alive' : impl'[f] = impl'[g] => f = g
        /\ \A i \in heap' : \E g \in alive' : i = impl'[g]
    BY <1>2, IdleOwned
  <2> QED
    BY <2>1, <2>2, IdleOwned, OwnedIdle, SwapIdle
<1>4. TypeOK'
  <2>1. impl' \in [Handle -> 0..made]
    BY DEF IInv, TypeOK
  <2>2. subs' \in [Impl -> SUBSET Subscription]
    BY <1>1, DrainedSubs
  <2> QED
    BY <2>1, <2>2 DEF IInv, TypeOK
<1>5. NothingOutlivesImpl'
  BY <1>1, DrainedSubs DEF IInv, NothingOutlivesImpl
<1>6. OwnClientUnlessMoved'
  <2> SUFFICES ASSUME NEW i \in Impl \ carried', NEW s \in subs'[i]
               PROVE  s.client \in alive' /\ impl'[s.client] = i
    BY DEF OwnClientUnlessMoved
  <2>1. i # impl[h] /\ i \notin carried /\ s \in subs[i]
    BY <1>1, DrainedSubs
  <2>2. s.client \in alive /\ impl[s.client] = i
    BY <2>1 DEF IInv, OwnClientUnlessMoved
  <2> QED
    BY <1>2, <2>1, <2>2
<1> QED
  BY <1>3, <1>4, <1>5, <1>6 DEF IInv

LEMMA InvDial ==
  ASSUME IInv, NEW h \in Handle, NEW opened \in BOOLEAN, Dial(h, opened)
  PROVE  IInv'
<1> USE DEF Dial
<1>1. impl[h] \in Impl /\ impl[h] \in heap
  BY CallOn
<1>2. OwnedInv' /\ SwapInv'
  BY IdleOwned, OwnedIdle, SwapIdle
<1>3. TypeOK'
  <2>1. subs' \in [Impl -> SUBSET Subscription]
    BY <1>1, DrainedSubs
  <2> QED
    BY <1>1, <2>1 DEF IInv, TypeOK
<1>4. NothingOutlivesImpl'
  BY <1>1, DrainedSubs DEF IInv, NothingOutlivesImpl
<1>5. OwnClientUnlessMoved'
  <2> SUFFICES ASSUME NEW i \in Impl \ carried', NEW s \in subs'[i]
               PROVE  s.client \in alive /\ impl[s.client] = i
    BY DEF OwnClientUnlessMoved
  <2>1. i # impl[h] /\ i \notin carried /\ s \in subs[i]
    BY <1>1, DrainedSubs
  <2> QED
    BY <2>1 DEF IInv, OwnClientUnlessMoved
<1> QED
  BY <1>2, <1>3, <1>4, <1>5 DEF IInv

LEMMA InvSubscribe ==
  ASSUME IInv, NEW h \in Handle, NEW t \in Topic, Subscribe(h, t)
  PROVE  IInv'
<1> USE DEF Subscribe
<1> DEFINE new == [topic |-> t, client |-> h]
<1>1. impl[h] \in Impl /\ impl[h] \in heap
  BY CallOn
<1>2. OwnedInv' /\ SwapInv'
  BY IdleOwned, OwnedIdle, SwapIdle
<1>3. /\ subs'[impl[h]] = subs[impl[h]] \cup {new}
      /\ \A i \in Impl : i # impl[h] => subs'[i] = subs[i]
      /\ subs' \in [Impl -> SUBSET Subscription]
  BY <1>1 DEF IInv, TypeOK, Subscription
<1>4. TypeOK'
  BY <1>3 DEF IInv, TypeOK
<1>5. NothingOutlivesImpl'
  BY <1>1, <1>3 DEF IInv, NothingOutlivesImpl
<1>6. OwnClientUnlessMoved'
  <2> SUFFICES ASSUME NEW i \in Impl \ carried, NEW s \in subs'[i]
               PROVE  s.client \in alive /\ impl[s.client] = i
    BY DEF OwnClientUnlessMoved
  <2>1. s \in subs[i] \/ (i = impl[h] /\ s = new)
    BY <1>3
  <2> QED
    BY <2>1 DEF IInv, OwnClientUnlessMoved
<1> QED
  BY <1>2, <1>4, <1>5, <1>6 DEF IInv

LEMMA InvUnsubscribe ==
  ASSUME IInv, NEW h \in Handle, NEW t \in Topic, Unsubscribe(h, t)
  PROVE  IInv'
<1>1. PICK s \in subs[impl[h]] :
          /\ subs' = [subs EXCEPT ![impl[h]] = @ \ {s}]
          /\ carried' = IF subs[impl[h]] = {s} THEN carried \ {impl[h]} ELSE carried
  BY DEF Unsubscribe
<1>2. /\ Idle /\ h \in alive
      /\ UNCHANGED <<handleVars, swapVars, made, heap, connected>>
  BY DEF Unsubscribe
<1>3. impl[h] \in Impl
  BY <1>2, CallOn
<1>4. OwnedInv' /\ SwapInv'
  BY <1>2, IdleOwned, OwnedIdle, SwapIdle
<1>5. /\ subs'[impl[h]] = subs[impl[h]] \ {s}
      /\ \A i \in Impl : i # impl[h] => subs'[i] = subs[i]
      /\ subs' \in [Impl -> SUBSET Subscription]
  BY <1>1, <1>3 DEF IInv, TypeOK
<1>6. carried' \subseteq Impl
  BY <1>1 DEF IInv, TypeOK
<1>7. TypeOK'
  BY <1>2, <1>5, <1>6 DEF IInv, TypeOK
<1>8. NothingOutlivesImpl'
  BY <1>2, <1>5 DEF IInv, NothingOutlivesImpl
<1>9. OwnClientUnlessMoved'
  <2> SUFFICES ASSUME NEW i \in Impl \ carried', NEW u \in subs'[i]
               PROVE  u.client \in alive /\ impl[u.client] = i
    BY <1>2 DEF OwnClientUnlessMoved
  <2>1. u \in subs[i] /\ i \notin carried
    BY <1>1, <1>5
  <2> QED
    BY <2>1 DEF IInv, OwnClientUnlessMoved
<1> QED
  BY <1>4, <1>7, <1>8, <1>9 DEF IInv

-----------------------------------------------------------------------------

LEMMA InvNext == ASSUME IInv, [Next]_vars PROVE IInv'
<1>1. CASE UNCHANGED vars
  BY <1>1 DEF IInv, TypeOK, OwnedInv, SwapInv, NothingOutlivesImpl, OwnClientUnlessMoved,
              Owns, Waits, vars
<1>2. CASE Next
  BY <1>2, InvNew, InvDestroy, InvMoveConstruct, InvMoveAssign, InvSwapTake, InvSwapGive,
     InvDial, InvSubscribe, InvUnsubscribe DEF Next
<1> QED
  BY <1>1, <1>2

LEMMA InvCorrect == Spec => []IInv
  BY InvInit, InvNext, PTL DEF Spec

(* The variables of Handle keep to their types. *)
THEOREM TypeCorrect == Spec => []TypeOK
<1>1. IInv => TypeOK
  BY DEF IInv
<1> QED
  BY <1>1, InvCorrect, PTL

(* Ownership: after any sequence of new, moves and destruction, for any    *)
(* number of objects, no implementation has two owners and none leaks.     *)
THEOREM OwnershipCorrect == Spec => []OneOwner
<1>1. ASSUME IInv, Idle PROVE heap = {impl[h] : h \in alive}
  BY <1>1, IdleOwned
<1>2. IInv => OneOwner
  BY <1>1, IdleOwned DEF OneOwner
<1> QED
  BY <1>2, InvCorrect, PTL

(* No session and no context outlives the implementation it belongs to,    *)
(* although only the facade's destructor closes and frees them.            *)
THEOREM NothingOutlives == Spec => []NothingOutlivesImpl
<1>1. IInv => NothingOutlivesImpl
  BY DEF IInv
<1> QED
  BY <1>1, InvCorrect, PTL

(* Callbacks are given their own client, at every step of a swap, unless a *)
(* client with subscriptions was moved.                                    *)
THEOREM OwnClient == Spec => []OwnClientUnlessMoved
<1>1. IInv => OwnClientUnlessMoved
  BY DEF IInv
<1> QED
  BY <1>1, InvCorrect, PTL
=============================================================================
