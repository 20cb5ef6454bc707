--------------------------- MODULE CallbacksProofs ---------------------------
(***************************************************************************)
(* The invariants of Callbacks, proved for any number of topics, contexts  *)
(* and calls, nested as deep as one likes. The argument goes by frames:    *)
(* what each frame says of the map (FrameOK), what a frame that is not the *)
(* innermost one can be (BelowOK), and how the frames of one thread relate *)
(* to each other and to those of the other (PairInv, LeaveInv).            *)
(***************************************************************************)
EXTENDS Callbacks, SequenceTheorems, TLAPS

Depth(th) == Len(stack[th])

(* Who can be in what: the RX thread makes no call that changes the map.   *)
Place(th) == IF th = "api" THEN {"subscribe", "unsubscribe", "get", "publish", "replay", "local"}
             ELSE {"get", "publish", "live", "local"}

FrameOK(th, f) ==
    /\ f.in \in Place(th)
    /\ f.ctx # NoContext => entry[f.topic] = f.ctx
    /\ f.in \in {"get", "publish"} => f.ctx = NoContext
    /\ f.in \in Callback \cup {"unsubscribe"} => f.ctx # NoContext
    /\ f.in = "subscribe" =>
          IF f.at = "emplace"
          THEN f.ctx = NoContext /\ entry[f.topic] = NoContext /\ made < MaxContexts
          ELSE f.ctx # NoContext
    /\ f.in \in {"live", "local"} /\ f.at = "running" => f.ctx \in once
    /\ f.in \in {"replay", "subscribe"} => f.ctx \notin once

BelowOK(f) == f.in \notin {"get", "unsubscribe"} /\ (f.in = "subscribe" => f.at = "loop")

FramesInv ==
    \A th \in Thread :
        /\ \A i \in 1..Depth(th) : FrameOK(th, stack[th][i])
        /\ \A i \in 1..Depth(th) : i < Depth(th) => BelowOK(stack[th][i])

(* A replay belongs to the call right below it, and no two calls of        *)
(* subscribe() are about the same topic.                                   *)
PairInv ==
    \A th \in Thread :
        /\ \A i \in 1..Depth(th) : stack[th][i].in = "replay" =>
              i > 1 /\ stack[th][i - 1].in = "subscribe" /\ stack[th][i - 1].ctx = stack[th][i].ctx
        /\ \A i, j \in 1..Depth(th) :
              stack[th][i].in = "subscribe" /\ stack[th][j].in = "subscribe"
                  /\ stack[th][i].topic = stack[th][j].topic => i = j

(* What unsubscribe() is about to erase is in nobody's hand.               *)
LeaveOK(th, f) ==
    /\ \A i \in 1..Depth(th) :
          i < Depth(th) /\ stack[th][i].in \in Callback \cup {"subscribe"} =>
              stack[th][i].topic # f.topic
    /\ f.at \in {"waiting", "erase"} => declared[f.topic] = NoContext
    /\ f.at = "erase" =>
          \A i \in 1..Depth("rx") :
              stack["rx"][i].in \in {"live", "local"} => stack["rx"][i].topic # f.topic

LeaveInv ==
    \A th \in Thread : Depth(th) > 0 /\ stack[th][Depth(th)].in = "unsubscribe" =>
        LeaveOK(th, stack[th][Depth(th)])

EntryInv ==
    \A t, u \in Topic : entry[t] = entry[u] /\ entry[t] # NoContext => t = u

IInv == TypeOK /\ FramesInv /\ PairInv /\ LeaveInv /\ EntryInv

-----------------------------------------------------------------------------
(* The three ways in which a stack changes: a frame is put on it, under    *)
(* which the caller may have moved on, is taken off it, or moves on.       *)

Alike(f, g) ==
    /\ f.in = g.in /\ f.topic = g.topic /\ f.ctx = g.ctx
    /\ f.in = "publish" \/ f.at = g.at

Pushed(th, f) ==
    /\ stack' \in [Thread -> Seq(Frame)]
    /\ \A x \in Thread : x # th => stack'[x] = stack[x]
    /\ Len(stack'[th]) = Depth(th) + 1
    /\ \A i \in 1..Depth(th) : stack'[th][i] \in Frame /\ Alike(stack[th][i], stack'[th][i])
    /\ stack'[th][Depth(th) + 1] = f

Popped(th) ==
    /\ stack' \in [Thread -> Seq(Frame)]
    /\ \A x \in Thread : x # th => stack'[x] = stack[x]
    /\ Depth(th) > 0 /\ Len(stack'[th]) = Depth(th) - 1
    /\ \A i \in 1..Depth(th) - 1 : stack'[th][i] = stack[th][i]

Replaced(th, f) ==
    /\ stack' \in [Thread -> Seq(Frame)]
    /\ \A x \in Thread : x # th => stack'[x] = stack[x]
    /\ Depth(th) > 0 /\ Len(stack'[th]) = Depth(th)
    /\ \A i \in 1..Depth(th) : i < Depth(th) => stack'[th][i] = stack[th][i]
    /\ stack'[th][Depth(th)] = f

(* A stack is a sequence of frames, and the innermost call is its last.    *)
LEMMA StackType ==
  ASSUME TypeOK, NEW th \in Thread
  PROVE  /\ stack \in [Thread -> Seq(Frame)]
         /\ stack[th] \in Seq(Frame) /\ Depth(th) \in Nat /\ Len(stack[th]) = Depth(th)
         /\ \A i \in 1..Depth(th) : stack[th][i] \in Frame
         /\ stack[th] # <<>> <=> Depth(th) > 0
         /\ stack[th] # <<>> => Top(th) = stack[th][Depth(th)] /\ Top(th) \in Frame
<1>1. stack[th] \in Seq(Frame)
  BY DEF TypeOK
<1>2. Top(th) = stack[th][Depth(th)]
  BY DEF Top, Last, Depth
<1> QED
  BY <1>1, <1>2 DEF Depth, TypeOK

(* The frames of a thread, as a set, are those of its stack.               *)
LEMMA FramesAreStack ==
  ASSUME TypeOK, NEW th \in Thread
  PROVE  /\ \A i \in 1..Depth(th) : stack[th][i] \in Frames(th)
         /\ \A f \in Frames(th) : \E i \in 1..Depth(th) : f = stack[th][i]
<1>1. DOMAIN stack[th] = 1..Depth(th)
  BY StackType
<1> QED
  BY <1>1 DEF Frames, ToSet

(* Push() puts a frame on the stack.                                       *)
LEMMA PushLemma ==
  ASSUME TypeOK, NEW th \in Thread, NEW f \in Frame, Push(th, f)
  PROVE  Pushed(th, f)
<1>1. stack[th] \in Seq(Frame) /\ stack \in [Thread -> Seq(Frame)]
  BY DEF TypeOK
<1>2. stack'[th] = Append(stack[th], f) /\ stack' \in [Thread -> Seq(Frame)]
  BY <1>1 DEF Push
<1>3. \A x \in Thread : x # th => stack'[x] = stack[x]
  BY <1>1 DEF Push
<1> QED
  BY <1>1, <1>2, <1>3 DEF Pushed, Depth, Alike

(* Pop() takes the last frame off.                                         *)
LEMMA PopLemma ==
  ASSUME TypeOK, NEW th \in Thread, Pop(th), stack[th] # <<>>
  PROVE  Popped(th)
<1>1. stack[th] \in Seq(Frame) /\ stack \in [Thread -> Seq(Frame)] /\ Depth(th) \in Nat \ {0}
  BY DEF TypeOK, Depth
<1>2. stack'[th] = SubSeq(stack[th], 1, Depth(th) - 1)
  BY <1>1 DEF Pop, Front, Depth
<1>3. /\ stack'[th] \in Seq(Frame) /\ Len(stack'[th]) = Depth(th) - 1
      /\ \A i \in 1..Depth(th) - 1 : stack'[th][i] = stack[th][i]
  <2>1. \A i \in 1..Depth(th) - 1 : stack[th][i] \in Frame
    BY <1>1 DEF Depth
  <2>2. 1 \in Int /\ Depth(th) - 1 \in Int
    BY <1>1
  <2>3. /\ SubSeq(stack[th], 1, Depth(th) - 1) \in Seq(Frame)
        /\ Len(SubSeq(stack[th], 1, Depth(th) - 1)) =
              IF 1 <= Depth(th) - 1 THEN Depth(th) - 1 - 1 + 1 ELSE 0
        /\ \A i \in 1..Depth(th) - 1 - 1 + 1 :
              SubSeq(stack[th], 1, Depth(th) - 1)[i] = stack[th][1 + i - 1]
    BY <2>1, <2>2, SubSeqProperties
  <2> QED
    BY <1>1, <1>2, <2>3
<1>4. \A x \in Thread : x # th => stack'[x] = stack[x]
  BY <1>1 DEF Pop
<1>5. stack' \in [Thread -> Seq(Frame)]
  <2>1. DOMAIN stack' = Thread /\ stack' = [x \in Thread |-> stack'[x]]
    BY <1>1 DEF Pop
  <2>2. \A x \in Thread : stack'[x] \in Seq(Frame)
    BY <1>1, <1>3, <1>4
  <2> QED
    BY <2>1, <2>2
<1> QED
  BY <1>1, <1>3, <1>4, <1>5 DEF Popped

(* An EXCEPT at its end replaces the last frame.                           *)
LEMMA ReplaceLemma ==
  ASSUME TypeOK, NEW th \in Thread, stack[th] # <<>>, NEW f \in Frame,
         stack' = [stack EXCEPT ![th] = [stack[th] EXCEPT ![Depth(th)] = f]]
  PROVE  Replaced(th, f)
<1>1. stack[th] \in Seq(Frame) /\ stack \in [Thread -> Seq(Frame)] /\ Depth(th) \in 1..Len(stack[th])
  BY DEF TypeOK, Depth
<1>2. /\ stack'[th] = [stack[th] EXCEPT ![Depth(th)] = f]
      /\ \A x \in Thread : x # th => stack'[x] = stack[x]
  BY <1>1
<1>3. /\ stack'[th] \in Seq(Frame) /\ Len(stack'[th]) = Depth(th)
      /\ \A i \in 1..Depth(th) : stack'[th][i] = IF i = Depth(th) THEN f ELSE stack[th][i]
  BY <1>1, <1>2, ExceptSeq DEF Depth
<1>4. stack' \in [Thread -> Seq(Frame)]
  BY <1>1, <1>3
<1> QED
  BY <1>1, <1>2, <1>3, <1>4 DEF Replaced, Depth

(* And one followed by Append does both, the caller moving on.             *)
LEMMA ReplacePushLemma ==
  ASSUME TypeOK, NEW th \in Thread, stack[th] # <<>>, NEW f \in Frame, NEW g \in Frame,
         Alike(Top(th), g),
         stack' = [stack EXCEPT ![th] = Append([stack[th] EXCEPT ![Depth(th)] = g], f)]
  PROVE  Pushed(th, f)
<1> DEFINE s == [stack[th] EXCEPT ![Depth(th)] = g]
<1>1. stack[th] \in Seq(Frame) /\ stack \in [Thread -> Seq(Frame)] /\ Depth(th) \in 1..Len(stack[th])
  BY DEF TypeOK, Depth
<1>2. /\ s \in Seq(Frame) /\ Len(s) = Depth(th)
      /\ \A i \in 1..Depth(th) : s[i] = IF i = Depth(th) THEN g ELSE stack[th][i]
  BY <1>1, ExceptSeq DEF Depth
<1> HIDE DEF s
<1>3. stack'[th] = Append(s, f) /\ \A x \in Thread : x # th => stack'[x] = stack[x]
  BY <1>1 DEF s
<1>4. /\ stack'[th] \in Seq(Frame) /\ Len(stack'[th]) = Depth(th) + 1
      /\ stack'[th][Depth(th) + 1] = f
      /\ \A i \in 1..Depth(th) : stack'[th][i] = IF i = Depth(th) THEN g ELSE stack[th][i]
  BY <1>1, <1>2, <1>3
<1>5. stack' \in [Thread -> Seq(Frame)]
  BY <1>1, <1>3, <1>4 DEF s
<1>6. \A i \in 1..Depth(th) : stack'[th][i] \in Frame /\ Alike(stack[th][i], stack'[th][i])
  BY <1>1, <1>4, StackType DEF Alike, Depth
<1> QED
  BY <1>3, <1>4, <1>5, <1>6 DEF Pushed

-----------------------------------------------------------------------------
(* What the three ways preserve when nothing else changes.                 *)

OthersSame == UNCHANGED <<entry, declared, once, made>> /\ calls' \in 0..MaxCalls

(* What a frame and its caller must be for it to be put on top.            *)
MayPush(th, f) ==
    /\ f \in Frame /\ FrameOK(th, f)
    /\ stack[th] # <<>> => BelowOK(Top(th))
    /\ f.in = "subscribe" => f.at = "emplace"
    /\ f.in = "replay" => stack[th] # <<>> /\ Top(th).in = "subscribe" /\ Top(th).ctx = f.ctx
    /\ f.in = "unsubscribe" =>
          /\ f.at = "undeclare"
          /\ \A i \in 1..Depth(th) :
                stack[th][i].in \in Callback \cup {"subscribe"} => stack[th][i].topic # f.topic
    /\ f.in \in {"live", "local"} => declared[f.topic] # NoContext

(* A call or callback that may begin keeps the invariant.                  *)
LEMMA PushInv ==
  ASSUME IInv, NEW th \in Thread, NEW f, MayPush(th, f), Pushed(th, f), OthersSame
  PROVE  IInv'
<1>t. TypeOK /\ f \in Frame
  BY DEF IInv, MayPush
<1>d. /\ Depth(th) \in Nat /\ Depth(th)' = Depth(th) + 1
      /\ \A x \in Thread : x # th => Depth(x)' = Depth(x) /\ Depth(x) \in Nat
      /\ \A x \in Thread : x # th => stack'[x] = stack[x]
  BY <1>t, StackType DEF Pushed, Depth
<1>a. /\ stack'[th][Depth(th) + 1] = f
      /\ \A i \in 1..Depth(th) :
            stack'[th][i] \in Frame /\ stack[th][i] \in Frame /\ Alike(stack[th][i], stack'[th][i])
  BY <1>t, StackType DEF Pushed
<1>1. TypeOK'
  BY <1>t DEF TypeOK, OthersSame, Pushed
<1>2. FramesInv'
  <2> SUFFICES ASSUME NEW x \in Thread, NEW i \in 1..Depth(x)'
               PROVE  /\ FrameOK(x, stack[x][i])'
                      /\ i < Depth(x)' => BelowOK(stack[x][i])'
    BY DEF FramesInv
  <2>1. CASE x # th
    <3>1. i \in 1..Depth(x) /\ stack'[x][i] = stack[x][i]
      BY <2>1, <1>d
    <3>2. FrameOK(x, stack[x][i]) /\ (i < Depth(x) => BelowOK(stack[x][i]))
      BY <3>1 DEF IInv, FramesInv
    <3> QED
      BY <2>1, <1>d, <3>1, <3>2 DEF FrameOK, BelowOK, OthersSame
  <2>2. CASE x = th /\ i = Depth(th) + 1
    BY <2>2, <1>d, <1>a DEF MayPush, FrameOK, OthersSame
  <2>3. CASE x = th /\ i \in 1..Depth(th)
    <3>1. FrameOK(th, stack[th][i]) /\ Alike(stack[th][i], stack'[th][i])
      BY <2>3, <1>a DEF IInv, FramesInv
    <3>2. BelowOK(stack[th][i])
      <4>1. CASE i < Depth(th)
        BY <4>1, <2>3 DEF IInv, FramesInv
      <4>2. CASE i = Depth(th)
        BY <4>2, <2>3, <1>t, <1>d, StackType DEF MayPush
      <4> QED
        BY <4>1, <4>2, <2>3, <1>d
    <3>3. FrameOK(th, stack[th][i])'
      BY <3>1 DEF FrameOK, Alike, OthersSame, Callback
    <3> QED
      BY <2>3, <3>1, <3>2, <3>3 DEF BelowOK, Alike
  <2> QED
    BY <2>1, <2>2, <2>3, <1>d
<1>3. PairInv'
  <2> SUFFICES ASSUME NEW x \in Thread
               PROVE  /\ \A i \in 1..Depth(x)' : stack'[x][i].in = "replay" =>
                            /\ i > 1 /\ stack'[x][i - 1].in = "subscribe"
                            /\ stack'[x][i - 1].ctx = stack'[x][i].ctx
                      /\ \A i, j \in 1..Depth(x)' :
                            stack'[x][i].in = "subscribe" /\ stack'[x][j].in = "subscribe"
                                /\ stack'[x][i].topic = stack'[x][j].topic => i = j
    BY DEF PairInv
  <2>1. CASE x # th
    BY <2>1, <1>d DEF IInv, PairInv
  <2>2. CASE x = th
    <3>1. ASSUME NEW i \in 1..Depth(th) + 1, stack'[th][i].in = "replay"
          PROVE  /\ i > 1 /\ stack'[th][i - 1].in = "subscribe"
                 /\ stack'[th][i - 1].ctx = stack'[th][i].ctx
      <4>1. CASE i = Depth(th) + 1
        <5>1. Depth(th) > 0 /\ Top(th) = stack[th][Depth(th)]
              /\ Top(th).in = "subscribe" /\ Top(th).ctx = f.ctx
          BY <4>1, <3>1, <1>a, <1>t, StackType DEF MayPush
        <5>2. Alike(stack[th][Depth(th)], stack'[th][Depth(th)])
          BY <5>1, <1>a, <1>d
        <5> QED
          BY <4>1, <5>1, <5>2, <1>a, <1>d DEF Alike
      <4>2. CASE i \in 1..Depth(th)
        <5>1. i > 1 /\ stack[th][i - 1].in = "subscribe" /\ stack[th][i - 1].ctx = stack[th][i].ctx
          BY <4>2, <3>1, <1>a DEF IInv, PairInv, Alike
        <5> QED
          BY <5>1, <4>2, <1>a, <1>d DEF Alike
      <4> QED
        BY <4>1, <4>2, <1>d
    <3>2. ASSUME NEW i \in 1..Depth(th), NEW j \in 1..Depth(th),
                 stack'[th][i].in = "subscribe", stack'[th][j].in = "subscribe",
                 stack'[th][i].topic = stack'[th][j].topic
          PROVE  i = j
      BY <3>2, <1>a DEF IInv, PairInv, Alike
    <3>3. ASSUME NEW i \in 1..Depth(th), f.in = "subscribe", stack'[th][i].in = "subscribe",
                 stack'[th][i].topic = f.topic
          PROVE  FALSE
      <4>1. entry[f.topic] = NoContext
        BY <3>3 DEF MayPush, FrameOK
      <4>2. BelowOK(stack[th][i])
        <5>1. CASE i < Depth(th)
          BY <5>1, <3>3 DEF IInv, FramesInv
        <5>2. CASE i = Depth(th)
          BY <5>2, <1>t, <1>d, StackType DEF MayPush
        <5> QED
          BY <5>1, <5>2, <1>d
      <4>3. stack[th][i].in = "subscribe" /\ stack[th][i].topic = f.topic
        BY <3>3, <1>a DEF Alike
      <4> QED
        BY <4>1, <4>2, <4>3 DEF IInv, FramesInv, FrameOK, BelowOK
    <3> QED
      BY <2>2, <3>1, <3>2, <3>3, <1>a, <1>d
  <2> QED
    BY <2>1, <2>2
<1>4. LeaveInv'
  <2> SUFFICES ASSUME NEW x \in Thread, Depth(x)' > 0, stack'[x][Depth(x)'].in = "unsubscribe"
               PROVE  LeaveOK(x, stack[x][Depth(x)])'
    BY DEF LeaveInv
  <2>1. CASE x = th
    <3>1. stack'[x][Depth(x)'] = f /\ f.in = "unsubscribe" /\ f.at = "undeclare"
      BY <2>1, <1>a, <1>d DEF MayPush
    <3>2. \A i \in 1..Depth(th) :
             stack'[th][i].in \in Callback \cup {"subscribe"} => stack'[th][i].topic # f.topic
      BY <3>1, <1>a DEF MayPush, Alike
    <3> QED
      BY <2>1, <3>1, <3>2, <1>a, <1>d DEF LeaveOK
  <2>2. CASE x # th
    <3>1. Depth(x) > 0 /\ Depth(x)' = Depth(x) /\ stack'[x] = stack[x]
      BY <2>2, <1>d
    <3> DEFINE g == stack[x][Depth(x)]
    <3>2. LeaveOK(x, g) /\ g.in = "unsubscribe" /\ stack'[x][Depth(x)'] = g
      BY <3>1 DEF IInv, LeaveInv
    <3> HIDE DEF g
    <3>3. ASSUME g.at = "erase", NEW i \in 1..Depth("rx")', stack'["rx"][i].in \in {"live", "local"}
          PROVE  stack'["rx"][i].topic # g.topic
      <4>1. declared[g.topic] = NoContext
        BY <3>2, <3>3 DEF LeaveOK
      <4>2. CASE th = "rx" /\ i = Depth(th) + 1
        BY <4>1, <4>2, <3>3, <1>a DEF MayPush
      <4>3. CASE th = "rx" /\ i \in 1..Depth(th)
        BY <4>3, <3>2, <3>3, <1>a DEF LeaveOK, Alike
      <4>4. CASE th # "rx"
        BY <4>4, <3>2, <3>3, <1>d DEF LeaveOK, Thread
      <4> QED
        BY <4>2, <4>3, <4>4, <1>d
    <3>4. LeaveOK(x, g)'
      BY <3>1, <3>2, <3>3 DEF LeaveOK, OthersSame, g
    <3> QED
      BY <3>2, <3>4 DEF g
  <2> QED
    BY <2>1, <2>2
<1>5. EntryInv'
  BY DEF IInv, EntryInv, OthersSame
<1> QED
  BY <1>1, <1>2, <1>3, <1>4, <1>5 DEF IInv

(* A call or callback that ends keeps it.                                  *)
LEMMA PopInv ==
  ASSUME IInv, NEW th \in Thread, Popped(th), OthersSame
  PROVE  IInv'
<1>t. TypeOK
  BY DEF IInv
<1>d. /\ Depth(th) \in Nat /\ Depth(th)' = Depth(th) - 1 /\ Depth(th) > 0
      /\ \A i \in 1..Depth(th)' : stack'[th][i] = stack[th][i] /\ i < Depth(th) /\ i \in 1..Depth(th)
      /\ \A x \in Thread : x # th => Depth(x)' = Depth(x) /\ Depth(x) \in Nat
      /\ \A x \in Thread : x # th => stack'[x] = stack[x]
  BY <1>t, StackType DEF Popped, Depth
<1>a. ASSUME NEW x \in Thread
      PROVE  Depth(x)' <= Depth(x) /\ Depth(x) \in Nat /\ Depth(x)' \in Nat
             /\ \A i \in 1..Depth(x)' : i \in 1..Depth(x) /\ stack'[x][i] = stack[x][i]
  BY <1>d
<1>1. TypeOK'
  BY <1>t DEF TypeOK, OthersSame, Popped
<1>2. FramesInv'
  <2> SUFFICES ASSUME NEW x \in Thread, NEW i \in 1..Depth(x)'
               PROVE  /\ FrameOK(x, stack[x][i])'
                      /\ i < Depth(x)' => BelowOK(stack[x][i])'
    BY DEF FramesInv
  <2>1. FrameOK(x, stack[x][i]) /\ (i < Depth(x)' => BelowOK(stack[x][i]))
    BY <1>a DEF IInv, FramesInv
  <2> QED
    BY <2>1, <1>a DEF FrameOK, BelowOK, OthersSame
<1>3. PairInv'
  <2> SUFFICES ASSUME NEW x \in Thread
               PROVE  /\ \A i \in 1..Depth(x)' : stack'[x][i].in = "replay" =>
                            /\ i > 1 /\ stack'[x][i - 1].in = "subscribe"
                            /\ stack'[x][i - 1].ctx = stack'[x][i].ctx
                      /\ \A i, j \in 1..Depth(x)' :
                            stack'[x][i].in = "subscribe" /\ stack'[x][j].in = "subscribe"
                                /\ stack'[x][i].topic = stack'[x][j].topic => i = j
    BY DEF PairInv
  <2>1. \A i \in 1..Depth(x)' : i > 1 => i - 1 \in 1..Depth(x)'
    BY <1>a
  <2> QED
    BY <2>1, <1>a DEF IInv, PairInv
<1>4. LeaveInv'
  <2> SUFFICES ASSUME NEW x \in Thread, Depth(x)' > 0, stack'[x][Depth(x)'].in = "unsubscribe"
               PROVE  LeaveOK(x, stack[x][Depth(x)])'
    BY DEF LeaveInv
  <2>1. x # th
    <3> SUFFICES ASSUME x = th PROVE FALSE
      OBVIOUS
    <3>1. Depth(th)' \in 1..Depth(th) /\ Depth(th)' < Depth(th)
          /\ stack'[th][Depth(th)'] = stack[th][Depth(th)']
      BY <1>d
    <3> QED
      BY <3>1 DEF IInv, FramesInv, BelowOK
  <2>2. Depth(x)' = Depth(x) /\ stack'[x] = stack[x] /\ LeaveOK(x, stack[x][Depth(x)])
    BY <2>1, <1>d DEF IInv, LeaveInv
  <2>3. "rx" \in Thread
    BY DEF Thread
  <2> QED
    BY <2>2, <2>3, <1>a DEF LeaveOK, OthersSame
<1>5. EntryInv'
  BY DEF IInv, EntryInv, OthersSame
<1> QED
  BY <1>1, <1>2, <1>3, <1>4, <1>5 DEF IInv

(* A call or callback that goes on keeps it.                               *)
LEMMA ReplaceInv ==
  ASSUME IInv, NEW th \in Thread, NEW f \in Frame, Replaced(th, f), OthersSame,
         FrameOK(th, f), f.in = "unsubscribe" => LeaveOK(th, f),
         f.in = Top(th).in, f.topic = Top(th).topic, f.ctx = Top(th).ctx
  PROVE  IInv'
<1>t. TypeOK
  BY DEF IInv
<1>d. /\ Depth(th) \in Nat /\ Depth(th) > 0
      /\ \A x \in Thread : Depth(x)' = Depth(x) /\ Depth(x) \in Nat
      /\ \A x \in Thread : x # th => stack'[x] = stack[x]
      /\ \A i \in 1..Depth(th) : i < Depth(th) => stack'[th][i] = stack[th][i]
      /\ stack'[th][Depth(th)] = f /\ Top(th) = stack[th][Depth(th)]
  BY <1>t, StackType DEF Replaced, Depth
<1>a. \A x \in Thread : \A i \in 1..Depth(x) :
         /\ stack'[x][i].in = stack[x][i].in /\ stack'[x][i].topic = stack[x][i].topic
         /\ stack'[x][i].ctx = stack[x][i].ctx
  BY <1>d
<1>1. TypeOK'
  BY <1>t DEF TypeOK, OthersSame, Replaced
<1>2. FramesInv'
  <2> SUFFICES ASSUME NEW x \in Thread, NEW i \in 1..Depth(x)
               PROVE  /\ FrameOK(x, stack[x][i])'
                      /\ i < Depth(x) => BelowOK(stack[x][i])'
    BY <1>d DEF FramesInv
  <2>1. CASE x = th /\ i = Depth(th)
    BY <2>1, <1>d DEF FrameOK, OthersSame
  <2>2. CASE ~(x = th /\ i = Depth(th))
    <3>1. stack'[x][i] = stack[x][i]
      BY <2>2, <1>d
    <3>2. FrameOK(x, stack[x][i]) /\ (i < Depth(x) => BelowOK(stack[x][i]))
      BY DEF IInv, FramesInv
    <3> QED
      BY <3>1, <3>2 DEF FrameOK, BelowOK, OthersSame
  <2> QED
    BY <2>1, <2>2
<1>3. PairInv'
  <2> SUFFICES ASSUME NEW x \in Thread
               PROVE  /\ \A i \in 1..Depth(x) : stack'[x][i].in = "replay" =>
                            /\ i > 1 /\ stack'[x][i - 1].in = "subscribe"
                            /\ stack'[x][i - 1].ctx = stack'[x][i].ctx
                      /\ \A i, j \in 1..Depth(x) :
                            stack'[x][i].in = "subscribe" /\ stack'[x][j].in = "subscribe"
                                /\ stack'[x][i].topic = stack'[x][j].topic => i = j
    BY <1>d DEF PairInv
  <2>1. \A i \in 1..Depth(x) : i > 1 => i - 1 \in 1..Depth(x)
    BY <1>d
  <2> QED
    BY <2>1, <1>a DEF IInv, PairInv
<1>4. LeaveInv'
  <2> SUFFICES ASSUME NEW x \in Thread, Depth(x) > 0, stack'[x][Depth(x)].in = "unsubscribe"
               PROVE  LeaveOK(x, stack[x][Depth(x)])'
    BY <1>d DEF LeaveInv
  <2> DEFINE g == stack'[x][Depth(x)]
  <2>1. LeaveOK(x, g)
    <3>1. CASE x = th
      BY <3>1, <1>d
    <3>2. CASE x # th
      <4>1. g = stack[x][Depth(x)]
        BY <3>2, <1>d
      <4> QED
        BY <4>1 DEF IInv, LeaveInv
    <3> QED
      BY <3>1, <3>2
  <2>2. "rx" \in Thread
    BY DEF Thread
  <2> HIDE DEF g
  <2>3. /\ \A i \in 1..Depth(x)' :
              i < Depth(x)' /\ stack'[x][i].in \in Callback \cup {"subscribe"} =>
                  stack'[x][i].topic # g.topic
        /\ g.at \in {"waiting", "erase"} => declared'[g.topic] = NoContext
        /\ g.at = "erase" =>
              \A i \in 1..Depth("rx")' :
                  stack'["rx"][i].in \in {"live", "local"} => stack'["rx"][i].topic # g.topic
    BY <2>1, <2>2, <1>a, <1>d DEF LeaveOK, OthersSame
  <2>4. Depth(x)' = Depth(x)
    BY <1>d
  <2> QED
    BY <2>3, <2>4 DEF LeaveOK, g
<1>5. EntryInv'
  BY DEF IInv, EntryInv, OthersSame
<1> QED
  BY <1>1, <1>2, <1>3, <1>4, <1>5 DEF IInv

-----------------------------------------------------------------------------
(* The operations.                                                         *)

(* The two threads.                                                        *)
LEMMA ThreadPlaces == "api" \in Thread /\ "rx" \in Thread /\ \A th \in Thread : th \in {"api", "rx"}
BY DEF Thread

(* What MayCall() and Tolerated() say of the thread that makes a call.     *)
LEMMA CallLemma ==
  ASSUME IInv, NEW th \in Thread, NEW in, NEW t \in Topic, Call(th, in, t)
  PROVE  /\ stack[th] # <<>> => BelowOK(Top(th))
         /\ calls' \in 0..MaxCalls
         /\ Tolerated(th, in, t)
         /\ in \in {"subscribe", "unsubscribe"} => th = "api"
<1>1. TypeOK
  BY DEF IInv
<1>2. stack[th] # <<>> => BelowOK(Top(th))
  <2> SUFFICES ASSUME stack[th] # <<>> PROVE BelowOK(Top(th))
    OBVIOUS
  <2>1. Top(th).in \in Callback
    BY DEF Call, MayCall, Is
  <2> QED
    BY <2>1 DEF BelowOK, Callback
<1>3. calls' \in 0..MaxCalls
  BY <1>1, BoundAssumption DEF Call, TypeOK
<1>4. Tolerated(th, in, t)
  BY DEF Call
<1>5. in \in {"subscribe", "unsubscribe"} => th = "api"
  BY <1>4 DEF Tolerated
<1> QED
  BY <1>2, <1>3, <1>4, <1>5

(* A context of the map or of zenoh, or none, is one.                      *)
LEMMA ContextType ==
  ASSUME TypeOK, NEW t \in Topic
  PROVE  /\ entry[t] \in 0..MaxContexts /\ declared[t] \in 0..MaxContexts
         /\ declared[t] \in {NoContext, entry[t]} /\ NoContext \in 0..MaxContexts
<1>1. made \in 0..MaxContexts /\ entry[t] \in 0..made /\ declared[t] \in 0..made
      /\ declared[t] \in {NoContext, entry[t]}
  BY DEF TypeOK
<1> QED
  BY <1>1, BoundAssumption DEF NoContext

(* What is known of the innermost call of a thread.                        *)
LEMMA TopLemma ==
  ASSUME IInv, NEW th \in Thread, stack[th] # <<>>
  PROVE  /\ TypeOK /\ Depth(th) \in Nat /\ Depth(th) > 0
         /\ Top(th) = stack[th][Depth(th)] /\ Top(th) \in Frame
         /\ Top(th).topic \in Topic /\ Top(th).ctx \in 0..MaxContexts
         /\ FrameOK(th, Top(th))
         /\ Top(th).in = "unsubscribe" => LeaveOK(th, Top(th))
<1>1. TypeOK
  BY DEF IInv
<1>2. /\ Depth(th) \in Nat /\ Depth(th) > 0
      /\ Top(th) = stack[th][Depth(th)] /\ Top(th) \in Frame
  BY <1>1, StackType
<1>3. Top(th).topic \in Topic /\ Top(th).ctx \in 0..MaxContexts
  BY <1>2 DEF Frame
<1>4. FrameOK(th, Top(th))
  BY <1>2 DEF IInv, FramesInv
<1>5. Top(th).in = "unsubscribe" => LeaveOK(th, Top(th))
  BY <1>2 DEF IInv, LeaveInv
<1> QED
  BY <1>1, <1>2, <1>3, <1>4, <1>5

(* A topic with a context in anyone's hand is busy.                        *)
LEMMA BusyLemma ==
  ASSUME TypeOK, NEW th \in Thread, NEW i \in 1..Depth(th),
         stack[th][i].in \in Callback \cup {"subscribe"}
  PROVE  stack[th][i].topic \in Busy(th)
<1>1. stack[th][i] \in Frames(th)
  BY FramesAreStack
<1> QED
  BY <1>1 DEF Busy

(* No call is under way in the beginning.                                  *)
LEMMA InvInit == Init => IInv
<1> SUFFICES ASSUME Init PROVE IInv
  OBVIOUS
<1>1. \A th \in Thread : Depth(th) = 0
  BY DEF Init, Depth
<1>2. TypeOK
  BY BoundAssumption DEF Init, TypeOK, NoContext
<1>3. FramesInv /\ PairInv /\ LeaveInv
  BY <1>1 DEF FramesInv, PairInv, LeaveInv
<1>4. EntryInv
  BY DEF Init, EntryInv
<1> QED
  BY <1>2, <1>3, <1>4 DEF IInv

(* subscribe() refuses a topic that is in the map.                         *)
LEMMA SubscribeInv ==
  ASSUME IInv, NEW th \in Thread, NEW t \in Topic, Subscribe(th, t)
  PROVE  IInv'
<1> DEFINE f == Enter("subscribe", t, NoContext, "emplace")
<1>1. TypeOK
  BY DEF IInv
<1>2. /\ f \in Frame /\ f.in = "subscribe" /\ f.topic = t
      /\ f.ctx = NoContext /\ f.at = "emplace"
  BY <1>1, ContextType, BoundAssumption DEF Enter, Frame
<1>3. Call(th, "subscribe", t) /\ entry[t] = NoContext /\ made < MaxContexts /\ Push(th, f)
      /\ UNCHANGED <<entry, declared, once, made>>
  BY DEF Subscribe
<1> HIDE DEF f
<1>4. /\ stack[th] # <<>> => BelowOK(Top(th))
      /\ calls' \in 0..MaxCalls /\ th = "api"
  BY <1>3, CallLemma
<1>5. NoContext \notin once
  BY <1>1 DEF TypeOK, NoContext
<1>6. FrameOK(th, f)
  BY <1>2, <1>3, <1>4, <1>5 DEF FrameOK, Place, Callback
<1>7. MayPush(th, f)
  BY <1>2, <1>4, <1>6 DEF MayPush
<1> QED
  BY <1>1, <1>2, <1>3, <1>4, <1>7, PushLemma, PushInv DEF OthersSame

(* unsubscribe() is not called in a callback of the topic.                 *)
LEMMA UnsubscribeInv ==
  ASSUME IInv, NEW th \in Thread, NEW t \in Topic, Unsubscribe(th, t)
  PROVE  IInv'
<1> DEFINE f == Enter("unsubscribe", t, entry[t], "undeclare")
<1>1. TypeOK /\ entry[t] \in 0..MaxContexts
  BY ContextType DEF IInv
<1>2. /\ f \in Frame /\ f.in = "unsubscribe" /\ f.topic = t
      /\ f.ctx = entry[t] /\ f.at = "undeclare"
  BY <1>1, BoundAssumption DEF Enter, Frame
<1>3. Call(th, "unsubscribe", t) /\ entry[t] # NoContext /\ Push(th, f)
      /\ UNCHANGED <<entry, declared, once, made>>
  BY DEF Unsubscribe
<1> HIDE DEF f
<1>4. /\ stack[th] # <<>> => BelowOK(Top(th))
      /\ calls' \in 0..MaxCalls /\ th = "api" /\ t \notin Busy(th)
  BY <1>3, CallLemma DEF Tolerated
<1>5. \A i \in 1..Depth(th) :
         stack[th][i].in \in Callback \cup {"subscribe"} => stack[th][i].topic # t
  BY <1>1, <1>4, BusyLemma
<1>6. FrameOK(th, f)
  BY <1>2, <1>3, <1>4 DEF FrameOK, Place, Callback
<1>7. MayPush(th, f)
  BY <1>2, <1>4, <1>5, <1>6 DEF MayPush
<1> QED
  BY <1>1, <1>2, <1>3, <1>4, <1>7, PushLemma, PushInv DEF OthersSame

(* get() holds no context.                                                 *)
LEMMA GetInv ==
  ASSUME IInv, NEW th \in Thread, NEW t \in Topic, Get(th, t)
  PROVE  IInv'
<1> DEFINE f == Enter("get", t, NoContext, "waiting")
<1>1. TypeOK
  BY DEF IInv
<1>2. f \in Frame /\ f.in = "get" /\ f.topic = t /\ f.ctx = NoContext
  BY <1>1, ContextType, BoundAssumption DEF Enter, Frame
<1>3. Call(th, "get", t) /\ Push(th, f) /\ UNCHANGED <<entry, declared, once, made>>
  BY DEF Get
<1> HIDE DEF f
<1>4. (stack[th] # <<>> => BelowOK(Top(th))) /\ calls' \in 0..MaxCalls
  BY <1>3, CallLemma
<1>5. MayPush(th, f)
  BY <1>2, <1>4 DEF MayPush, FrameOK, Place, Callback
<1> QED
  BY <1>1, <1>2, <1>3, <1>4, <1>5, PushLemma, PushInv DEF OthersSame

(* Neither does publish().                                                 *)
LEMMA PublishInv ==
  ASSUME IInv, NEW th \in Thread, NEW t \in Topic, Publish(th, t)
  PROVE  IInv'
<1> DEFINE f == Enter("publish", t, NoContext, "put")
<1>1. TypeOK
  BY DEF IInv
<1>2. f \in Frame /\ f.in = "publish" /\ f.topic = t /\ f.ctx = NoContext
  BY <1>1, ContextType, BoundAssumption DEF Enter, Frame
<1>3. Call(th, "publish", t) /\ Push(th, f) /\ UNCHANGED <<entry, declared, once, made>>
  BY DEF Publish
<1> HIDE DEF f
<1>4. (stack[th] # <<>> => BelowOK(Top(th))) /\ calls' \in 0..MaxCalls
  BY <1>3, CallLemma
<1>5. MayPush(th, f)
  BY <1>2, <1>4 DEF MayPush, FrameOK, Place, Callback
<1> QED
  BY <1>1, <1>2, <1>3, <1>4, <1>5, PushLemma, PushInv DEF OthersSame

(* zenoh calls back with the context that is in the map.                   *)
LEMMA SampleInv ==
  ASSUME IInv, NEW t \in Topic, Sample(t)
  PROVE  IInv'
<1> DEFINE f == Enter("live", t, declared[t], "entered")
<1>1. TypeOK /\ declared[t] \in 0..MaxContexts /\ declared[t] \in {NoContext, entry[t]}
  BY ContextType DEF IInv
<1>2. /\ f \in Frame /\ f.in = "live" /\ f.topic = t
      /\ f.ctx = declared[t] /\ f.at = "entered"
  BY <1>1, BoundAssumption DEF Enter, Frame, Callback
<1>3. /\ stack["rx"] = <<>> /\ declared[t] # NoContext /\ Push("rx", f)
      /\ UNCHANGED <<entry, declared, once, made>> /\ calls < MaxCalls /\ calls' = calls + 1
  BY DEF Sample
<1> HIDE DEF f
<1>4. calls' \in 0..MaxCalls
  BY <1>1, <1>3, BoundAssumption DEF TypeOK
<1>5. FrameOK("rx", f)
  BY <1>1, <1>2, <1>3 DEF FrameOK, Place, Callback
<1>6. MayPush("rx", f)
  BY <1>2, <1>3, <1>5 DEF MayPush
<1> QED
  BY <1>1, <1>2, <1>3, <1>4, <1>6, ThreadPlaces, PushLemma, PushInv DEF OthersSame

(* The calls that just return.                                             *)
LEMMA ReturnsInv ==
  ASSUME IInv, NEW th \in Thread,
         GetReturns(th) \/ PublishReturns(th) \/ CallbackReturns(th)
  PROVE  IInv'
<1>1. /\ stack[th] # <<>> /\ Pop(th) /\ UNCHANGED <<entry, declared, once, made, calls>>
  BY DEF GetReturns, PublishReturns, CallbackReturns, Is
<1>2. OthersSame
  BY <1>1 DEF OthersSame, IInv, TypeOK
<1> QED
  BY <1>1, <1>2, PopLemma, PopInv DEF IInv

(* GoTo() replaces the innermost call by itself, elsewhere.                *)
LEMMA GoToLemma ==
  ASSUME TypeOK, NEW th \in Thread, stack[th] # <<>>, NEW at,
         [Top(th) EXCEPT !.at = at] \in Frame, GoTo(th, at)
  PROVE  Replaced(th, [Top(th) EXCEPT !.at = at])
<1>1. /\ stack \in [Thread -> Seq(Frame)] /\ stack[th] \in Seq(Frame)
      /\ Depth(th) \in 1..Len(stack[th]) /\ Top(th) = stack[th][Depth(th)]
  BY StackType
<1>2. stack' = [stack EXCEPT ![th] = [stack[th] EXCEPT ![Depth(th)] = [Top(th) EXCEPT !.at = at]]]
  BY <1>1 DEF GoTo, Depth
<1> QED
  BY <1>2, ReplaceLemma

(* subscribe() goes on to its loop.                                        *)
LEMMA SubscribeGotInv ==
  ASSUME IInv, NEW th \in Thread, SubscribeGot(th)
  PROVE  IInv'
<1>1. stack[th] # <<>> /\ Top(th).in = "subscribe" /\ Top(th).at = "get"
  BY DEF SubscribeGot, Is
<1>2. /\ TypeOK /\ Top(th) \in Frame /\ FrameOK(th, Top(th)) /\ Top(th) = stack[th][Depth(th)]
  BY <1>1, TopLemma
<1>3. PICK n \in 0..MaxReplay :
         stack' = [stack EXCEPT ![th][Len(stack[th])] = [Top(th) EXCEPT !.at = "loop", !.left = n]]
  BY DEF SubscribeGot
<1> DEFINE f == [Top(th) EXCEPT !.at = "loop", !.left = n]
<1>4. /\ f \in Frame /\ f.in = "subscribe" /\ f.topic = Top(th).topic
      /\ f.ctx = Top(th).ctx /\ f.at = "loop"
  BY <1>1, <1>2 DEF Frame
<1> HIDE DEF f
<1>5. stack' = [stack EXCEPT ![th] = [stack[th] EXCEPT ![Depth(th)] = f]]
  BY <1>2, <1>3 DEF f, Depth, TypeOK
<1>6. Replaced(th, f)
  BY <1>1, <1>2, <1>4, <1>5, ReplaceLemma
<1>7. FrameOK(th, f)
  BY <1>1, <1>2, <1>4 DEF FrameOK
<1>8. OthersSame
  BY <1>2 DEF SubscribeGot, OthersSame, TypeOK
<1> QED
  BY <1>1, <1>4, <1>6, <1>7, <1>8, ReplaceInv

(* The callback of a stored value is given the context of the loop.        *)
LEMMA ReplayInv ==
  ASSUME IInv, NEW th \in Thread, Replay(th)
  PROVE  IInv'
<1>1. stack[th] # <<>> /\ Top(th).in = "subscribe" /\ Top(th).at = "loop" /\ Top(th).left > 0
  BY DEF Replay, Is
<1>2. /\ TypeOK /\ Top(th) \in Frame /\ FrameOK(th, Top(th)) /\ Top(th) = stack[th][Depth(th)]
  BY <1>1, TopLemma
<1> DEFINE f == Enter("replay", Top(th).topic, Top(th).ctx, "running")
           g == [Top(th) EXCEPT !.left = Top(th).left - 1]
<1>3. /\ f \in Frame /\ f.in = "replay" /\ f.topic = Top(th).topic
      /\ f.ctx = Top(th).ctx /\ f.at = "running"
  BY <1>2, BoundAssumption DEF Frame, Enter, Callback
<1>4. g \in Frame /\ Alike(Top(th), g)
  BY <1>1, <1>2, BoundAssumption DEF Frame, Alike
<1>5. stack' = [stack EXCEPT ![th] = Append([stack[th] EXCEPT ![Depth(th)] = g], f)]
  BY <1>2 DEF Replay, Depth, TypeOK
<1> HIDE DEF f, g
<1>6. Pushed(th, f)
  BY <1>1, <1>2, <1>3, <1>4, <1>5, ReplacePushLemma
<1>7. FrameOK(th, f)
  BY <1>1, <1>2, <1>3 DEF FrameOK, Place, Callback
<1>8. MayPush(th, f)
  BY <1>1, <1>3, <1>7 DEF MayPush, BelowOK
<1>9. OthersSame
  BY <1>2 DEF Replay, OthersSame, TypeOK
<1> QED
  BY <1>6, <1>8, <1>9, PushInv

(* Once unsubscribe() has waited, the RX thread is in no callback of       *)
(* the topic.                                                              *)
LEMMA UndeclareReturnsInv ==
  ASSUME IInv, NEW th \in Thread, UndeclareReturns(th)
  PROVE  IInv'
<1>1. stack[th] # <<>> /\ Top(th).in = "unsubscribe" /\ Top(th).at = "waiting" /\ GoTo(th, "erase")
  BY DEF UndeclareReturns, Is
<1>2. /\ TypeOK /\ Top(th) \in Frame /\ FrameOK(th, Top(th)) /\ LeaveOK(th, Top(th))
  BY <1>1, TopLemma
<1> DEFINE f == [Top(th) EXCEPT !.at = "erase"]
<1>3. /\ f \in Frame /\ f.in = "unsubscribe" /\ f.topic = Top(th).topic
      /\ f.ctx = Top(th).ctx /\ f.at = "erase"
  BY <1>1, <1>2 DEF Frame
<1>4. Replaced(th, f)
  BY <1>1, <1>2, <1>3, GoToLemma
<1> HIDE DEF f
<1>5. FrameOK(th, f)
  BY <1>1, <1>2, <1>3 DEF FrameOK, Callback
<1>6. ASSUME NEW i \in 1..Depth("rx"), stack["rx"][i].in \in {"live", "local"}
      PROVE  stack["rx"][i].topic # f.topic
  <2>1. stack["rx"][i] \in Frames("rx") /\ FrameOK("rx", stack["rx"][i])
    BY <1>2, FramesAreStack, ThreadPlaces DEF IInv, FramesInv
  <2>2. stack["rx"][i].ctx # Top(th).ctx
    BY <1>6, <2>1, ThreadPlaces DEF UndeclareReturns
  <2>3. entry[stack["rx"][i].topic] = stack["rx"][i].ctx
    BY <1>6, <2>1 DEF FrameOK, Callback
  <2>4. entry[Top(th).topic] = Top(th).ctx
    BY <1>1, <1>2 DEF FrameOK
  <2> QED
    BY <2>2, <2>3, <2>4, <1>3
<1>7. LeaveOK(th, f)
  BY <1>1, <1>2, <1>3, <1>6 DEF LeaveOK
<1>8. OthersSame
  BY <1>2 DEF UndeclareReturns, OthersSame, TypeOK
<1> QED
  BY <1>1, <1>3, <1>4, <1>5, <1>7, <1>8, ReplaceInv

(* A local callback is given the context that is in the map.               *)
LEMMA PutInv ==
  ASSUME IInv, NEW th \in Thread, Put(th)
  PROVE  IInv'
<1>1. stack[th] # <<>> /\ Top(th).in = "publish" /\ Top(th).at = "put"
  BY DEF Put, Is
<1>2. /\ TypeOK /\ Top(th) \in Frame /\ FrameOK(th, Top(th)) /\ Top(th) = stack[th][Depth(th)]
      /\ Top(th).topic \in Topic
  BY <1>1, TopLemma
<1> DEFINE t == Top(th).topic
           g == [Top(th) EXCEPT !.at = "done"]
           f == Enter("local", t, declared[t], "entered")
<1>3. /\ g \in Frame /\ g.in = "publish" /\ g.topic = t /\ g.ctx = Top(th).ctx /\ g.at = "done"
      /\ Alike(Top(th), g)
  BY <1>1, <1>2 DEF Frame, Alike
<1>4. [stack[th] EXCEPT ![Len(stack[th])].at = "done"] = [stack[th] EXCEPT ![Depth(th)] = g]
  BY <1>2 DEF Depth
<1>5. OthersSame
  BY <1>2 DEF Put, OthersSame, TypeOK
<1>6. CASE declared[t] = NoContext
  <2>1. stack' = [stack EXCEPT ![th] = [stack[th] EXCEPT ![Depth(th)] = g]]
    BY <1>4, <1>6 DEF Put
  <2>2. Replaced(th, g)
    BY <1>1, <1>2, <1>3, <2>1, ReplaceLemma
  <2>3. FrameOK(th, g)
    BY <1>1, <1>2, <1>3 DEF FrameOK, Callback
  <2> QED
    BY <1>1, <1>3, <1>5, <2>2, <2>3, ReplaceInv
<1>7. CASE declared[t] # NoContext
  <2>1. stack' = [stack EXCEPT ![th] = Append([stack[th] EXCEPT ![Depth(th)] = g], f)]
    BY <1>4, <1>7 DEF Put
  <2>2. /\ declared[t] \in 0..MaxContexts /\ declared[t] = entry[t]
    BY <1>2, <1>7, ContextType
  <2>3. f \in Frame /\ f.in = "local" /\ f.topic = t /\ f.ctx = declared[t] /\ f.at = "entered"
    BY <1>2, <2>2, BoundAssumption DEF Frame, Enter, Callback
  <2> HIDE DEF f, g, t
  <2>4. Pushed(th, f)
    BY <1>1, <1>2, <1>3, <2>1, <2>3, ReplacePushLemma
  <2>5. FrameOK(th, f)
    BY <1>7, <2>2, <2>3 DEF FrameOK, Place, Callback
  <2>6. MayPush(th, f)
    BY <1>1, <1>7, <2>3, <2>5 DEF MayPush, BelowOK
  <2> QED
    BY <1>5, <2>4, <2>6, PushInv
<1> QED
  BY <1>6, <1>7

(* A callback runs only when _once is true.                                *)
LEMMA LibSubscribeCallbackInv ==
  ASSUME IInv, NEW th \in Thread, LibSubscribeCallback(th)
  PROVE  IInv'
<1>1. stack[th] # <<>> /\ Top(th).in \in {"live", "local"} /\ Top(th).at = "entered"
  BY DEF LibSubscribeCallback, Is
<1>2. TypeOK /\ Top(th) \in Frame /\ FrameOK(th, Top(th))
  BY <1>1, TopLemma
<1>3. OthersSame
  BY <1>2 DEF LibSubscribeCallback, OthersSame, TypeOK
<1>4. CASE Top(th).ctx \in once
  <2> DEFINE f == [Top(th) EXCEPT !.at = "running"]
  <2>1. /\ f \in Frame /\ f.in = Top(th).in /\ f.topic = Top(th).topic
        /\ f.ctx = Top(th).ctx /\ f.at = "running"
    BY <1>2 DEF Frame
  <2>2. Replaced(th, f)
    BY <1>1, <1>2, <1>4, <2>1, GoToLemma DEF LibSubscribeCallback
  <2> HIDE DEF f
  <2>3. FrameOK(th, f)
    BY <1>1, <1>2, <1>4, <2>1 DEF FrameOK, Callback
  <2> QED
    BY <1>1, <1>3, <2>1, <2>2, <2>3, ReplaceInv
<1>5. CASE Top(th).ctx \notin once
  BY <1>1, <1>2, <1>3, <1>5, PopLemma, PopInv DEF LibSubscribeCallback
<1> QED
  BY <1>4, <1>5

(* The context that subscribe() makes is nobody else's.                    *)
LEMMA EmplaceInv ==
  ASSUME IInv, NEW th \in Thread, Emplace(th)
  PROVE  IInv'
<1>1. stack[th] # <<>> /\ Top(th).in = "subscribe" /\ Top(th).at = "emplace"
  BY DEF Emplace, Is
<1>2. /\ TypeOK /\ Top(th) \in Frame /\ FrameOK(th, Top(th)) /\ Top(th) = stack[th][Depth(th)]
      /\ Top(th).topic \in Topic /\ Depth(th) \in Nat /\ Depth(th) > 0
  BY <1>1, TopLemma
<1>3. CASE Pop(th) /\ UNCHANGED <<entry, declared, made>>
  <2>1. OthersSame
    BY <1>2, <1>3 DEF Emplace, OthersSame, TypeOK
  <2> QED
    BY <1>1, <1>2, <1>3, <2>1, PopLemma, PopInv
<1>4. CASE /\ made' = made + 1
           /\ entry' = [entry EXCEPT ![Top(th).topic] = made + 1]
           /\ declared' = [declared EXCEPT ![Top(th).topic] = made + 1]
           /\ stack' = [stack EXCEPT ![th][Len(stack[th])] =
                           Enter("subscribe", Top(th).topic, made + 1, "get")]
  <2> DEFINE t == Top(th).topic
             c == made + 1
             f == Enter("subscribe", t, c, "get")
  <2>1. /\ made \in 0..MaxContexts /\ made < MaxContexts /\ entry[t] = NoContext
        /\ c \in 1..MaxContexts /\ th = "api"
    BY <1>1, <1>2, BoundAssumption, ThreadPlaces DEF TypeOK, FrameOK, Place, Callback
  <2>2. f \in Frame /\ f.in = "subscribe" /\ f.topic = t /\ f.ctx = c /\ f.at = "get"
    BY <1>2, <2>1, BoundAssumption DEF Frame, Enter
  <2>3. stack' = [stack EXCEPT ![th] = [stack[th] EXCEPT ![Depth(th)] = f]]
    BY <1>2, <1>4 DEF Depth, TypeOK
  <2> HIDE DEF f, t
  <2>4. Replaced(th, f)
    BY <1>1, <1>2, <2>2, <2>3, ReplaceLemma
  <2>5. /\ \A x \in Thread : Depth(x)' = Depth(x) /\ Depth(x) \in Nat
        /\ \A x \in Thread : \A i \in 1..Depth(x) :
              ~(x = th /\ i = Depth(th)) => stack'[x][i] = stack[x][i]
        /\ stack'[th][Depth(th)] = f
    <3>1. \A x \in Thread : Depth(x)' = Depth(x) /\ Depth(x) \in Nat
      BY <1>2, <2>4, StackType DEF Replaced, Depth
    <3>2. \A x \in Thread : \A i \in 1..Depth(x) :
             ~(x = th /\ i = Depth(th)) => stack'[x][i] = stack[x][i]
      BY <2>4, <3>1 DEF Replaced
    <3> QED
      BY <2>4, <3>1, <3>2 DEF Replaced
  <2>6. /\ made' = c /\ once' = once /\ calls' = calls /\ t \in Topic
        /\ entry' = [entry EXCEPT ![t] = c] /\ declared' = [declared EXCEPT ![t] = c]
    BY <1>2, <1>4 DEF Emplace, t
  <2>7. TypeOK'
    <3>1. /\ entry \in [Topic -> 0..made] /\ declared \in [Topic -> 0..made]
          /\ \A u \in Topic : declared[u] \in {NoContext, entry[u]}
          /\ once \subseteq 1..made /\ calls \in 0..MaxCalls
      BY <1>2 DEF TypeOK
    <3>2. entry' \in [Topic -> 0..c] /\ declared' \in [Topic -> 0..c] /\ once \subseteq 1..c
      BY <2>1, <2>6, <3>1
    <3>3. \A u \in Topic : declared'[u] \in {NoContext, entry'[u]}
      BY <2>6, <3>1
    <3> QED
      BY <2>1, <2>4, <2>6, <3>1, <3>2, <3>3 DEF TypeOK, Replaced
  <2>8. FramesInv'
    <3> SUFFICES ASSUME NEW x \in Thread, NEW i \in 1..Depth(x)
                 PROVE  /\ FrameOK(x, stack[x][i])'
                        /\ i < Depth(x) => BelowOK(stack[x][i])'
      BY <2>5 DEF FramesInv
    <3>1. CASE x = th /\ i = Depth(th)
      <4>1. c \notin once
        BY <1>2, <2>1 DEF TypeOK
      <4>2. entry'[t] = c /\ c # NoContext
        BY <1>2, <2>1, <2>6 DEF TypeOK, NoContext
      <4> QED
        BY <2>2, <2>1, <2>5, <2>6, <3>1, <4>1, <4>2 DEF FrameOK, Place, Callback
    <3>2. CASE ~(x = th /\ i = Depth(th))
      <4> DEFINE g == stack[x][i]
      <4>1. FrameOK(x, g) /\ (i < Depth(x) => BelowOK(g)) /\ stack'[x][i] = g
        BY <2>5, <3>2 DEF IInv, FramesInv
      <4>2. g \in Frame
        BY <1>2, StackType
      <4> HIDE DEF g
      <4>3. ~(g.in = "subscribe" /\ g.at = "emplace")
        <5>1. CASE x = th
          BY <2>5, <3>2, <4>1, <5>1 DEF BelowOK
        <5>2. CASE x # th
          BY <2>1, <4>1, <5>2, ThreadPlaces DEF FrameOK, Place
        <5> QED
          BY <5>1, <5>2
      <4>4. g.ctx # NoContext => entry'[g.topic] = g.ctx
        BY <1>2, <2>1, <2>6, <4>1, <4>2 DEF FrameOK, TypeOK, Frame
      <4> QED
        BY <2>6, <4>1, <4>3, <4>4 DEF FrameOK, BelowOK
    <3> QED
      BY <3>1, <3>2
  <2>9. PairInv'
    <3>1. \A x \in Thread : \A i \in 1..Depth(x) :
             stack'[x][i].in = stack[x][i].in /\ stack'[x][i].topic = stack[x][i].topic
      BY <1>1, <1>2, <2>2, <2>5 DEF t
    <3>2. \A x \in Thread : \A i, j \in 1..Depth(x) :
             stack'[x][i].in = "subscribe" /\ stack'[x][j].in = "subscribe"
                 /\ stack'[x][i].topic = stack'[x][j].topic => i = j
      BY <3>1 DEF IInv, PairInv
    <3>3. ASSUME NEW x \in Thread, NEW i \in 1..Depth(x), stack'[x][i].in = "replay"
          PROVE  /\ i > 1 /\ stack'[x][i - 1].in = "subscribe"
                 /\ stack'[x][i - 1].ctx = stack'[x][i].ctx
      <4>1. /\ i > 1 /\ stack[x][i - 1].in = "subscribe" /\ stack[x][i - 1].ctx = stack[x][i].ctx
        BY <3>1, <3>3 DEF IInv, PairInv
      <4>2. i - 1 \in 1..Depth(x) /\ i - 1 < Depth(x)
        BY <2>5, <4>1
      <4>3. stack'[x][i - 1] = stack[x][i - 1]
        BY <2>5, <4>2
      <4>4. stack'[x][i] = stack[x][i]
        BY <2>2, <2>5, <3>3
      <4> QED
        BY <4>1, <4>3, <4>4
    <3> QED
      BY <2>5, <3>2, <3>3 DEF PairInv
  <2>10. LeaveInv'
    <3>1. ASSUME NEW x \in Thread, Depth(x) > 0, stack'[x][Depth(x)].in = "unsubscribe"
          PROVE  FALSE
      <4>1. CASE x = th
        BY <2>2, <2>5, <3>1, <4>1
      <4>2. CASE x # th
        <5>1. Depth(x) \in 1..Depth(x) /\ stack'[x][Depth(x)] = stack[x][Depth(x)]
          BY <2>5, <3>1, <4>2
        <5>2. FrameOK(x, stack[x][Depth(x)])
          BY <5>1 DEF IInv, FramesInv
        <5> QED
          BY <2>1, <3>1, <4>2, <5>1, <5>2, ThreadPlaces DEF FrameOK, Place
      <4> QED
        BY <4>1, <4>2
    <3> QED
      BY <2>5, <3>1 DEF LeaveInv
  <2>11. EntryInv'
    BY <1>2, <2>1, <2>6 DEF IInv, EntryInv, TypeOK
  <2> QED
    BY <2>7, <2>8, <2>9, <2>10, <2>11 DEF IInv
<1> QED
  BY <1>3, <1>4 DEF Emplace

(* Once its loop is done, no other call of subscribe() and no replay holds *)
(* the context.                                                            *)
LEMMA SetOnceInv ==
  ASSUME IInv, NEW th \in Thread, SetOnce(th)
  PROVE  IInv'
<1>1. stack[th] # <<>> /\ Top(th).in = "subscribe" /\ Top(th).at = "loop"
  BY DEF SetOnce, Is
<1> DEFINE c == Top(th).ctx
<1>2. /\ TypeOK /\ Top(th) \in Frame /\ FrameOK(th, Top(th)) /\ Top(th) = stack[th][Depth(th)]
      /\ Top(th).topic \in Topic /\ Depth(th) \in Nat /\ Depth(th) > 0
      /\ th = "api" /\ c # NoContext /\ entry[Top(th).topic] = c
  BY <1>1, TopLemma, ThreadPlaces DEF FrameOK, Place, Callback
<1>3. Popped(th) /\ once' = once \cup {c} /\ UNCHANGED <<entry, declared, made, calls>>
  BY <1>1, <1>2, PopLemma DEF SetOnce
<1>d. /\ Depth(th)' = Depth(th) - 1
      /\ \A x \in Thread : /\ Depth(x) \in Nat /\ Depth(x)' \in Nat /\ Depth(x)' <= Depth(x)
                           /\ x # th => Depth(x)' = Depth(x)
      /\ \A x \in Thread : \A i \in 1..Depth(x)' : i \in 1..Depth(x) /\ stack'[x][i] = stack[x][i]
  BY <1>2, <1>3, StackType DEF Popped, Depth
<1>4. TypeOK'
  <2>1. c \in 1..made
    BY <1>2 DEF TypeOK, NoContext
  <2> QED
    BY <1>2, <1>3, <2>1 DEF TypeOK, Popped
<1>5. ASSUME NEW i \in 1..Depth(th), stack[th][i].in = "subscribe", stack[th][i].at = "loop",
             stack[th][i].ctx = c
      PROVE  i = Depth(th)
  <2>1. FrameOK(th, stack[th][i]) /\ stack[th][i] \in Frame
    BY <1>2, StackType DEF IInv, FramesInv
  <2>2. entry[stack[th][i].topic] = c /\ stack[th][i].topic \in Topic
    BY <1>2, <1>5, <2>1 DEF FrameOK, Frame
  <2>3. stack[th][i].topic = Top(th).topic
    BY <1>2, <2>2 DEF IInv, EntryInv
  <2>4. Depth(th) \in 1..Depth(th)
    BY <1>2
  <2> QED
    BY <1>1, <1>2, <1>5, <2>3, <2>4 DEF IInv, PairInv
<1>6. ASSUME NEW x \in Thread, NEW i \in 1..Depth(x)', stack[x][i].in \in {"replay", "subscribe"}
      PROVE  stack[x][i].ctx # c
  <2>1. x = th /\ i < Depth(th)
    BY <1>2, <1>6, <1>d, ThreadPlaces DEF IInv, FramesInv, FrameOK, Place
  <2>2. CASE stack[x][i].in = "subscribe"
    <3>1. stack[x][i].at = "loop"
      BY <1>d, <2>1, <2>2 DEF IInv, FramesInv, BelowOK
    <3> QED
      BY <1>5, <1>d, <2>1, <2>2, <3>1
  <2>3. CASE stack[x][i].in = "replay"
    <3>1. /\ i > 1 /\ stack[th][i - 1].in = "subscribe" /\ stack[th][i - 1].ctx = stack[th][i].ctx
      BY <1>d, <2>1, <2>3 DEF IInv, PairInv
    <3>2. i - 1 \in 1..Depth(th) /\ i - 1 < Depth(th)
      BY <1>d, <2>1, <3>1
    <3>3. stack[th][i - 1].at = "loop"
      BY <3>1, <3>2 DEF IInv, FramesInv, BelowOK
    <3> QED
      BY <1>5, <1>d, <2>1, <3>1, <3>2, <3>3
  <2> QED
    BY <1>6, <2>2, <2>3
<1> HIDE DEF c
<1>7. FramesInv'
  <2> SUFFICES ASSUME NEW x \in Thread, NEW i \in 1..Depth(x)'
               PROVE  /\ FrameOK(x, stack[x][i])'
                      /\ i < Depth(x)' => BelowOK(stack[x][i])'
    BY DEF FramesInv
  <2>1. /\ FrameOK(x, stack[x][i]) /\ (i < Depth(x)' => BelowOK(stack[x][i]))
        /\ stack'[x][i] = stack[x][i]
    BY <1>d DEF IInv, FramesInv
  <2> QED
    BY <1>3, <1>6, <2>1 DEF FrameOK, BelowOK
<1>8. PairInv'
  <2> SUFFICES ASSUME NEW x \in Thread
               PROVE  /\ \A i \in 1..Depth(x)' : stack'[x][i].in = "replay" =>
                            /\ i > 1 /\ stack'[x][i - 1].in = "subscribe"
                            /\ stack'[x][i - 1].ctx = stack'[x][i].ctx
                      /\ \A i, j \in 1..Depth(x)' :
                            stack'[x][i].in = "subscribe" /\ stack'[x][j].in = "subscribe"
                                /\ stack'[x][i].topic = stack'[x][j].topic => i = j
    BY DEF PairInv
  <2>1. \A i \in 1..Depth(x)' : i > 1 => i - 1 \in 1..Depth(x)'
    BY <1>d
  <2> QED
    BY <2>1, <1>d DEF IInv, PairInv
<1>9. LeaveInv'
  <2>1. ASSUME NEW x \in Thread, Depth(x)' > 0, stack'[x][Depth(x)'].in = "unsubscribe"
        PROVE  FALSE
    <3>1. Depth(x)' \in 1..Depth(x) /\ stack[x][Depth(x)'].in = "unsubscribe"
      BY <1>d, <2>1
    <3>2. CASE x = th
      BY <1>d, <3>1, <3>2 DEF IInv, FramesInv, BelowOK
    <3>3. CASE x # th
      BY <1>2, <3>1, <3>3, ThreadPlaces DEF IInv, FramesInv, FrameOK, Place
    <3> QED
      BY <3>2, <3>3
  <2> QED
    BY <2>1 DEF LeaveInv
<1>10. EntryInv'
  BY <1>3 DEF IInv, EntryInv
<1> QED
  BY <1>4, <1>7, <1>8, <1>9, <1>10 DEF IInv

(* Undeclaring takes the subscription of nobody else away.                 *)
LEMMA UndeclareInv ==
  ASSUME IInv, NEW th \in Thread, Undeclare(th)
  PROVE  IInv'
<1>1. stack[th] # <<>> /\ Top(th).in = "unsubscribe" /\ Top(th).at = "undeclare"
      /\ GoTo(th, "waiting")
  BY DEF Undeclare, Is
<1>2. /\ TypeOK /\ Top(th) \in Frame /\ FrameOK(th, Top(th)) /\ LeaveOK(th, Top(th))
      /\ Top(th) = stack[th][Depth(th)] /\ Top(th).topic \in Topic
      /\ Depth(th) \in Nat /\ Depth(th) > 0 /\ th = "api"
  BY <1>1, TopLemma, ThreadPlaces DEF FrameOK, Place, Callback
<1> DEFINE f == [Top(th) EXCEPT !.at = "waiting"]
<1>3. /\ f \in Frame /\ f.in = "unsubscribe" /\ f.topic = Top(th).topic
      /\ f.ctx = Top(th).ctx /\ f.at = "waiting"
  BY <1>1, <1>2 DEF Frame
<1>4. Replaced(th, f)
  BY <1>1, <1>2, <1>3, GoToLemma
<1> HIDE DEF f
<1>5. \A x \in Thread : Depth(x)' = Depth(x) /\ Depth(x) \in Nat
  BY <1>2, <1>4, StackType DEF Replaced, Depth
<1>6. /\ \A x \in Thread : \A i \in 1..Depth(x) :
            ~(x = th /\ i = Depth(th)) => stack'[x][i] = stack[x][i]
      /\ stack'[th][Depth(th)] = f
  BY <1>4, <1>5 DEF Replaced
<1>7. /\ declared' = [declared EXCEPT ![Top(th).topic] = NoContext]
      /\ UNCHANGED <<entry, once, made, calls>>
  BY DEF Undeclare
<1>8. \A x \in Thread : \A i \in 1..Depth(x) :
         /\ stack'[x][i].in = stack[x][i].in /\ stack'[x][i].topic = stack[x][i].topic
         /\ stack'[x][i].ctx = stack[x][i].ctx
  BY <1>1, <1>2, <1>3, <1>6
<1>9. TypeOK'
  BY <1>2, <1>4, <1>7 DEF TypeOK, Replaced, NoContext
<1>10. FramesInv'
  <2> SUFFICES ASSUME NEW x \in Thread, NEW i \in 1..Depth(x)
               PROVE  /\ FrameOK(x, stack[x][i])'
                      /\ i < Depth(x) => BelowOK(stack[x][i])'
    BY <1>5 DEF FramesInv
  <2>1. FrameOK(x, stack[x][i]) /\ (i < Depth(x) => BelowOK(stack[x][i]))
    BY DEF IInv, FramesInv
  <2>2. CASE x = th /\ i = Depth(th)
    BY <1>1, <1>2, <1>3, <1>6, <1>7, <2>2 DEF FrameOK, Callback
  <2>3. CASE ~(x = th /\ i = Depth(th))
    BY <1>6, <1>7, <2>1, <2>3 DEF FrameOK, BelowOK
  <2> QED
    BY <2>2, <2>3
<1>11. PairInv'
  <2> SUFFICES ASSUME NEW x \in Thread
               PROVE  /\ \A i \in 1..Depth(x) : stack'[x][i].in = "replay" =>
                            /\ i > 1 /\ stack'[x][i - 1].in = "subscribe"
                            /\ stack'[x][i - 1].ctx = stack'[x][i].ctx
                      /\ \A i, j \in 1..Depth(x) :
                            stack'[x][i].in = "subscribe" /\ stack'[x][j].in = "subscribe"
                                /\ stack'[x][i].topic = stack'[x][j].topic => i = j
    BY <1>5 DEF PairInv
  <2>1. \A i \in 1..Depth(x) : i > 1 => i - 1 \in 1..Depth(x)
    BY <1>5
  <2> QED
    BY <2>1, <1>8 DEF IInv, PairInv
<1>12. LeaveInv'
  <2> SUFFICES ASSUME NEW x \in Thread, Depth(x) > 0, stack'[x][Depth(x)].in = "unsubscribe"
               PROVE  LeaveOK(x, stack[x][Depth(x)])'
    BY <1>5 DEF LeaveInv
  <2>1. x = th
    <3> SUFFICES ASSUME x # th PROVE FALSE
      OBVIOUS
    <3>1. Depth(x) \in 1..Depth(x) /\ stack[x][Depth(x)].in = "unsubscribe"
      BY <1>5, <1>8
    <3> QED
      BY <1>2, <3>1, ThreadPlaces DEF IInv, FramesInv, FrameOK, Place
  <2>2. \A i \in 1..Depth(th) :
           i < Depth(th) /\ stack[th][i].in \in Callback \cup {"subscribe"} =>
               stack[th][i].topic # f.topic
    BY <1>2, <1>3 DEF LeaveOK
  <2>3. declared'[f.topic] = NoContext
    BY <1>2, <1>3, <1>7 DEF TypeOK
  <2> QED
    BY <1>3, <1>5, <1>6, <1>8, <2>1, <2>2, <2>3 DEF LeaveOK
<1>13. EntryInv'
  BY <1>7 DEF IInv, EntryInv
<1> QED
  BY <1>9, <1>10, <1>11, <1>12, <1>13 DEF IInv

(* No frame that is left holds the context that is erased.                 *)
LEMMA EraseInv ==
  ASSUME IInv, NEW th \in Thread, Erase(th)
  PROVE  IInv'
<1>1. stack[th] # <<>> /\ Top(th).in = "unsubscribe" /\ Top(th).at = "erase"
  BY DEF Erase, Is
<1> DEFINE t == Top(th).topic
           c == Top(th).ctx
<1>2. /\ TypeOK /\ Top(th) \in Frame /\ FrameOK(th, Top(th)) /\ LeaveOK(th, Top(th))
      /\ Top(th) = stack[th][Depth(th)] /\ t \in Topic /\ Depth(th) \in Nat /\ Depth(th) > 0
      /\ th = "api" /\ c # NoContext /\ entry[t] = c /\ declared[t] = NoContext
  BY <1>1, TopLemma, ThreadPlaces DEF FrameOK, Place, Callback, LeaveOK
<1>3. /\ Popped(th) /\ once' = once \ {c} /\ entry' = [entry EXCEPT ![t] = NoContext]
      /\ UNCHANGED <<declared, made, calls>>
  BY <1>1, <1>2, PopLemma DEF Erase
<1>4. /\ Depth(th)' = Depth(th) - 1
      /\ \A x \in Thread : /\ Depth(x) \in Nat /\ Depth(x)' \in Nat /\ Depth(x)' <= Depth(x)
                           /\ x # th => Depth(x)' = Depth(x)
      /\ \A x \in Thread : \A i \in 1..Depth(x)' :
            i \in 1..Depth(x) /\ stack'[x][i] = stack[x][i]
  <2>1. /\ Depth(th)' = Depth(th) - 1
        /\ \A x \in Thread : x # th => stack'[x] = stack[x] /\ Depth(x)' = Depth(x)
        /\ \A i \in 1..Depth(th) - 1 : stack'[th][i] = stack[th][i]
    BY <1>3 DEF Popped, Depth
  <2>2. \A x \in Thread : Depth(x) \in Nat
    BY <1>2, StackType
  <2> QED
    BY <1>2, <2>1, <2>2
<1>5. TypeOK'
  BY <1>2, <1>3 DEF TypeOK, Popped, NoContext
<1>6. ASSUME NEW x \in Thread, NEW i \in 1..Depth(x)', stack[x][i].ctx # NoContext
      PROVE  stack[x][i].topic # t /\ stack[x][i].ctx # c
  <2>1. FrameOK(x, stack[x][i]) /\ stack[x][i] \in Frame /\ i \in 1..Depth(x)
    BY <1>2, <1>4, StackType DEF IInv, FramesInv
  <2>2. stack[x][i].topic # t
    <3>1. CASE x = th
      <4>1. i < Depth(th) /\ BelowOK(stack[th][i])
        BY <1>4, <2>1, <3>1 DEF IInv, FramesInv
      <4>2. stack[th][i].in \in Callback \cup {"subscribe"}
        BY <1>2, <1>6, <2>1, <3>1, <4>1 DEF FrameOK, BelowOK, Place, Callback
      <4> QED
        BY <1>2, <2>1, <3>1, <4>1, <4>2 DEF LeaveOK
    <3>2. CASE x = "rx"
      <4>1. stack[x][i].in \in {"live", "local"}
        BY <1>6, <2>1, <3>2 DEF FrameOK, Place
      <4> QED
        BY <1>1, <1>2, <2>1, <3>2, <4>1 DEF LeaveOK
    <3> QED
      BY <1>2, <3>1, <3>2, ThreadPlaces
  <2>3. entry[stack[x][i].topic] = stack[x][i].ctx /\ stack[x][i].topic \in Topic
    BY <1>6, <2>1 DEF FrameOK, Frame
  <2> QED
    BY <1>2, <2>2, <2>3 DEF IInv, EntryInv
<1>7. FramesInv'
  <2> SUFFICES ASSUME NEW x \in Thread, NEW i \in 1..Depth(x)'
               PROVE  /\ FrameOK(x, stack[x][i])'
                      /\ i < Depth(x)' => BelowOK(stack[x][i])'
    BY DEF FramesInv
  <2> DEFINE g == stack[x][i]
  <2>1. /\ FrameOK(x, g) /\ stack'[x][i] = g /\ i \in 1..Depth(x) /\ g \in Frame
        /\ i < Depth(x)' => BelowOK(g)
    <3>1. stack'[x][i] = g /\ i \in 1..Depth(x) /\ (i < Depth(x)' => i < Depth(x))
      BY <1>4
    <3>2. FrameOK(x, g) /\ (i < Depth(x) => BelowOK(g))
      BY <3>1 DEF IInv, FramesInv
    <3>3. g \in Frame
      BY <1>2, <3>1, StackType
    <3> QED
      BY <3>1, <3>2, <3>3
  <2>2. g.ctx # NoContext => g.topic # t /\ g.ctx # c
    BY <1>6
  <2>3. ~(g.in = "subscribe" /\ g.at = "emplace")
    <3>1. CASE x = th
      BY <1>4, <2>1, <3>1 DEF IInv, FramesInv, BelowOK
    <3>2. CASE x = "rx"
      BY <2>1, <3>2 DEF FrameOK, Place
    <3> QED
      BY <1>2, <3>1, <3>2, ThreadPlaces
  <2> HIDE DEF g, t, c
  <2>4. g.ctx # NoContext => entry'[g.topic] = g.ctx
    BY <1>2, <1>3, <2>1, <2>2 DEF FrameOK, TypeOK, Frame
  <2>5. g.in \in {"live", "local"} => g.ctx # NoContext
    BY <2>1 DEF FrameOK, Callback
  <2>6. FrameOK(x, g)'
    BY <1>3, <2>1, <2>2, <2>3, <2>4, <2>5 DEF FrameOK, g
  <2> QED
    BY <1>3, <2>1, <2>2, <2>3, <2>4, <2>5 DEF FrameOK, BelowOK
<1>8. PairInv'
  <2> SUFFICES ASSUME NEW x \in Thread
               PROVE  /\ \A i \in 1..Depth(x)' : stack'[x][i].in = "replay" =>
                            /\ i > 1 /\ stack'[x][i - 1].in = "subscribe"
                            /\ stack'[x][i - 1].ctx = stack'[x][i].ctx
                      /\ \A i, j \in 1..Depth(x)' :
                            stack'[x][i].in = "subscribe" /\ stack'[x][j].in = "subscribe"
                                /\ stack'[x][i].topic = stack'[x][j].topic => i = j
    BY DEF PairInv
  <2>1. \A i \in 1..Depth(x)' : i > 1 => i - 1 \in 1..Depth(x)'
    BY <1>4
  <2> QED
    BY <2>1, <1>4 DEF IInv, PairInv
<1>9. LeaveInv'
  <2>1. ASSUME NEW x \in Thread, Depth(x)' > 0, stack'[x][Depth(x)'].in = "unsubscribe"
        PROVE  FALSE
    <3>1. Depth(x)' \in 1..Depth(x) /\ stack[x][Depth(x)'].in = "unsubscribe"
      BY <1>4, <2>1
    <3>2. CASE x = th
      BY <1>4, <3>1, <3>2 DEF IInv, FramesInv, BelowOK
    <3>3. CASE x # th
      BY <1>2, <3>1, <3>3, ThreadPlaces DEF IInv, FramesInv, FrameOK, Place
    <3> QED
      BY <3>2, <3>3
  <2> QED
    BY <2>1 DEF LeaveInv
<1>10. EntryInv'
  BY <1>2, <1>3 DEF IInv, EntryInv, TypeOK
<1> QED
  BY <1>5, <1>7, <1>8, <1>9, <1>10 DEF IInv

-----------------------------------------------------------------------------

(* Every step keeps the invariant.                                         *)
LEMMA InvNext == IInv /\ [Next]_vars => IInv'
<1> SUFFICES ASSUME IInv, [Next]_vars PROVE IInv'
  OBVIOUS
<1>1. CASE UNCHANGED vars
  <2>1. TypeOK' /\ EntryInv'
    BY <1>1 DEF vars, IInv, TypeOK, EntryInv
  <2>2. FramesInv' /\ PairInv'
    BY <1>1 DEF vars, IInv, FramesInv, FrameOK, BelowOK, PairInv, Depth
  <2>3. LeaveInv'
    BY <1>1 DEF vars, IInv, LeaveInv, LeaveOK, Depth
  <2> QED
    BY <2>1, <2>2, <2>3 DEF IInv
<1>2. ASSUME NEW th \in Thread, Step(th) PROVE IInv'
  BY <1>2, EmplaceInv, SubscribeGotInv, ReplayInv, SetOnceInv, UndeclareInv,
     UndeclareReturnsInv, EraseInv, PutInv, ReturnsInv, LibSubscribeCallbackInv DEF Step
<1>3. ASSUME NEW th \in Thread, NEW t \in Topic,
             Subscribe(th, t) \/ Unsubscribe(th, t) \/ Get(th, t) \/ Publish(th, t)
      PROVE  IInv'
  BY <1>3, SubscribeInv, UnsubscribeInv, GetInv, PublishInv
<1>4. ASSUME NEW t \in Topic, Sample(t) PROVE IInv'
  BY <1>4, SampleInv
<1> QED
  BY <1>1, <1>2, <1>3, <1>4 DEF Next

(* The invariant holds.                                                    *)
LEMMA Invariant == Spec => []IInv
BY InvInit, InvNext, PTL DEF Spec

(* Every variable keeps its type, however deep calls are nested.           *)
THEOREM TypeCorrect == Spec => []TypeOK
<1>1. IInv => TypeOK
  BY DEF IInv
<1> QED
  BY Invariant, <1>1, PTL

(* No context is used after unsubscribe() has freed it, as long as the     *)
(* callbacks make tolerated calls only: whoever holds its address finds it *)
(* in _subscriptions.                                                      *)
THEOREM ContextsKept == Spec => []ContextInMap
<1>1. IInv => ContextInMap
  <2> SUFFICES ASSUME IInv, NEW th \in Thread, NEW f \in Frames(th), f.ctx # NoContext
               PROVE  entry[f.topic] = f.ctx
    BY DEF ContextInMap
  <2>1. \E i \in 1..Depth(th) : f = stack[th][i]
    BY FramesAreStack DEF IInv
  <2> QED
    BY <2>1 DEF IInv, FramesInv, FrameOK
<1> QED
  BY Invariant, <1>1, PTL

(* The callback of a topic runs on two threads at once only when one of    *)
(* them has published to the topic itself, and never during a replay: the  *)
(* replay's context has _once false, that of a running callback true.      *)
THEOREM AloneCorrect == Spec => []AloneUnlessLocal
<1>1. IInv => AloneUnlessLocal
  <2> SUFFICES ASSUME IInv, NEW f \in Frames("api"), NEW g \in Frames("rx"),
                      f.in \in Callback, g.in \in Callback, f.topic = g.topic,
                      f.at = "running", g.at = "running"
               PROVE  "local" \in {f.in, g.in} /\ "replay" \notin {f.in, g.in}
    BY DEF AloneUnlessLocal
  <2>1. FrameOK("api", f) /\ FrameOK("rx", g)
    <3>1. \E i \in 1..Depth("api") : f = stack["api"][i]
      BY FramesAreStack, ThreadPlaces DEF IInv
    <3>2. \E i \in 1..Depth("rx") : g = stack["rx"][i]
      BY FramesAreStack, ThreadPlaces DEF IInv
    <3> QED
      BY <3>1, <3>2, ThreadPlaces DEF IInv, FramesInv
  <2>2. f.ctx = entry[f.topic] /\ g.ctx = entry[f.topic]
    BY <2>1 DEF FrameOK
  <2>3. g.in \in {"live", "local"} /\ g.ctx \in once
    BY <2>1 DEF FrameOK, Place, Callback
  <2>4. f.in \in {"replay", "local"} /\ (f.in = "replay" => f.ctx \notin once)
    BY <2>1 DEF FrameOK, Place, Callback
  <2> QED
    BY <2>2, <2>3, <2>4
<1> QED
  BY Invariant, <1>1, PTL
=============================================================================
