--------------------------- MODULE VariableProofs ---------------------------
(***************************************************************************)
(* The invariants of Variable, proved for any texts, any number of         *)
(* allocations and lists of any length. What OwnFindsViews and OwnedLasts  *)
(* have in common is that the four members of a variable are never of      *)
(* different kinds: VarOK, which every operation on a variable keeps. ReleaseIsComplete rests on BooksInv, which relates what was      *)
(* handed out to what is allocated.                                        *)
(***************************************************************************)
EXTENDS Variable, SequenceTheorems, TLAPS

VarOK(v) ==
    /\ v \in Var
    /\ \A f \in Field : v.m[f].owned <=> IsOwned(v)
    /\ \A f \in Field : v.m[f].text = IF v.moved THEN Empty ELSE v.of
    /\ v.lib \/ v.moved => IsOwned(v)

CellsInv ==
    /\ \A b \in Block : cells[b] \in Seq(Var)
    /\ \A b \in Block : \A i \in 1..Len(cells[b]) : VarOK(cells[b][i])
    /\ callback \in {<<>>} \cup {<<Owned(t)>> : t \in Text}

(* Blocks from made on are still to be allocated. *)
BooksInv ==
    /\ \A b \in Block : b > made => shape[b] = "none" /\ cells[b] = <<>>
    /\ \A b \in Block : shape[b] = "none" => cells[b] = <<>>
    /\ \A b \in Block : shape[b] = "single" <=> b \in singles
    /\ \A b \in Block : shape[b] = "list" => \E n \in Nat : n > 0 /\ <<b, n>> \in lists
    /\ \A l \in lists :
          IF l[1] = NullPtr THEN l[2] = 0
          ELSE /\ l[2] > 0 /\ l[1] \in Block /\ shape[l[1]] = "list"
               /\ Len(cells[l[1]]) = l[2]

IInv == TypeOK /\ CellsInv /\ BooksInv

-----------------------------------------------------------------------------
(* Every way to make a variable of another one. *)

LEMMA OwnedOK == ASSUME NEW t \in Text PROVE VarOK(Owned(t)) /\ IsOwned(Owned(t))
  BY DEF VarOK, Owned, IsOwned, Var, Member, Field

LEMMA ViewOK == ASSUME NEW t \in Text PROVE VarOK(View(t))
  BY DEF VarOK, View, IsOwned, Var, Member, Field

LEMMA MovedFromOK == ASSUME NEW v, VarOK(v) PROVE VarOK(MovedFrom(v))
  BY DEF VarOK, MovedFrom, IsOwned, Var, Member, Field

LEMMA OwnOK == ASSUME NEW v, VarOK(v) PROVE VarOK(Own(v))
  BY DEF VarOK, Own, IsOwned, Var, Member, Field

-----------------------------------------------------------------------------

LEMMA InvInit == Init => IInv
<1> SUFFICES ASSUME Init PROVE IInv
  OBVIOUS
<1>1. <<>> \in Seq(Var) /\ Len(<<>>) = 0
  OBVIOUS
<1>2. TypeOK
  BY <1>1, BoundAssumption DEF Init, TypeOK, Shape, Block
<1>3. CellsInv /\ BooksInv
  BY <1>1 DEF Init, CellsInv, BooksInv, Block
<1> QED
  BY <1>2, <1>3 DEF IInv

(* Whatever the application can reach is a variable that is all right.     *)
LEMMA PlaceOK ==
  ASSUME IInv, NEW p \in Places
  PROVE  /\ VarOK(At(p))
         /\ p # OnStack => p[1] \in Block /\ p[2] \in 1..Len(cells[p[1]]) /\ p[1] <= made
<1>1. CASE p = OnStack
  <2>1. PICK t \in Text : callback = <<Owned(t)>>
    BY <1>1 DEF Places, IInv, CellsInv, OnStack, Block
  <2> QED
    BY <1>1, <2>1, OwnedOK DEF At
<1>2. CASE p # OnStack
  <2>1. p \in Block \X (1..MaxList) /\ p[2] <= Len(cells[p[1]])
    BY <1>2 DEF Places
  <2>2. p[1] \in Block /\ p[2] \in 1..MaxList /\ cells[p[1]] \in Seq(Var)
    BY <2>1 DEF IInv, CellsInv
  <2>3. p[2] \in 1..Len(cells[p[1]])
    BY <2>1, <2>2, BoundAssumption
  <2>4. VarOK(At(p))
    BY <1>2, <2>2, <2>3 DEF IInv, CellsInv, At
  <2>5. p[1] <= made
    <3>1. Len(cells[p[1]]) # 0
      BY <2>2, <2>3
    <3>2. cells[p[1]] # <<>>
      BY <3>1
    <3> QED
      BY <2>2, <3>2, BoundAssumption DEF IInv, TypeOK, BooksInv, Block
  <2> QED
    BY <2>2, <2>3, <2>4, <2>5
<1> QED
  BY <1>1, <1>2

(* Cells that hold good variables and are as long as those there are now.  *)
Alike(c) ==
    /\ c \in [Block -> Seq(Var)]
    /\ \A b \in Block : Len(c[b]) = Len(cells[b])
    /\ \A b \in Block : \A i \in 1..Len(c[b]) : VarOK(c[b][i])

LEMMA CellsAlike == ASSUME IInv PROVE Alike(cells)
  BY DEF IInv, TypeOK, CellsInv, Alike

(* One variable is overwritten, as by own() or by a move. *)
LEMMA UpdateAlike ==
  ASSUME IInv, NEW p \in Places, p # OnStack, NEW w, VarOK(w)
  PROVE  Alike([cells EXCEPT ![p[1]][p[2]] = w])
<1> DEFINE c == [cells EXCEPT ![p[1]][p[2]] = w]
           q == [cells[p[1]] EXCEPT ![p[2]] = w]
<1>1. p[1] \in Block /\ p[2] \in 1..Len(cells[p[1]]) /\ cells[p[1]] \in Seq(Var) /\ w \in Var
  BY PlaceOK DEF IInv, CellsInv, VarOK
<1>2. /\ q \in Seq(Var) /\ Len(q) = Len(cells[p[1]])
      /\ \A j \in 1..Len(cells[p[1]]) : q[j] = IF j = p[2] THEN w ELSE cells[p[1]][j]
  BY <1>1, ExceptSeq
<1>3. /\ c \in [Block -> Seq(Var)] /\ c[p[1]] = q
      /\ \A b \in Block : b # p[1] => c[b] = cells[b]
  BY <1>1, <1>2 DEF IInv, TypeOK
<1>4. \A b \in Block : Len(c[b]) = Len(cells[b])
  BY <1>2, <1>3
<1>5. \A i \in 1..Len(q) : VarOK(q[i])
  BY <1>1, <1>2 DEF IInv, CellsInv
<1>6. \A b \in Block : \A i \in 1..Len(c[b]) : VarOK(c[b][i])
  BY <1>3, <1>5 DEF IInv, CellsInv
<1> HIDE DEF c
<1>7. Alike(c)
  BY <1>3, <1>4, <1>6 DEF Alike
<1> QED
  BY <1>7 DEF c

(* What every allocation has in common.                                    *)
LEMMA AllocateOK ==
  ASSUME IInv, NEW c, Alike(c), NEW k \in {"single", "list"}, Allocate(k),
         NEW q \in Seq(Var), \A i \in 1..Len(q) : VarOK(q[i]), Len(q) > 0,
         cells' = [c EXCEPT ![made + 1] = q], callback' = callback
  PROVE  /\ CellsInv'
         /\ shape' \in [Block -> Shape] /\ cells' \in [Block -> Seq(Var)]
         /\ made' \in 0..MaxBlocks /\ made' = made + 1 /\ made' \in Block
         /\ \A b \in Block : b > made' => shape'[b] = "none" /\ cells'[b] = <<>>
         /\ \A b \in Block : shape'[b] = "none" => cells'[b] = <<>>
         /\ shape[made'] = "none" /\ shape'[made'] = k /\ Len(cells'[made']) = Len(q)
         /\ \A b \in Block : b # made' =>
               shape'[b] = shape[b] /\ Len(cells'[b]) = Len(cells[b])
<1>1. made' = made + 1 /\ made \in Nat /\ made' \in Block /\ made' \in 0..MaxBlocks
  BY BoundAssumption DEF IInv, TypeOK, Allocate, Block
<1>2. /\ shape' \in [Block -> Shape] /\ shape'[made'] = k
      /\ \A b \in Block : b # made' => shape'[b] = shape[b]
  BY <1>1 DEF IInv, TypeOK, Allocate, Shape
<1>3. /\ cells' \in [Block -> Seq(Var)] /\ cells'[made'] = q
      /\ \A b \in Block : b # made' => cells'[b] = c[b]
  BY <1>1 DEF Alike
<1>4. \A b \in Block : b # made' => Len(cells'[b]) = Len(cells[b])
  BY <1>3 DEF Alike
<1>5. \A b \in Block : shape[b] = "none" /\ b # made' => cells'[b] = <<>>
  <2> SUFFICES ASSUME NEW b \in Block, shape[b] = "none", b # made'
               PROVE  cells'[b] = <<>>
    OBVIOUS
  <2>1. Len(cells'[b]) = 0
    BY <1>4 DEF IInv, BooksInv
  <2> QED
    BY <1>3, <2>1
<1>6. CellsInv'
  BY <1>3 DEF CellsInv, Alike, IInv
<1>7. shape[made'] = "none"
  BY <1>1 DEF IInv, BooksInv
<1>8. \A b \in Block : shape'[b] = "none" => cells'[b] = <<>>
  BY <1>2, <1>5
<1>9. \A b \in Block : b > made' => shape'[b] = "none" /\ cells'[b] = <<>>
  <2> SUFFICES ASSUME NEW b \in Block, b > made' PROVE shape'[b] = "none"
    BY <1>8
  <2>1. b > made /\ b # made'
    BY <1>1 DEF Block
  <2> QED
    BY <1>2, <2>1 DEF IInv, BooksInv
<1> QED
  BY <1>1, <1>2, <1>3, <1>4, <1>6, <1>7, <1>8, <1>9

(* A variable of its own, that flunder_variable_destroy frees.             *)
LEMMA SingleOK ==
  ASSUME IInv, NEW c, Alike(c), NEW v, VarOK(v), Allocate("single"),
         cells' = [c EXCEPT ![made + 1] = <<v>>],
         singles' = singles \cup {made + 1}, UNCHANGED <<buffers, callback, lists>>
  PROVE  IInv'
<1> DEFINE q == <<v>>
<1>1. q \in Seq(Var) /\ Len(q) = 1 /\ \A i \in 1..Len(q) : VarOK(q[i])
  BY DEF VarOK
<1> HIDE DEF q
<1>2. /\ cells' = [c EXCEPT ![made + 1] = q] /\ Len(q) > 0
      /\ callback' = callback /\ "single" \in {"single", "list"}
  BY <1>1 DEF q
<1>3. /\ CellsInv'
      /\ shape' \in [Block -> Shape] /\ cells' \in [Block -> Seq(Var)]
      /\ made' \in 0..MaxBlocks /\ made' = made + 1 /\ made' \in Block
      /\ \A b \in Block : b > made' => shape'[b] = "none" /\ cells'[b] = <<>>
      /\ \A b \in Block : shape'[b] = "none" => cells'[b] = <<>>
      /\ shape[made'] = "none" /\ shape'[made'] = "single"
      /\ \A b \in Block : b # made' =>
            shape'[b] = shape[b] /\ Len(cells'[b]) = Len(cells[b])
  BY <1>1, <1>2, AllocateOK
<1>4. TypeOK'
  BY <1>3 DEF IInv, TypeOK
<1>5. BooksInv'
  <2>1. \A b \in Block : shape'[b] = "single" <=> b \in singles'
    BY <1>3 DEF IInv, BooksInv
  <2>2. \A b \in Block : shape'[b] = "list" => \E n \in Nat : n > 0 /\ <<b, n>> \in lists'
    BY <1>3 DEF IInv, BooksInv
  <2>3. \A l \in lists' :
          IF l[1] = NullPtr THEN l[2] = 0
          ELSE /\ l[2] > 0 /\ l[1] \in Block /\ shape'[l[1]] = "list"
               /\ Len(cells'[l[1]]) = l[2]
    BY <1>3 DEF IInv, BooksInv
  <2> QED
    BY <1>3, <2>1, <2>2, <2>3 DEF BooksInv
<1> QED
  BY <1>3, <1>4, <1>5 DEF IInv

LEMMA InvVariableNew == ASSUME IInv, NEW t \in Text, FlunderVariableNew(t) PROVE IInv'
  BY CellsAlike, ViewOK, SingleOK DEF FlunderVariableNew

LEMMA InvVariableClone ==
  ASSUME IInv, NEW p \in Places, FlunderVariableClone(p) PROVE IInv'
  BY CellsAlike, PlaceOK, SingleOK DEF FlunderVariableClone

LEMMA InvVariableMove ==
  ASSUME IInv, NEW p \in Places, FlunderVariableMove(p) PROVE IInv'
<1> DEFINE c == [cells EXCEPT ![p[1]][p[2]] = MovedFrom(At(p))]
<1>1. p # OnStack /\ VarOK(At(p)) /\ p[1] \in Block /\ p[1] <= made
  BY PlaceOK DEF FlunderVariableMove
<1>2. Alike(c)
  BY <1>1, MovedFromOK, UpdateAlike
<1>3. p[1] # made + 1
  BY <1>1, BoundAssumption DEF IInv, TypeOK, Block
<1>4. cells' = [c EXCEPT ![made + 1] = <<At(p)>>]
  <2>1. cells' = [cells EXCEPT ![made + 1] = <<At(p)>>, ![p[1]][p[2]] = MovedFrom(At(p))]
    BY DEF FlunderVariableMove
  <2> QED
    BY <1>1, <1>3, <2>1 DEF IInv, TypeOK
<1> HIDE DEF c
<1> QED
  BY <1>1, <1>2, <1>4, SingleOK DEF FlunderVariableMove

LEMMA InvCallOwn == ASSUME IInv, NEW p \in Places, CallOwn(p) PROVE IInv'
<1>1. p # OnStack /\ VarOK(Own(At(p)))
  BY PlaceOK, OwnOK DEF CallOwn
<1>2. Alike(cells')
  BY <1>1, UpdateAlike DEF CallOwn
<1>3. UNCHANGED <<shape, made, buffers, callback, singles, lists>>
  BY DEF CallOwn
<1>4. TypeOK' /\ CellsInv'
  BY <1>2, <1>3 DEF IInv, TypeOK, CellsInv, Alike
<1>5. BooksInv'
  <2>1. \A b \in Block : cells[b] = <<>> => cells'[b] = <<>>
    <3> SUFFICES ASSUME NEW b \in Block, cells[b] = <<>> PROVE cells'[b] = <<>>
      OBVIOUS
    <3>1. Len(cells'[b]) = 0 /\ cells'[b] \in Seq(Var)
      BY <1>2 DEF Alike
    <3> QED
      BY <3>1
  <2>2. \A b \in Block : Len(cells'[b]) = Len(cells[b])
    BY <1>2 DEF Alike
  <2> QED
    BY <1>3, <2>1, <2>2 DEF IInv, BooksInv
<1> QED
  BY <1>4, <1>5 DEF IInv

(* A block that nobody has any more is freed.                              *)
LEMMA FreeOK ==
  ASSUME IInv, NEW b \in Block,
         shape' = [shape EXCEPT ![b] = "none"], cells' = [cells EXCEPT ![b] = <<>>],
         UNCHANGED <<made, callback>>
  PROVE  /\ CellsInv'
         /\ shape' \in [Block -> Shape] /\ cells' \in [Block -> Seq(Var)]
         /\ \A d \in Block : d > made' => shape'[d] = "none" /\ cells'[d] = <<>>
         /\ \A d \in Block : shape'[d] = "none" => cells'[d] = <<>>
         /\ shape'[b] = "none"
         /\ \A d \in Block : d # b => shape'[d] = shape[d] /\ cells'[d] = cells[d]
<1>1. <<>> \in Seq(Var) /\ Len(<<>>) = 0
  OBVIOUS
<1>2. shape' \in [Block -> Shape] /\ cells' \in [Block -> Seq(Var)]
  BY <1>1 DEF IInv, TypeOK, Shape
<1>3. /\ shape'[b] = "none" /\ cells'[b] = <<>>
      /\ \A d \in Block : d # b => shape'[d] = shape[d] /\ cells'[d] = cells[d]
  BY DEF IInv, TypeOK
<1>4. CellsInv'
  BY <1>1, <1>2, <1>3 DEF IInv, CellsInv
<1> QED
  BY <1>2, <1>3, <1>4 DEF IInv, BooksInv

LEMMA InvVariableDestroy ==
  ASSUME IInv, NEW b \in Block, FlunderVariableDestroy(b) PROVE IInv'
<1> USE DEF FlunderVariableDestroy
<1>1. /\ CellsInv'
      /\ shape' \in [Block -> Shape] /\ cells' \in [Block -> Seq(Var)]
      /\ \A d \in Block : d > made' => shape'[d] = "none" /\ cells'[d] = <<>>
      /\ \A d \in Block : shape'[d] = "none" => cells'[d] = <<>>
      /\ shape'[b] = "none"
      /\ \A d \in Block : d # b => shape'[d] = shape[d] /\ cells'[d] = cells[d]
  BY FreeOK
<1>2. TypeOK'
  BY <1>1 DEF IInv, TypeOK
<1>3. shape[b] = "single"
  BY DEF IInv, BooksInv
<1>4. BooksInv'
  <2>1. \A d \in Block : shape'[d] = "single" <=> d \in singles'
    BY <1>1 DEF IInv, BooksInv
  <2>2. \A d \in Block : shape'[d] = "list" => \E n \in Nat : n > 0 /\ <<d, n>> \in lists'
    BY <1>1 DEF IInv, BooksInv
  <2>3. \A l \in lists' :
          IF l[1] = NullPtr THEN l[2] = 0
          ELSE /\ l[2] > 0 /\ l[1] \in Block /\ shape'[l[1]] = "list"
               /\ Len(cells'[l[1]]) = l[2]
    BY <1>1, <1>3 DEF IInv, BooksInv
  <2> QED
    BY <1>1, <2>1, <2>2, <2>3 DEF BooksInv
<1> QED
  BY <1>1, <1>2, <1>4 DEF IInv

-----------------------------------------------------------------------------

LEMMA InvGet ==
  ASSUME IInv, NEW n \in 0..MaxList, NEW ts \in [1..n -> Text], FlunderGet(ts)
  PROVE  IInv'
<1>0. ts \in Seq(Text) /\ Len(ts) = n /\ n \in Nat
  BY BoundAssumption
<1>1. CASE ts = <<>>
  <2>1. lists' = lists \cup {<<NullPtr, 0>>} /\ UNCHANGED <<shape, cells, made, buffers, callback, singles>>
    BY <1>1 DEF FlunderGet
  <2>2. TypeOK'
    BY <2>1, BoundAssumption DEF IInv, TypeOK, NullPtr
  <2>3. CellsInv' /\ BooksInv'
    BY <2>1 DEF IInv, CellsInv, BooksInv, NullPtr
  <2> QED
    BY <2>2, <2>3 DEF IInv
<1>2. CASE ts # <<>>
  <2> DEFINE q == [i \in 1..Len(ts) |-> Owned(ts[i])]
  <2>1. n > 0
    BY <1>0, <1>2
  <2>2. \A i \in 1..n : VarOK(Owned(ts[i]))
    BY OwnedOK
  <2>3. q \in Seq(Var) /\ Len(q) = n /\ \A i \in 1..Len(q) : VarOK(q[i])
    BY <1>0, <2>2 DEF VarOK
  <2>4. /\ Allocate("list") /\ cells' = [cells EXCEPT ![made + 1] = q]
        /\ lists' = lists \cup {<<made + 1, n>>}
        /\ UNCHANGED <<buffers, callback, singles>>
    BY <1>0, <1>2 DEF FlunderGet
  <2> HIDE DEF q
  <2>5. Len(q) > 0 /\ callback' = callback /\ "list" \in {"single", "list"}
    BY <2>1, <2>3, <2>4
  <2>6. /\ CellsInv'
        /\ shape' \in [Block -> Shape] /\ cells' \in [Block -> Seq(Var)]
        /\ made' \in 0..MaxBlocks /\ made' = made + 1 /\ made' \in Block
        /\ \A b \in Block : b > made' => shape'[b] = "none" /\ cells'[b] = <<>>
        /\ \A b \in Block : shape'[b] = "none" => cells'[b] = <<>>
        /\ shape[made'] = "none" /\ shape'[made'] = "list" /\ Len(cells'[made']) = n
        /\ \A b \in Block : b # made' =>
              shape'[b] = shape[b] /\ Len(cells'[b]) = Len(cells[b])
    BY <2>3, <2>4, <2>5, CellsAlike, AllocateOK
  <2>7. TypeOK'
    BY <2>4, <2>6 DEF IInv, TypeOK
  <2>8. BooksInv'
    <3>1. \A b \in Block : shape'[b] = "single" <=> b \in singles'
      BY <2>4, <2>6 DEF IInv, BooksInv
    <3>2. \A b \in Block : shape'[b] = "list" => \E k \in Nat : k > 0 /\ <<b, k>> \in lists'
      <4> SUFFICES ASSUME NEW b \in Block, shape'[b] = "list"
                   PROVE  \E k \in Nat : k > 0 /\ <<b, k>> \in lists'
        OBVIOUS
      <4>1. CASE b = made'
        BY <1>0, <2>1, <2>4, <2>6, <4>1
      <4>2. CASE b # made'
        BY <2>4, <2>6, <4>2 DEF IInv, BooksInv
      <4> QED
        BY <4>1, <4>2
    <3>3. made' # NullPtr
      BY <2>6 DEF NullPtr, Block
    <3>4. \A l \in lists' :
            IF l[1] = NullPtr THEN l[2] = 0
            ELSE /\ l[2] > 0 /\ l[1] \in Block /\ shape'[l[1]] = "list"
                 /\ Len(cells'[l[1]]) = l[2]
      <4> SUFFICES ASSUME NEW l \in lists'
                   PROVE  IF l[1] = NullPtr THEN l[2] = 0
                          ELSE /\ l[2] > 0 /\ l[1] \in Block /\ shape'[l[1]] = "list"
                               /\ Len(cells'[l[1]]) = l[2]
        OBVIOUS
      <4>1. CASE l = <<made', n>>
        BY <2>1, <2>6, <3>3, <4>1
      <4>2. CASE l \in lists
        BY <2>6, <4>2 DEF IInv, BooksInv
      <4> QED
        BY <2>4, <2>6, <4>1, <4>2
    <3> QED
      BY <2>6, <3>1, <3>2, <3>4 DEF BooksInv
  <2> QED
    BY <2>6, <2>7, <2>8 DEF IInv
<1> QED
  BY <1>1, <1>2

LEMMA InvListDestroy ==
  ASSUME IInv, NEW ptr, NEW n, FlunderVariableListDestroy(ptr, n) PROVE IInv'
<1> USE DEF FlunderVariableListDestroy
<1>1. /\ <<ptr, n>> \in lists /\ lists' = lists \ {<<ptr, n>>}
      /\ UNCHANGED <<made, buffers, callback, singles>>
  OBVIOUS
<1>2. IF ptr = NullPtr THEN n = 0
      ELSE n > 0 /\ ptr \in Block /\ shape[ptr] = "list" /\ Len(cells[ptr]) = n
  BY <1>1 DEF IInv, BooksInv
<1>3. CASE ptr = NullPtr
  <2>1. UNCHANGED <<shape, cells>>
    BY <1>3
  <2>2. TypeOK' /\ CellsInv'
    BY <1>1, <2>1 DEF IInv, TypeOK, CellsInv
  <2>3. \A b \in Block : shape'[b] = "list" => \E k \in Nat : k > 0 /\ <<b, k>> \in lists'
    <3>1. NullPtr \notin Block
      BY DEF NullPtr, Block
    <3> QED
      BY <1>1, <1>3, <2>1, <3>1 DEF IInv, BooksInv
  <2>4. BooksInv'
    BY <1>1, <2>1, <2>3 DEF IInv, BooksInv
  <2> QED
    BY <2>2, <2>4 DEF IInv
<1>4. CASE ptr # NullPtr
  <2>1. /\ shape' = [shape EXCEPT ![ptr] = "none"] /\ cells' = [cells EXCEPT ![ptr] = <<>>]
        /\ ptr \in Block /\ shape[ptr] = "list"
    BY <1>2, <1>4
  <2>2. /\ CellsInv'
        /\ shape' \in [Block -> Shape] /\ cells' \in [Block -> Seq(Var)]
        /\ \A d \in Block : d > made' => shape'[d] = "none" /\ cells'[d] = <<>>
        /\ \A d \in Block : shape'[d] = "none" => cells'[d] = <<>>
        /\ shape'[ptr] = "none"
        /\ \A d \in Block : d # ptr => shape'[d] = shape[d] /\ cells'[d] = cells[d]
    BY <1>1, <2>1, FreeOK
  <2>3. TypeOK'
    BY <1>1, <2>2 DEF IInv, TypeOK
  <2>4. \A d \in Block : shape'[d] = "single" <=> d \in singles'
    BY <1>1, <2>1, <2>2 DEF IInv, BooksInv
  <2>5. \A d \in Block : shape'[d] = "list" => \E k \in Nat : k > 0 /\ <<d, k>> \in lists'
    BY <1>1, <2>2 DEF IInv, BooksInv
  <2>6. \A l \in lists' : l[1] # ptr
    <3> SUFFICES ASSUME NEW l \in lists, l[1] = ptr PROVE l = <<ptr, n>>
      BY <1>1
    <3>1. l[2] = n
      BY <1>2, <1>4 DEF IInv, BooksInv
    <3>2. l = <<l[1], l[2]>>
      BY DEF IInv, TypeOK
    <3> QED
      BY <3>1, <3>2
  <2>7. \A l \in lists' :
          IF l[1] = NullPtr THEN l[2] = 0
          ELSE /\ l[2] > 0 /\ l[1] \in Block /\ shape'[l[1]] = "list"
               /\ Len(cells'[l[1]]) = l[2]
    BY <1>1, <2>2, <2>6 DEF IInv, BooksInv
  <2> QED
    BY <2>2, <2>3, <2>4, <2>5, <2>7 DEF IInv, BooksInv
<1> QED
  BY <1>3, <1>4

(* Callbacks and the application's buffers.                                *)
LEMMA InvOthers ==
  ASSUME IInv, NEW t \in Text, CallbackStarts(t) \/ CallbackReturns \/ GiveUp(t)
  PROVE  IInv'
<1>1. UNCHANGED <<shape, cells, made, singles, lists>> /\ buffers' \subseteq Text
  BY DEF CallbackStarts, CallbackReturns, GiveUp, IInv, TypeOK
<1>2. callback' \in {<<>>} \cup {<<Owned(u)>> : u \in Text}
  BY DEF CallbackStarts, CallbackReturns, GiveUp, IInv, CellsInv
<1>3. {<<v>> : v \in {Owned(u) : u \in Text}} = {<<Owned(u)>> : u \in Text}
  OBVIOUS
<1>4. TypeOK'
  BY <1>1, <1>2, <1>3 DEF IInv, TypeOK
<1>5. CellsInv' /\ BooksInv'
  BY <1>1, <1>2 DEF IInv, CellsInv, BooksInv
<1> QED
  BY <1>4, <1>5 DEF IInv

-----------------------------------------------------------------------------

LEMMA InvNext == ASSUME IInv, [Next]_vars PROVE IInv'
<1>1. CASE UNCHANGED vars
  BY <1>1 DEF IInv, TypeOK, CellsInv, BooksInv, vars
<1>2. CASE CallbackReturns
  <2>1. \E t \in Text : TRUE
    BY <1>2 DEF CallbackReturns, IInv, CellsInv
  <2> QED
    BY <1>2, <2>1, InvOthers
<1>3. CASE \E t \in Text : FlunderVariableNew(t) \/ CallbackStarts(t) \/ GiveUp(t)
  BY <1>3, InvVariableNew, InvOthers
<1>4. CASE \E p \in Places :
              FlunderVariableClone(p) \/ FlunderVariableMove(p) \/ CallOwn(p)
  BY <1>4, InvVariableClone, InvVariableMove, InvCallOwn
<1>5. CASE \E b \in Block : FlunderVariableDestroy(b)
  BY <1>5, InvVariableDestroy
<1>6. CASE \E n \in 0..MaxList : \E ts \in [1..n -> Text] : FlunderGet(ts)
  BY <1>6, InvGet
<1>7. CASE \E l \in lists : FlunderVariableListDestroy(l[1], l[2])
  BY <1>7, InvListDestroy
<1> QED
  BY <1>1, <1>2, <1>3, <1>4, <1>5, <1>6, <1>7 DEF Next

LEMMA InvCorrect == Spec => []IInv
  BY InvInit, InvNext, PTL DEF Spec

LEMMA EveryOK == ASSUME IInv, NEW v \in Every PROVE VarOK(v)
  BY PlaceOK DEF Every

(* The variables of Variable keep to their types. *)
THEOREM TypeCorrect == Spec => []TypeOK
<1>1. IInv => TypeOK
  BY DEF IInv
<1> QED
  BY <1>1, InvCorrect, PTL

(* own() takes views out of all four members or out of none.               *)
THEOREM OwnIsSafe == Spec => []OwnFindsViews
<1>1. IInv => OwnFindsViews
  BY EveryOK DEF OwnFindsViews, VarOK
<1> QED
  BY <1>1, InvCorrect, PTL

(* A variable that is owned or stems from the library can be read for as   *)
(* long as it exists and shows what it was made with.                      *)
THEOREM OwnedCorrect == Spec => []OwnedLasts
<1>1. IInv => OwnedLasts
  BY EveryOK DEF OwnedLasts, VarOK, Reads
<1> QED
  BY <1>1, InvCorrect, PTL

(* What was handed out and not destroyed is what is allocated.             *)
THEOREM ReleaseCorrect == Spec => []ReleaseIsComplete
<1>1. ASSUME IInv PROVE ReleaseIsComplete
  <2>1. {b \in Block : shape[b] = "single"} = singles
    BY <1>1 DEF IInv, BooksInv, TypeOK
  <2>2. {b \in Block : shape[b] = "list"} \subseteq {l[1] : l \in {k \in lists : k[2] > 0}}
    <3> SUFFICES ASSUME NEW b \in Block, shape[b] = "list"
                 PROVE  \E l \in {k \in lists : k[2] > 0} : b = l[1]
      OBVIOUS
    <3>1. PICK n \in Nat : n > 0 /\ <<b, n>> \in lists
      BY <1>1 DEF IInv, BooksInv
    <3> QED
      BY <3>1
  <2>3. {l[1] : l \in {k \in lists : k[2] > 0}} \subseteq {b \in Block : shape[b] = "list"}
    BY <1>1 DEF IInv, BooksInv
  <2>4. \A l \in lists : l[1] # NullPtr => Len(cells[l[1]]) = l[2]
    BY <1>1 DEF IInv, BooksInv
  <2> QED
    BY <2>1, <2>2, <2>3, <2>4 DEF ReleaseIsComplete
<1> QED
  BY <1>1, InvCorrect, PTL
=============================================================================
