------------------------------ MODULE Variable ------------------------------
(***************************************************************************)
(* variable_t and the C functions around it: four strings, each of them    *)
(* owned or a view of somebody else's characters; single variables, the    *)
(* lists that flunder_get hands out, and the variable on the stack of the  *)
(* library that a callback is given for as long as it runs.                *)
(*                                                                         *)
(* The application keeps to the C interface: it destroys what it was       *)
(* given, each thing once and by the function for it, walks a list no      *)
(* further than its end, and calls own() while the characters that are     *)
(* viewed are still there. Whose characters they are, and until when, is   *)
(* what this module is about; the text itself is a value.                  *)
(***************************************************************************)
EXTENDS Naturals, Sequences

CONSTANTS
    Text,         \* texts; the application has a buffer for each of them
    MaxBlocks,    \* bound: number of allocations
    MaxList       \* bound: length of a list

ASSUME BoundAssumption == MaxBlocks \in Nat /\ MaxList \in Nat

Empty == "moved from"
ASSUME EmptyAssumption == Empty \notin Text

Field == {"_topic", "_value", "_encoding", "_timestamp"}
Member == [owned : BOOLEAN, text : Text \cup {Empty}]

(* A variable: its members, and for history the text it was made with,     *)
(* whether that came from the library, and whether a move has emptied it.  *)
Var == [m : [Field -> Member], of : Text, lib : BOOLEAN, moved : BOOLEAN]

Block == 1..MaxBlocks
Shape == {"none", "single", "list"}

VARIABLES
    shape,        \* shape[b]: what was allocated as block b, "none" if freed
    cells,        \* cells[b]: the variables in it
    made,         \* number of blocks allocated
    buffers,      \* texts whose buffer the application has not given up
    callback,     \* the variable that a running callback is given, if any
    singles,      \* what the application has to give flunder_variable_destroy
    lists         \* and flunder_variable_list_destroy: pointer and length

vars == <<shape, cells, made, buffers, callback, singles, lists>>

NullPtr == 0

Init ==
    /\ shape = [b \in Block |-> "none"] /\ cells = [b \in Block |-> <<>>]
    /\ made = 0 /\ buffers = Text
    /\ callback = <<>>
    /\ singles = {} /\ lists = {}

-----------------------------------------------------------------------------
(* Constructors and members. *)

(* Variant with a bug: the library uses the constructor for char pointers. *)
OwnedView(t) == [m |-> [f \in Field |-> [owned |-> FALSE, text |-> t]],
                 of |-> t, lib |-> TRUE, moved |-> FALSE]

(* variable_t(std::string...) and variable_t(const char*...) *)
Owned(t) == [m |-> [f \in Field |-> [owned |-> TRUE, text |-> t]],
             of |-> t, lib |-> TRUE, moved |-> FALSE]
View(t) == [m |-> [f \in Field |-> [owned |-> FALSE, text |-> t]],
            of |-> t, lib |-> FALSE, moved |-> FALSE]

IsOwned(v) == v.m["_topic"].owned

(* What a move leaves behind: strings are emptied, views stay. *)
MovedFrom(v) ==
    [v EXCEPT !.m = [f \in Field |->
                        IF v.m[f].owned THEN [owned |-> TRUE, text |-> Empty] ELSE v.m[f]],
              !.moved = @ \/ IsOwned(v)]

(* Variant with a bug: the member that is_owned() tests stays a view. *)
OwnButTopic(v) ==
    [v EXCEPT !.m = [f \in Field |-> [v.m[f] EXCEPT !.owned = @ \/ f # "_topic"]]]

(* own() *)
Own(v) == IF IsOwned(v) THEN v
          ELSE [v EXCEPT !.m = [f \in Field |-> [v.m[f] EXCEPT !.owned = TRUE]]]

-----------------------------------------------------------------------------
(* Where variables are. *)

(* A place is a block and an index, or the running callback's variable.    *)
OnStack == <<0, 1>>
Places == {p \in Block \X (1..MaxList) : p[2] <= Len(cells[p[1]])}
            \cup {p \in {OnStack} : callback # <<>>}
At(p) == IF p = OnStack THEN callback[1] ELSE cells[p[1]][p[2]]
Every == {At(p) : p \in Places}

(* The characters of a member are there: its own, or the application's.    *)
(* The library has no buffer that lasts.                                   *)
Reads(v, f) == v.m[f].owned \/ (~v.lib /\ v.m[f].text \in buffers)

Allocate(s) ==
    /\ made < MaxBlocks
    /\ made' = made + 1
    /\ shape' = [shape EXCEPT ![made + 1] = s]

-----------------------------------------------------------------------------
(* Single variables. *)

FlunderVariableNew(t) ==
    /\ t \in buffers
    /\ Allocate("single")
    /\ cells' = [cells EXCEPT ![made + 1] = <<View(t)>>]
    /\ singles' = singles \cup {made + 1}
    /\ UNCHANGED <<buffers, callback, lists>>

FlunderVariableClone(p) ==
    /\ Allocate("single")
    /\ cells' = [cells EXCEPT ![made + 1] = <<At(p)>>]
    /\ singles' = singles \cup {made + 1}
    /\ UNCHANGED <<buffers, callback, lists>>

(* The variable of a callback is const, it cannot be moved from or owned.  *)
FlunderVariableMove(p) ==
    /\ p # OnStack
    /\ Allocate("single")
    /\ cells' = [cells EXCEPT ![made + 1] = <<At(p)>>,
                              ![p[1]][p[2]] = MovedFrom(At(p))]
    /\ singles' = singles \cup {made + 1}
    /\ UNCHANGED <<buffers, callback, lists>>

CallOwn(p) ==
    /\ p # OnStack
    /\ \A f \in Field : Reads(At(p), f)
    /\ cells' = [cells EXCEPT ![p[1]][p[2]] = Own(At(p))]
    /\ UNCHANGED <<shape, made, buffers, callback, singles, lists>>

FlunderVariableDestroy(b) ==
    /\ b \in singles
    /\ shape' = [shape EXCEPT ![b] = "none"]
    /\ cells' = [cells EXCEPT ![b] = <<>>]
    /\ singles' = singles \ {b}
    /\ UNCHANGED <<made, buffers, callback, lists>>

-----------------------------------------------------------------------------
(* Lists. *)

(* Variant with a bug: an empty list is allocated as well. *)
FlunderGetEmptyToo(ts) ==
    /\ Allocate("list")
    /\ cells' = [cells EXCEPT ![made + 1] = [i \in 1..Len(ts) |-> Owned(ts[i])]]
    /\ lists' = lists \cup {<<made + 1, Len(ts)>>}
    /\ UNCHANGED <<buffers, callback, singles>>

(* Variant with a bug: off by one in the length that is returned. *)
FlunderGetOneMore(ts) ==
    /\ Allocate("list")
    /\ cells' = [cells EXCEPT ![made + 1] = [i \in 1..Len(ts) |-> Owned(ts[i])]]
    /\ lists' = lists \cup {<<made + 1, Len(ts) + 1>>}
    /\ UNCHANGED <<buffers, callback, singles>>

(* flunder_get() of values ts: nothing is allocated for none, or when      *)
(* get() has failed.                                                       *)
FlunderGet(ts) ==
    /\ IF ts = <<>>
       THEN /\ lists' = lists \cup {<<NullPtr, 0>>}
            /\ UNCHANGED <<shape, cells, made>>
       ELSE /\ Allocate("list")
            /\ cells' = [cells EXCEPT ![made + 1] = [i \in 1..Len(ts) |-> Owned(ts[i])]]
            /\ lists' = lists \cup {<<made + 1, Len(ts)>>}
    /\ UNCHANGED <<buffers, callback, singles>>

(* flunder_variable_list_destroy() of a list as it was returned. *)
FlunderVariableListDestroy(ptr, n) ==
    /\ <<ptr, n>> \in lists
    /\ lists' = lists \ {<<ptr, n>>}
    /\ IF ptr # NullPtr /\ n > 0
       THEN /\ shape' = [shape EXCEPT ![ptr] = "none"]
            /\ cells' = [cells EXCEPT ![ptr] = <<>>]
       ELSE UNCHANGED <<shape, cells>>
    /\ UNCHANGED <<made, buffers, callback, singles>>

-----------------------------------------------------------------------------
(* Callbacks, and the application's own characters. *)

(* lib_subscribe_callback, or the loop in do_subscribe(). *)
CallbackStarts(t) ==
    /\ callback = <<>>
    /\ callback' = <<Owned(t)>>
    /\ UNCHANGED <<shape, cells, made, buffers, singles, lists>>

CallbackReturns ==
    /\ callback # <<>>
    /\ callback' = <<>>
    /\ UNCHANGED <<shape, cells, made, buffers, singles, lists>>

GiveUp(t) ==
    /\ t \in buffers
    /\ buffers' = buffers \ {t}
    /\ UNCHANGED <<shape, cells, made, callback, singles, lists>>

-----------------------------------------------------------------------------

Next ==
    \/ \E t \in Text : FlunderVariableNew(t) \/ CallbackStarts(t) \/ GiveUp(t)
    \/ CallbackReturns
    \/ \E p \in Places :
          FlunderVariableClone(p) \/ FlunderVariableMove(p) \/ CallOwn(p)
    \/ \E b \in Block : FlunderVariableDestroy(b)
    \/ \E n \in 0..MaxList : \E ts \in [1..n -> Text] : FlunderGet(ts)
    \/ \E l \in lists : FlunderVariableListDestroy(l[1], l[2])

Spec == Init /\ [][Next]_vars

-----------------------------------------------------------------------------

TypeOK ==
    /\ shape \in [Block -> Shape] /\ cells \in [Block -> Seq(Var)]
    /\ made \in 0..MaxBlocks /\ buffers \subseteq Text
    /\ callback \in {<<>>} \cup {<<v>> : v \in {Owned(t) : t \in Text}}
    /\ singles \subseteq Block /\ lists \subseteq (0..MaxBlocks) \X (0..MaxList)

(* own() tests one member and takes a view out of all four: it never finds *)
(* a string there, whatever was cloned, moved and owned before.            *)
OwnFindsViews ==
    \A v \in Every : ~IsOwned(v) => \A f \in Field : ~v.m[f].owned

(* A variable that is owned, or that stems from the library in any way,    *)
(* can be read for as long as it exists, in all its members: also when the *)
(* callback it was cloned in has long returned, and when the application   *)
(* has given up its own buffers. It shows what it was made with, unless it *)
(* was moved from.                                                         *)
OwnedLasts ==
    \A v \in Every : v.lib \/ IsOwned(v) =>
        \A f \in Field :
            Reads(v, f) /\ v.m[f].text = IF v.moved THEN Empty ELSE v.of

(* The two ways of release fit: a list has as many variables as the length *)
(* returned with it, and when the application has destroyed all it was     *)
(* given, nothing is left allocated. In particular the pair of a query     *)
(* without result stands for no allocation.                                *)
ReleaseIsComplete ==
    /\ {b \in Block : shape[b] = "single"} = singles
    /\ {b \in Block : shape[b] = "list"} = {l[1] : l \in {k \in lists : k[2] > 0}}
    /\ \A l \in lists : l[1] # NullPtr => Len(cells[l[1]]) = l[2]
=============================================================================
