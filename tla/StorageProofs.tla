--------------------------- MODULE StorageProofs ----------------------------
(***************************************************************************)
(* Storage for any number of clients, names, calls and faults: its types,  *)
(* and that what a client has in _mem_storages is what the router is going *)
(* to hold.                                                                *)
(***************************************************************************)
EXTENDS Storage, SequenceTheorems, TLAPS

USE DEF clientVars, wayVars, routerVars, countVars, historyVars

-----------------------------------------------------------------------------
(* Commands in a sequence. *)

Ours(cmd, n) == cmd.name = n /\ cmd.zid = zid

(* A command that is put behind others decides, if it is for n.            *)
LEMMA DueAppend ==
  ASSUME NEW s \in Seq(Command), NEW x \in Command, NEW n
  PROVE  /\ Ours(x, n) => Due(Append(s, x), n) # {}
                          /\ (EndsInPut(Append(s, x), n) <=> x.op = "put")
         /\ ~Ours(x, n) => (Due(Append(s, x), n) = {} <=> Due(s, n) = {})
                           /\ (EndsInPut(Append(s, x), n) <=> EndsInPut(s, n))
<1> DEFINE a == Append(s, x)
<1>1. /\ Len(a) = Len(s) + 1 /\ Len(s) \in Nat /\ a[Len(s) + 1] = x
      /\ \A i \in 1..Len(s) : a[i] = s[i]
  BY AppendProperties
<1> HIDE DEF a
<1>2. ASSUME Ours(x, n) PROVE Due(a, n) # {} /\ (EndsInPut(a, n) <=> x.op = "put")
  <2>1. Len(s) + 1 \in Due(a, n) /\ \A i \in Due(a, n) : i <= Len(s) + 1
    BY <1>1, <1>2 DEF Due, Ours
  <2>2. \A i \in Due(a, n) : (\A j \in Due(a, n) : j <= i) => i = Len(s) + 1
    BY <1>1, <2>1 DEF Due
  <2> QED
    BY <1>1, <2>1, <2>2 DEF EndsInPut
<1>3. ASSUME ~Ours(x, n)
      PROVE  (Due(a, n) = {} <=> Due(s, n) = {}) /\ (EndsInPut(a, n) <=> EndsInPut(s, n))
  <2>1. Due(a, n) = Due(s, n)
    BY <1>1, <1>3 DEF Due, Ours
  <2>2. \A i \in Due(s, n) : a[i] = s[i]
    BY <1>1 DEF Due
  <2> QED
    BY <2>1, <2>2 DEF EndsInPut
<1> QED
  BY <1>2, <1>3 DEF a

(* When the first command is taken away, one that is left behind it        *)
(* decides as before; if none is left, the first one did.                  *)
LEMMA DueTail ==
  ASSUME NEW s \in Seq(Command), s # <<>>, NEW n
  PROVE  /\ Due(Tail(s), n) # {} =>
               Due(s, n) # {} /\ (EndsInPut(Tail(s), n) <=> EndsInPut(s, n))
         /\ Due(Tail(s), n) = {} /\ Ours(Head(s), n) =>
               Due(s, n) # {} /\ (EndsInPut(s, n) <=> Head(s).op = "put")
         /\ Due(Tail(s), n) = {} /\ ~Ours(Head(s), n) => Due(s, n) = {}
<1> DEFINE r == Tail(s)
<1>1. /\ Len(r) = Len(s) - 1 /\ Len(s) \in Nat \ {0} /\ Head(s) = s[1]
      /\ \A i \in 1..Len(r) : r[i] = s[i + 1]
  BY HeadTailProperties, EmptySeq, LenProperties
<1> HIDE DEF r
<1>2. \A i \in Nat : i \in Due(r, n) <=> i + 1 \in Due(s, n) /\ i >= 1
  BY <1>1 DEF Due
<1>3. 1 \in Due(s, n) <=> Ours(Head(s), n)
  BY <1>1 DEF Due, Ours
<1>4. \A i \in Due(s, n) : i = 1 \/ i - 1 \in Due(r, n)
  BY <1>1 DEF Due
<1>5. Due(r, n) \subseteq Nat /\ Due(s, n) \subseteq Nat
  BY DEF Due
<1>6. ASSUME NEW k \in Due(r, n)
      PROVE  Due(s, n) # {} /\ (EndsInPut(r, n) <=> EndsInPut(s, n))
  <2>1. ASSUME NEW i \in Due(r, n), r[i].op = "put", \A j \in Due(r, n) : j <= i
        PROVE  EndsInPut(s, n)
    <3>1. i + 1 \in Due(s, n) /\ s[i + 1].op = "put"
      BY <1>1, <1>2, <1>5, <2>1 DEF Due
    <3>2. \A j \in Due(s, n) : j <= i + 1
      BY <1>4, <1>5, <2>1
    <3> QED
      BY <3>1, <3>2 DEF EndsInPut
  <2>2. ASSUME NEW i \in Due(s, n), s[i].op = "put", \A j \in Due(s, n) : j <= i
        PROVE  EndsInPut(r, n)
    <3>1. k + 1 \in Due(s, n) /\ k >= 1
      BY <1>2, <1>5
    <3>2. i # 1
      BY <1>5, <2>2, <3>1
    <3>3. i - 1 \in Due(r, n) /\ r[i - 1].op = "put"
      <4>1. i - 1 \in Due(r, n)
        BY <1>4, <3>2
      <4>2. i - 1 \in 1..Len(r) /\ i \in Nat
        BY <1>5, <4>1 DEF Due
      <4>3. r[i - 1] = s[i]
        BY <1>1, <4>2
      <4> QED
        BY <2>2, <4>1, <4>3
    <3>4. \A j \in Due(r, n) : j <= i - 1
      <4>1. \A j \in Due(r, n) : j + 1 \in Due(s, n) /\ j \in Nat
        BY <1>2 DEF Due
      <4>2. i \in Nat /\ \A j \in Due(r, n) : j + 1 <= i
        BY <2>2, <4>1 DEF Due
      <4> QED
        BY <4>1, <4>2
    <3> QED
      BY <3>3, <3>4 DEF EndsInPut
  <2>3. Due(s, n) # {}
    BY <1>2, <1>5
  <2> QED
    BY <2>1, <2>2, <2>3 DEF EndsInPut
<1>7. ASSUME Due(r, n) = {}, Ours(Head(s), n)
      PROVE  Due(s, n) # {} /\ (EndsInPut(s, n) <=> Head(s).op = "put")
  <2>1. Due(s, n) = {1}
    BY <1>3, <1>4, <1>7
  <2> QED
    BY <1>1, <2>1 DEF EndsInPut
<1>8. Due(r, n) = {} /\ ~Ours(Head(s), n) => Due(s, n) = {}
  BY <1>3, <1>4
<1> QED
  BY <1>6, <1>7, <1>8 DEF r

LEMMA DueEmpty ==
  ASSUME NEW n PROVE Due(<<>>, n) = {} /\ ~EndsInPut(<<>>, n)
  BY DEF Due, EndsInPut

(* The identity of the router stays: the same commands count.              *)
LEMMA DueStays ==
  ASSUME UNCHANGED zid, NEW n
  PROVE  /\ \A c \in Client : Due(wire[c], n)' = Due(wire'[c], n)
         /\ \A c \in Client : EndsInPut(wire[c], n)' <=> EndsInPut(wire'[c], n)
         /\ Due(todo, n)' = Due(todo', n)
         /\ EndsInPut(todo, n)' <=> EndsInPut(todo', n)
  BY DEF Due, EndsInPut

-----------------------------------------------------------------------------
(* Types. *)

LEMMA TypeInit == Init => TypeOK
  BY BoundAssumption, EmptySeq DEF Init, TypeOK, Record, Command, NoRouter

(* What z_put or z_delete of a command does to the types.                  *)
LEMMA SendTypes ==
  ASSUME TypeOK, NEW c \in Client, NEW cmd \in Command, Send(c, cmd)
  PROVE  /\ wire' \in [Client -> Seq(Command)]
         /\ \A d \in Client : ~link[d] => wire'[d] = <<>>
         /\ users' \in [Name -> SUBSET Client]
         /\ missed' \subseteq Name
<1>1. cmd.name \in Name
  BY DEF Command
<1>2. users' \in [Name -> SUBSET Client] /\ missed' \subseteq Name
  BY <1>1 DEF TypeOK, Send
<1>3. Append(wire[c], cmd) \in Seq(Command)
  BY AppendProperties DEF TypeOK
<1>4. wire' = IF link[c] THEN [wire EXCEPT ![c] = Append(wire[c], cmd)] ELSE wire
  BY DEF Send
<1> QED
  BY <1>2, <1>3, <1>4 DEF TypeOK

(* The commands that the calls send. *)
LEMMA CommandOf ==
  ASSUME TypeOK, NEW c \in Client, NEW r \in adding[c] \cup records[c], NEW op \in Op
  PROVE  /\ r \in Record /\ r.name \in Name
         /\ [op |-> op, name |-> r.name, zid |-> r.zid] \in Command
<1>1. r \in Record
  BY DEF TypeOK
<1> QED
  BY <1>1 DEF Record, Command

LEMMA TypeNext == TypeOK /\ [Next]_vars => TypeOK'
<1> SUFFICES ASSUME TypeOK, [Next]_vars PROVE TypeOK'
  OBVIOUS
<1> USE BoundAssumption
<1>1. CASE UNCHANGED vars
  BY <1>1 DEF TypeOK, vars
<1>2. ASSUME NEW c \in Client, NEW n \in Name, AskRouter(c, n) PROVE TypeOK'
  <2>1. [name |-> n, zid |-> IF link[c] THEN zid ELSE NoRouter] \in Record
    BY DEF TypeOK, Record, NoRouter
  <2>2. adding' \in [Client -> SUBSET Record]
    BY <1>2, <2>1 DEF AskRouter, TypeOK
  <2> QED
    BY <1>2, <2>2 DEF AskRouter, TypeOK
<1>3. ASSUME NEW c \in Client, PutConfig(c) PROVE TypeOK'
  <2>1. PICK r \in adding[c] :
           \/ /\ Send(c, [op |-> "put", name |-> r.name, zid |-> r.zid])
              /\ records' = [records EXCEPT ![c] = @ \cup {r}]
              /\ UNCHANGED faults
           \/ /\ Fault
              /\ UNCHANGED <<records, wire, historyVars>>
    BY <1>3 DEF PutConfig
  <2>2. r \in Record /\ [op |-> "put", name |-> r.name, zid |-> r.zid] \in Command
    BY CommandOf DEF Op
  <2>3. UNCHANGED <<link, todo, routerVars, calls>> /\ adding' = [adding EXCEPT ![c] = {}]
    BY <1>3 DEF PutConfig
  <2>4. CASE Send(c, [op |-> "put", name |-> r.name, zid |-> r.zid])
             /\ records' = [records EXCEPT ![c] = @ \cup {r}] /\ UNCHANGED faults
    <3>1. records' \in [Client -> SUBSET Record]
      BY <2>2, <2>4 DEF TypeOK
    <3> QED
      BY <2>2, <2>3, <2>4, <3>1, SendTypes DEF TypeOK
  <2>5. CASE Fault /\ UNCHANGED <<records, wire, historyVars>>
    BY <2>3, <2>5 DEF TypeOK, Fault
  <2> QED
    BY <2>1, <2>4, <2>5
<1>4. ASSUME NEW c \in Client, NEW n \in Name, RemoveMemStorage(c, n) PROVE TypeOK'
  <2>1. PICK r \in records[c] :
           /\ r.name = n
           /\ \/ /\ Send(c, [op |-> "delete", name |-> n, zid |-> r.zid])
                 /\ records' = [records EXCEPT ![c] = @ \ {r}]
                 /\ UNCHANGED faults
              \/ /\ Fault
                 /\ UNCHANGED <<records, wire, historyVars>>
    BY <1>4 DEF RemoveMemStorage
  <2>2. [op |-> "delete", name |-> n, zid |-> r.zid] \in Command
    BY <2>1, CommandOf DEF Op
  <2>3. /\ UNCHANGED <<adding, link, todo, routerVars>>
        /\ calls < MaxCalls /\ calls' = calls + 1
    BY <1>4 DEF RemoveMemStorage
  <2>4. CASE Send(c, [op |-> "delete", name |-> n, zid |-> r.zid])
             /\ records' = [records EXCEPT ![c] = @ \ {r}] /\ UNCHANGED faults
    <3>1. records' \in [Client -> SUBSET Record]
      BY <2>4 DEF TypeOK
    <3> QED
      BY <2>2, <2>3, <2>4, <3>1, SendTypes DEF TypeOK
  <2>5. CASE Fault /\ UNCHANGED <<records, wire, historyVars>>
    BY <2>3, <2>5 DEF TypeOK, Fault
  <2> QED
    BY <2>1, <2>4, <2>5
<1>5. ASSUME NEW c \in Client, Die(c) PROVE TypeOK'
  <2>1. {r.name : r \in records[c]} \subseteq Name
    BY CommandOf DEF Op
  <2> QED
    BY <1>5, <2>1 DEF Die, Fault, TypeOK
<1>6. ASSUME NEW c \in Client, LinkBreaks(c) PROVE TypeOK'
  <2>1. NamesIn(wire[c]) \subseteq Name
    <3>1. \A i \in 1..Len(wire[c]) : wire[c][i] \in Command
      BY ElementOfSeq DEF TypeOK
    <3> QED
      BY <3>1 DEF NamesIn, Command
  <2>2. wire' \in [Client -> Seq(Command)] /\ link' \in [Client -> BOOLEAN]
        /\ \A d \in Client : ~link'[d] => wire'[d] = <<>>
    BY <1>6, EmptySeq DEF LinkBreaks, TypeOK
  <2> QED
    BY <1>6, <2>1, <2>2 DEF LinkBreaks, Fault, TypeOK
<1>7. ASSUME NEW c \in Client, LinkReturns(c) PROVE TypeOK'
  BY <1>7 DEF LinkReturns, TypeOK
<1>8. CASE RouterRestarts
  <2>1. <<>> \in Seq(Command)
    BY EmptySeq
  <2> QED
    BY <1>8, <2>1 DEF RouterRestarts, Fault, TypeOK, NoRouter
<1>9. ASSUME NEW c \in Client, RouterTakes(c) PROVE TypeOK'
  <2>1. Head(wire[c]) \in Command /\ Tail(wire[c]) \in Seq(Command)
    BY <1>9, HeadTailProperties DEF RouterTakes, TypeOK
  <2>2. Append(todo, Head(wire[c])) \in Seq(Command)
    BY <2>1, AppendProperties DEF TypeOK
  <2>3. wire' = [wire EXCEPT ![c] = Tail(wire[c])] /\ wire[c] # <<>>
    BY <1>9 DEF RouterTakes
  <2>4. wire' \in [Client -> Seq(Command)]
        /\ \A d \in Client : ~link[d] => wire'[d] = <<>>
    BY <2>1, <2>3 DEF TypeOK
  <2> QED
    BY <1>9, <2>2, <2>4 DEF RouterTakes, TypeOK
<1>10. CASE ManagerActs
  <2>1. Head(todo) \in Command /\ Tail(todo) \in Seq(Command)
    BY <1>10, HeadTailProperties DEF ManagerActs, TypeOK
  <2> QED
    BY <1>10, <2>1 DEF ManagerActs, TypeOK, Command
<1> QED
  BY <1>1, <1>2, <1>3, <1>4, <1>5, <1>6, <1>7, <1>8, <1>9, <1>10 DEF Next

(* Every variable keeps its type; a link that is down carries nothing.     *)
THEOREM TypeCorrect == Spec => []TypeOK
  BY TypeInit, TypeNext, PTL DEF Spec

-----------------------------------------------------------------------------
(* The inductive invariant. *)

(* A client has one record of a name at most, and add_mem_storage() has    *)
(* not begun on a name of which there is a record.                         *)
UniqueNames ==
    \A c \in Client :
        /\ \A r, s \in records[c] : r.name = s.name => r = s
        /\ \A r \in adding[c], s \in records[c] : r.name # s.name

(* Who has sent or kept something about a name counts as its user, and the *)
(* storage manager has nothing to do that was meant for another router.    *)
OnlyUsers ==
    /\ \A c \in Client : \A r \in records[c] : c \in users[r.name]
    /\ \A c \in Client : \A i \in 1..Len(wire[c]) : c \in users[wire[c][i].name]
    /\ \A i \in 1..Len(todo) : todo[i].zid = zid

IInv == TypeOK /\ UniqueNames /\ OnlyUsers /\ Agree

LEMMA InvInit == Init => IInv
<1> SUFFICES ASSUME Init PROVE IInv
  OBVIOUS
<1>1. TypeOK
  BY TypeInit
<1>2. UniqueNames /\ OnlyUsers
  BY EmptySeq DEF Init, UniqueNames, OnlyUsers
<1>3. Agree
  BY DEF Init, Agree, Recorded, Names, Settled
<1> QED
  BY <1>1, <1>2, <1>3 DEF IInv

(* Records and calls under way, step by step. *)
LEMMA UniqueNext == TypeOK /\ UniqueNames /\ [Next]_vars => UniqueNames'
<1> SUFFICES ASSUME TypeOK, UniqueNames, [Next]_vars PROVE UniqueNames'
  OBVIOUS
<1>t. records \in [Client -> SUBSET Record] /\ adding \in [Client -> SUBSET Record]
  BY DEF TypeOK
<1>1. CASE UNCHANGED clientVars
  BY <1>1 DEF UniqueNames
<1>2. ASSUME NEW c \in Client, NEW n \in Name, AskRouter(c, n) PROVE UniqueNames'
  BY <1>2, <1>t DEF AskRouter, UniqueNames
<1>3. ASSUME NEW c \in Client, PutConfig(c) PROVE UniqueNames'
  <2>1. PICK r \in adding[c] : records' = [records EXCEPT ![c] = @ \cup {r}] \/ UNCHANGED records
    BY <1>3 DEF PutConfig
  <2>2. adding' = [adding EXCEPT ![c] = {}]
    BY <1>3 DEF PutConfig
  <2> QED
    BY <1>t, <2>1, <2>2 DEF UniqueNames
<1>4. ASSUME NEW c \in Client, NEW n \in Name, RemoveMemStorage(c, n) PROVE UniqueNames'
  <2>1. UNCHANGED adding /\ \A d \in Client : records'[d] \subseteq records[d]
    BY <1>4, <1>t DEF RemoveMemStorage
  <2> QED
    BY <2>1 DEF UniqueNames
<1>5. ASSUME NEW c \in Client, Die(c) PROVE UniqueNames'
  BY <1>5, <1>t DEF Die, UniqueNames
<1> QED
  BY <1>1, <1>2, <1>3, <1>4, <1>5
  DEF Next, vars, LinkBreaks, LinkReturns, RouterTakes, RouterRestarts, ManagerActs

(* What a command that is sent does to the links. *)
LEMMA SendWire ==
  ASSUME TypeOK, NEW c \in Client, NEW cmd \in Command, Send(c, cmd), NEW d \in Client
  PROVE  wire'[d] = IF d = c /\ link[c] THEN Append(wire[d], cmd) ELSE wire[d]
<1>1. DOMAIN wire = Client
  BY DEF TypeOK
<1>2. wire' = IF link[c] THEN [wire EXCEPT ![c] = Append(wire[c], cmd)] ELSE wire
  BY DEF Send
<1>3. CASE d = c
  BY <1>1, <1>2, <1>3
<1>4. CASE d # c
  BY <1>1, <1>2, <1>4
<1> QED
  BY <1>3, <1>4

(* What a command that is sent does to the users of its name. *)
LEMMA SendUsers ==
  ASSUME TypeOK, OnlyUsers, NEW c \in Client, NEW cmd \in Command, Send(c, cmd)
  PROVE  /\ c \in users'[cmd.name]
         /\ \A n \in Name : users[n] \subseteq users'[n]
         /\ \A n \in Name : n # cmd.name => users'[n] = users[n]
         /\ \A d \in Client : \A i \in 1..Len(wire'[d]) : d \in users'[wire'[d][i].name]
<1>1. /\ c \in users'[cmd.name] /\ \A n \in Name : users[n] \subseteq users'[n]
      /\ \A n \in Name : n # cmd.name => users'[n] = users[n]
  BY DEF TypeOK, Send, Command
<1>2. \A d \in Client : wire[d] \in Seq(Command)
  BY DEF TypeOK
<1>3. \A d \in Client : \A i \in 1..Len(wire[d]) : wire[d][i].name \in Name
  <2>1. \A d \in Client : \A i \in 1..Len(wire[d]) : wire[d][i] \in Command
    BY <1>2
  <2> QED
    BY <2>1 DEF Command
<1>4. \A d \in Client : wire'[d] = wire[d] \/ (d = c /\ wire'[d] = Append(wire[d], cmd))
  BY SendWire
<1>5. \A d \in Client : \A i \in 1..Len(wire[d]) : d \in users'[wire[d][i].name]
  BY <1>1, <1>3 DEF OnlyUsers
<1>6. \A i \in 1..Len(Append(wire[c], cmd)) : c \in users'[Append(wire[c], cmd)[i].name]
  <2>1. /\ Len(Append(wire[c], cmd)) = Len(wire[c]) + 1 /\ Len(wire[c]) \in Nat
        /\ \A i \in 1..Len(wire[c]) : Append(wire[c], cmd)[i] = wire[c][i]
        /\ Append(wire[c], cmd)[Len(wire[c]) + 1] = cmd
    BY <1>2, AppendProperties
  <2> QED
    BY <1>1, <1>5, <2>1
<1>7. ASSUME NEW d \in Client, NEW i \in 1..Len(wire'[d])
      PROVE  d \in users'[wire'[d][i].name]
  <2>1. CASE wire'[d] = wire[d]
    BY <1>5, <2>1
  <2>2. CASE d = c /\ wire'[d] = Append(wire[d], cmd)
    BY <1>6, <2>2
  <2> QED
    BY <1>4, <2>1, <2>2
<1> QED
  BY <1>1, <1>7

LEMMA UsersNext == TypeOK /\ OnlyUsers /\ [Next]_vars => OnlyUsers'
<1> SUFFICES ASSUME TypeOK, OnlyUsers, [Next]_vars PROVE OnlyUsers'
  OBVIOUS
<1>t. /\ records \in [Client -> SUBSET Record] /\ adding \in [Client -> SUBSET Record]
      /\ wire \in [Client -> Seq(Command)] /\ todo \in Seq(Command)
  BY DEF TypeOK
<1>n. \A c \in Client : \A r \in records[c] : r.name \in Name
  BY CommandOf DEF Op
<1>1. CASE UNCHANGED <<records, wire, todo, zid, users>>
  BY <1>1 DEF OnlyUsers
<1>2. ASSUME NEW c \in Client, NEW n \in Name, AskRouter(c, n) PROVE OnlyUsers'
  BY <1>1, <1>2 DEF AskRouter
<1>3. ASSUME NEW c \in Client, PutConfig(c), ~UNCHANGED <<records, wire, historyVars>>
      PROVE  OnlyUsers'
  <2>1. PICK r \in adding[c] :
           /\ Send(c, [op |-> "put", name |-> r.name, zid |-> r.zid])
           /\ records' = [records EXCEPT ![c] = @ \cup {r}]
    BY <1>3 DEF PutConfig
  <2>2. [op |-> "put", name |-> r.name, zid |-> r.zid] \in Command /\ r.name \in Name
    BY CommandOf DEF Op
  <2>3. ASSUME NEW d \in Client, NEW s \in records'[d]
        PROVE  s \in records[d] \/ (d = c /\ s = r)
    <3>1. records' = [records EXCEPT ![c] = records[c] \cup {r}]
      BY <2>1
    <3> QED
      BY <1>t, <2>3, <3>1
  <2>4. UNCHANGED <<todo, zid>>
    BY <1>3 DEF PutConfig
  <2> QED
    BY <1>n, <2>1, <2>2, <2>3, <2>4, SendUsers DEF OnlyUsers
<1>4. ASSUME NEW c \in Client, NEW n \in Name, RemoveMemStorage(c, n),
             ~UNCHANGED <<records, wire, historyVars>>
      PROVE  OnlyUsers'
  <2>1. PICK r \in records[c] :
           /\ Send(c, [op |-> "delete", name |-> n, zid |-> r.zid])
           /\ records' = [records EXCEPT ![c] = @ \ {r}] /\ r.name = n
    BY <1>4 DEF RemoveMemStorage
  <2>2. [op |-> "delete", name |-> n, zid |-> r.zid] \in Command
    BY <2>1, CommandOf DEF Op
  <2>3. \A d \in Client : records'[d] \subseteq records[d]
    BY <1>t, <2>1
  <2>4. UNCHANGED <<todo, zid>>
    BY <1>4 DEF RemoveMemStorage
  <2> QED
    BY <1>n, <2>1, <2>2, <2>3, <2>4, SendUsers DEF OnlyUsers
<1>5. ASSUME NEW c \in Client, Die(c) PROVE OnlyUsers'
  BY <1>5, <1>t DEF Die, OnlyUsers
<1>6. ASSUME NEW c \in Client, LinkBreaks(c) PROVE OnlyUsers'
  BY <1>6, <1>t DEF LinkBreaks, OnlyUsers
<1>7. CASE RouterRestarts
  BY <1>7, <1>t DEF RouterRestarts, OnlyUsers
<1>8. ASSUME NEW c \in Client, RouterTakes(c) PROVE OnlyUsers'
  <2>1. /\ Head(wire[c]) \in Command /\ Len(Tail(wire[c])) = Len(wire[c]) - 1
        /\ \A i \in 1..Len(Tail(wire[c])) : Tail(wire[c])[i] = wire[c][i + 1]
    BY <1>8, <1>t, HeadTailProperties DEF RouterTakes
  <2>2. Len(wire[c]) \in Nat
    BY <1>t
  <2>3. \A i \in 1..Len(Tail(wire[c])) : c \in users[Tail(wire[c])[i].name]
    <3>1. \A i \in 1..Len(Tail(wire[c])) : i + 1 \in 1..Len(wire[c])
      BY <2>1, <2>2
    <3> QED
      BY <2>1, <3>1 DEF OnlyUsers
  <2>4. \A i \in 1..Len(todo') : todo'[i].zid = zid
    <3>1. CASE Head(wire[c]).zid = zid
      <4>1. /\ todo' = Append(todo, Head(wire[c])) /\ Len(todo) \in Nat
            /\ Len(todo') = Len(todo) + 1 /\ todo'[Len(todo) + 1] = Head(wire[c])
            /\ \A i \in 1..Len(todo) : todo'[i] = todo[i]
        BY <1>8, <1>t, <2>1, <3>1, AppendProperties DEF RouterTakes
      <4> QED
        BY <3>1, <4>1 DEF OnlyUsers
    <3>2. CASE Head(wire[c]).zid # zid
      BY <1>8, <3>2 DEF RouterTakes, OnlyUsers
    <3> QED
      BY <3>1, <3>2
  <2>5. wire' = [wire EXCEPT ![c] = Tail(wire[c])] /\ UNCHANGED <<records, users, zid>>
    BY <1>8 DEF RouterTakes
  <2> QED
    BY <1>t, <2>3, <2>4, <2>5 DEF OnlyUsers
<1>9. CASE ManagerActs
  <2>1. /\ todo' = Tail(todo) /\ Len(todo') = Len(todo) - 1 /\ Len(todo) \in Nat
        /\ \A i \in 1..Len(todo') : todo'[i] = todo[i + 1]
    BY <1>9, <1>t, HeadTailProperties DEF ManagerActs
  <2>2. UNCHANGED <<records, wire, zid, users>>
    BY <1>9 DEF ManagerActs
  <2>3. \A i \in 1..Len(todo') : i + 1 \in 1..Len(todo)
    BY <2>1
  <2> QED
    BY <2>1, <2>2, <2>3 DEF OnlyUsers
<1>10. \A c \in Client : LinkReturns(c) => OnlyUsers'
  BY <1>1 DEF LinkReturns
<1>11. UNCHANGED vars => OnlyUsers'
  BY <1>1 DEF vars
<1>12. \A c \in Client : PutConfig(c) /\ UNCHANGED <<records, wire, historyVars>> => OnlyUsers'
  BY <1>1 DEF PutConfig
<1>13. \A c \in Client, n \in Name :
         RemoveMemStorage(c, n) /\ UNCHANGED <<records, wire, historyVars>> => OnlyUsers'
  BY <1>1 DEF RemoveMemStorage
<1> QED
  BY <1>2, <1>3, <1>4, <1>5, <1>6, <1>7, <1>8, <1>9, <1>10, <1>11, <1>12, <1>13 DEF Next

(* A command that gets through decides for its name, and concerns no other *)
(* name.                                                                   *)
LEMMA SendDecides ==
  ASSUME IInv, NEW c \in Client, NEW cmd \in Command, Send(c, cmd),
         UNCHANGED <<link, todo, zid, held>>, NEW n \in Name, Sound(n)'
  PROVE  /\ n = cmd.name => (Settled(n)' <=> cmd.op = "put") /\ users'[n] = {c}
         /\ n # cmd.name => Sound(n) /\ (Settled(n)' <=> Settled(n))
<1>t. TypeOK /\ OnlyUsers /\ wire \in [Client -> Seq(Command)]
  BY DEF IInv, TypeOK
<1>u. \A d \in users'[n] : d \in Client
  BY <1>t, SendTypes
<1>1. ASSUME n = cmd.name
      PROVE  (Settled(n)' <=> cmd.op = "put") /\ users'[n] = {c}
  <2>1. users'[n] = {c}
    BY <1>1, <1>t, SendUsers DEF Sound
  <2>2. n \notin missed'
    BY DEF Sound
  <2>3. link[c] /\ cmd.zid = zid
    BY <1>1, <2>2 DEF Send
  <2>4. wire'[c] = Append(wire[c], cmd)
    BY <1>t, <2>3 DEF Send
  <2>5. Due(wire'[c], n) # {} /\ (EndsInPut(wire'[c], n) <=> cmd.op = "put")
    <3>1. wire[c] \in Seq(Command) /\ Ours(cmd, n)
      BY <1>1, <1>t, <2>3 DEF Ours
    <3> QED
      BY <2>4, <3>1, DueAppend
  <2> QED
    BY <2>1, <2>5, DueStays DEF Settled
<1>2. ASSUME n # cmd.name PROVE Sound(n) /\ (Settled(n)' <=> Settled(n))
  <2>1. users'[n] = users[n]
    BY <1>2, <1>t, SendUsers
  <2>2. n \notin missed' /\ (n \in missed => n \in missed')
    BY <1>2 DEF Sound, Send
  <2>3. Sound(n)
    BY <2>1, <2>2 DEF Sound
  <2>4. ASSUME NEW d \in Client
        PROVE  /\ Due(wire'[d], n) = {} <=> Due(wire[d], n) = {}
               /\ EndsInPut(wire'[d], n) <=> EndsInPut(wire[d], n)
    <3>1. wire'[d] = wire[d] \/ wire'[d] = Append(wire[d], cmd)
      BY <1>t, SendWire
    <3>2. wire[d] \in Seq(Command) /\ ~Ours(cmd, n)
      BY <1>2, <1>t DEF Ours
    <3>3. CASE wire'[d] = wire[d]
      BY <3>3
    <3>4. CASE wire'[d] = Append(wire[d], cmd)
      BY <3>2, <3>4, DueAppend
    <3> QED
      BY <3>1, <3>3, <3>4
  <2> QED
    BY <1>u, <2>1, <2>3, <2>4, DueStays DEF Settled
<1> QED
  BY <1>1, <1>2

(* A step that moves no command, and adds nothing to a name but faults.    *)
LEMMA SettledStays ==
  ASSUME UNCHANGED <<wire, todo, zid, held, users>>, missed \subseteq missed',
         NEW n \in Name, Sound(n)'
  PROVE  Sound(n) /\ (Settled(n)' <=> Settled(n))
<1>1. Sound(n)
  BY DEF Sound
<1>2. Settled(n)' <=> Settled(n)
  BY DEF Settled, Due, EndsInPut
<1> QED
  BY <1>1, <1>2

LEMMA AgreeClients ==
  ASSUME IInv, NEW c \in Client,
         \/ \E n \in Name : AskRouter(c, n) \/ RemoveMemStorage(c, n)
         \/ PutConfig(c) \/ Die(c)
  PROVE  Agree'
<1>t. TypeOK /\ UniqueNames /\ OnlyUsers /\ Agree
  BY DEF IInv
<1>r. records \in [Client -> SUBSET Record]
  BY <1>t DEF TypeOK
<1> SUFFICES ASSUME NEW n \in Name, Sound(n)' PROVE Recorded(n)' <=> Settled(n)'
  BY DEF Agree
<1>1. ASSUME UNCHANGED <<records, wire, todo, zid, held, users, missed>>
      PROVE  Recorded(n)' <=> Settled(n)'
  BY <1>1, <1>t, SettledStays DEF Agree, Recorded, Names
<1>2. ASSUME NEW m \in Name, AskRouter(c, m) PROVE Recorded(n)' <=> Settled(n)'
  BY <1>1, <1>2 DEF AskRouter
<1>3. ASSUME NEW m \in Name, RemoveMemStorage(c, m) PROVE Recorded(n)' <=> Settled(n)'
  <2>1. PICK r \in records[c] :
           /\ r.name = m
           /\ \/ /\ Send(c, [op |-> "delete", name |-> m, zid |-> r.zid])
                 /\ records' = [records EXCEPT ![c] = @ \ {r}]
              \/ UNCHANGED <<records, wire, historyVars>>
    BY <1>3 DEF RemoveMemStorage
  <2>2. UNCHANGED <<link, todo, zid, held>>
    BY <1>3 DEF RemoveMemStorage
  <2>3. CASE UNCHANGED <<records, wire, historyVars>>
    BY <1>1, <2>2, <2>3
  <2>4. CASE Send(c, [op |-> "delete", name |-> m, zid |-> r.zid])
             /\ records' = [records EXCEPT ![c] = @ \ {r}]
    <3> DEFINE cmd == [op |-> "delete", name |-> m, zid |-> r.zid]
    <3>1. cmd \in Command /\ cmd.name = m /\ cmd.op # "put"
      BY <1>t, <2>1, CommandOf DEF Op
    <3>2. /\ n = m => ~Settled(n)' /\ users'[n] = {c}
          /\ n # m => Sound(n) /\ (Settled(n)' <=> Settled(n))
      BY <2>2, <2>4, <3>1, SendDecides
    <3>3. \A d \in Client : d # c => records'[d] = records[d]
      BY <1>r, <2>4
    <3>4. records'[c] = records[c] \ {r}
      BY <1>r, <2>4
    <3>5. CASE n = m
      <4>1. \A s \in records'[c] : s.name # n
        BY <1>t, <2>1, <3>4, <3>5 DEF UniqueNames
      <4>2. \A d \in Client : d # c => \A s \in records[d] : s.name # n
        <5>1. users[n] \subseteq users'[n]
          BY <1>t, <2>4, <3>1, SendUsers
        <5> QED
          BY <1>t, <3>2, <3>5, <5>1 DEF OnlyUsers
      <4>3. \A d \in Client : \A s \in records'[d] : s.name # n
        BY <3>3, <4>1, <4>2
      <4> QED
        BY <3>2, <3>5, <4>3 DEF Recorded, Names
    <3>6. CASE n # m
      <4>1. Recorded(n)' <=> Recorded(n)
        <5>1. \A d \in Client : \A s : s.name = n => (s \in records'[d] <=> s \in records[d])
          BY <2>1, <3>3, <3>4, <3>6
        <5> QED
          BY <5>1 DEF Recorded, Names
      <4> QED
        BY <1>t, <3>2, <3>6, <4>1 DEF Agree
    <3> QED
      BY <3>5, <3>6
  <2> QED
    BY <2>1, <2>3, <2>4
<1>4. CASE PutConfig(c)
  <2>1. PICK r \in adding[c] :
           \/ /\ Send(c, [op |-> "put", name |-> r.name, zid |-> r.zid])
              /\ records' = [records EXCEPT ![c] = @ \cup {r}]
           \/ UNCHANGED <<records, wire, historyVars>>
    BY <1>4 DEF PutConfig
  <2>2. UNCHANGED <<link, todo, zid, held>>
    BY <1>4 DEF PutConfig
  <2>3. CASE UNCHANGED <<records, wire, historyVars>>
    BY <1>1, <2>2, <2>3
  <2>4. CASE Send(c, [op |-> "put", name |-> r.name, zid |-> r.zid])
             /\ records' = [records EXCEPT ![c] = @ \cup {r}]
    <3> DEFINE cmd == [op |-> "put", name |-> r.name, zid |-> r.zid]
    <3>1. cmd \in Command /\ cmd.name = r.name /\ cmd.op = "put"
      BY <1>t, <2>1, CommandOf DEF Op
    <3>2. /\ n = r.name => Settled(n)'
          /\ n # r.name => Sound(n) /\ (Settled(n)' <=> Settled(n))
      BY <2>2, <2>4, <3>1, SendDecides
    <3>3. \A d \in Client : d # c => records'[d] = records[d]
      BY <1>r, <2>4
    <3>4. records'[c] = records[c] \cup {r}
      BY <1>r, <2>4
    <3>5. CASE n = r.name
      BY <3>2, <3>4, <3>5 DEF Recorded, Names
    <3>6. CASE n # r.name
      <4>1. Recorded(n)' <=> Recorded(n)
        <5>1. \A d \in Client : \A s : s.name = n => (s \in records'[d] <=> s \in records[d])
          BY <2>1, <3>3, <3>4, <3>6
        <5> QED
          BY <5>1 DEF Recorded, Names
      <4> QED
        BY <1>t, <3>2, <3>6, <4>1 DEF Agree
    <3> QED
      BY <3>5, <3>6
  <2> QED
    BY <2>1, <2>3, <2>4
<1>5. CASE Die(c)
  <2>1. UNCHANGED <<wire, todo, zid, held, users>> /\ missed \subseteq missed'
    BY <1>5 DEF Die
  <2>2. \A r \in records[c] : r.name # n
    BY <1>5 DEF Die, Sound
  <2>3. records'[c] = {} /\ \A d \in Client : d # c => records'[d] = records[d]
    BY <1>5, <1>r DEF Die
  <2>4. Recorded(n)' <=> Recorded(n)
    <3>1. \A d \in Client : \A s : s.name = n => (s \in records'[d] <=> s \in records[d])
      BY <2>2, <2>3
    <3> QED
      BY <3>1 DEF Recorded, Names
  <2> QED
    BY <1>t, <2>1, <2>4, SettledStays DEF Agree
<1> QED
  BY <1>2, <1>3, <1>4, <1>5

LEMMA AgreeRouter ==
  ASSUME IInv,
         \/ \E c \in Client : LinkBreaks(c) \/ LinkReturns(c) \/ RouterTakes(c)
         \/ RouterRestarts
         \/ ManagerActs
  PROVE  Agree'
<1>t. TypeOK /\ OnlyUsers /\ Agree
  BY DEF IInv
<1>w. wire \in [Client -> Seq(Command)] /\ todo \in Seq(Command)
      /\ users \in [Name -> SUBSET Client]
  BY <1>t DEF TypeOK
<1> SUFFICES ASSUME NEW n \in Name, Sound(n)' PROVE Recorded(n)' <=> Settled(n)'
  BY DEF Agree
<1>1. ASSUME UNCHANGED <<records, users>>, missed \subseteq missed',
             Settled(n)' <=> Settled(n)
      PROVE  Recorded(n)' <=> Settled(n)'
  <2>1. Sound(n)
    BY <1>1 DEF Sound
  <2> QED
    BY <1>1, <1>t, <2>1 DEF Agree, Recorded, Names
<1>2. ASSUME NEW c \in Client, LinkBreaks(c) PROVE Recorded(n)' <=> Settled(n)'
  <2>1. /\ UNCHANGED <<records, todo, zid, held, users>>
        /\ missed' = missed \cup NamesIn(wire[c])
        /\ wire' = [wire EXCEPT ![c] = <<>>]
    BY <1>2 DEF LinkBreaks
  <2>2. n \notin NamesIn(wire[c])
    BY <2>1 DEF Sound
  <2>3. Due(wire[c], n) = {}
    BY <2>2 DEF Due, NamesIn
  <2>4. wire'[c] = <<>> /\ \A d \in Client : d # c => wire'[d] = wire[d]
    BY <1>w, <2>1
  <2>5. \A d \in Client : /\ Due(wire'[d], n) = Due(wire[d], n)
                          /\ EndsInPut(wire'[d], n) <=> EndsInPut(wire[d], n)
    <3>1. Due(wire'[c], n) = {}
      BY <2>4, DueEmpty
    <3>2. ~EndsInPut(wire'[c], n) /\ ~EndsInPut(wire[c], n)
      BY <2>3, <3>1 DEF EndsInPut
    <3> QED
      BY <2>3, <2>4, <3>1, <3>2
  <2>6. Settled(n)' <=> Settled(n)
    <3>1. /\ Due(todo, n)' = Due(todo, n)
          /\ EndsInPut(todo, n)' <=> EndsInPut(todo, n)
      BY <2>1, DueStays
    <3>2. \A d \in Client : /\ (Due(wire[d], n))' = Due(wire[d], n)
                            /\ (EndsInPut(wire[d], n))' <=> EndsInPut(wire[d], n)
      BY <2>1, <2>5, DueStays
    <3>3. users' = users /\ held' = held /\ users[n] \subseteq Client
      BY <1>w, <2>1
    <3> QED
      BY <3>1, <3>2, <3>3 DEF Settled
  <2> QED
    BY <1>1, <2>1, <2>6
<1>3. ASSUME NEW c \in Client, LinkReturns(c) PROVE Recorded(n)' <=> Settled(n)'
  BY <1>1, <1>3, SettledStays DEF LinkReturns
<1>4. CASE RouterRestarts
  BY <1>4 DEF RouterRestarts, Sound
<1>5. ASSUME NEW c \in Client, RouterTakes(c) PROVE Recorded(n)' <=> Settled(n)'
  <2> DEFINE x == Head(wire[c])
             rest == Tail(wire[c])
  <2>1. /\ wire[c] # <<>> /\ wire[c] \in Seq(Command) /\ x \in Command
        /\ wire' = [wire EXCEPT ![c] = rest]
        /\ todo' = IF x.zid = zid THEN Append(todo, x) ELSE todo
        /\ UNCHANGED <<records, zid, held, users, missed>>
    BY <1>5, <1>w, HeadTailProperties DEF RouterTakes
  <2>2. wire'[c] = rest /\ \A d \in Client : d # c => wire'[d] = wire[d]
    BY <1>w, <2>1
  <2>3. c \in users[x.name]
    <3>1. x = wire[c][1] /\ 1 \in 1..Len(wire[c])
      BY <2>1, LenProperties, EmptySeq
    <3> QED
      BY <1>t, <3>1 DEF OnlyUsers
  <2>4. /\ Ours(x, n) => /\ Due(todo', n) # {}
                         /\ EndsInPut(todo', n) <=> x.op = "put"
        /\ ~Ours(x, n) => /\ Due(todo', n) = {} <=> Due(todo, n) = {}
                          /\ EndsInPut(todo', n) <=> EndsInPut(todo, n)
    <3>1. CASE x.zid = zid
      BY <1>w, <2>1, <3>1, DueAppend
    <3>2. CASE x.zid # zid
      BY <2>1, <3>2 DEF Ours
    <3> QED
      BY <3>1, <3>2
  <2>5. /\ Due(rest, n) # {} => /\ Due(wire[c], n) # {}
                                /\ EndsInPut(rest, n) <=> EndsInPut(wire[c], n)
        /\ Due(rest, n) = {} /\ Ours(x, n) => /\ Due(wire[c], n) # {}
                                              /\ EndsInPut(wire[c], n) <=> x.op = "put"
        /\ Due(rest, n) = {} /\ ~Ours(x, n) => Due(wire[c], n) = {}
    BY <2>1, DueTail
  <2> HIDE DEF x, rest
  <2>6. Sound(n)
    BY <2>1 DEF Sound
  <2>7. \A s : Due(s, n) = {} => ~EndsInPut(s, n)
    BY DEF EndsInPut
  <2>8. CASE Ours(x, n)
    <3>1. users[n] = {c}
      BY <2>3, <2>6, <2>8 DEF Sound, Ours
    <3>2. Settled(n)' <=> EndsInPut(rest, n) \/ (Due(rest, n) = {} /\ EndsInPut(todo', n))
      BY <2>1, <2>2, <2>4, <2>8, <3>1, DueStays DEF Settled
    <3>3. Settled(n) <=> EndsInPut(wire[c], n)
      <4>1. Due(wire[c], n) # {}
        BY <2>5, <2>8
      <4> QED
        BY <3>1, <4>1 DEF Settled
    <3> QED
      BY <1>1, <2>1, <2>4, <2>5, <2>7, <2>8, <3>2, <3>3
  <2>9. CASE ~Ours(x, n)
    <3>1. \A d \in Client : /\ Due(wire'[d], n) = {} <=> Due(wire[d], n) = {}
                            /\ EndsInPut(wire'[d], n) <=> EndsInPut(wire[d], n)
      BY <2>2, <2>5, <2>7, <2>9
    <3>2. Settled(n)' <=> Settled(n)
      BY <1>w, <2>1, <2>4, <2>9, <3>1, DueStays DEF Settled
    <3> QED
      BY <1>1, <2>1, <3>2
  <2> QED
    BY <2>8, <2>9
<1>6. CASE ManagerActs
  <2> DEFINE x == Head(todo)
  <2>1. /\ todo # <<>> /\ todo' = Tail(todo) /\ x \in Command /\ x.zid = zid
        /\ held' = IF x.op = "put" THEN held \cup {x.name} ELSE held \ {x.name}
        /\ UNCHANGED <<records, wire, zid, users, missed>>
    <3>1. todo # <<>>
      BY <1>6 DEF ManagerActs
    <3>2. x = todo[1] /\ 1 \in 1..Len(todo)
      BY <1>w, <3>1, LenProperties, EmptySeq
    <3> QED
      BY <1>6, <1>t, <1>w, <3>1, <3>2, HeadTailProperties DEF ManagerActs, OnlyUsers
  <2>2. /\ Due(todo', n) # {} => /\ Due(todo, n) # {}
                                 /\ EndsInPut(todo', n) <=> EndsInPut(todo, n)
        /\ Due(todo', n) = {} /\ Ours(x, n) => /\ Due(todo, n) # {}
                                               /\ EndsInPut(todo, n) <=> x.op = "put"
        /\ Due(todo', n) = {} /\ ~Ours(x, n) => Due(todo, n) = {}
    BY <1>w, <2>1, DueTail
  <2>3. /\ Ours(x, n) => (n \in held' <=> x.op = "put")
        /\ ~Ours(x, n) => (n \in held' <=> n \in held)
    BY <2>1 DEF Ours
  <2> HIDE DEF x
  <2>4. \A s : Due(s, n) = {} => ~EndsInPut(s, n)
    BY DEF EndsInPut
  <2>5. EndsInPut(todo', n) \/ (Due(todo', n) = {} /\ n \in held')
        <=> EndsInPut(todo, n) \/ (Due(todo, n) = {} /\ n \in held)
    <3>1. CASE Due(todo', n) # {}
      BY <2>2, <3>1
    <3>2. CASE Due(todo', n) = {} /\ Ours(x, n)
      BY <2>2, <2>3, <2>4, <3>2
    <3>3. CASE Due(todo', n) = {} /\ ~Ours(x, n)
      BY <2>2, <2>3, <2>4, <3>3
    <3> QED
      BY <3>1, <3>2, <3>3
  <2>6. \A d \in Client : /\ Due(wire[d], n)' = Due(wire[d], n)
                          /\ EndsInPut(wire[d], n)' <=> EndsInPut(wire[d], n)
    BY <2>1, DueStays
  <2>7. Settled(n)' <=> Settled(n)
    BY <1>w, <2>1, <2>4, <2>5, <2>6, DueStays DEF Settled
  <2> QED
    BY <1>1, <2>1, <2>7
<1> QED
  BY <1>2, <1>3, <1>4, <1>5, <1>6

LEMMA AgreeNext == IInv /\ [Next]_vars => Agree'
<1>1. IInv /\ UNCHANGED vars => Agree'
  <2> SUFFICES ASSUME IInv, UNCHANGED vars, NEW n \in Name, Sound(n)'
               PROVE  Recorded(n)' <=> Settled(n)'
    BY DEF Agree
  <2>1. Sound(n) /\ (Settled(n)' <=> Settled(n))
    BY SettledStays DEF vars
  <2> QED
    BY <2>1 DEF IInv, Agree, Recorded, Names, vars
<1> QED
  BY <1>1, AgreeClients, AgreeRouter DEF Next

LEMMA InvCorrect == Spec => []IInv
<1>1. IInv /\ [Next]_vars => IInv'
  BY TypeNext, UniqueNext, UsersNext, AgreeNext DEF IInv
<1> QED
  BY <1>1, InvInit, PTL DEF Spec

(* _mem_storages is right about the router: however calls, links, the      *)
(* router and its storage manager interleave, and whatever calls fail, a   *)
(* client that alone uses a name has a record of it exactly when the       *)
(* router is going to hold it, unless the link, the router or the client   *)
(* has been away since the last call.                                      *)
THEOREM RecordsAgree == Spec => []Agree
<1>1. IInv => Agree
  BY DEF IInv
<1> QED
  BY <1>1, InvCorrect, PTL
=============================================================================
