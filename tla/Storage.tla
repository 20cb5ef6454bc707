------------------------------ MODULE Storage -------------------------------
(***************************************************************************)
(* Memory storages: the records that clients keep in _mem_storages and the *)
(* storages that the router holds. add_mem_storage() asks the session for  *)
(* the id of the router and puts a configuration under a key with that id; *)
(* remove_mem_storage() deletes the key. Both return as soon as zenoh has  *)
(* taken the message over: it travels on the link of the client, the       *)
(* router ignores keys that name another router, and its storage manager   *)
(* acts later.                                                             *)
(*                                                                         *)
(* What happens within one client, with the calls in every order, is in    *)
(* Client. Here there are several clients of one router, links that break, *)
(* clients that die and routers that are started again.                    *)
(*                                                                         *)
(* Assumed of the code outside src/: a link is ordered; a session whose    *)
(* link is down knows no router and drops what is put or deleted; a        *)
(* router holds storages in memory only; the storage manager acts on what  *)
(* it is given in that order, a second configuration of a name replaces    *)
(* the first. A router may come back under the id it had or another one.   *)
(***************************************************************************)
EXTENDS Integers, Sequences

CONSTANTS
    Client,       \* clients of the router, all with the same admin rights
    Name,         \* names of storages
    MaxCalls,     \* bound: number of calls that reach zenoh
    MaxFaults     \* bound: number of failing calls, broken links, deaths of
                  \* clients and restarts of the router

ASSUME BoundAssumption == MaxCalls \in Nat /\ MaxFaults \in Nat

VARIABLES
    \* each client
    records,      \* records[c]: _mem_storages, name and zid
    adding,       \* adding[c]: the record that add_mem_storage() is about to
                  \* put, if any
    link,         \* link[c]: the session has a link to the router
    \* on the way
    wire,         \* wire[c]: commands on that link
    todo,         \* commands that the storage manager has yet to act on
    \* the router
    zid,          \* its id
    held,         \* the names of the storages it holds
    \* bounds and history
    calls, faults,
    users,        \* users[n]: clients that have ever added or removed n
    missed        \* names whose last command got lost, or is bound to be, or
                  \* whose storage the router has forgotten

clientVars == <<records, adding>>
wayVars == <<link, wire, todo>>
routerVars == <<zid, held>>
countVars == <<calls, faults>>
historyVars == <<users, missed>>
vars == <<clientVars, wayVars, routerVars, countVars, historyVars>>

NoRouter == 0            \* thirty-two times '0'
Op == {"put", "delete"}
Record == [name : Name, zid : Nat]
Command == [op : Op, name : Name, zid : Nat]

Init ==
    /\ records = [c \in Client |-> {}] /\ adding = [c \in Client |-> {}]
    /\ link = [c \in Client |-> TRUE] /\ wire = [c \in Client |-> <<>>]
    /\ todo = <<>>
    /\ zid = 1 /\ held = {}
    /\ calls = 0 /\ faults = 0
    /\ users = [n \in Name |-> {}] /\ missed = {}

Fault == faults < MaxFaults /\ faults' = faults + 1

-----------------------------------------------------------------------------
(* The clients. *)

(* z_put or z_delete of a command: it goes on the link if there is one.    *)
Send(c, cmd) ==
    /\ wire' = IF link[c] THEN [wire EXCEPT ![c] = Append(@, cmd)] ELSE wire
    /\ missed' = IF link[c] /\ cmd.zid = zid THEN missed \ {cmd.name}
                 ELSE missed \cup {cmd.name}
    /\ users' = [users EXCEPT ![cmd.name] = @ \cup {c}]

(* Variant with a bug: a name that the client has is not refused. *)
AskRouterAgain(c, n) ==
    /\ calls < MaxCalls /\ calls' = calls + 1
    /\ adding[c] = {}
    /\ adding' = [adding EXCEPT ![c] =
                    {[name |-> n, zid |-> IF link[c] THEN zid ELSE NoRouter]}]
    /\ UNCHANGED <<records, wayVars, routerVars, faults, historyVars>>

(* add_mem_storage() up to the id of the router. A name that the client    *)
(* has a record of is refused. With no router the id is all zeros, and     *)
(* that is no failure.                                                     *)
AskRouter(c, n) ==
    /\ calls < MaxCalls /\ calls' = calls + 1
    /\ adding[c] = {}
    /\ \A r \in records[c] : r.name # n
    /\ adding' = [adding EXCEPT ![c] =
                    {[name |-> n, zid |-> IF link[c] THEN zid ELSE NoRouter]}]
    /\ UNCHANGED <<records, wayVars, routerVars, faults, historyVars>>

(* Variant with a bug: the record is kept when the put fails. *)
PutConfigKept(c) ==
    /\ \E r \in adding[c] :
          \/ /\ Send(c, [op |-> "put", name |-> r.name, zid |-> r.zid])
             /\ records' = [records EXCEPT ![c] = @ \cup {r}]
             /\ UNCHANGED faults
          \/ /\ Fault
             /\ records' = [records EXCEPT ![c] = @ \cup {r}]
             /\ UNCHANGED <<wire, historyVars>>
    /\ adding' = [adding EXCEPT ![c] = {}]
    /\ UNCHANGED <<link, todo, routerVars, calls>>

(* add_mem_storage() from there on: the put fails, or the record is kept.  *)
PutConfig(c) ==
    /\ \E r \in adding[c] :
          \/ /\ Send(c, [op |-> "put", name |-> r.name, zid |-> r.zid])
             /\ records' = [records EXCEPT ![c] = @ \cup {r}]
             /\ UNCHANGED faults
          \/ /\ Fault
             /\ UNCHANGED <<records, wire, historyVars>>
    /\ adding' = [adding EXCEPT ![c] = {}]
    /\ UNCHANGED <<link, todo, routerVars, calls>>

(* Variant with a bug: the record goes though the delete failed. *)
RemoveMemStorageAnyway(c, n) ==
    /\ calls < MaxCalls /\ calls' = calls + 1
    /\ adding[c] = {}
    /\ \E r \in records[c] :
          /\ r.name = n
          /\ \/ /\ Send(c, [op |-> "delete", name |-> n, zid |-> r.zid])
                /\ UNCHANGED faults
             \/ /\ Fault
                /\ UNCHANGED <<wire, historyVars>>
          /\ records' = [records EXCEPT ![c] = @ \ {r}]
    /\ UNCHANGED <<adding, link, todo, routerVars>>

(* remove_mem_storage(), also as disconnect() calls it: the delete goes to *)
(* the router that the record names. When it fails the record is kept.     *)
RemoveMemStorage(c, n) ==
    /\ calls < MaxCalls /\ calls' = calls + 1
    /\ adding[c] = {}
    /\ \E r \in records[c] :
          /\ r.name = n
          /\ \/ /\ Send(c, [op |-> "delete", name |-> n, zid |-> r.zid])
                /\ records' = [records EXCEPT ![c] = @ \ {r}]
                /\ UNCHANGED faults
             \/ /\ Fault
                /\ UNCHANGED <<records, wire, historyVars>>
    /\ UNCHANGED <<adding, link, todo, routerVars>>

(* The process of a client ends without disconnect(), and is started again *)
(* with no record. What it had sent is still on its way.                   *)
Die(c) ==
    /\ Fault
    /\ records' = [records EXCEPT ![c] = {}]
    /\ adding' = [adding EXCEPT ![c] = {}]
    /\ missed' = missed \cup {r.name : r \in records[c]}
    /\ UNCHANGED <<wayVars, routerVars, calls, users>>

-----------------------------------------------------------------------------
(* Links and router. *)

NamesIn(cmds) == {cmds[i].name : i \in 1..Len(cmds)}

LinkBreaks(c) ==
    /\ Fault
    /\ link[c]
    /\ link' = [link EXCEPT ![c] = FALSE]
    /\ wire' = [wire EXCEPT ![c] = <<>>]
    /\ missed' = missed \cup NamesIn(wire[c])
    /\ UNCHANGED <<clientVars, todo, routerVars, calls, users>>

LinkReturns(c) ==
    /\ ~link[c]
    /\ link' = [link EXCEPT ![c] = TRUE]
    /\ UNCHANGED <<clientVars, wire, todo, routerVars, countVars, historyVars>>

(* The router restarts: links break, storages are gone. *)
RouterRestarts ==
    /\ Fault
    /\ zid' \in {zid, zid + 1}
    /\ held' = {} /\ todo' = <<>>
    /\ link' = [c \in Client |-> FALSE]
    /\ wire' = [c \in Client |-> <<>>]
    /\ missed' = Name
    /\ UNCHANGED <<clientVars, calls, users>>

(* The router takes a command off a link: one that names another router is *)
(* nobody's.                                                               *)
RouterTakes(c) ==
    /\ wire[c] # <<>>
    /\ wire' = [wire EXCEPT ![c] = Tail(@)]
    /\ todo' = IF Head(wire[c]).zid = zid THEN Append(todo, Head(wire[c])) ELSE todo
    /\ UNCHANGED <<clientVars, link, routerVars, countVars, historyVars>>

(* The storage manager starts or stops a storage. *)
ManagerActs ==
    /\ todo # <<>>
    /\ todo' = Tail(todo)
    /\ held' = IF Head(todo).op = "put" THEN held \cup {Head(todo).name}
               ELSE held \ {Head(todo).name}
    /\ UNCHANGED <<clientVars, link, wire, zid, countVars, historyVars>>

-----------------------------------------------------------------------------

Next ==
    \/ \E c \in Client :
          \/ \E n \in Name : AskRouter(c, n) \/ RemoveMemStorage(c, n)
          \/ PutConfig(c)
          \/ Die(c)
          \/ LinkBreaks(c) \/ LinkReturns(c)
          \/ RouterTakes(c)
    \/ RouterRestarts
    \/ ManagerActs

Spec == Init /\ [][Next]_vars

(* The router works through what it is sent, a call goes on. *)
FairSpec ==
    /\ Spec
    /\ WF_vars(ManagerActs)
    /\ \A c \in Client : WF_vars(RouterTakes(c)) /\ WF_vars(PutConfig(c))

-----------------------------------------------------------------------------

(* Types, and what a client is adding it has no record of: the insert      *)
(* behind the put does add one.                                            *)
TypeOK ==
    /\ records \in [Client -> SUBSET Record]
    /\ adding \in [Client -> SUBSET Record]
    /\ \A c \in Client : \A r \in adding[c], q \in records[c] : r.name # q.name
    /\ link \in [Client -> BOOLEAN]
    /\ wire \in [Client -> Seq(Command)]
    /\ \A c \in Client : ~link[c] => wire[c] = <<>>
    /\ todo \in Seq(Command)
    /\ zid \in Nat \ {NoRouter} /\ held \subseteq Name
    /\ calls \in 0..MaxCalls /\ faults \in 0..MaxFaults
    /\ users \in [Name -> SUBSET Client] /\ missed \subseteq Name

Names(c) == {r.name : r \in records[c]}
Recorded(n) == \E c \in Client : n \in Names(c)

(* The name is known to one client at most and its last command has gone   *)
(* to the router that is there. Commands of two clients travel on two      *)
(* links and may overtake each other, so nothing is promised then.         *)
Sound(n) == n \notin missed /\ \A c, d \in users[n] : c = d

(* The commands for n that the router will not ignore. *)
Due(cmds, n) == {i \in 1..Len(cmds) : cmds[i].name = n /\ cmds[i].zid = zid}

EndsInPut(cmds, n) ==
    \E i \in Due(cmds, n) : cmds[i].op = "put" /\ \A j \in Due(cmds, n) : j <= i

(* Whether the router holds n once it has done what it has been sent: what *)
(* counts is the last of these commands, on the link of its client, else   *)
(* before the storage manager.                                             *)
Settled(n) ==
    \E c \in users[n] :
        \/ EndsInPut(wire[c], n)
        \/ Due(wire[c], n) = {} /\ EndsInPut(todo, n)
        \/ Due(wire[c], n) = {} /\ Due(todo, n) = {} /\ n \in held

(* _mem_storages is what the router is going to hold: a client that is the *)
(* only one to use a name has a record of it exactly when its last command *)
(* for it made a storage, as long as neither a link nor the router nor the *)
(* client itself went away since; calls that fail change neither side.     *)
Agree == \A n \in Name : Sound(n) => (Recorded(n) <=> Settled(n))

(* After add_mem_storage() the router comes to hold the storage, unless it *)
(* is removed again, or lost by a fault, or another client uses the name.  *)
AddedIsHeld ==
    \A n \in Name :
        Recorded(n) /\ Sound(n) ~> n \in held \/ ~Recorded(n) \/ ~Sound(n)

(* After remove_mem_storage() or the loss of an add call the router ends   *)
(* up without the storage, under the same provisos: no orphan is left.     *)
RemovedIsGone ==
    \A n \in Name :
        ~Recorded(n) /\ Sound(n) ~> n \notin held \/ Recorded(n) \/ ~Sound(n)
=============================================================================
