------------------------------ MODULE Cluster ------------------------------
(***************************************************************************)
(* Delivery in a cluster: hubs on several nodes, each with its own         *)
(* clients, and a publish/subscribe bus behind the Adapter interface.      *)
(* Every broadcast or send is delivered on the node where it is called and *)
(* then published; handleAdapterMessage delivers it on the other nodes.    *)
(*                                                                         *)
(* A message stands for the call that sends it.  A target is "all", a      *)
(* room, a user or a client.  A node resolves it against its own state, by *)
(* one snapshot or lookup, and then tries the clients one by one, in any   *)
(* order (parallelSend has none).  home[c] = n means that c is in the      *)
(* snapshot and the indexes of hub n.  What a send does inside the buffer  *)
(* of the client is the subject of SendQueue; here a client gets what is   *)
(* offered to its buffer.  The hubs run; HubLifecycle is about their start *)
(* and their end.                                                          *)
(***************************************************************************)
EXTENDS Naturals, FiniteSets, Sequences, SequencesExt

CONSTANTS
    Node,
    Client,    \* a client connects once, to one node; IDs are unique
    Msg,       \* messages, one call each
    Room,
    User,
    MaxLeaves, \* bound on leaves of rooms, changes of user and disconnects
    None,
    Gone

All == "all"
Group == Room \cup User
Target == {All} \cup Group \cup Client

ASSUME ClusterAssumption ==
    /\ IsFiniteSet(Client)
    /\ Room \cap User = {} /\ Group \cap Client = {} /\ All \notin Group \cup Client
    /\ MaxLeaves \in Nat
    /\ None \notin Node \cup Msg /\ Gone \notin Node /\ Gone # None

VARIABLES
    home,      \* the node a client is connected to; it leaves for good
    groups,    \* the rooms and the user of each client
    leaves,    \* these so far
    call,      \* where each call is, and its arguments
    todo,      \* for each message and node, the clients still to be tried
    inbox,     \* what the bus holds for each node
    got,       \* what each client was sent, in order
    owed,      \* history: clients addressed ever since the call began, except
               \* where its context ended or the bus lost it
    audience,  \* history: clients addressed at some time since then
    before     \* history: calls that had returned on the node of a call

clusterVars == <<home, groups, leaves>>
deliveryVars == <<todo, inbox, got>>
historyVars == <<owed, audience, before>>
vars == <<clusterVars, call, deliveryVars, historyVars>>

NoCall == [pc |-> "new", at |-> None, target |-> All, except |-> {}]

\* A client c in groups gs is one of those that target t names.
Names(t, c, gs) == t = All \/ t = c \/ t \in gs

\* What node n finds when it looks up target t, without the excluded ones.
Local(n, t, x) == {c \in Client : home[c] = n /\ Names(t, c, groups[c])} \ x

Init ==
    /\ home = [c \in Client |-> None] /\ groups = [c \in Client |-> {}]
    /\ leaves = 0
    /\ call = [m \in Msg |-> NoCall]
    /\ todo = [m \in Msg |-> [n \in Node |-> {}]]
    /\ inbox = [n \in Node |-> <<>>]
    /\ got = [c \in Client |-> <<>>]
    /\ owed = [m \in Msg |-> {}] /\ audience = [m \in Msg |-> {}]
    /\ before = [m \in Msg |-> {}]

-----------------------------------------------------------------------------
(* Hubs and clients                                                        *)

\* The history of the calls under way, when the groups of c become gs.
Follow(c, gs) ==
    LET under == {m \in Msg : call[m].pc # "new"}
        named == {m \in under : Names(call[m].target, c, gs) /\ c \notin call[m].except}
    IN /\ audience' = [m \in Msg |-> audience[m] \cup {x \in {c} : m \in named}]
       /\ owed' = [m \in Msg |-> owed[m] \ {x \in {c} : m \notin named}]

\* The user ID comes with the upgrade (WithUserID).
Connect(c, n) ==
    /\ home[c] = None
    /\ home' = [home EXCEPT ![c] = n]
    /\ \E gs \in {{}} \cup {{u} : u \in User} :
          /\ groups' = [groups EXCEPT ![c] = gs]
          /\ audience' = [m \in Msg |->
                IF call[m].pc # "new" /\ Names(call[m].target, c, gs)
                THEN audience[m] \cup ({c} \ call[m].except) ELSE audience[m]]
    /\ UNCHANGED <<leaves, call, deliveryVars, owed, before>>

\* The rooms or the user of a connected client change.
Regroup(c, gs) ==
    /\ home[c] \in Node /\ gs # groups[c]
    /\ leaves' = leaves + (IF \E r \in Room : gs = groups[c] \cup {r} THEN 0 ELSE 1)
    /\ leaves' <= MaxLeaves
    /\ groups' = [groups EXCEPT ![c] = gs]
    /\ Follow(c, gs)
    /\ UNCHANGED <<home, call, deliveryVars, before>>

JoinRoom(c) == \E r \in Room : Regroup(c, groups[c] \cup {r})

LeaveRoom(c) == \E r \in Room : Regroup(c, groups[c] \ {r})

\* setClientUserID, to another user or to none.
SetUserID(c) ==
    \E us \in {{}} \cup {{u} : u \in User} :
        Regroup(c, (groups[c] \ User) \cup us)

Moves(c) == JoinRoom(c) \/ LeaveRoom(c) \/ SetUserID(c)

Disconnect(c) ==
    /\ home[c] \in Node /\ leaves < MaxLeaves /\ leaves' = leaves + 1
    /\ home' = [home EXCEPT ![c] = Gone]
    /\ groups' = [groups EXCEPT ![c] = {}]
    /\ owed' = [m \in Msg |-> owed[m] \ {c}]
    /\ UNCHANGED <<call, deliveryVars, audience, before>>

-----------------------------------------------------------------------------
(* Calls                                                                   *)

\* A call that finds nobody here returns at once.
BeginLocalOnly(m, n, t, x) ==
    /\ call[m].pc = "new"
    /\ call' = [call EXCEPT ![m] =
          [pc |-> IF Local(n, t, x) = {} \/ (t \in Client /\ home[t] = n)
                  THEN "direct" ELSE "local",
           at |-> n, target |-> t, except |-> x]]
    /\ todo' = [todo EXCEPT ![m][n] = Local(n, t, x)]
    /\ LET named == {c \in Client : home[c] \in Node /\ Names(t, c, groups[c])} \ x
       IN /\ owed' = [owed EXCEPT ![m] = named]
          /\ audience' = [audience EXCEPT ![m] = named]
    /\ before' = [before EXCEPT ![m] =
          {o \in Msg : call[o].pc = "done" /\ call[o].at = n}]
    /\ UNCHANGED <<clusterVars, inbox, got>>

\* A call on node n looks up its target.  SendToClient goes to the bus only
\* if the client is not connected here.
Begin(m, n, t, x) ==
    /\ call[m].pc = "new"
    /\ call' = [call EXCEPT ![m] =
          [pc |-> IF t \in Client /\ home[t] = n THEN "direct" ELSE "local",
           at |-> n, target |-> t, except |-> x]]
    /\ todo' = [todo EXCEPT ![m][n] = Local(n, t, x)]
    /\ LET named == {c \in Client : home[c] \in Node /\ Names(t, c, groups[c])} \ x
       IN /\ owed' = [owed EXCEPT ![m] = named]
          /\ audience' = [audience EXCEPT ![m] = named]
    /\ before' = [before EXCEPT ![m] =
          {o \in Msg : call[o].pc = "done" /\ call[o].at = n}]
    /\ UNCHANGED <<clusterVars, inbox, got>>

Broadcast(m, n) == Begin(m, n, All, {})

\* A process may run several hubs, so any client may be excluded.
BroadcastExcept(m, n) == \E x \in SUBSET Client : Begin(m, n, All, x)

BroadcastToRoom(m, n) == \E r \in Room : Begin(m, n, r, {})

BroadcastToRoomExcept(m, n) ==
    \E r \in Room, x \in SUBSET Client : Begin(m, n, r, x)

SendToUser(m, n) == \E u \in User : Begin(m, n, u, {})

SendToClient(m, n) == \E c \in Client : Begin(m, n, c, {})

\* The context of a call ends: the clients that are left are skipped.  Every
\* call without exclusions has a variant with a context.
Cancel(m) ==
    LET n == call[m].at
    IN /\ call[m].pc \in {"local", "direct"} /\ call[m].except = {} /\ todo[m][n] # {}
       /\ owed' = [owed EXCEPT ![m] = @ \ todo[m][n]]
       /\ todo' = [todo EXCEPT ![m][n] = {}]
    /\ UNCHANGED <<clusterVars, call, inbox, got, audience, before>>

Finish(m) == call' = [call EXCEPT ![m].pc = "done"]

\* publishToAdapter, after the local delivery, whatever its result.  The bus
\* holds the message for every node, the sender included.
Publish(m) ==
    /\ call[m].pc = "local" /\ todo[m][call[m].at] = {}
    /\ Finish(m)
    /\ inbox' = [n \in Node |-> Append(inbox[n], m)]
    /\ UNCHANGED <<clusterVars, todo, got, historyVars>>

\* Publish returns an error, which is logged.
PublishFails(m) ==
    /\ call[m].pc = "local" /\ todo[m][call[m].at] = {}
    /\ Finish(m)
    /\ owed' = [owed EXCEPT ![m] = {c \in @ : home[c] = call[m].at}]
    /\ UNCHANGED <<clusterVars, deliveryVars, audience, before>>

DirectDone(m) ==
    /\ call[m].pc = "direct" /\ todo[m][call[m].at] = {}
    /\ Finish(m)
    /\ UNCHANGED <<clusterVars, deliveryVars, historyVars>>

-----------------------------------------------------------------------------
(* The receiving side                                                      *)

\* A handler is at work on node n.
Handling(n) == \E m \in Msg : call[m].at # n /\ todo[m][n] # {}

ReceiveEcho(n) ==
    /\ ~Handling(n) /\ inbox[n] # <<>>
    /\ inbox' = [inbox EXCEPT ![n] = Tail(@)]
    /\ LET m == Head(inbox[n])
       IN todo' = [todo EXCEPT ![m][n] = Local(n, call[m].target, call[m].except)]
    /\ UNCHANGED <<clusterVars, call, got, historyVars>>

ReceiveIgnoresExcept(n) ==
    /\ ~Handling(n) /\ inbox[n] # <<>>
    /\ inbox' = [inbox EXCEPT ![n] = Tail(@)]
    /\ LET m == Head(inbox[n])
       IN todo' = IF call[m].at = n THEN todo
                  ELSE [todo EXCEPT ![m][n] = Local(n, call[m].target, {})]
    /\ UNCHANGED <<clusterVars, call, got, historyVars>>

\* A goroutine of its own for every message.
ReceiveConcurrently(n) ==
    /\ inbox[n] # <<>>
    /\ inbox' = [inbox EXCEPT ![n] = Tail(@)]
    /\ LET m == Head(inbox[n])
       IN todo' = IF call[m].at = n THEN todo
                  ELSE [todo EXCEPT ![m][n] =
                           Local(n, call[m].target, call[m].except)]
    /\ UNCHANGED <<clusterVars, call, got, historyVars>>

\* The subscription of node n hands over its messages one after the other.
\* handleAdapterMessage ignores those of its own node.
Receive(n) ==
    /\ ~Handling(n) /\ inbox[n] # <<>>
    /\ inbox' = [inbox EXCEPT ![n] = Tail(@)]
    /\ LET m == Head(inbox[n])
       IN todo' = IF call[m].at = n THEN todo
                  ELSE [todo EXCEPT ![m][n] =
                           Local(n, call[m].target, call[m].except)]
    /\ UNCHANGED <<clusterVars, call, got, historyVars>>

\* The bus drops a message for a slow or disconnected subscriber; for a hub
\* whose Subscribe failed, which Run only logs, every message.
BusLoses(n) ==
    /\ inbox[n] # <<>>
    /\ LET m == Head(inbox[n])
       IN owed' = [owed EXCEPT ![m] = {c \in @ : home[c] # n \/ call[m].at = n}]
    /\ inbox' = [inbox EXCEPT ![n] = Tail(@)]
    /\ UNCHANGED <<clusterVars, call, todo, got, audience, before>>

-----------------------------------------------------------------------------
(* Sending to one client, by a caller or by a handler                      *)

\* A client that has left in the meantime is closed and refuses.
Deliver(m, n, c) ==
    /\ c \in todo[m][n]
    /\ todo' = [todo EXCEPT ![m][n] = @ \ {c}]
    /\ got' = IF home[c] = n THEN [got EXCEPT ![c] = Append(@, m)] ELSE got
    /\ UNCHANGED <<clusterVars, call, inbox, historyVars>>

-----------------------------------------------------------------------------
Calls(m, n) ==
    \/ Broadcast(m, n) \/ BroadcastExcept(m, n)
    \/ BroadcastToRoom(m, n) \/ BroadcastToRoomExcept(m, n)
    \/ SendToUser(m, n) \/ SendToClient(m, n)

Next ==
    \/ \E c \in Client : Moves(c) \/ Disconnect(c) \/ \E n \in Node : Connect(c, n)
    \/ \E m \in Msg, n \in Node : Calls(m, n)
    \/ \E m \in Msg : Cancel(m) \/ Publish(m) \/ PublishFails(m) \/ DirectDone(m)
    \/ \E n \in Node : Receive(n) \/ BusLoses(n)
    \/ \E m \in Msg, n \in Node, c \in Client : Deliver(m, n, c)

Spec == Init /\ [][Next]_vars

-----------------------------------------------------------------------------
(* Properties                                                              *)

\* The types; a node tries only its own clients, some of which have left.
TypeOK ==
    /\ home \in [Client -> Node \cup {None, Gone}]
    /\ groups \in [Client -> SUBSET Group] /\ leaves \in 0..MaxLeaves
    /\ call \in [Msg -> [pc : {"new", "local", "direct", "done"},
                         at : Node \cup {None}, target : Target,
                         except : SUBSET Client]]
    /\ todo \in [Msg -> [Node -> SUBSET Client]]
    /\ inbox \in [Node -> Seq(Msg)]
    /\ got \in [Client -> Seq(Msg)]
    /\ \A m \in Msg, n \in Node : \A c \in todo[m][n] : home[c] \in {n, Gone}
    /\ owed \in [Msg -> SUBSET Client] /\ audience \in [Msg -> SUBSET Client]
    /\ before \in [Msg -> SUBSET Msg]

\* No client is sent a message twice, although the bus returns every message
\* to the node that published it (handleAdapterMessage, the NodeID check).
AtMostOnce == \A c \in Client : IsInjective(got[c])

\* A message is only sent to clients that its target named at some time since
\* the call, and never to an excluded one, on whichever node they are.
OnlyAudience ==
    \A c \in Client : \A i \in DOMAIN got[c] : c \in audience[got[c][i]]

\* A call is over on all nodes.
Over(m) ==
    /\ call[m].pc = "done"
    /\ \A n \in Node : todo[m][n] = {} /\ \A i \in DOMAIN inbox[n] : inbox[n][i] # m

\* When a message is over on all nodes, every client that was connected and
\* addressed all the time was sent it, unless the context of the call ended
\* first or the bus did not bring it to the client's node: neither a room
\* without local members nor a call cut short keeps other nodes from it.
NobodyForgotten ==
    \A m \in Msg : Over(m) => \A c \in owed[m] :
        \E i \in DOMAIN got[c] : got[c][i] = m

\* Calls made one after the other on one node reach every client of the
\* cluster in that order.
SenderOrder ==
    \A c \in Client : \A i, j \in DOMAIN got[c] :
        i < j => got[c][j] \notin before[got[c][i]]
=============================================================================
