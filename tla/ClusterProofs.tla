---------------------------- MODULE ClusterProofs ----------------------------
(* Proofs about Cluster for any nodes, clients, messages, rooms and users.  *)
EXTENDS Cluster, SequenceLemmas, TLAPS

\* What waits in the inbox of node n, and what client c has received.
Queued(n) == ToSet(inbox[n])
Received(c) == ToSet(got[c])

\* Node n, which is not the one of the call, has begun to handle message m.
Reached(m, n) ==
    /\ n # call[m].at
    /\ \/ todo[m][n] # {}
       \/ \E c \in Client : home[c] = n /\ m \in Received(c)

\* A message whose call has not begun has left no trace, and a client that has
\* not connected has received nothing.
Fresh ==
    /\ \A m \in Msg : call[m].pc = "new" =>
          /\ \A n \in Node : todo[m][n] = {} /\ m \notin Queued(n)
          /\ \A c \in Client : m \notin Received(c)
          /\ owed[m] = {} /\ before[m] = {}
    /\ \A m \in Msg : call[m].pc # "new" => call[m].at \in Node
    /\ \A c \in Client : home[c] = None => got[c] = <<>>

\* A message is offered to a client at most once: it is queued once for a node,
\* and not any more when the node has begun to handle it.
OncePerNode ==
    /\ \A n \in Node : IsInjective(inbox[n])
    /\ \A m \in Msg, n \in Node : m \in Queued(n) => call[m].pc = "done"
    /\ \A m \in Msg, n \in Node :
          Reached(m, n) => call[m].pc = "done" /\ m \notin Queued(n)
    /\ \A m \in Msg, n \in Node : \A c \in todo[m][n] : m \notin Received(c)
    /\ \A m \in Msg : call[m].pc = "done" => todo[m][call[m].at] = {}

\* The clients a target names, now or when a node looked it up, are audience.
InAudience ==
    /\ \A m \in Msg, c \in Client :
          (/\ call[m].pc # "new" /\ home[c] \in Node
           /\ Names(call[m].target, c, groups[c]) /\ c \notin call[m].except)
             => c \in audience[m]
    /\ \A m \in Msg, n \in Node : todo[m][n] \subseteq audience[m]

\* A client that is owed a message has it, is about to be tried by its node, or
\* its node is about to get it from the bus.
OnItsWay ==
    \A m \in Msg : \A c \in owed[m] :
        /\ home[c] \in Node
        /\ Names(call[m].target, c, groups[c]) /\ c \notin call[m].except
        /\ \/ c \in todo[m][home[c]]
           \/ m \in Received(c)
           \/ /\ home[c] # call[m].at
              /\ \/ call[m].pc = "local"
                 \/ call[m].pc = "done" /\ m \in Queued(home[c])

\* An earlier call of the same node is before a later one in every inbox, and
\* over on a node that has begun to handle the later one.
InTurn ==
    /\ \A m \in Msg : \A o \in before[m] :
          /\ o # m /\ call[m].pc # "new"
          /\ call[o].pc = "done" /\ call[o].at = call[m].at
    /\ \A n \in Node : \A i, j \in DOMAIN inbox[n] :
          i < j => inbox[n][j] \notin before[inbox[n][i]]
    /\ \A m \in Msg, n \in Node : Reached(m, n) =>
          \A o \in before[m] : o \notin Queued(n) /\ todo[o][n] = {}

\* The inductive invariant.
IInv ==
    /\ TypeOK /\ Fresh /\ OncePerNode /\ InAudience /\ OnItsWay /\ InTurn
    /\ AtMostOnce /\ OnlyAudience /\ SenderOrder

-----------------------------------------------------------------------------
\* A step that leaves the variables alone leaves the invariant alone.
LEMMA StutterKeeps == IInv /\ UNCHANGED vars => IInv'
<1> SUFFICES ASSUME IInv, UNCHANGED vars PROVE IInv'
    OBVIOUS
<1>1. /\ home' = home /\ groups' = groups /\ leaves' = leaves /\ call' = call
      /\ todo' = todo /\ inbox' = inbox /\ got' = got /\ owed' = owed
      /\ audience' = audience /\ before' = before
    BY DEF vars, clusterVars, deliveryVars, historyVars
<1>2. TypeOK'
    BY <1>1 DEF IInv, TypeOK
<1>3. \A m, n : Reached(m, n)' = Reached(m, n)
    BY <1>1 DEF Reached, Received
<1>4. (Fresh /\ OncePerNode)'
    BY <1>1, <1>3 DEF IInv, Fresh, OncePerNode, Queued, Received
<1>5. (InAudience /\ OnItsWay /\ InTurn)'
    BY <1>1, <1>3 DEF IInv, InAudience, OnItsWay, InTurn, Queued, Received
<1>6. (AtMostOnce /\ OnlyAudience /\ SenderOrder)'
    BY <1>1 DEF IInv, AtMostOnce, OnlyAudience, SenderOrder
<1> QED
    BY <1>2, <1>4, <1>5, <1>6 DEF IInv

\* What the later proofs need of the types.
LEMMA Types ==
    ASSUME IInv
    PROVE  /\ \A k \in Msg, p \in Node :
                 todo[k][p] \subseteq Client /\ \A d \in todo[k][p] : home[d] \in {p, Gone}
           /\ \A k \in Msg : owed[k] \subseteq Client /\ before[k] \subseteq Msg
           /\ \A p \in Node : inbox[p] \in Seq(Msg) /\ Queued(p) \subseteq Msg
           /\ \A d \in Client : got[d] \in Seq(Msg) /\ Received(d) \subseteq Msg
<1>1. /\ \A k \in Msg, p \in Node :
            todo[k][p] \subseteq Client /\ \A d \in todo[k][p] : home[d] \in {p, Gone}
      /\ \A k \in Msg : owed[k] \subseteq Client /\ before[k] \subseteq Msg
      /\ \A p \in Node : inbox[p] \in Seq(Msg)
      /\ \A d \in Client : got[d] \in Seq(Msg)
    BY DEF IInv, TypeOK
<1> QED
    BY <1>1 DEF Queued, Received, ToSet

\* The initial state satisfies the invariant.
LEMMA InitOK == Init => IInv
<1> SUFFICES ASSUME Init PROVE IInv
    OBVIOUS
<1> USE ClusterAssumption
<1>1. TypeOK
    BY DEF Init, TypeOK, NoCall, Target
<1>2. ToSet(<<>>) = {} /\ IsInjective(<<>>)
    BY DEF ToSet, IsInjective
<1>3. Fresh /\ OncePerNode
    BY <1>2 DEF Init, Fresh, OncePerNode, NoCall, Queued, Received, Reached
<1>4. InAudience /\ OnItsWay /\ InTurn
    BY <1>2 DEF Init, InAudience, OnItsWay, InTurn, NoCall, Reached, Queued, Received
<1>5. AtMostOnce /\ OnlyAudience /\ SenderOrder
    BY <1>2 DEF Init, AtMostOnce, OnlyAudience, SenderOrder
<1> QED
    BY <1>1, <1>3, <1>4, <1>5 DEF IInv

-----------------------------------------------------------------------------
\* A client is offered a message.
LEMMA DeliverKeeps ==
    ASSUME IInv, NEW m \in Msg, NEW n \in Node, NEW c \in Client, Deliver(m, n, c)
    PROVE  IInv'
<1>1. /\ home' = home /\ groups' = groups /\ leaves' = leaves /\ call' = call
      /\ inbox' = inbox /\ owed' = owed /\ audience' = audience /\ before' = before
      /\ c \in todo[m][n]
    BY DEF Deliver, clusterVars, historyVars
<1>2. todo' \in [Msg -> [Node -> SUBSET Client]] /\ got' \in [Client -> Seq(Msg)]
    BY DEF Deliver, IInv, TypeOK
<1>3. /\ todo'[m][n] = todo[m][n] \ {c}
      /\ \A k \in Msg, p \in Node : k # m \/ p # n => todo'[k][p] = todo[k][p]
      /\ \A k \in Msg, p \in Node : todo'[k][p] \subseteq todo[k][p]
    <2>1. /\ todo'[m][n] = todo[m][n] \ {c}
          /\ \A k \in Msg, p \in Node : k # m \/ p # n => todo'[k][p] = todo[k][p]
        BY DEF Deliver, IInv, TypeOK
    <2> QED
        BY <2>1
<1>4. \A d \in Client :
         got'[d] = IF d = c /\ home[c] = n THEN Append(got[c], m) ELSE got[d]
    BY DEF Deliver, IInv, TypeOK
<1>5. /\ \A d \in Client : Received(d)' =
            IF d = c /\ home[c] = n THEN Received(c) \cup {m} ELSE Received(d)
      /\ \A p \in Node : Queued(p)' = Queued(p)
    <2>1. ToSet(Append(got[c], m)) = ToSet(got[c]) \cup {m}
        BY AppendFacts DEF IInv, TypeOK
    <2> QED
        BY <1>1, <1>4, <2>1 DEF Received, Queued
<1>6. TypeOK'
    <2>1. \A k \in Msg, p \in Node : \A d \in todo'[k][p] : home[d] \in {p, Gone}
        BY <1>3 DEF IInv, TypeOK
    <2> QED
        BY <1>1, <1>2, <2>1 DEF IInv, TypeOK
<1>7. /\ call[m].pc # "new" /\ m \notin Received(c) /\ c \in audience[m]
      /\ home[c] \in {n, Gone}
      /\ n = call[m].at \/ Reached(m, n)
    <2>1. call[m].pc # "new"
        BY <1>1 DEF IInv, Fresh
    <2>2. m \notin Received(c) /\ c \in audience[m] /\ home[c] \in {n, Gone}
        BY <1>1 DEF IInv, OncePerNode, InAudience, TypeOK
    <2> QED
        BY <1>1, <2>1, <2>2 DEF Reached
<1>8. \A k \in Msg, p \in Node : Reached(k, p)' => Reached(k, p)
    <2> SUFFICES ASSUME NEW k \in Msg, NEW p \in Node, Reached(k, p)'
                 PROVE  Reached(k, p)
        OBVIOUS
    <2>1. CASE todo'[k][p] # {}
        BY <1>1, <1>3, <2>1 DEF Reached
    <2>2. ASSUME NEW d \in Client, home[d] = p, k \in Received(d)'
          PROVE  Reached(k, p)
        BY <1>1, <1>5, <1>7, <2>2 DEF Reached
    <2> QED
        BY <1>1, <2>1, <2>2 DEF Reached
<1>9. Fresh'
    <2>1. \A d \in Client : home[d] = None => got'[d] = <<>>
        BY <1>4, ClusterAssumption DEF IInv, Fresh
    <2> QED
        BY <1>1, <1>3, <1>5, <1>7, <2>1 DEF IInv, Fresh
<1>10. OncePerNode'
    <2>1. \A k \in Msg, p \in Node : \A d \in todo'[k][p] : k \notin Received(d)'
        <3> SUFFICES ASSUME NEW k \in Msg, NEW p \in Node, NEW d \in todo'[k][p]
                     PROVE  k \notin Received(d)'
            OBVIOUS
        <3>1. d \in todo[k][p] /\ d \in Client /\ home[d] \in {p, Gone}
            BY <1>3 DEF IInv, TypeOK
        <3>2. k \notin Received(d)
            BY <3>1 DEF IInv, OncePerNode
        <3>3. k = m /\ d = c => home[c] # n
            BY <1>3, <3>1, ClusterAssumption
        <3> QED
            BY <1>5, <3>1, <3>2, <3>3
    <2>2. \A k \in Msg : call[k].pc = "done" => todo'[k][call[k].at] = {}
        BY <1>3 DEF IInv, OncePerNode, Fresh
    <2> QED
        BY <1>1, <1>5, <1>8, <2>1, <2>2 DEF IInv, OncePerNode
<1>11. InAudience'
    BY <1>1, <1>3 DEF IInv, InAudience
<1>12. OnItsWay'
    <2> SUFFICES ASSUME NEW k \in Msg, NEW d \in owed[k]
                 PROVE  /\ home[d] \in Node
                        /\ Names(call[k].target, d, groups[d]) /\ d \notin call[k].except
                        /\ \/ d \in todo'[k][home[d]]
                           \/ k \in Received(d)'
                           \/ /\ home[d] # call[k].at
                              /\ \/ call[k].pc = "local"
                                 \/ call[k].pc = "done" /\ k \in Queued(home[d])'
        BY <1>1 DEF OnItsWay
    <2>1. d \in Client
        BY DEF IInv, TypeOK
    <2>2. d \in todo[k][home[d]] => d \in todo'[k][home[d]] \/ k \in Received(d)'
        BY <1>3, <1>5, <2>1 DEF IInv, OnItsWay
    <2> QED
        BY <1>1, <1>5, <2>1, <2>2 DEF IInv, OnItsWay
<1>13. InTurn'
    <2>1. \A k \in Msg, p \in Node : todo'[k][p] \subseteq todo[k][p]
        BY <1>3
    <2>2. \A k \in Msg : before[k] \subseteq Msg
        BY DEF IInv, TypeOK
    <2> QED
        BY <1>1, <1>5, <1>8, <2>1, <2>2 DEF IInv, InTurn
<1>14. AtMostOnce'
    <2>1. home[c] = n => IsInjective(Append(got[c], m))
        BY <1>7, AppendKeepsInjective DEF IInv, AtMostOnce, TypeOK, Received
    <2> QED
        BY <1>4, <2>1 DEF IInv, AtMostOnce
<1>15. OnlyAudience'
    <2>1. \A i \in DOMAIN Append(got[c], m) : c \in audience[Append(got[c], m)[i]]
        BY <1>7, AppendFacts DEF IInv, OnlyAudience, TypeOK
    <2> QED
        BY <1>1, <1>4, <2>1 DEF IInv, OnlyAudience
<1>16. SenderOrder'
    <2>1. home[c] = n => \A o \in Received(c) : m \notin before[o]
        <3> SUFFICES ASSUME home[c] = n, NEW o \in Received(c), m \in before[o]
                     PROVE  FALSE
            OBVIOUS
        <3>1. o \in Msg
            BY DEF IInv, TypeOK, Received, ToSet
        <3>2. call[m].pc = "done" /\ call[m].at = call[o].at
            BY <3>1 DEF IInv, InTurn
        <3>3. n # call[m].at
            BY <1>1, <3>2 DEF IInv, OncePerNode
        <3> QED
            BY <1>1, <3>1, <3>2, <3>3 DEF IInv, InTurn, Reached
    <2>2. ASSUME home[c] = n, NEW i \in DOMAIN Append(got[c], m),
                 NEW j \in DOMAIN Append(got[c], m), i < j
          PROVE  Append(got[c], m)[j] \notin before[Append(got[c], m)[i]]
        <3>1. /\ DOMAIN Append(got[c], m) = DOMAIN got[c] \cup {Len(got[c]) + 1}
              /\ DOMAIN got[c] = 1..Len(got[c]) /\ Len(got[c]) \in Nat
              /\ \A k \in DOMAIN got[c] : Append(got[c], m)[k] = got[c][k]
              /\ Append(got[c], m)[Len(got[c]) + 1] = m
            BY AppendFacts DEF IInv, TypeOK
        <3>2. i \in DOMAIN got[c]
            BY <2>2, <3>1
        <3>3. CASE j \in DOMAIN got[c]
            BY <2>2, <3>1, <3>2, <3>3 DEF IInv, SenderOrder
        <3>4. CASE j = Len(got[c]) + 1
            BY <2>1, <2>2, <3>1, <3>2, <3>4 DEF Received, ToSet
        <3> QED
            BY <3>1, <3>3, <3>4
    <2> QED
        BY <1>1, <1>4, <2>2 DEF IInv, SenderOrder
<1> QED
    BY <1>6, <1>9, <1>10, <1>11, <1>12, <1>13, <1>14, <1>15, <1>16 DEF IInv

-----------------------------------------------------------------------------
\* Taking the head of an inbox: the message was queued once, its call has
\* returned and the node has not begun to handle it, and no earlier call of the
\* same node is queued behind it.
LEMMA TakeHead ==
    ASSUME IInv, NEW n \in Node, NEW m, m = Head(inbox[n]), inbox[n] # <<>>,
           inbox' = [inbox EXCEPT ![n] = Tail(@)]
    PROVE  /\ m \in Msg /\ call[m].pc = "done"
           /\ inbox' \in [Node -> Seq(Msg)]
           /\ Queued(n) = Queued(n)' \cup {m} /\ m \notin Queued(n)'
           /\ \A p \in Node : p # n => Queued(p)' = Queued(p)
           /\ \A p \in Node : Queued(p)' \subseteq Queued(p)
           /\ ~Reached(m, n) /\ todo[m][n] = {}
           /\ \A p \in Node : IsInjective(inbox'[p])
           /\ \A p \in Node : \A i, j \in DOMAIN inbox'[p] :
                 i < j => inbox'[p][j] \notin before[inbox'[p][i]]
           /\ \A o \in before[m] : o \notin Queued(n)'
<1>1. /\ m \in Msg /\ inbox[n] \in Seq(Msg) /\ Tail(inbox[n]) \in Seq(Msg)
      /\ Queued(n) = ToSet(Tail(inbox[n])) \cup {m}
      /\ m \notin ToSet(Tail(inbox[n])) /\ IsInjective(Tail(inbox[n]))
    BY Types, TailFacts, TailKeepsInjective DEF IInv, OncePerNode, Queued
<1>2. /\ inbox' \in [Node -> Seq(Msg)]
      /\ inbox'[n] = Tail(inbox[n])
      /\ \A p \in Node : p # n => inbox'[p] = inbox[p]
    BY <1>1 DEF IInv, TypeOK
<1>3. /\ Queued(n) = Queued(n)' \cup {m} /\ m \notin Queued(n)'
      /\ \A p \in Node : p # n => Queued(p)' = Queued(p)
    BY <1>1, <1>2 DEF Queued
<1>4. \A p \in Node : Queued(p)' \subseteq Queued(p)
    BY <1>3
<1>5. call[m].pc = "done" /\ ~Reached(m, n) /\ todo[m][n] = {}
    BY <1>1, <1>3 DEF IInv, OncePerNode, Reached
<1>6. \A p \in Node : IsInjective(inbox'[p])
    BY <1>1, <1>2 DEF IInv, OncePerNode
<1>7. ASSUME NEW p \in Node, NEW i \in DOMAIN inbox'[p], NEW j \in DOMAIN inbox'[p],
             i < j
      PROVE  inbox'[p][j] \notin before[inbox'[p][i]]
    <2>1. CASE p # n
        BY <1>2, <1>7, <2>1 DEF IInv, InTurn
    <2>2. CASE p = n
        <3>1. /\ i + 1 \in DOMAIN inbox[n] /\ inbox'[p][i] = inbox[n][i + 1]
              /\ j + 1 \in DOMAIN inbox[n] /\ inbox'[p][j] = inbox[n][j + 1]
              /\ i \in Nat /\ j \in Nat
            BY <1>1, <1>2, <2>2, TailFacts
        <3> QED
            BY <1>7, <3>1 DEF IInv, InTurn
    <2> QED
        BY <2>1, <2>2
<1>8. \A o \in before[m] : o \notin Queued(n)'
    <2> SUFFICES ASSUME NEW o \in before[m], NEW i \in DOMAIN Tail(inbox[n]),
                        Tail(inbox[n])[i] = o
                 PROVE  FALSE
        BY <1>2 DEF Queued, ToSet
    <2>1. /\ i + 1 \in DOMAIN inbox[n] /\ inbox[n][i + 1] = o /\ i \in Nat \ {0}
          /\ 1 \in DOMAIN inbox[n] /\ inbox[n][1] = m
        BY <1>1, TailFacts
    <2> QED
        BY <2>1 DEF IInv, InTurn
<1> QED
    BY <1>1, <1>2, <1>3, <1>4, <1>5, <1>6, <1>7, <1>8

\* The bus hands a message to a node.
LEMMA ReceiveKeeps ==
    ASSUME IInv, NEW n \in Node, Receive(n)
    PROVE  IInv'
<1> DEFINE m == Head(inbox[n])
<1>1. /\ home' = home /\ groups' = groups /\ leaves' = leaves /\ call' = call
      /\ got' = got /\ owed' = owed /\ audience' = audience /\ before' = before
      /\ inbox[n] # <<>> /\ inbox' = [inbox EXCEPT ![n] = Tail(@)]
    BY DEF Receive, clusterVars, historyVars
<1>2. /\ m \in Msg /\ call[m].pc = "done" /\ inbox' \in [Node -> Seq(Msg)]
      /\ ~Reached(m, n) /\ todo[m][n] = {}
      /\ \A o \in before[m] : o \notin Queued(n)'
    BY <1>1, TakeHead
<1>3. /\ Queued(n) = Queued(n)' \cup {m} /\ m \notin Queued(n)'
      /\ \A p \in Node : p # n => Queued(p)' = Queued(p)
      /\ \A p \in Node : Queued(p)' \subseteq Queued(p)
    BY <1>1, TakeHead
<1>4. /\ \A p \in Node : IsInjective(inbox'[p])
      /\ \A p \in Node : \A i, j \in DOMAIN inbox'[p] :
            i < j => inbox'[p][j] \notin before[inbox'[p][i]]
    BY <1>1, TakeHead
<1>5. \A d \in Client : home[d] = n /\ n # call[m].at => m \notin Received(d)
    BY <1>2 DEF Reached
<1> DEFINE L == Local(n, call[m].target, call[m].except)
<1>6. /\ todo' \in [Msg -> [Node -> SUBSET Client]]
      /\ n = call[m].at => todo'[m][n] = {}
      /\ n # call[m].at => todo'[m][n] = L
      /\ \A k \in Msg, p \in Node : k # m \/ p # n => todo'[k][p] = todo[k][p]
    <2>1. L \in SUBSET Client
        BY DEF Local
    <2>2. todo \in [Msg -> [Node -> SUBSET Client]]
        BY DEF IInv, TypeOK
    <2>3. CASE n = call[m].at
        BY <1>2, <2>2, <2>3 DEF Receive
    <2>4. CASE n # call[m].at
        <3>1. todo' = [todo EXCEPT ![m][n] = L]
            BY <2>4 DEF Receive
        <3> HIDE DEF m, L
        <3> QED
            BY <1>2, <2>1, <2>2, <2>4, <3>1
    <2> QED
        BY <2>3, <2>4
<1>7. \A d \in todo'[m][n] :
         /\ n # call[m].at /\ d \in Client /\ home[d] = n
         /\ Names(call[m].target, d, groups[d]) /\ d \notin call[m].except
    BY <1>6 DEF Local
<1> HIDE DEF m, L
<1>8. TypeOK'
    <2>1. \A k \in Msg, p \in Node : \A d \in todo'[k][p] : home[d] \in {p, Gone}
        BY <1>6, <1>7, Types
    <2> QED
        BY <1>1, <1>2, <1>6, <2>1 DEF IInv, TypeOK
<1>9. \A d : Received(d)' = Received(d)
    BY <1>1 DEF Received
<1>10. \A k \in Msg, p \in Node : Reached(k, p)' => Reached(k, p) \/ (k = m /\ p = n)
    BY <1>1, <1>6, <1>9 DEF Reached
<1>11. Fresh'
    <2>1. \A k \in Msg : call[k].pc = "new" => k # m
        BY <1>2
    <2> QED
        BY <1>1, <1>3, <1>6, <1>9, <2>1 DEF IInv, Fresh
<1>12. OncePerNode'
    <2>2. \A k \in Msg, p \in Node : \A d \in todo'[k][p] : k \notin Received(d)
        BY <1>5, <1>6, <1>7 DEF IInv, OncePerNode
    <2>3. ASSUME NEW k \in Msg, call[k].pc = "done" PROVE todo'[k][call[k].at] = {}
        <3>1. call[k].at \in Node /\ todo[k][call[k].at] = {}
            BY <2>3 DEF IInv, OncePerNode, Fresh
        <3> QED
            BY <1>6, <3>1
    <2>4. \A k \in Msg, p \in Node :
             Reached(k, p)' => call[k].pc = "done" /\ k \notin Queued(p)'
        BY <1>2, <1>3, <1>10 DEF IInv, OncePerNode
    <2> QED
        BY <1>1, <1>3, <1>4, <1>9, <2>2, <2>3, <2>4 DEF IInv, OncePerNode
<1>13. InAudience'
    <2>1. todo'[m][n] \subseteq audience[m]
        BY <1>2, <1>7 DEF IInv, InAudience
    <2> QED
        BY <1>1, <1>6, <2>1 DEF IInv, InAudience
<1>14. OnItsWay'
    <2> SUFFICES ASSUME NEW k \in Msg, NEW d \in owed[k]
                 PROVE  \/ d \in todo'[k][home[d]]
                        \/ k \in Received(d)
                        \/ /\ home[d] # call[k].at
                           /\ \/ call[k].pc = "local"
                              \/ call[k].pc = "done" /\ k \in Queued(home[d])'
        BY <1>1, <1>9 DEF IInv, OnItsWay
    <2>1. /\ d \in Client /\ home[d] \in Node
          /\ Names(call[k].target, d, groups[d]) /\ d \notin call[k].except
        BY Types DEF IInv, OnItsWay
    <2>2. CASE k = m /\ home[d] = n
        <3>1. n # call[m].at => d \in L
            BY <2>1, <2>2 DEF L, Local
        <3> QED
            BY <1>2, <1>6, <2>2, <3>1 DEF IInv, OnItsWay
    <2>3. CASE k # m \/ home[d] # n
        <3>1. todo'[k][home[d]] = todo[k][home[d]]
            BY <1>6, <2>1, <2>3
        <3>2. k \in Queued(home[d]) => k \in Queued(home[d])'
            BY <1>1, <1>3, <2>1, <2>3
        <3> QED
            BY <3>1, <3>2 DEF IInv, OnItsWay
    <2> QED
        BY <2>2, <2>3
<1>15. InTurn'
    <2>3. n # call[m].at => \A o \in before[m] : todo'[o][n] = {}
        <3> SUFFICES ASSUME n # call[m].at, NEW o \in before[m]
                     PROVE  todo'[o][n] = {}
            OBVIOUS
        <3>1. o \in Msg /\ o # m /\ call[o].at # n
            BY <1>2, Types DEF IInv, InTurn
        <3>2. todo[o][n] = {}
            BY <3>1 DEF Receive, Handling
        <3> QED
            BY <1>6, <3>1, <3>2
    <2>4. ASSUME NEW k \in Msg, NEW p \in Node, Reached(k, p), NEW o \in before[k]
          PROVE  o \notin Queued(p)' /\ todo'[o][p] = {}
        <3>1. o \in Msg /\ o \notin Queued(p) /\ todo[o][p] = {}
            BY <2>4, Types DEF IInv, InTurn
        <3>2. o # m \/ p # n
            BY <1>3, <3>1
        <3> QED
            BY <1>3, <1>6, <3>1, <3>2
    <2>5. ASSUME NEW k \in Msg, NEW p \in Node, Reached(k, p)', NEW o \in before[k]
          PROVE  o \notin Queued(p)' /\ todo'[o][p] = {}
        <3>1. Reached(k, p)' => p # call[k].at
            BY <1>1 DEF Reached
        <3> QED
            BY <1>2, <1>10, <2>3, <2>4, <2>5, <3>1
    <2>6. \A k \in Msg : \A o \in before[k] :
             /\ o # k /\ call[k].pc # "new"
             /\ call[o].pc = "done" /\ call[o].at = call[k].at
        BY DEF IInv, InTurn
    <2> QED
        BY <1>1, <1>4, <2>5, <2>6 DEF InTurn
<1>16. (AtMostOnce /\ OnlyAudience /\ SenderOrder)'
    BY <1>1 DEF IInv, AtMostOnce, OnlyAudience, SenderOrder
<1> QED
    BY <1>8, <1>11, <1>12, <1>13, <1>14, <1>15, <1>16 DEF IInv

\* The bus loses a message for a node.
LEMMA BusLosesKeeps ==
    ASSUME IInv, NEW n \in Node, BusLoses(n)
    PROVE  IInv'
<1> DEFINE m == Head(inbox[n])
<1>1. /\ home' = home /\ groups' = groups /\ leaves' = leaves /\ call' = call
      /\ got' = got /\ audience' = audience /\ before' = before /\ todo' = todo
      /\ inbox[n] # <<>> /\ inbox' = [inbox EXCEPT ![n] = Tail(@)]
    BY DEF BusLoses, clusterVars
<1>2. m \in Msg /\ inbox' \in [Node -> Seq(Msg)]
    BY <1>1, TakeHead
<1>3. /\ Queued(n) = Queued(n)' \cup {m} /\ m \notin Queued(n)'
      /\ \A p \in Node : p # n => Queued(p)' = Queued(p)
      /\ \A p \in Node : Queued(p)' \subseteq Queued(p)
    BY <1>1, TakeHead
<1>4. /\ \A p \in Node : IsInjective(inbox'[p])
      /\ \A p \in Node : \A i, j \in DOMAIN inbox'[p] :
            i < j => inbox'[p][j] \notin before[inbox'[p][i]]
    BY <1>1, TakeHead
<1>5. /\ owed' \in [Msg -> SUBSET Client]
      /\ \A d \in owed'[m] : d \in owed[m] /\ (home[d] # n \/ call[m].at = n)
      /\ \A k \in Msg : owed'[k] \subseteq owed[k]
    <2>1. owed' = [owed EXCEPT ![m] = {c \in owed[m] : home[c] # n \/ call[m].at = n}]
        BY DEF BusLoses
    <2>2. owed \in [Msg -> SUBSET Client]
        BY DEF IInv, TypeOK
    <2> HIDE DEF m
    <2> QED
        BY <1>2, <2>1, <2>2
<1> HIDE DEF m
<1>6. TypeOK'
    BY <1>1, <1>2, <1>5 DEF IInv, TypeOK
<1>7. /\ \A d : Received(d)' = Received(d)
      /\ \A k, p : Reached(k, p)' = Reached(k, p)
    BY <1>1 DEF Received, Reached
<1>8. Fresh'
    BY <1>1, <1>3, <1>5, <1>7 DEF IInv, Fresh
<1>9. OncePerNode'
    BY <1>1, <1>3, <1>4, <1>7 DEF IInv, OncePerNode
<1>10. InAudience'
    BY <1>1 DEF IInv, InAudience
<1>11. OnItsWay'
    <2> SUFFICES ASSUME NEW k \in Msg, NEW d \in owed'[k]
                 PROVE  k \in Queued(home[d]) /\ home[d] # call[k].at
                           => k \in Queued(home[d])'
        BY <1>1, <1>5, <1>7 DEF IInv, OnItsWay
    <2>1. home[d] \in Node
        BY <1>5 DEF IInv, OnItsWay
    <2> QED
        BY <1>1, <1>3, <1>5, <2>1
<1>12. InTurn'
    BY <1>1, <1>3, <1>4, <1>7 DEF IInv, InTurn
<1>13. (AtMostOnce /\ OnlyAudience /\ SenderOrder)'
    BY <1>1 DEF IInv, AtMostOnce, OnlyAudience, SenderOrder
<1> QED
    BY <1>6, <1>8, <1>9, <1>10, <1>11, <1>12, <1>13 DEF IInv

-----------------------------------------------------------------------------
\* The context of a call ends during the local delivery.
LEMMA CancelKeeps ==
    ASSUME IInv, NEW m \in Msg, Cancel(m)
    PROVE  IInv'
<1> DEFINE n == call[m].at
<1>1. /\ home' = home /\ groups' = groups /\ leaves' = leaves /\ call' = call
      /\ got' = got /\ audience' = audience /\ before' = before /\ inbox' = inbox
      /\ call[m].pc # "new"
    BY DEF Cancel, clusterVars
<1>2. n \in Node
    BY <1>1 DEF IInv, Fresh
<1>3. /\ todo' \in [Msg -> [Node -> SUBSET Client]]
      /\ todo'[m][n] = {}
      /\ \A k \in Msg, p \in Node : k # m \/ p # n => todo'[k][p] = todo[k][p]
    <2>1. todo' = [todo EXCEPT ![m][n] = {}] /\ todo \in [Msg -> [Node -> SUBSET Client]]
        BY DEF Cancel, IInv, TypeOK
    <2> HIDE DEF n
    <2> QED
        BY <1>2, <2>1
<1>4. /\ owed' \in [Msg -> SUBSET Client]
      /\ owed'[m] = owed[m] \ todo[m][n]
      /\ \A k \in Msg : k # m => owed'[k] = owed[k]
    <2>1. owed' = [owed EXCEPT ![m] = @ \ todo[m][n]] /\ owed \in [Msg -> SUBSET Client]
        BY DEF Cancel, IInv, TypeOK
    <2> HIDE DEF n
    <2> QED
        BY <2>1
<1> HIDE DEF n
<1>5. /\ \A k \in Msg, p \in Node : todo'[k][p] \subseteq todo[k][p]
      /\ \A k \in Msg : owed'[k] \subseteq owed[k]
    BY <1>3, <1>4
<1>6. TypeOK'
    <2>1. \A k \in Msg, p \in Node : \A d \in todo'[k][p] : home[d] \in {p, Gone}
        BY <1>5, Types
    <2> QED
        BY <1>1, <1>3, <1>4, <2>1 DEF IInv, TypeOK
<1>7. /\ \A d : Received(d)' = Received(d)
      /\ \A p : Queued(p)' = Queued(p)
    BY <1>1 DEF Received, Queued
<1>8. \A k \in Msg, p \in Node : Reached(k, p)' => Reached(k, p)
    BY <1>1, <1>5, <1>7 DEF Reached
<1>9. Fresh'
    BY <1>1, <1>5, <1>7 DEF IInv, Fresh
<1>10. OncePerNode'
    <2>1. ASSUME NEW k \in Msg, call[k].pc = "done" PROVE todo'[k][call[k].at] = {}
        <3>1. call[k].at \in Node /\ todo[k][call[k].at] = {}
            BY <2>1 DEF IInv, OncePerNode, Fresh
        <3> QED
            BY <1>5, <3>1
    <2>2. \A k \in Msg, p \in Node : \A d \in todo'[k][p] : k \notin Received(d)
        BY <1>5 DEF IInv, OncePerNode
    <2> QED
        BY <1>1, <1>7, <1>8, <2>1, <2>2 DEF IInv, OncePerNode
<1>11. InAudience'
    BY <1>1, <1>5 DEF IInv, InAudience
<1>12. OnItsWay'
    <2> SUFFICES ASSUME NEW k \in Msg, NEW d \in owed'[k]
                 PROVE  d \in todo[k][home[d]] => d \in todo'[k][home[d]]
        BY <1>1, <1>5, <1>7 DEF IInv, OnItsWay
    <2>1. home[d] \in Node
        BY <1>5 DEF IInv, OnItsWay
    <2> QED
        BY <1>3, <1>4, <2>1
<1>13. InTurn'
    <2>1. ASSUME NEW k \in Msg, NEW p \in Node, Reached(k, p), NEW o \in before[k]
          PROVE  o \notin Queued(p) /\ todo'[o][p] = {}
        BY <1>5, <2>1, Types DEF IInv, InTurn
    <2> QED
        BY <1>1, <1>7, <1>8, <2>1 DEF IInv, InTurn
<1>14. (AtMostOnce /\ OnlyAudience /\ SenderOrder)'
    BY <1>1 DEF IInv, AtMostOnce, OnlyAudience, SenderOrder
<1> QED
    BY <1>6, <1>9, <1>10, <1>11, <1>12, <1>13, <1>14 DEF IInv

-----------------------------------------------------------------------------
\* The call of m returns.
LEMMA FinishFacts ==
    ASSUME IInv, NEW m \in Msg, Finish(m), call[m].pc \in {"local", "direct"}
    PROVE  /\ call' \in [Msg -> [pc : {"new", "local", "direct", "done"},
                                 at : Node \cup {None}, target : Target,
                                 except : SUBSET Client]]
           /\ call'[m].pc = "done" /\ call[m].pc # "new" /\ call[m].pc # "done"
           /\ \A k \in Msg : k # m => call'[k].pc = call[k].pc
           /\ \A k \in Msg : /\ call'[k].at = call[k].at
                            /\ call'[k].target = call[k].target
                            /\ call'[k].except = call[k].except
<1>1. /\ call' = [call EXCEPT ![m].pc = "done"]
      /\ call \in [Msg -> [pc : {"new", "local", "direct", "done"},
                           at : Node \cup {None}, target : Target,
                           except : SUBSET Client]]
    BY DEF Finish, IInv, TypeOK
<1>2. /\ call'[m].pc = "done" /\ call'[m].at = call[m].at
      /\ call'[m].target = call[m].target /\ call'[m].except = call[m].except
    BY <1>1
<1>3. \A k \in Msg : k # m => call'[k] = call[k]
    BY <1>1
<1> QED
    BY <1>1, <1>2, <1>3

\* What is left to show when a call returns: the inboxes stay in order, and the
\* owed clients of other nodes will get the message from there.
LEMMA FinishKeeps ==
    ASSUME NEW m \in Msg
    PROVE  (/\ IInv /\ Finish(m) /\ call[m].pc \in {"local", "direct"}
            /\ todo[m][call[m].at] = {}
            /\ UNCHANGED <<clusterVars, todo, got, audience, before>>
            /\ \A p \in Node : /\ Queued(p) \subseteq Queued(p)'
                               /\ Queued(p)' \subseteq Queued(p) \cup {m}
            /\ \A p \in Node : IsInjective(inbox'[p])
            /\ \A p \in Node : \A i, j \in DOMAIN inbox'[p] :
                  i < j => inbox'[p][j] \notin before[inbox'[p][i]]
            /\ inbox' \in [Node -> Seq(Msg)]
            /\ owed' \in [Msg -> SUBSET Client]
            /\ \A k \in Msg : owed'[k] \subseteq owed[k]
            /\ \A d \in owed'[m] :
                  m \in Received(d) \/ (home[d] # call[m].at /\ m \in Queued(home[d])'))
              => IInv'
<1>1. ASSUME IInv, Finish(m), call[m].pc \in {"local", "direct"},
             todo[m][call[m].at] = {},
             UNCHANGED <<clusterVars, todo, got, audience, before>>,
             \A p \in Node : /\ Queued(p) \subseteq Queued(p)'
                             /\ Queued(p)' \subseteq Queued(p) \cup {m},
             \A p \in Node : IsInjective(inbox'[p]),
             \A p \in Node : \A i, j \in DOMAIN inbox'[p] :
                i < j => inbox'[p][j] \notin before[inbox'[p][i]],
             inbox' \in [Node -> Seq(Msg)],
             owed' \in [Msg -> SUBSET Client],
             \A k \in Msg : owed'[k] \subseteq owed[k],
             \A d \in owed'[m] :
                m \in Received(d) \/ (home[d] # call[m].at /\ m \in Queued(home[d])')
      PROVE  IInv'
    <2>1. /\ home' = home /\ groups' = groups /\ leaves' = leaves /\ todo' = todo
          /\ got' = got /\ audience' = audience /\ before' = before
        BY <1>1 DEF clusterVars
    <2>2. /\ TypeOK /\ Fresh /\ OncePerNode /\ InAudience /\ OnItsWay /\ InTurn
          /\ AtMostOnce /\ OnlyAudience /\ SenderOrder
        BY <1>1 DEF IInv
    <2>3. /\ call'[m].pc = "done" /\ call[m].pc # "new" /\ call[m].pc # "done"
          /\ \A k \in Msg : k # m => call'[k].pc = call[k].pc
        BY <1>1, FinishFacts
    <2>4. \A k \in Msg : /\ call'[k].at = call[k].at
                         /\ call'[k].target = call[k].target
                         /\ call'[k].except = call[k].except
        BY <1>1, FinishFacts
    <2>5. \A p \in Node : /\ Queued(p) \subseteq Queued(p)'
                          /\ Queued(p)' \subseteq Queued(p) \cup {m}
        BY <1>1
    <2>6. /\ \A d : Received(d)' = Received(d)
          /\ \A k \in Msg : \A p : Reached(k, p)' <=> Reached(k, p)
        BY <2>1, <2>4 DEF Received, Reached
    <2>7. \A p \in Node : ~Reached(m, p) /\ m \notin Queued(p)
        BY <2>2, <2>3 DEF OncePerNode
    <2>8. TypeOK'
        <3>1. /\ inbox' \in [Node -> Seq(Msg)] /\ owed' \in [Msg -> SUBSET Client]
              /\ call' \in [Msg -> [pc : {"new", "local", "direct", "done"},
                                    at : Node \cup {None}, target : Target,
                                    except : SUBSET Client]]
            BY <1>1, FinishFacts
        <3> QED
            BY <2>1, <2>2, <3>1 DEF TypeOK
    <2>9. Fresh'
        <3> SUFFICES ASSUME NEW k \in Msg
                     PROVE  /\ call'[k].pc = "new" =>
                                  /\ \A n \in Node : todo[k][n] = {} /\ k \notin Queued(n)'
                                  /\ \A c \in Client : k \notin Received(c)
                                  /\ owed'[k] = {} /\ before[k] = {}
                            /\ call'[k].pc # "new" => call'[k].at \in Node
            BY <2>1, <2>2, <2>6 DEF Fresh
        <3>1. owed'[k] \subseteq owed[k]
            BY <1>1
        <3>2. CASE k = m
            BY <2>2, <2>3, <2>4, <3>2 DEF Fresh
        <3>3. CASE k # m
            BY <2>2, <2>3, <2>4, <2>5, <3>1, <3>3 DEF Fresh
        <3> QED
            BY <3>2, <3>3
    <2>10. OncePerNode'
        <3>1. \A p \in Node : IsInjective(inbox'[p])
            BY <1>1
        <3>2. \A k \in Msg, p \in Node : k \in Queued(p)' => call'[k].pc = "done"
            BY <2>2, <2>3, <2>5 DEF OncePerNode
        <3>3. \A k \in Msg, p \in Node :
                 Reached(k, p) => call'[k].pc = "done" /\ k \notin Queued(p)'
            BY <2>2, <2>3, <2>5, <2>7 DEF OncePerNode
        <3>4. \A k \in Msg : call'[k].pc = "done" => todo[k][call[k].at] = {}
            BY <1>1, <2>2, <2>3 DEF OncePerNode
        <3> QED
            BY <2>1, <2>2, <2>4, <2>6, <3>1, <3>2, <3>3, <3>4 DEF OncePerNode
    <2>11. InAudience'
        <3>1. \A k \in Msg : call'[k].pc # "new" => call[k].pc # "new"
            BY <2>3
        <3> QED
            BY <2>1, <2>2, <2>4, <3>1 DEF InAudience
    <2>12. OnItsWay'
        <3> SUFFICES ASSUME NEW k \in Msg, NEW d \in owed'[k]
                     PROVE  \/ d \in todo[k][home[d]]
                            \/ k \in Received(d)
                            \/ /\ home[d] # call[k].at
                               /\ \/ call'[k].pc = "local"
                                  \/ call'[k].pc = "done" /\ k \in Queued(home[d])'
            <4>1. \A k \in Msg : owed'[k] \subseteq owed[k]
                BY <1>1
            <4> QED
                BY <2>1, <2>2, <2>4, <2>6, <4>1 DEF OnItsWay
        <3>1. d \in owed[k] /\ home[d] \in Node
            BY <1>1, <2>2 DEF OnItsWay
        <3>2. CASE k = m
            BY <1>1, <2>3, <3>2
        <3>3. CASE k # m
            BY <2>1, <2>2, <2>3, <2>5, <3>1, <3>3 DEF OnItsWay
        <3> QED
            BY <3>2, <3>3
    <2>13. InTurn'
        <3>1. \A k \in Msg : before[k] \subseteq Msg
            BY <1>1, Types
        <3>2. \A k \in Msg : \A o \in before[k] :
                 /\ o # m /\ o # k /\ call'[k].pc # "new"
                 /\ call'[o].pc = "done" /\ call'[o].at = call'[k].at
            BY <2>2, <2>3, <2>4, <3>1 DEF InTurn
        <3>3. \A k \in Msg, p \in Node : Reached(k, p) =>
                 \A o \in before[k] : o \notin Queued(p)' /\ todo[o][p] = {}
            BY <2>2, <2>5, <3>2 DEF InTurn
        <3>4. \A p \in Node : \A i, j \in DOMAIN inbox'[p] :
                 i < j => inbox'[p][j] \notin before[inbox'[p][i]]
            BY <1>1
        <3> QED
            BY <2>1, <2>6, <3>2, <3>3, <3>4 DEF InTurn
    <2>14. (AtMostOnce /\ OnlyAudience /\ SenderOrder)'
        BY <2>1, <2>2 DEF AtMostOnce, OnlyAudience, SenderOrder
    <2> QED
        BY <2>8, <2>9, <2>10, <2>11, <2>12, <2>13, <2>14 DEF IInv
<1> QED
    BY <1>1

\* A message that goes to one client of this node needs no bus.
LEMMA DirectDoneKeeps ==
    ASSUME IInv, NEW m \in Msg, DirectDone(m)
    PROVE  IInv'
<1>1. /\ UNCHANGED <<clusterVars, todo, got, audience, before>>
      /\ inbox' = inbox /\ owed' = owed
      /\ Finish(m) /\ call[m].pc = "direct" /\ todo[m][call[m].at] = {}
    BY DEF DirectDone, deliveryVars, historyVars
<1>2. \A d \in owed'[m] : m \in Received(d)
    <2>1. \A p \in Node : p # call[m].at => todo[m][p] = {}
        BY <1>1 DEF IInv, OncePerNode, Reached
    <2> QED
        BY <1>1, <2>1 DEF IInv, OnItsWay
<1>3. /\ \A p \in Node : Queued(p)' = Queued(p)
      /\ \A p \in Node : IsInjective(inbox'[p])
      /\ \A p \in Node : \A i, j \in DOMAIN inbox'[p] :
            i < j => inbox'[p][j] \notin before[inbox'[p][i]]
    BY <1>1 DEF Queued, IInv, OncePerNode, InTurn
<1>4. inbox' \in [Node -> Seq(Msg)] /\ owed' \in [Msg -> SUBSET Client]
    BY <1>1 DEF IInv, TypeOK
<1> QED
    BY <1>1, <1>2, <1>3, <1>4, FinishKeeps

\* Publish fails: the clients of other nodes are not owed the message any more.
LEMMA PublishFailsKeeps ==
    ASSUME IInv, NEW m \in Msg, PublishFails(m)
    PROVE  IInv'
<1>1. /\ UNCHANGED <<clusterVars, todo, got, audience, before>> /\ inbox' = inbox
      /\ owed' = [owed EXCEPT ![m] = {c \in @ : home[c] = call[m].at}]
      /\ Finish(m) /\ call[m].pc = "local" /\ todo[m][call[m].at] = {}
    BY DEF PublishFails, deliveryVars
<1>2. inbox' \in [Node -> Seq(Msg)] /\ owed \in [Msg -> SUBSET Client]
    BY <1>1 DEF IInv, TypeOK
<1>3. /\ owed' \in [Msg -> SUBSET Client]
      /\ owed'[m] = {c \in owed[m] : home[c] = call[m].at}
      /\ \A k \in Msg : owed'[k] \subseteq owed[k]
    BY <1>1, <1>2
<1>4. \A d \in owed'[m] : m \in Received(d)
    BY <1>1, <1>3 DEF IInv, OnItsWay
<1>5. /\ \A p \in Node : Queued(p)' = Queued(p)
      /\ \A p \in Node : IsInjective(inbox'[p])
      /\ \A p \in Node : \A i, j \in DOMAIN inbox'[p] :
            i < j => inbox'[p][j] \notin before[inbox'[p][i]]
    BY <1>1 DEF Queued, IInv, OncePerNode, InTurn
<1> QED
    BY <1>1, <1>2, <1>3, <1>4, <1>5, FinishKeeps

\* Publish puts the message behind all that is queued, for every node.
LEMMA PublishKeeps ==
    ASSUME IInv, NEW m \in Msg, Publish(m)
    PROVE  IInv'
<1>1. /\ UNCHANGED <<clusterVars, todo, got, audience, before>> /\ owed' = owed
      /\ inbox' = [n \in Node |-> Append(inbox[n], m)] /\ home' = home
      /\ Finish(m) /\ call[m].pc = "local" /\ todo[m][call[m].at] = {}
    BY DEF Publish, historyVars, clusterVars
<1>2. /\ inbox \in [Node -> Seq(Msg)] /\ owed' \in [Msg -> SUBSET Client]
      /\ inbox' \in [Node -> Seq(Msg)]
      /\ \A p \in Node : inbox'[p] = Append(inbox[p], m)
    BY <1>1 DEF IInv, TypeOK
<1>3. \A p \in Node : m \notin Queued(p) /\ \A k \in Msg : m \notin before[k]
    BY <1>1 DEF IInv, OncePerNode, InTurn
<1>4. ASSUME NEW p \in Node PROVE Queued(p)' = Queued(p) \cup {m}
    <2>1. inbox[p] \in Seq(Msg) /\ inbox'[p] = Append(inbox[p], m)
        BY <1>2
    <2>2. ToSet(Append(inbox[p], m)) = ToSet(inbox[p]) \cup {m}
        BY <2>1, AppendFacts
    <2> QED
        BY <2>1, <2>2 DEF Queued
<1>5. ASSUME NEW p \in Node PROVE IsInjective(inbox'[p])
    <2>1. inbox[p] \in Seq(Msg) /\ inbox'[p] = Append(inbox[p], m)
        BY <1>2
    <2>2. IsInjective(inbox[p]) /\ m \notin ToSet(inbox[p])
        BY <1>3 DEF IInv, OncePerNode, Queued
    <2>3. IsInjective(Append(inbox[p], m))
        BY <2>1, <2>2, AppendKeepsInjective
    <2> QED
        BY <2>1, <2>3
<1>6. ASSUME NEW p \in Node, NEW i \in DOMAIN inbox'[p], NEW j \in DOMAIN inbox'[p],
             i < j
      PROVE  inbox'[p][j] \notin before[inbox'[p][i]]
    <2>1. /\ DOMAIN inbox'[p] = DOMAIN inbox[p] \cup {Len(inbox[p]) + 1}
          /\ DOMAIN inbox[p] = 1..Len(inbox[p]) /\ Len(inbox[p]) \in Nat
          /\ \A k \in DOMAIN inbox[p] : inbox'[p][k] = inbox[p][k]
          /\ inbox'[p][Len(inbox[p]) + 1] = m
        <3>1. inbox[p] \in Seq(Msg) /\ inbox'[p] = Append(inbox[p], m)
            BY <1>2
        <3> QED
            BY <3>1, AppendFacts
    <2>2. i \in DOMAIN inbox[p] /\ inbox[p][i] \in Msg
        BY <1>2, <1>6, <2>1
    <2>3. CASE j \in DOMAIN inbox[p]
        BY <1>6, <2>1, <2>2, <2>3 DEF IInv, InTurn
    <2>4. CASE j = Len(inbox[p]) + 1
        BY <1>3, <2>1, <2>2, <2>4
    <2> QED
        BY <2>1, <2>3, <2>4
<1>7. \A d \in owed'[m] :
         m \in Received(d) \/ (home[d] # call[m].at /\ m \in Queued(home[d])')
    BY <1>1, <1>4 DEF IInv, OnItsWay
<1> QED
    BY <1>1, <1>2, <1>4, <1>5, <1>6, <1>7, FinishKeeps

-----------------------------------------------------------------------------
\* A call begins: what it finds on its own node it will try, the rest of the
\* clients it names are on nodes that wait for the bus.
LEMMA BeginKeeps ==
    ASSUME IInv, NEW m \in Msg, NEW n \in Node, NEW t \in Target,
           NEW x \in SUBSET Client, Begin(m, n, t, x)
    PROVE  IInv'
<1> DEFINE named == {c \in Client : home[c] \in Node /\ Names(t, c, groups[c])} \ x
<1> DEFINE step == IF t \in Client /\ home[t] = n THEN "direct" ELSE "local"
<1>1. /\ home' = home /\ groups' = groups /\ leaves' = leaves
      /\ inbox' = inbox /\ got' = got /\ call[m].pc = "new"
    BY DEF Begin, clusterVars
<1>2. /\ call'[m].pc = step /\ call'[m].at = n /\ call'[m].target = t
      /\ call'[m].except = x
      /\ \A k \in Msg : k # m => call'[k] = call[k]
      /\ call' \in [Msg -> [pc : {"new", "local", "direct", "done"},
                            at : Node \cup {None}, target : Target,
                            except : SUBSET Client]]
    <2>1. /\ call \in [Msg -> [pc : {"new", "local", "direct", "done"},
                               at : Node \cup {None}, target : Target,
                               except : SUBSET Client]]
          /\ call' = [call EXCEPT ![m] = [pc |-> step, at |-> n, target |-> t,
                                          except |-> x]]
          /\ step \in {"local", "direct"}
        BY DEF Begin, IInv, TypeOK
    <2> HIDE DEF step
    <2> QED
        BY <2>1
<1>3. /\ todo' \in [Msg -> [Node -> SUBSET Client]]
      /\ todo'[m][n] = Local(n, t, x)
      /\ \A k \in Msg, p \in Node : k # m \/ p # n => todo'[k][p] = todo[k][p]
    <2>1. /\ todo \in [Msg -> [Node -> SUBSET Client]]
          /\ todo' = [todo EXCEPT ![m][n] = Local(n, t, x)]
          /\ Local(n, t, x) \in SUBSET Client
        BY DEF Begin, IInv, TypeOK, Local
    <2> QED
        BY <2>1
<1>4. /\ owed' \in [Msg -> SUBSET Client] /\ audience' \in [Msg -> SUBSET Client]
      /\ owed'[m] = named /\ audience'[m] = named
      /\ \A k \in Msg : k # m => owed'[k] = owed[k] /\ audience'[k] = audience[k]
    <2>1. /\ owed \in [Msg -> SUBSET Client] /\ audience \in [Msg -> SUBSET Client]
          /\ owed' = [owed EXCEPT ![m] = named]
          /\ audience' = [audience EXCEPT ![m] = named]
          /\ named \in SUBSET Client
        BY DEF Begin, IInv, TypeOK
    <2> HIDE DEF named
    <2> QED
        BY <2>1
<1>5. /\ before' \in [Msg -> SUBSET Msg]
      /\ before'[m] = {o \in Msg : call[o].pc = "done" /\ call[o].at = n}
      /\ \A k \in Msg : k # m => before'[k] = before[k]
    BY DEF Begin, IInv, TypeOK
<1>6. /\ step # "new" /\ step # "done"
      /\ step = "direct" <=> t \in Client /\ home[t] = n
      /\ step = "direct" \/ step = "local"
    OBVIOUS
<1>7. \A d \in Local(n, t, x) : d \in named /\ home[d] = n /\ d \in Client
    BY DEF Local
<1>8. \A d \in named : /\ d \in Client /\ home[d] \in Node /\ d \notin x
                       /\ Names(t, d, groups[d])
                       /\ home[d] = n => d \in Local(n, t, x)
                       /\ step = "direct" => home[d] = n
    <2> SUFFICES ASSUME NEW d \in named, step = "direct" PROVE home[d] = n
        BY DEF Local
    <2>1. groups[d] \subseteq Group /\ Group \cap Client = {} /\ All \notin Client
        BY ClusterAssumption DEF IInv, TypeOK
    <2> QED
        BY <2>1 DEF Names
<1> HIDE DEF named, step
<1>9. TypeOK'
    <2>1. \A k \in Msg, p \in Node : \A d \in todo'[k][p] : home[d] \in {p, Gone}
        BY <1>3, <1>7, Types
    <2> QED
        BY <1>1, <1>2, <1>3, <1>4, <1>5, <2>1 DEF IInv, TypeOK
<1>10. /\ \A d : Received(d)' = Received(d)
       /\ \A p : Queued(p)' = Queued(p)
    BY <1>1 DEF Received, Queued
<1>11. /\ \A p \in Node : todo[m][p] = {} /\ m \notin Queued(p)
       /\ \A d \in Client : m \notin Received(d)
    BY <1>1 DEF IInv, Fresh
<1>12. /\ \A k \in Msg, p \in Node : k # m => (Reached(k, p)' <=> Reached(k, p))
       /\ \A p \in Node : ~Reached(m, p)'
    <2>1. \A k \in Msg, p \in Node : k # m => (Reached(k, p)' <=> Reached(k, p))
        BY <1>1, <1>2, <1>3, <1>10 DEF Reached
    <2>2. \A p \in Node : ~Reached(m, p)'
        BY <1>1, <1>2, <1>3, <1>10, <1>11 DEF Reached
    <2> QED
        BY <2>1, <2>2
<1>13. Fresh'
    <2> SUFFICES ASSUME NEW k \in Msg
                 PROVE  /\ call'[k].pc = "new" =>
                              /\ \A p \in Node : todo'[k][p] = {} /\ k \notin Queued(p)
                              /\ \A c \in Client : k \notin Received(c)
                              /\ owed'[k] = {} /\ before'[k] = {}
                        /\ call'[k].pc # "new" => call'[k].at \in Node
        BY <1>1, <1>10 DEF IInv, Fresh
    <2>1. CASE k = m
        BY <1>2, <1>6, <2>1
    <2>2. CASE k # m
        <3>1. /\ call'[k] = call[k] /\ owed'[k] = owed[k] /\ before'[k] = before[k]
              /\ \A p \in Node : todo'[k][p] = todo[k][p]
            BY <1>2, <1>3, <1>4, <1>5, <2>2
        <3> QED
            BY <3>1 DEF IInv, Fresh
    <2> QED
        BY <2>1, <2>2
<1>14. OncePerNode'
    <2>1. \A k \in Msg, p \in Node : k \in Queued(p) => call'[k].pc = "done"
        BY <1>2, <1>11 DEF IInv, OncePerNode
    <2>2. \A k \in Msg, p \in Node :
             Reached(k, p)' => call'[k].pc = "done" /\ k \notin Queued(p)
        BY <1>2, <1>12 DEF IInv, OncePerNode
    <2>3. \A k \in Msg, p \in Node : \A d \in todo'[k][p] : k \notin Received(d)
        BY <1>3, <1>7, <1>11 DEF IInv, OncePerNode
    <2>4. ASSUME NEW k \in Msg, call'[k].pc = "done" PROVE todo'[k][call'[k].at] = {}
        <3>1. k # m /\ call'[k] = call[k]
            BY <1>2, <1>6, <2>4
        <3>2. call[k].at \in Node /\ todo[k][call[k].at] = {}
            BY <2>4, <3>1 DEF IInv, OncePerNode, Fresh
        <3> QED
            BY <1>3, <3>1, <3>2
    <2> QED
        BY <1>1, <1>10, <2>1, <2>2, <2>3, <2>4 DEF IInv, OncePerNode
<1>15. InAudience'
    <2>1. ASSUME NEW k \in Msg, NEW d \in Client, call'[k].pc # "new", home[d] \in Node,
                 Names(call'[k].target, d, groups[d]), d \notin call'[k].except
          PROVE  d \in audience'[k]
        <3>1. CASE k = m
            BY <1>2, <1>4, <2>1, <3>1 DEF named
        <3>2. CASE k # m
            BY <1>2, <1>4, <2>1, <3>2 DEF IInv, InAudience
        <3> QED
            BY <3>1, <3>2
    <2>2. ASSUME NEW k \in Msg, NEW p \in Node PROVE todo'[k][p] \subseteq audience'[k]
        <3>1. CASE k = m
            BY <1>3, <1>4, <1>7, <1>11, <3>1
        <3>2. CASE k # m
            BY <1>3, <1>4, <3>2 DEF IInv, InAudience
        <3> QED
            BY <3>1, <3>2
    <2> QED
        BY <1>1, <2>1, <2>2 DEF InAudience
<1>16. OnItsWay'
    <2> SUFFICES ASSUME NEW k \in Msg, NEW d \in owed'[k]
                 PROVE  /\ home[d] \in Node
                        /\ Names(call'[k].target, d, groups[d]) /\ d \notin call'[k].except
                        /\ \/ d \in todo'[k][home[d]]
                           \/ k \in Received(d)
                           \/ /\ home[d] # call'[k].at
                              /\ \/ call'[k].pc = "local"
                                 \/ call'[k].pc = "done" /\ k \in Queued(home[d])
        BY <1>1, <1>10 DEF OnItsWay
    <2>1. CASE k = m
        <3>1. /\ d \in named /\ call'[k].target = t /\ call'[k].except = x
              /\ call'[k].at = n /\ call'[k].pc = step
            BY <1>2, <1>4, <2>1
        <3>2. /\ home[d] \in Node /\ d \notin x /\ Names(t, d, groups[d])
              /\ home[d] = n => d \in Local(n, t, x)
              /\ step = "direct" => home[d] = n
            BY <1>8, <3>1
        <3>3. todo'[k][n] = Local(n, t, x)
            BY <1>3, <2>1
        <3>4. CASE home[d] = n
            <4>1. d \in todo'[k][home[d]]
                BY <3>2, <3>3, <3>4
            <4> QED
                BY <3>1, <3>2, <4>1
        <3>5. CASE home[d] # n
            <4>1. call'[k].pc = "local" /\ home[d] # call'[k].at
                BY <1>6, <3>1, <3>2, <3>5
            <4> QED
                BY <3>1, <3>2, <4>1
        <3> QED
            BY <3>4, <3>5
    <2>2. CASE k # m
        <3>1. d \in owed[k] /\ call'[k] = call[k]
            BY <1>2, <1>4, <2>2
        <3>2. home[d] \in Node => todo'[k][home[d]] = todo[k][home[d]]
            BY <1>3, <2>2
        <3> QED
            BY <3>1, <3>2 DEF IInv, OnItsWay
    <2> QED
        BY <2>1, <2>2
<1>17. \A k \in Msg : m \notin before[k] /\ before[k] \subseteq Msg
    BY <1>1, Types DEF IInv, InTurn
<1>18. InTurn'
    <2>1. ASSUME NEW k \in Msg, NEW o \in before'[k]
          PROVE  /\ o # k /\ call'[k].pc # "new"
                 /\ call'[o].pc = "done" /\ call'[o].at = call'[k].at
        <3>1. CASE k = m
            BY <1>1, <1>2, <1>5, <1>6, <2>1, <3>1
        <3>2. CASE k # m
            BY <1>2, <1>5, <1>17, <2>1, <3>2 DEF IInv, InTurn
        <3> QED
            BY <3>1, <3>2
    <2>2. ASSUME NEW p \in Node, NEW i \in DOMAIN inbox[p], NEW j \in DOMAIN inbox[p], i < j
          PROVE  inbox[p][j] \notin before'[inbox[p][i]]
        <3>1. inbox[p][i] \in Queued(p) /\ inbox[p][i] \in Msg
            BY Types DEF Queued, ToSet
        <3>2. before'[inbox[p][i]] = before[inbox[p][i]]
            BY <1>5, <1>11, <3>1
        <3> QED
            BY <2>2, <3>2 DEF IInv, InTurn
    <2>3. ASSUME NEW k \in Msg, NEW p \in Node, Reached(k, p)', NEW o \in before'[k]
          PROVE  o \notin Queued(p) /\ todo'[o][p] = {}
        <3>1. k # m /\ Reached(k, p) /\ o \in before[k]
            BY <1>5, <1>12, <2>3
        <3>2. o # m /\ o \in Msg
            BY <1>17, <3>1
        <3> QED
            BY <1>3, <3>1, <3>2 DEF IInv, InTurn
    <2> QED
        BY <1>1, <1>10, <2>1, <2>2, <2>3 DEF InTurn
<1>19. \A d \in Client : \A i \in DOMAIN got[d] : got[d][i] \in Msg /\ got[d][i] # m
    <2> SUFFICES ASSUME NEW d \in Client, NEW i \in DOMAIN got[d]
                 PROVE  got[d][i] \in Msg /\ got[d][i] # m
        OBVIOUS
    <2>1. got[d][i] \in Received(d)
        BY DEF Received, ToSet
    <2> QED
        BY <1>11, <2>1, Types
<1>20. AtMostOnce' /\ OnlyAudience' /\ SenderOrder'
    <2>1. AtMostOnce'
        BY <1>1 DEF IInv, AtMostOnce
    <2>2. OnlyAudience'
        BY <1>1, <1>4, <1>19 DEF IInv, OnlyAudience
    <2>3. SenderOrder'
        BY <1>1, <1>5, <1>19 DEF IInv, SenderOrder
    <2> QED
        BY <2>1, <2>2, <2>3
<1> QED
    BY <1>9, <1>13, <1>14, <1>15, <1>16, <1>18, <1>20 DEF IInv

-----------------------------------------------------------------------------
\* A client connects: it has received nothing, is tried by no node and is owed
\* nothing yet.
LEMMA ConnectKeeps ==
    ASSUME IInv, NEW c \in Client, NEW n \in Node, Connect(c, n)
    PROVE  IInv'
<1>1. /\ call' = call /\ todo' = todo /\ inbox' = inbox /\ got' = got
      /\ leaves' = leaves /\ owed' = owed /\ before' = before /\ home[c] = None
      /\ home' = [home EXCEPT ![c] = n]
    BY DEF Connect, deliveryVars
<1>2. PICK gs \in {{}} \cup {{u} : u \in User} :
         /\ groups' = [groups EXCEPT ![c] = gs]
         /\ audience' = [m \in Msg |->
               IF call[m].pc # "new" /\ Names(call[m].target, c, gs)
               THEN audience[m] \cup ({c} \ call[m].except) ELSE audience[m]]
    BY DEF Connect
<1>3. /\ home' \in [Client -> Node \cup {None, Gone}] /\ groups' \in [Client -> SUBSET Group]
      /\ home'[c] = n /\ groups'[c] = gs
      /\ \A d \in Client : d # c => home'[d] = home[d] /\ groups'[d] = groups[d]
    <2>1. gs \in SUBSET Group
        BY DEF Group
    <2> QED
        BY <1>1, <1>2, <2>1 DEF IInv, TypeOK
<1>4. /\ audience' \in [Msg -> SUBSET Client]
      /\ \A k \in Msg : audience[k] \subseteq audience'[k]
      /\ \A k \in Msg : (call[k].pc # "new" /\ Names(call[k].target, c, gs)
                           /\ c \notin call[k].except) => c \in audience'[k]
    BY <1>2 DEF IInv, TypeOK
<1>5. None \notin Node /\ Gone # None /\ Gone \notin Node
    BY ClusterAssumption
<1>6. /\ Received(c) = {}
      /\ \A k \in Msg, p \in Node : c \notin todo[k][p]
      /\ \A k \in Msg : c \notin owed[k]
    <2>1. got[c] = <<>>
        BY <1>1 DEF IInv, Fresh
    <2>2. \A k \in Msg, p \in Node : c \notin todo[k][p]
        BY <1>1, <1>5, Types
    <2>3. \A k \in Msg : c \notin owed[k]
        BY <1>1, <1>5 DEF IInv, OnItsWay
    <2> QED
        BY <2>1, <2>2, <2>3 DEF Received, ToSet
<1>7. TypeOK'
    <2>1. \A k \in Msg, p \in Node : \A d \in todo[k][p] : home'[d] \in {p, Gone}
        BY <1>3, <1>6, Types
    <2> QED
        BY <1>1, <1>3, <1>4, <2>1 DEF IInv, TypeOK
<1>8. /\ \A d : Received(d)' = Received(d)
      /\ \A p : Queued(p)' = Queued(p)
    BY <1>1 DEF Received, Queued
<1>9. \A k \in Msg, p \in Node : Reached(k, p)' => Reached(k, p)
    BY <1>1, <1>3, <1>6, <1>8 DEF Reached
<1>10. Fresh'
    <2>1. \A d \in Client : home'[d] = None => got[d] = <<>>
        BY <1>1, <1>3, <1>5 DEF IInv, Fresh
    <2> QED
        BY <1>1, <1>8, <2>1 DEF IInv, Fresh
<1>11. OncePerNode'
    BY <1>1, <1>8, <1>9 DEF IInv, OncePerNode
<1>12. InAudience'
    <2>1. ASSUME NEW k \in Msg, NEW d \in Client, call[k].pc # "new", home'[d] \in Node,
                 Names(call[k].target, d, groups'[d]), d \notin call[k].except
          PROVE  d \in audience'[k]
        <3>1. CASE d = c
            BY <1>3, <1>4, <2>1, <3>1
        <3>2. CASE d # c
            BY <1>3, <1>4, <2>1, <3>2 DEF IInv, InAudience
        <3> QED
            BY <3>1, <3>2
    <2>2. \A k \in Msg, p \in Node : todo[k][p] \subseteq audience'[k]
        BY <1>4 DEF IInv, InAudience
    <2> QED
        BY <1>1, <2>1, <2>2 DEF InAudience
<1>13. OnItsWay'
    <2>1. ASSUME NEW k \in Msg, NEW d \in owed[k]
          PROVE  home'[d] = home[d] /\ groups'[d] = groups[d]
        BY <1>3, <1>6, Types
    <2> QED
        BY <1>1, <1>8, <2>1 DEF IInv, OnItsWay
<1>14. InTurn'
    BY <1>1, <1>8, <1>9 DEF IInv, InTurn
<1>15. AtMostOnce' /\ SenderOrder'
    BY <1>1 DEF IInv, AtMostOnce, SenderOrder
<1>16. OnlyAudience'
    <2>1. \A d \in Client : \A i \in DOMAIN got[d] : got[d][i] \in Msg
        BY Types
    <2> QED
        BY <1>1, <1>4, <2>1 DEF IInv, OnlyAudience
<1> QED
    BY <1>7, <1>10, <1>11, <1>12, <1>13, <1>14, <1>15, <1>16 DEF IInv

\* A client joins or leaves a room, or changes its user.
LEMMA RegroupKeeps ==
    ASSUME IInv, NEW c \in Client, NEW gs \in SUBSET Group, Regroup(c, gs)
    PROVE  IInv'
<1>1. /\ call' = call /\ todo' = todo /\ inbox' = inbox /\ got' = got
      /\ home' = home /\ before' = before /\ home[c] \in Node
      /\ groups' = [groups EXCEPT ![c] = gs]
    BY DEF Regroup, deliveryVars
<1>2. leaves' \in 0..MaxLeaves
    BY ClusterAssumption DEF Regroup, IInv, TypeOK
<1>3. /\ groups' \in [Client -> SUBSET Group] /\ groups'[c] = gs
      /\ \A d \in Client : d # c => groups'[d] = groups[d]
    BY <1>1 DEF IInv, TypeOK
<1>4. /\ audience' \in [Msg -> SUBSET Client]
      /\ \A k \in Msg : audience[k] \subseteq audience'[k]
      /\ \A k \in Msg : (call[k].pc # "new" /\ Names(call[k].target, c, gs)
                           /\ c \notin call[k].except) => c \in audience'[k]
    BY DEF Regroup, Follow, IInv, TypeOK
<1>5. /\ owed' \in [Msg -> SUBSET Client]
      /\ \A k \in Msg : owed'[k] \subseteq owed[k]
      /\ \A k \in Msg : c \in owed'[k] =>
            Names(call[k].target, c, gs) /\ c \notin call[k].except
    BY DEF Regroup, Follow, IInv, TypeOK
<1>6. TypeOK'
    BY <1>1, <1>2, <1>3, <1>4, <1>5 DEF IInv, TypeOK
<1>7. /\ \A d : Received(d)' = Received(d)
      /\ \A p : Queued(p)' = Queued(p)
      /\ \A k, p : Reached(k, p)' = Reached(k, p)
    BY <1>1 DEF Received, Queued, Reached
<1>8. Fresh'
    BY <1>1, <1>5, <1>7 DEF IInv, Fresh
<1>9. OncePerNode'
    BY <1>1, <1>7 DEF IInv, OncePerNode
<1>10. InAudience'
    <2>1. ASSUME NEW k \in Msg, NEW d \in Client, call[k].pc # "new", home[d] \in Node,
                 Names(call[k].target, d, groups'[d]), d \notin call[k].except
          PROVE  d \in audience'[k]
        <3>1. CASE d = c
            BY <1>3, <1>4, <2>1, <3>1
        <3>2. CASE d # c
            BY <1>3, <1>4, <2>1, <3>2 DEF IInv, InAudience
        <3> QED
            BY <3>1, <3>2
    <2>2. \A k \in Msg, p \in Node : todo[k][p] \subseteq audience'[k]
        BY <1>4 DEF IInv, InAudience
    <2> QED
        BY <1>1, <2>1, <2>2 DEF InAudience
<1>11. OnItsWay'
    <2> SUFFICES ASSUME NEW k \in Msg, NEW d \in owed'[k]
                 PROVE  Names(call[k].target, d, groups'[d])
        BY <1>1, <1>5, <1>7 DEF IInv, OnItsWay
    <2>1. d \in owed[k] /\ d \in Client
        BY <1>5, Types
    <2> QED
        BY <1>3, <1>5, <2>1 DEF IInv, OnItsWay
<1>12. InTurn'
    BY <1>1, <1>7 DEF IInv, InTurn
<1>13. AtMostOnce' /\ SenderOrder'
    BY <1>1 DEF IInv, AtMostOnce, SenderOrder
<1>14. OnlyAudience'
    <2>1. \A d \in Client : \A i \in DOMAIN got[d] : got[d][i] \in Msg
        BY Types
    <2> QED
        BY <1>1, <1>4, <2>1 DEF IInv, OnlyAudience
<1> QED
    BY <1>6, <1>8, <1>9, <1>10, <1>11, <1>12, <1>13, <1>14 DEF IInv

\* A client leaves for good.
LEMMA DisconnectKeeps ==
    ASSUME IInv, NEW c \in Client, Disconnect(c)
    PROVE  IInv'
<1>1. /\ call' = call /\ todo' = todo /\ inbox' = inbox /\ got' = got
      /\ audience' = audience /\ before' = before /\ home[c] \in Node
      /\ home' = [home EXCEPT ![c] = Gone] /\ groups' = [groups EXCEPT ![c] = {}]
      /\ owed' = [m \in Msg |-> owed[m] \ {c}]
    BY DEF Disconnect, deliveryVars
<1>2. leaves' \in 0..MaxLeaves
    BY ClusterAssumption DEF Disconnect, IInv, TypeOK
<1>3. /\ home' \in [Client -> Node \cup {None, Gone}] /\ groups' \in [Client -> SUBSET Group]
      /\ home'[c] = Gone
      /\ \A d \in Client : d # c => home'[d] = home[d] /\ groups'[d] = groups[d]
    BY <1>1 DEF IInv, TypeOK
<1>4. /\ owed' \in [Msg -> SUBSET Client]
      /\ \A k \in Msg : owed'[k] \subseteq owed[k] /\ c \notin owed'[k]
    BY <1>1 DEF IInv, TypeOK
<1>5. None \notin Node /\ Gone # None /\ Gone \notin Node
    BY ClusterAssumption
<1>6. TypeOK'
    <2>1. \A k \in Msg, p \in Node : \A d \in todo[k][p] : home'[d] \in {p, Gone}
        BY <1>3, Types
    <2> QED
        BY <1>1, <1>2, <1>3, <1>4, <2>1 DEF IInv, TypeOK
<1>7. /\ \A d : Received(d)' = Received(d)
      /\ \A p : Queued(p)' = Queued(p)
    BY <1>1 DEF Received, Queued
<1>8. \A k \in Msg, p \in Node : Reached(k, p)' => Reached(k, p)
    BY <1>1, <1>3, <1>5, <1>7 DEF Reached
<1>9. Fresh'
    <2>1. \A d \in Client : home'[d] = None => got[d] = <<>>
        BY <1>1, <1>3, <1>5 DEF IInv, Fresh
    <2> QED
        BY <1>1, <1>4, <1>7, <2>1 DEF IInv, Fresh
<1>10. OncePerNode'
    BY <1>1, <1>7, <1>8 DEF IInv, OncePerNode
<1>11. InAudience'
    BY <1>1, <1>3, <1>5 DEF IInv, InAudience
<1>12. OnItsWay'
    <2>1. ASSUME NEW k \in Msg, NEW d \in owed'[k]
          PROVE  d \in owed[k] /\ home'[d] = home[d] /\ groups'[d] = groups[d]
        BY <1>3, <1>4, Types
    <2> QED
        BY <1>1, <1>7, <2>1 DEF IInv, OnItsWay
<1>13. InTurn'
    BY <1>1, <1>7, <1>8 DEF IInv, InTurn
<1>14. (AtMostOnce /\ OnlyAudience /\ SenderOrder)'
    BY <1>1 DEF IInv, AtMostOnce, OnlyAudience, SenderOrder
<1> QED
    BY <1>6, <1>9, <1>10, <1>11, <1>12, <1>13, <1>14 DEF IInv

-----------------------------------------------------------------------------
\* The invariant is inductive.
LEMMA InvStep == IInv /\ [Next]_vars => IInv'
<1> SUFFICES ASSUME IInv, [Next]_vars PROVE IInv'
    OBVIOUS
<1>1. ASSUME NEW c \in Client, Moves(c) PROVE IInv'
    <2>1. PICK gs \in SUBSET Group : Regroup(c, gs)
        BY <1>1 DEF Moves, JoinRoom, LeaveRoom, SetUserID, IInv, TypeOK, Group
    <2> QED
        BY <2>1, RegroupKeeps
<1>2. ASSUME NEW m \in Msg, NEW n \in Node, Calls(m, n) PROVE IInv'
    <2>1. PICK t \in Target, x \in SUBSET Client : Begin(m, n, t, x)
        BY <1>2 DEF Calls, Broadcast, BroadcastExcept, BroadcastToRoom,
           BroadcastToRoomExcept, SendToUser, SendToClient, Target, Group
    <2> QED
        BY <2>1, BeginKeeps
<1>3. CASE UNCHANGED vars
    BY <1>3, StutterKeeps
<1> QED
    BY <1>1, <1>2, <1>3, ConnectKeeps, DisconnectKeeps, CancelKeeps, PublishKeeps,
       PublishFailsKeeps, DirectDoneKeeps, ReceiveKeeps, BusLosesKeeps, DeliverKeeps
       DEF Next

\* The invariant holds in every state.
LEMMA Invariance == Spec => []IInv
    BY InitOK, InvStep, PTL DEF Spec

\* The types, for any cluster: in particular a node only tries its own clients.
THEOREM TypeCorrect == Spec => []TypeOK
<1>1. IInv => TypeOK
    BY DEF IInv
<1> QED
    BY <1>1, Invariance, PTL

\* handleAdapterMessage ignores what its own node has published, so no client of
\* any node is sent a message twice.
THEOREM DeliveredAtMostOnce == Spec => []AtMostOnce
<1>1. IInv => AtMostOnce
    BY DEF IInv
<1> QED
    BY <1>1, Invariance, PTL

\* Only clients that the target of a call named at some time since it began get
\* the message, on every node, and never an excluded one.
THEOREM DeliveredToAudience == Spec => []OnlyAudience
<1>1. IInv => OnlyAudience
    BY DEF IInv
<1> QED
    BY <1>1, Invariance, PTL

\* A call that is over everywhere has reached every client it still owed the
\* message to.
THEOREM NoneForgotten == Spec => []NobodyForgotten
<1>1. IInv => NobodyForgotten
    <2> SUFFICES ASSUME IInv, NEW m \in Msg, Over(m), NEW c \in owed[m]
                 PROVE  \E i \in DOMAIN got[c] : got[c][i] = m
        BY DEF NobodyForgotten
    <2>1. /\ call[m].pc = "done"
          /\ \A n \in Node : todo[m][n] = {} /\ m \notin Queued(n)
        BY DEF Over, Queued, ToSet
    <2>2. m \in Received(c)
        BY <2>1 DEF IInv, OnItsWay
    <2> QED
        BY <2>2 DEF Received, ToSet
<1> QED
    BY <1>1, Invariance, PTL

\* Calls made one after the other on a node reach every client in that order.
THEOREM DeliveredInOrder == Spec => []SenderOrder
<1>1. IInv => SenderOrder
    BY DEF IInv
<1> QED
    BY <1>1, Invariance, PTL
=============================================================================
